---------------------------- MODULE SpineLogProofs ----------------------------
(***************************************************************************)
(* That the spine is the log its callers are promised: every step of Spine *)
(* is a step of EventLog, or one that callers cannot see.  And that a read, *)
(* which takes no lock, holds what had been acknowledged, without a gap.    *)
(***************************************************************************)
EXTENDS SpineProofs, SequenceTheorems

\* The calls that have returned, and the stored lines that count.
Acks  == {w \in Writer : pc[w] = "acked"}
Ids   == [k \in 1..CommittedLen |-> lines[k].id]

Seen(e)   == \E k \in DOMAIN lines : lines[k].id = e
Stored(e) == \E k \in DOMAIN lines : lines[k].id = e /\ lines[k].end = "whole"

\* The steps of an append() that has written its line, or a part of it, and those of a run of
\* init past the one that stores the event named after it.
Wrote  == {"written", "broken", "acked", "writeError"}
Seeded == {"anchor", "publish", "unmark"} \cup InitResults

Distinct == \A j, k \in DOMAIN lines : lines[j].id = lines[k].id => j = k

\* Who has written its event, and which event is written once more by nobody.
LogInv ==
    /\ Distinct
    /\ \A e \in Old : Seen(e) => Stored(e)
    /\ \A w \in Writer : Seen(w) => pc[w] \in Wrote
    /\ \A w \in Writer : pc[w] \in {"written", "acked"} => Stored(w)
    /\ \A i \in Initer : Seen(i) => pc[i] \in Seeded

-----------------------------------------------------------------------------
(* The steps *)

\* A step of p that leaves the lines alone.
Turns(p) ==
    /\ lines' = lines /\ last' = last
    /\ \A q \in Process \ {p} : pc'[q] = pc[q]
    /\ p \in Writer =>
          /\ pc[p] \in Wrote => pc'[p] \in Wrote
          /\ pc'[p] = "written" => pc[p] = "written"
          /\ pc'[p] = "acked" => pc[p] \in {"written", "acked"}
          /\ pc[p] = "acked" => pc'[p] = "acked"
    /\ p \in Initer => (pc[p] \in Seeded => pc'[p] \in Seeded)

\* A step that stores event e, as a whole or torn.
Stores(e, how) ==
    /\ lines \in Seq(Line) /\ AllWhole /\ ~Seen(e) /\ e \notin Old /\ how \in {"whole", "torn"}
    /\ last <= last'
    /\ \E d \in Dir : \E prev : lines' = Append(lines, NewLine(e, d, last', prev, how))
    /\ lines' \in Seq(Line)
    /\ \A w \in Writer :
          pc'[w] = IF w # e THEN pc[w] ELSE IF how = "whole" THEN "written" ELSE "broken"
    /\ \A i \in Initer : pc[i] \in Seeded \/ i = e => pc'[i] \in Seeded

\* The torn last line is dropped.
Trims ==
    /\ lines # <<>>
    /\ lines[Len(lines)].end = "torn"
    /\ lines' = SubSeq(lines, 1, Len(lines) - 1)

\* A step that changes neither the order nor the events of the lines that count, but for one
\* that is ended, and moves no append().
Repairs ==
    /\ last' = last
    /\ \A w \in Writer : pc'[w] = pc[w]
    /\ \A i \in Initer : pc[i] \in Seeded => pc'[i] \in Seeded
    /\ (\E i \in Initer : MigrateSegment(i)) \/ Trims \/ OperatorEnds

\* Where a process is, of all there are.
LEMMA PcKnown ==
    ASSUME IInv
    PROVE  /\ pc \in [Process -> AppendPcs \cup InitPcs \cup StampPcs \cup ReadSteps]
           /\ Writer \subseteq Process /\ Initer \subseteq Process
           /\ Stamper \subseteq Process /\ Reader \subseteq Process
           /\ Writer \cap Initer = {}
  BY SpineAssumption DEF IInv, Types, PcOK, Process

\* A line is stored in the last segment, or after it.
LEMMA NoLess ==
    ASSUME IInv, NEW e, NEW d, NEW prev, NEW how, Store(e, d, prev, how)
    PROVE  last <= last'
  BY SpineAssumption DEF IInv, Types, ConfigOK, Store, CurrentSegs

\* A step of append() that does not write.
LEMMA WriterTurns ==
    ASSUME IInv, NEW w \in Writer, AppendNext(w), ~FlatWrites(w), ~PartWrites(w)
    PROVE  Turns(w)
  <1>1. lines' = lines /\ last' = last
    BY DEF AppendNext, AppendStart, ReadCommitted, ProbeMarker, ProbeMode, PollCommitted, PollMarker,
           PollTimesOut, Recommit, LockFlat, LockPart, GiveUp, FlatHandsBack, PartRefuses,
           AppendReturns, FlatLinks, PartLinks, Links, store, segments, config
  <1>2. \E to : /\ pc' = [pc EXCEPT ![w] = to]
                /\ \/ pc[w] \notin Wrote /\ to \notin Wrote
                   \/ pc[w] = "written" /\ to = "acked"
                   \/ pc[w] = "broken" /\ to = "writeError"
    BY DEF AppendNext, AppendStart, ReadCommitted, ProbeMarker, ProbeMode, PollCommitted, PollMarker,
           PollTimesOut, Recommit, LockFlat, LockPart, GiveUp, FlatHandsBack, PartRefuses,
           AppendReturns, FlatLinks, PartLinks, Leave, At, Goto, Wrote
  <1> QED
    BY <1>1, <1>2, PcKnown DEF Turns, Wrote

\* A partition is left behind with all its lines, but for a torn one.
LEMMA LeaveTrims ==
    ASSUME lines \in Seq(Line), Linked, LeavesBehind
    PROVE  lines' = lines \/ Trims
  <1>1. CASE ~TornTail("part")
    BY <1>1 DEF LeavesBehind
  <1>2. CASE TornTail("part")
    <2>1. PICK k \in Stream("part") : lines[k].end = "torn"
      BY <1>2 DEF TornTail
    <2>2. k \in DOMAIN lines /\ k \in 1..Len(lines) /\ Len(lines) \in Nat
      BY <2>1 DEF Stream, InDir
    <2>3. k = Len(lines)
      BY <2>1, <2>2 DEF Linked
    <2> QED
      BY <1>2, <2>1, <2>2, <2>3 DEF LeavesBehind, Trims
  <1> QED
    BY <1>1, <1>2

\* A step of an init that stores nothing.
LEMMA IniterTurns ==
    ASSUME IInv, NEW i \in Initer, SyncNext(i),
           ~SeedCutover(i), ~PublishAnchor(i), ~MigrateSegment(i)
    PROVE  Turns(i) \/ Repairs
  <1>1. last' = last
    BY DEF SyncNext, TakeInitLock, EarlyRefusal, AlreadySynced, EarlyChecksPass, TakeFlatLock,
           TruncateMarker, WriteMarker, RecheckRefuses, RecheckPasses, MigrateDone, AdoptAnchor,
           BootstrapFails, PublishReplica, UnlinkMarker, store, segments, config
  <1>2. lines' = lines \/ Trims
    <2>1. CASE TruncateMarker(i)
      BY <2>1, LeaveTrims DEF TruncateMarker, IInv, Types, Core
    <2>2. CASE ~TruncateMarker(i)
      BY <2>2 DEF SyncNext, TakeInitLock, EarlyRefusal, AlreadySynced, EarlyChecksPass, TakeFlatLock,
           WriteMarker, RecheckRefuses, RecheckPasses, MigrateDone, AdoptAnchor,
           BootstrapFails, PublishReplica, UnlinkMarker, store, segments, config
    <2> QED
      BY <2>1, <2>2
  <1>3. \E to : /\ pc' = [pc EXCEPT ![i] = to]
                /\ pc[i] \in Seeded => to \in Seeded
    BY DEF SyncNext, TakeInitLock, EarlyRefusal, AlreadySynced, EarlyChecksPass, TakeFlatLock,
           TruncateMarker, WriteMarker, RecheckRefuses, RecheckPasses, MigrateDone, AdoptAnchor,
           BootstrapFails, PublishReplica, UnlinkMarker, Finish, Goto, At, Seeded, InitResults
  <1>4. /\ \A q \in Process \ {i} : pc'[q] = pc[q]
        /\ \A w \in Writer : pc'[w] = pc[w]
        /\ \A j \in Initer : pc[j] \in Seeded => pc'[j] \in Seeded
    BY <1>3, PcKnown
  <1> QED
    BY <1>1, <1>2, <1>4, PcKnown DEF Turns, Repairs

\* A step of a stamp or a reader.
LEMMA OthersTurn ==
    ASSUME IInv, NEW p \in Stamper \cup Reader, StampNext(p) \/ ReadNext(p)
    PROVE  Turns(p)
  <1>1. lines' = lines /\ last' = last
    BY DEF StampNext, StampReadsReplica, StampReadsMarker, MakeAnchorDir, RollBack, StampEnds,
           StampRechecks, ReadNext, ReadStart, ReadActive, ListFlat, ListResidual, ListReplica,
           ListSegments, ReadFlat, ReadResidual, ReadReplica, ReadSegment, FlatVanished,
           ResidualVanished, SegmentEmptied, SkipSegment, NothingLeft, Unaffected, store, segments, config
  <1>2. pc' = pc \/ \E to : pc' = [pc EXCEPT ![p] = to]
    BY DEF StampNext, StampReadsReplica, StampReadsMarker, MakeAnchorDir, RollBack, StampEnds,
           StampRechecks, ReadNext, ReadStart, ReadActive, ListFlat, ListResidual, ListReplica,
           ListSegments, ReadFlat, ReadResidual, ReadReplica, ReadSegment, FlatVanished,
           ResidualVanished, SegmentEmptied, SkipSegment, NothingLeft, Goto
  <1> QED
    BY <1>1, <1>2, PcKnown, SpineAssumption DEF Turns

\* append() stores its own event, which is not there yet.
LEMMA WriterStores ==
    ASSUME IInv, LogInv, NEW w \in Writer, FlatWrites(w) \/ PartWrites(w), lines' \in Seq(Line)
    PROVE  \E how \in {"whole", "torn"} : Stores(w, how)
  <1>1. w \notin dead /\ pc[w] \in {"flatLinked", "partLinked"}
    BY DEF FlatWrites, PartWrites, Writes, At
  <1>2. PICK d \in Dir, how \in {"whole", "torn"} :
            /\ Store(w, d, link[w], how)
            /\ pc' = [pc EXCEPT ![w] = IF how = "whole" THEN "written" ELSE "broken"]
    BY DEF FlatWrites, PartWrites, Writes, Goto, Dir
  <1>3. AllWhole /\ ~Seen(w)
    BY <1>1 DEF IInv, Core, Pending, LogInv, Wrote
  <1>4. \A i \in Initer : i # w /\ i \in Process
    BY SpineAssumption DEF Process
  <1>5. lines \in Seq(Line)
    BY DEF IInv, Types, PcOK
  <1>6. \A v \in Process : pc'[v] = IF v # w THEN pc[v] ELSE IF how = "whole" THEN "written" ELSE "broken"
    BY <1>2, PcKnown
  <1> QED
    BY <1>1, <1>2, <1>3, <1>4, <1>5, <1>6, NoLess, PcKnown, SpineAssumption DEF Stores, Store

\* An init stores its own first event, or an anchor, that is not there yet.
LEMMA IniterStores ==
    ASSUME IInv, LogInv, NEW i \in Initer, SeedCutover(i) \/ PublishAnchor(i), lines' \in Seq(Line)
    PROVE  \E e \in {i, Anchor} : \E how \in {"whole", "torn"} : Stores(e, how)
  <1>1. i \notin dead /\ pc[i] \in {"seed", "anchor"} /\ ~TornTail("part")
    BY DEF SeedCutover, PublishAnchor, InitStores, At
  <1>2. PICK e \in {i, Anchor}, how \in {"whole", "torn"},
             to \in {"anchor", "publish", "initFailed"} :
            /\ Store(e, "part", TailOf("part"), how)
            /\ pc' = [pc EXCEPT ![i] = to]
            /\ e = i => pc[i] = "seed"
            /\ e = Anchor => ~Anchored
    BY SpineAssumption DEF SeedCutover, PublishAnchor, InitStores, Finish, Goto, At
  <1>3. lines \in Seq(Line) /\ Linked /\ OnlyIn("part") /\ "part" \in Dir
    BY <1>1 DEF IInv, Types, Core, Modes, Dir
  <1>4. AllWhole
    BY <1>1, <1>3, TailIsLast
  <1>5. ~Seen(e)
    <2>1. CASE e = i
      BY <1>2, <2>1 DEF LogInv, Seeded, InitResults
    <2>2. CASE e = Anchor
      BY <1>2, <1>3, <1>4, <2>2 DEF Anchored, Seen, InDir, OnlyIn, AllWhole
    <2> QED
      BY <2>1, <2>2
  <1>6. \A j \in Initer : pc[j] \in Seeded \/ j = e => pc'[j] \in Seeded
    <2>1. pc'[i] \in Seeded /\ \A j \in Initer : j # i => pc'[j] = pc[j]
      BY <1>2, PcKnown DEF Seeded, InitResults
    <2> QED
      BY <1>2, <2>1, SpineAssumption
  <1>7. e \notin Writer /\ e \notin Old
    BY <1>2, SpineAssumption
  <1>8. \A w \in Writer : pc'[w] = pc[w]
    BY <1>2, PcKnown
  <1>9. /\ last <= last'
        /\ \E d \in Dir : \E prev : lines' = Append(lines, NewLine(e, d, last', prev, how))
    BY <1>2, <1>3, NoLess DEF Store
  <1>10. Stores(e, how)
    BY <1>3, <1>4, <1>5, <1>6, <1>7, <1>8, <1>9 DEF Stores
  <1> QED
    BY <1>10

\* Every step is one of these.
LEMMA Kinds ==
    ASSUME IInv, LogInv, [Next]_vars
    PROVE  \/ \E p \in Process : Turns(p)
           \/ \E e \in Event : \E how \in {"whole", "torn"} : Stores(e, how)
           \/ Repairs
           \/ UNCHANGED <<lines, last, pc>>
  <1>1. lines' \in Seq(Line)
    BY StepKeeps DEF IInv, Types
  <1>2. ASSUME NEW w \in Writer, AppendNext(w)
        PROVE  Turns(w) \/ \E how \in {"whole", "torn"} : Stores(w, how)
    BY <1>1, <1>2, WriterTurns, WriterStores
  <1>3. ASSUME NEW i \in Initer, SyncNext(i)
        PROVE  Turns(i) \/ Repairs \/ \E e \in {i, Anchor} : \E how \in {"whole", "torn"} : Stores(e, how)
    <2>1. CASE MigrateSegment(i)
      BY <2>1 DEF MigrateSegment, Repairs
    <2> QED
      BY <1>1, <1>3, <2>1, IniterTurns, IniterStores
  <1>4. CASE \E s \in Stamper : StampNext(s)
    BY <1>4, OthersTurn, PcKnown
  <1>5. CASE \E r \in Reader : ReadNext(r)
    BY <1>5, OthersTurn, PcKnown
  <1>6. CASE Around
    <2>1. CASE \E p \in Process : Die(p)
      BY <2>1 DEF Die, store, segments, config
    <2>2. CASE PullPeer
      BY <2>2 DEF PullPeer, segments, config
    <2>3. CASE OperatorTrims \/ OperatorEnds
      BY <2>3 DEF OperatorTrims, OperatorEnds, Trims, Repairs
    <2> QED
      BY <1>6, <2>1, <2>2, <2>3 DEF Around
  <1>7. CASE UNCHANGED vars
    BY <1>7 DEF vars, store, segments, config
  <1> QED
    BY <1>2, <1>3, <1>4, <1>5, <1>6, <1>7, PcKnown DEF Next, Event

-----------------------------------------------------------------------------
(* The invariant *)

\* A sequence with one more element, index by index.
LEMMA OneMore ==
    ASSUME NEW s \in Seq(Line), NEW x, Append(s, x) \in Seq(Line)
    PROVE  /\ DOMAIN Append(s, x) = DOMAIN s \cup {Len(s) + 1}
           /\ Len(s) + 1 \notin DOMAIN s
           /\ \A k \in DOMAIN s : Append(s, x)[k] = s[k]
           /\ Append(s, x)[Len(s) + 1] = x
           /\ Len(Append(s, x)) = Len(s) + 1
  OBVIOUS

\* The lines before the run begins.
LEMMA LogInit == Init => LogInv
  <1> SUFFICES ASSUME Init PROVE LogInv
    OBVIOUS
  <1>1. WellFormed(lines)
    BY SpineAssumption DEF Init
  <1>2. Distinct
    <2>1. \A j, k \in DOMAIN lines : j < k => lines[j].id # lines[k].id
      BY <1>1 DEF WellFormed
    <2>2. DOMAIN lines \subseteq Nat
      BY <1>1 DEF WellFormed
    <2>3. \A j, k \in DOMAIN lines : j = k \/ j < k \/ k < j
      BY <2>2
    <2> QED
      BY <2>1, <2>3 DEF Distinct
  <1>3. \A w \in Writer : ~Seen(w) /\ pc[w] = "idle"
    BY <1>1, SpineAssumption DEF WellFormed, Seen, Init, Process
  <1>4. \A i \in Initer : ~Seen(i)
    BY <1>1, SpineAssumption DEF WellFormed, Seen
  <1>5. \A e \in Old : Seen(e) => Stored(e)
    BY <1>1 DEF WellFormed, Seen, Stored
  <1> QED
    BY <1>2, <1>3, <1>4, <1>5 DEF LogInv

\* A step that leaves the lines alone keeps it.
LEMMA TurnsKeep ==
    ASSUME IInv, LogInv, NEW p \in Process, Turns(p)
    PROVE  LogInv'
  <1>1. Distinct' /\ \A e : (Seen(e)' <=> Seen(e)) /\ (Stored(e)' <=> Stored(e))
    BY DEF Turns, LogInv, Distinct, Seen, Stored
  <1>2. \A w \in Writer : Seen(w) => pc'[w] \in Wrote
    BY PcKnown DEF LogInv, Turns
  <1>3. \A w \in Writer : pc'[w] \in {"written", "acked"} => Stored(w)
    BY PcKnown DEF LogInv, Turns
  <1>4. \A i \in Initer : Seen(i) => pc'[i] \in Seeded
    BY PcKnown DEF LogInv, Turns
  <1> QED
    BY <1>1, <1>2, <1>3, <1>4 DEF LogInv

\* A step that stores an event keeps it.
LEMMA StoresKeep ==
    ASSUME IInv, LogInv, NEW e \in Event, NEW how \in {"whole", "torn"}, Stores(e, how)
    PROVE  LogInv'
  <1>1. PICK x : lines' = Append(lines, x) /\ x.id = e /\ x.end = how
    BY DEF Stores, NewLine
  <1>2. /\ DOMAIN lines' = DOMAIN lines \cup {Len(lines) + 1}
        /\ Len(lines) + 1 \notin DOMAIN lines
        /\ \A k \in DOMAIN lines : lines'[k] = lines[k]
        /\ lines'[Len(lines) + 1] = x
    BY <1>1, OneMore DEF Stores
  <1>3. Distinct'
    BY <1>1, <1>2 DEF LogInv, Distinct, Stores, Seen
  <1>4. \A v : (Seen(v)' <=> Seen(v) \/ v = e)
    BY <1>1, <1>2 DEF Seen
  <1>5. \A v : (Stored(v)' <=> Stored(v) \/ (v = e /\ how = "whole"))
    BY <1>1, <1>2 DEF Stored
  <1>6. \A w \in Writer : Seen(w)' => pc'[w] \in Wrote
    BY <1>4 DEF LogInv, Stores, Wrote
  <1>7. \A w \in Writer : pc'[w] \in {"written", "acked"} => Stored(w)'
    BY <1>5 DEF LogInv, Stores
  <1>8. \A d \in Old : Seen(d) => Stored(d)
    BY DEF LogInv
  <1>9. \A d \in Old : Seen(d)' => Stored(d)'
    BY <1>4, <1>5, <1>8 DEF Stores
  <1>10. \A i \in Initer : Seen(i)' => pc'[i] \in Seeded
    BY <1>4 DEF LogInv, Stores
  <1> QED
    BY <1>3, <1>6, <1>7, <1>9, <1>10 DEF LogInv

\* A rename or a repair keeps it.
LEMMA RepairsKeep ==
    ASSUME IInv, LogInv, Repairs
    PROVE  LogInv'
  <1>1. /\ lines \in Seq(Line) /\ \A w \in Writer : pc'[w] = pc[w]
        /\ \A i \in Initer : pc[i] \in Seeded => pc'[i] \in Seeded
    BY DEF IInv, Types, Repairs
  <1>2. CASE \E i \in Initer : MigrateSegment(i)
    <2>1. PICK s : lines' = [k \in DOMAIN lines |->
                       IF lines[k].seg = s THEN [lines[k] EXCEPT !.dir = "part"] ELSE lines[k]]
      BY <1>2 DEF MigrateSegment
    <2>2. DOMAIN lines' = DOMAIN lines
      BY <2>1
    <2>3. \A k \in DOMAIN lines : lines'[k].id = lines[k].id /\ lines'[k].end = lines[k].end
      BY <1>1, <2>1, LineFields DEF Line
    <2>4. Distinct' /\ \A e : (Seen(e)' <=> Seen(e)) /\ (Stored(e)' <=> Stored(e))
      BY <2>2, <2>3 DEF LogInv, Distinct, Seen, Stored
    <2> QED
      BY <1>1, <2>4 DEF LogInv
  <1>3. CASE Trims
    <2>1. /\ lines # <<>> /\ lines[Len(lines)].end = "torn"
          /\ lines' = SubSeq(lines, 1, Len(lines) - 1)
      BY <1>3 DEF Trims
    <2>2. /\ DOMAIN lines' = DOMAIN lines \ {Len(lines)}
          /\ \A k \in DOMAIN lines' : lines'[k] = lines[k]
      BY <1>1, <2>1
    <2>3. Distinct
      BY DEF LogInv
    <2>4. Distinct'
      BY <2>2, <2>3 DEF Distinct
    <2>5. \A e : (Seen(e)' => Seen(e))
      BY <2>2 DEF Seen
    <2>6. \A e : (Stored(e) => Stored(e)')
      BY <2>1, <2>2 DEF Stored
    <2> QED
      BY <1>1, <2>4, <2>5, <2>6 DEF LogInv
  <1>4. CASE OperatorEnds
    <2>1. /\ lines # <<>> /\ lines' = [lines EXCEPT ![Len(lines)].end = "whole"]
      BY <1>4 DEF OperatorEnds
    <2>2. Len(lines) \in DOMAIN lines /\ DOMAIN lines' = DOMAIN lines
      BY <1>1, <2>1
    <2>3. \A k \in DOMAIN lines : /\ lines'[k].id = lines[k].id
                                  /\ lines[k].end = "whole" => lines'[k].end = "whole"
      BY <1>1, <2>1, <2>2, LineFields DEF Line
    <2>4. Distinct' /\ \A e : (Seen(e)' <=> Seen(e)) /\ (Stored(e) => Stored(e)')
      BY <2>2, <2>3 DEF LogInv, Distinct, Seen, Stored
    <2> QED
      BY <1>1, <2>1, <2>4 DEF LogInv
  <1> QED
    BY <1>2, <1>3, <1>4 DEF Repairs

\* The invariant holds of every behaviour.
LEMMA LogInvariant == Spec => []LogInv
  <1>1. IInv /\ LogInv /\ [Next]_vars => LogInv'
    <2> SUFFICES ASSUME IInv, LogInv, [Next]_vars PROVE LogInv'
      OBVIOUS
    <2>1. CASE UNCHANGED <<lines, last, pc>>
      BY <2>1 DEF LogInv, Distinct, Seen, Stored
    <2> QED
      BY <2>1, Kinds, TurnsKeep, StoresKeep, RepairsKeep
  <1> QED
    BY <1>1, LogInit, Invariant, PTL DEF Spec

-----------------------------------------------------------------------------
(* The log of the stored lines *)

\* How many lines of s count, and the events they hold: CommittedLen and Ids are
\* these of the stored lines.
WholeLen(s) == IF s # <<>> /\ s[Len(s)].end = "torn" THEN Len(s) - 1 ELSE Len(s)
IdsOf(s)    == [k \in 1..WholeLen(s) |-> s[k].id]

\* A line, renamed or ended, is a line of the same event.
LEMMA Edited ==
    ASSUME NEW l \in Line
    PROVE  /\ l.id \in Event /\ l.end \in {"whole", "torn"}
           /\ [l EXCEPT !.dir = "part"] \in Line
           /\ [l EXCEPT !.dir = "part"].id = l.id /\ [l EXCEPT !.dir = "part"].end = l.end
           /\ [l EXCEPT !.end = "whole"] \in Line
           /\ [l EXCEPT !.end = "whole"].id = l.id /\ [l EXCEPT !.end = "whole"].end = "whole"
  BY DEF Line, Dir

\* The events that count are a log of EventLog.
LEMMA IdsAreLog ==
    ASSUME NEW s \in Seq(Line)
    PROVE  /\ WholeLen(s) \in Nat /\ Len(s) - 1 <= WholeLen(s) /\ WholeLen(s) <= Len(s)
           /\ IdsOf(s) \in Seq(Event) /\ Len(IdsOf(s)) = WholeLen(s)
           /\ \A k \in 1..WholeLen(s) : IdsOf(s)[k] = s[k].id
  <1>1. WholeLen(s) \in Nat /\ Len(s) - 1 <= WholeLen(s) /\ WholeLen(s) <= Len(s)
    BY DEF WholeLen
  <1>2. \A k \in 1..WholeLen(s) : s[k].id \in Event
    <2>1. TAKE k \in 1..WholeLen(s)
    <2>2. s[k] \in Line
      BY <1>1
    <2> QED
      BY <2>2, Edited
  <1> QED
    BY <1>1, <1>2 DEF IdsOf

\* Two logs of events that agree everywhere are one.
LEMMA SameLogs ==
    ASSUME NEW a \in Seq(Event), NEW b \in Seq(Event), Len(a) = Len(b),
           \A k \in 1..Len(a) : a[k] = b[k]
    PROVE  a = b
  OBVIOUS

\* A line stored after whole ones adds its event, or nothing when it is torn.
LEMMA IdsAppend ==
    ASSUME NEW s \in Seq(Line), NEW x \in Line, \A k \in DOMAIN s : s[k].end = "whole"
    PROVE  /\ x.end = "whole" => IdsOf(Append(s, x)) = Append(IdsOf(s), x.id)
           /\ x.end = "torn" => IdsOf(Append(s, x)) = IdsOf(s)
  <1> DEFINE t == Append(s, x)
  <1>1. /\ t \in Seq(Line) /\ Len(t) = Len(s) + 1 /\ t # <<>> /\ t[Len(t)] = x
        /\ \A k \in 1..Len(s) : t[k] = s[k]
    OBVIOUS
  <1>2. s # <<>> => s[Len(s)].end = "whole"
    OBVIOUS
  <1>3. WholeLen(s) = Len(s)
    BY <1>2 DEF WholeLen
  <1>4. WholeLen(t) = IF x.end = "torn" THEN Len(s) ELSE Len(s) + 1
    BY <1>1 DEF WholeLen
  <1>5. x.id \in Event
    BY DEF Line
  <1> HIDE DEF t
  <1>6. IdsOf(s) \in Seq(Event) /\ Len(IdsOf(s)) = Len(s) /\ \A k \in 1..Len(s) : IdsOf(s)[k] = s[k].id
    BY <1>3, IdsAreLog
  <1>7. IdsOf(t) \in Seq(Event) /\ Len(IdsOf(t)) = WholeLen(t) /\ \A k \in 1..WholeLen(t) : IdsOf(t)[k] = t[k].id
    BY <1>1, IdsAreLog
  <1>8. CASE x.end = "whole"
    <2> DEFINE u == Append(IdsOf(s), x.id)
    <2>1. u \in Seq(Event) /\ Len(u) = Len(s) + 1 /\ u[Len(s) + 1] = x.id
          /\ \A k \in 1..Len(s) : u[k] = IdsOf(s)[k]
      BY <1>5, <1>6
    <2> HIDE DEF u
    <2>2. WholeLen(t) = Len(s) + 1
      BY <1>4, <1>8
    <2>3. \A k \in 1..(Len(s) + 1) : IdsOf(t)[k] = u[k]
      <3> TAKE k \in 1..(Len(s) + 1)
      <3>1. IdsOf(t)[k] = t[k].id
        BY <1>7, <2>2
      <3>2. CASE k = Len(s) + 1
        BY <1>1, <2>1, <3>1, <3>2
      <3>3. CASE k # Len(s) + 1
        <4>1. k \in 1..Len(s)
          BY <3>3
        <4> QED
          BY <1>1, <1>6, <2>1, <3>1, <4>1
      <3> QED
        BY <3>2, <3>3
    <2>4. IdsOf(t) = u
      BY <1>7, <2>1, <2>2, <2>3, SameLogs
    <2> QED
      BY <2>4, <1>8 DEF t, u
  <1>9. CASE x.end = "torn"
    <2>1. WholeLen(t) = Len(s)
      BY <1>4, <1>9
    <2>2. IdsOf(t) = IdsOf(s)
      BY <1>1, <1>6, <1>7, <2>1, SameLogs
    <2> QED
      BY <2>2, <1>9 DEF t
  <1> QED
    BY <1>8, <1>9

\* Trimming a torn line takes nothing from the log.
LEMMA IdsTrim ==
    ASSUME NEW s \in Seq(Line), s # <<>>, s[Len(s)].end = "torn",
           \A k \in DOMAIN s : k < Len(s) => s[k].end = "whole"
    PROVE  IdsOf(SubSeq(s, 1, Len(s) - 1)) = IdsOf(s)
  <1> DEFINE t == SubSeq(s, 1, Len(s) - 1)
  <1>1. /\ t \in Seq(Line) /\ Len(t) = Len(s) - 1 /\ Len(s) \in Nat \ {0}
        /\ \A k \in 1..(Len(s) - 1) : t[k] = s[k]
    <2>1. Len(s) \in Nat \ {0} /\ 1 \in Int /\ Len(s) - 1 \in Nat
      OBVIOUS
    <2>2. \A k \in 1..(Len(s) - 1) : s[k] \in Line
      BY <2>1
    <2>3. /\ t \in Seq(Line)
          /\ Len(t) = IF 1 <= Len(s) - 1 THEN Len(s) - 1 - 1 + 1 ELSE 0
          /\ \A k \in 1..(Len(s) - 1 - 1 + 1) : t[k] = s[1 + k - 1]
      BY <2>1, <2>2, SubSeqProperties
    <2> HIDE DEF t
    <2>4. Len(t) = Len(s) - 1
      <3>1. \A n \in Nat : (IF 1 <= n THEN n - 1 + 1 ELSE 0) = n
        OBVIOUS
      <3>2. (IF 1 <= Len(s) - 1 THEN Len(s) - 1 - 1 + 1 ELSE 0) = Len(s) - 1
        BY ONLY <2>1, <3>1
      <3> QED
        BY ONLY <2>3, <3>2
    <2>5. \A k \in 1..(Len(s) - 1) : k \in 1..(Len(s) - 1 - 1 + 1) /\ 1 + k - 1 = k
      BY <2>1
    <2>6. \A k \in 1..(Len(s) - 1) : t[k] = s[k]
      <3>1. TAKE k \in 1..(Len(s) - 1)
      <3>2. t[k] = s[1 + k - 1] /\ 1 + k - 1 = k
        BY <2>3, <2>5
      <3> QED
        BY <3>2
    <2> QED
      BY <2>1, <2>3, <2>4, <2>6
  <1>2. t # <<>> => t[Len(t)].end = "whole"
    <2> SUFFICES ASSUME t # <<>> PROVE t[Len(t)].end = "whole"
      OBVIOUS
    <2>1. Len(t) \in 1..(Len(s) - 1)
      BY <1>1
    <2> QED
      BY <1>1, <2>1
  <1> HIDE DEF t
  <1>3. WholeLen(t) = Len(s) - 1 /\ WholeLen(s) = Len(s) - 1
    BY <1>1, <1>2 DEF WholeLen
  <1>4. /\ IdsOf(s) \in Seq(Event) /\ Len(IdsOf(s)) = Len(s) - 1
        /\ \A k \in 1..(Len(s) - 1) : IdsOf(s)[k] = s[k].id
    BY <1>3, IdsAreLog
  <1>5. /\ IdsOf(t) \in Seq(Event) /\ Len(IdsOf(t)) = Len(s) - 1
        /\ \A k \in 1..(Len(s) - 1) : IdsOf(t)[k] = s[k].id
    BY <1>1, <1>3, IdsAreLog
  <1>6. IdsOf(t) = IdsOf(s)
    BY <1>4, <1>5, SameLogs
  <1> QED
    BY <1>6 DEF t

\* Ending a torn line adds its event.
LEMMA IdsEnd ==
    ASSUME NEW s \in Seq(Line), s # <<>>, s[Len(s)].end = "torn"
    PROVE  IdsOf([s EXCEPT ![Len(s)].end = "whole"]) = Append(IdsOf(s), s[Len(s)].id)
  <1> DEFINE ended == [s[Len(s)] EXCEPT !.end = "whole"]
             t     == [s EXCEPT ![Len(s)] = ended]
             u     == Append(IdsOf(s), s[Len(s)].id)
  <1>1. Len(s) \in Nat \ {0} /\ Len(s) \in DOMAIN s /\ s[Len(s)] \in Line
    OBVIOUS
  <1>2. ended \in Line /\ ended.id = s[Len(s)].id /\ ended.end = "whole" /\ s[Len(s)].id \in Event
    BY <1>1, Edited
  <1> HIDE DEF ended
  <1>3. /\ t \in Seq(Line) /\ Len(t) = Len(s) /\ t[Len(s)] = ended
        /\ \A k \in 1..(Len(s) - 1) : t[k] = s[k]
    BY <1>1, <1>2
  <1> HIDE DEF t
  <1>4. WholeLen(t) = Len(s) /\ WholeLen(s) = Len(s) - 1
    BY <1>1, <1>2, <1>3 DEF WholeLen
  <1>5. /\ IdsOf(s) \in Seq(Event) /\ Len(IdsOf(s)) = Len(s) - 1
        /\ \A k \in 1..(Len(s) - 1) : IdsOf(s)[k] = s[k].id
    BY <1>4, IdsAreLog
  <1>6. /\ IdsOf(t) \in Seq(Event) /\ Len(IdsOf(t)) = Len(s)
        /\ \A k \in 1..Len(s) : IdsOf(t)[k] = t[k].id
    BY <1>3, <1>4, IdsAreLog
  <1>7. /\ u \in Seq(Event) /\ Len(u) = Len(s) /\ u[Len(s)] = s[Len(s)].id
        /\ \A k \in 1..(Len(s) - 1) : u[k] = IdsOf(s)[k]
    BY <1>1, <1>2, <1>5
  <1> HIDE DEF u
  <1>8. \A k \in 1..Len(s) : IdsOf(t)[k] = u[k]
    <2>1. \A k \in 1..Len(s) : k = Len(s) \/ k \in 1..(Len(s) - 1)
      BY <1>1
    <2>2. IdsOf(t)[Len(s)] = u[Len(s)]
      BY <1>1, <1>2, <1>3, <1>6, <1>7
    <2>3. \A k \in 1..(Len(s) - 1) : k \in 1..Len(s)
      BY <1>1
    <2>4. \A k \in 1..(Len(s) - 1) : IdsOf(t)[k] = u[k]
      BY <1>3, <1>5, <1>6, <1>7, <2>3
    <2> QED
      BY <2>1, <2>2, <2>4
  <1>9. IdsOf(t) = u
    BY <1>6, <1>7, <1>8, SameLogs
  <1> QED
    BY <1>9 DEF t, u, ended

\* A renamed segment holds the events it held.
LEMMA IdsRename ==
    ASSUME NEW s \in Seq(Line), NEW g
    PROVE  IdsOf([k \in DOMAIN s |-> IF s[k].seg = g THEN [s[k] EXCEPT !.dir = "part"] ELSE s[k]])
              = IdsOf(s)
  <1> DEFINE Moved(l) == IF l.seg = g THEN [l EXCEPT !.dir = "part"] ELSE l
             t        == [k \in DOMAIN s |-> Moved(s[k])]
  <1>1. \A l \in Line : Moved(l) \in Line /\ Moved(l).id = l.id /\ Moved(l).end = l.end
    BY Edited
  <1> HIDE DEF Moved
  <1>2. /\ t \in Seq(Line) /\ Len(t) = Len(s) /\ (t # <<>> <=> s # <<>>)
        /\ \A k \in 1..Len(s) : t[k] = Moved(s[k]) /\ s[k] \in Line
    <2>1. t \in [1..Len(s) -> Line]
      BY <1>1
    <2> QED
      BY <2>1
  <1>3. \A k \in 1..Len(s) : t[k].id = s[k].id /\ t[k].end = s[k].end
    BY <1>1, <1>2
  <1> HIDE DEF t
  <1>4. WholeLen(t) = WholeLen(s) /\ WholeLen(s) <= Len(s)
    <2>1. s # <<>> => Len(s) \in 1..Len(s)
      OBVIOUS
    <2> QED
      BY <1>2, <1>3, <2>1, IdsAreLog DEF WholeLen
  <1>5. IdsOf(s) \in Seq(Event) /\ Len(IdsOf(s)) = WholeLen(s) /\ \A k \in 1..WholeLen(s) : IdsOf(s)[k] = s[k].id
    BY IdsAreLog
  <1>6. IdsOf(t) \in Seq(Event) /\ Len(IdsOf(t)) = WholeLen(s) /\ \A k \in 1..WholeLen(s) : IdsOf(t)[k] = t[k].id
    BY <1>2, <1>4, IdsAreLog
  <1>7. \A k \in 1..WholeLen(s) : k \in 1..Len(s)
    BY <1>4, IdsAreLog
  <1>8. IdsOf(t) = IdsOf(s)
    BY <1>3, <1>5, <1>6, <1>7, SameLogs
  <1> QED
    BY <1>8 DEF t, Moved

-----------------------------------------------------------------------------
(* The refinement *)

\* An event is in the log when its line is there and whole.
LEMMA LoggedIs ==
    ASSUME lines \in Seq(Line)
    PROVE  /\ Ids = IdsOf(lines) /\ Ids \in Seq(Event)
           /\ \A e : e \in Log!Logged => Seen(e)
           /\ \A e : Stored(e) => e \in Log!Logged
  <1>1. Ids = IdsOf(lines) /\ CommittedLen = WholeLen(lines)
    BY DEF Ids, IdsOf, CommittedLen, WholeLen
  <1>2. /\ CommittedLen \in Nat /\ CommittedLen <= Len(lines) /\ Len(lines) - 1 <= CommittedLen
        /\ Ids \in Seq(Event)
    BY <1>1, IdsAreLog
  <1>3. Log!Logged = {lines[k].id : k \in 1..CommittedLen}
    BY <1>2 DEF Log!Logged
  <1>4. \A e : e \in Log!Logged => Seen(e)
    BY <1>2, <1>3 DEF Seen
  <1>5. \A k \in DOMAIN lines : lines[k].end = "whole" => k \in 1..CommittedLen
    <2> SUFFICES ASSUME NEW k \in DOMAIN lines, lines[k].end = "whole" PROVE k \in 1..CommittedLen
      OBVIOUS
    <2>1. CASE k = Len(lines)
      BY <2>1 DEF CommittedLen
    <2>2. CASE k # Len(lines)
      BY <2>2, <1>2
    <2> QED
      BY <2>1, <2>2
  <1>6. \A e : Stored(e) => e \in Log!Logged
    BY <1>3, <1>5 DEF Stored
  <1> QED
    BY <1>1, <1>2, <1>4, <1>6

\* What a caller sees of a step that stores nothing.
LEMMA TurnsMap ==
    ASSUME IInv, LogInv, NEW p \in Process, Turns(p)
    PROVE  Ids' = Ids /\ (Acks' = Acks \/ \E e \in Event : Log!Acknowledge(e))
  <1>1. Ids' = Ids
    BY DEF Turns, Ids, CommittedLen
  <1>2. \A w \in Writer : w # p => (w \in Acks' <=> w \in Acks)
    BY PcKnown DEF Acks, Turns
  <1>3. Acks \subseteq Writer /\ Acks' \subseteq Writer
    BY DEF Acks
  <1>4. CASE p \notin Acks' \/ p \in Acks
    <2>1. p \in Acks => p \in Acks'
      BY DEF Acks, Turns
    <2>2. Acks' = Acks
      BY <1>2, <1>3, <1>4, <2>1
    <2> QED
      BY <1>1, <2>2
  <1>5. CASE p \in Acks' /\ p \notin Acks
    <2>1. p \in Writer /\ pc[p] = "written"
      BY <1>5 DEF Acks, Turns
    <2>2. Acks' = Acks \cup {p}
      BY <1>2, <1>3, <1>5
    <2>3. p \in Log!Logged
      BY <2>1, LoggedIs DEF LogInv, IInv, Types, PcOK
    <2>4. p \in Event
      BY <2>1 DEF Event
    <2>5. Log!Acknowledge(p)
      BY <1>1, <1>5, <2>2, <2>3 DEF Log!Acknowledge, Acks, Ids
    <2> QED
      BY <1>1, <2>4, <2>5
  <1> QED
    BY <1>4, <1>5

\* What a caller sees of a step that stores an event: one more event, or nothing.
LEMMA StoresMap ==
    ASSUME IInv, LogInv, NEW e \in Event, NEW how \in {"whole", "torn"}, Stores(e, how)
    PROVE  Acks' = Acks /\ (Ids' = Ids \/ Log!Store(e))
  <1>1. PICK x : lines' = Append(lines, x) /\ x.id = e /\ x.end = how
    BY DEF Stores, NewLine
  <1>2. x \in Line
    <2>1. lines'[Len(lines) + 1] = x /\ Len(lines) + 1 \in DOMAIN lines'
      BY <1>1, OneMore DEF Stores
    <2>2. \A k \in DOMAIN lines' : lines'[k] \in Line
      BY DEF Stores
    <2> QED
      BY <2>1, <2>2
  <1>3. /\ how = "whole" => IdsOf(lines') = Append(IdsOf(lines), e)
        /\ how = "torn" => IdsOf(lines') = IdsOf(lines)
    BY <1>1, <1>2, IdsAppend DEF Stores, AllWhole
  <1>4. Ids = IdsOf(lines) /\ Ids' = IdsOf(lines')
    BY DEF Ids, IdsOf, CommittedLen, WholeLen
  <1>5. \A w \in Writer : (pc'[w] = "acked" <=> pc[w] = "acked")
    <2>1. e \in Writer => pc[e] # "acked"
      BY DEF Stores, LogInv, Seen, Stored
    <2> QED
      BY <2>1 DEF Stores
  <1>6. Acks' = Acks
    BY <1>5 DEF Acks
  <1>7. e \notin Log!Logged
    BY LoggedIs DEF Stores
  <1>8. how = "whole" => Log!Store(e)
    BY <1>3, <1>4, <1>6, <1>7 DEF Log!Store, Acks, Ids
  <1> QED
    BY <1>3, <1>4, <1>6, <1>8

\* What a caller sees of a rename or a repair: nothing, or the event of the line that was ended.
LEMMA RepairsMap ==
    ASSUME IInv, LogInv, Repairs
    PROVE  Acks' = Acks /\ (Ids' = Ids \/ \E e \in Event : Log!Store(e))
  <1>1. lines \in Seq(Line) /\ Linked /\ \A w \in Writer : pc'[w] = pc[w]
    BY DEF IInv, Types, Core, Repairs
  <1>2. Acks' = Acks
    BY <1>1 DEF Acks
  <1>3. Ids = IdsOf(lines) /\ Ids' = IdsOf(lines')
    BY DEF Ids, IdsOf, CommittedLen, WholeLen
  <1>4. CASE \E i \in Initer : MigrateSegment(i)
    <2>1. PICK g : lines' = [k \in DOMAIN lines |->
                       IF lines[k].seg = g THEN [lines[k] EXCEPT !.dir = "part"] ELSE lines[k]]
      BY <1>4 DEF MigrateSegment
    <2>2. IdsOf(lines') = IdsOf(lines)
      BY <1>1, <2>1, IdsRename
    <2> QED
      BY <1>2, <1>3, <2>2
  <1>5. CASE Trims
    <2>1. \A k \in DOMAIN lines : k < Len(lines) => lines[k].end = "whole"
      BY <1>1 DEF Linked
    <2> QED
      BY <1>1, <1>2, <1>3, <1>5, <2>1, IdsTrim DEF Trims
  <1>6. CASE OperatorEnds
    <2>1. /\ lines # <<>> /\ lines[Len(lines)].end = "torn" /\ Len(lines) \in DOMAIN lines
          /\ lines[Len(lines)].id \in Event
      BY <1>1, <1>6, LineFields DEF OperatorEnds
    <2> PICK e \in Event : e = lines[Len(lines)].id
      BY <2>1
    <2>2. Ids' = Append(Ids, e)
      BY <1>1, <1>3, <1>6, <2>1, IdsEnd DEF OperatorEnds
    <2>3. e \notin Log!Logged
      <3>1. CommittedLen = Len(lines) - 1 /\ Len(lines) \in Nat
        BY <1>1, <2>1 DEF CommittedLen
      <3>2. Log!Logged = {lines[k].id : k \in 1..CommittedLen}
        BY <3>1 DEF Log!Logged
      <3>3. \A k \in 1..CommittedLen : k \in DOMAIN lines /\ k # Len(lines)
        BY <1>1, <3>1
      <3> QED
        BY <2>1, <3>2, <3>3 DEF LogInv, Distinct
    <2>4. Log!Store(e)
      BY <1>2, <2>2, <2>3 DEF Log!Store, Acks, Ids
    <2> QED
      BY <1>2, <2>4
  <1> QED
    BY <1>4, <1>5, <1>6 DEF Repairs

\* The spine implements the log its callers are promised: events are stored one
\* after another, each once, none is lost, and append() returns only an event
\* that is in the log for good.
THEOREM LogImplemented == Spec => ImplementsLog
  <1>1. Init => Log!Init
    <2> SUFFICES ASSUME Init PROVE Log!Init
      OBVIOUS
    <2>1. WellFormed(lines)
      BY SpineAssumption DEF Init
    <2>2. lines \in Seq(Line) /\ Distinct
      BY <2>1, LogInit DEF WellFormed, LogInv
    <2>3. Ids \in Seq(Event) /\ CommittedLen \in Nat /\ CommittedLen <= Len(lines)
      BY <2>2, LoggedIs, IdsAreLog DEF CommittedLen, WholeLen
    <2>4. \A j, k \in DOMAIN Ids : Ids[j] = Ids[k] => j = k
      BY <2>2, <2>3 DEF Ids, Distinct
    <2>5. Acks = {}
      BY SpineAssumption DEF Init, Acks, Process
    <2> QED
      BY <2>3, <2>4, <2>5 DEF Log!Init, Ids, Acks
  <1>2. IInv /\ LogInv /\ [Next]_vars => [Log!Next]_<<Ids, Acks>>
    <2> SUFFICES ASSUME IInv, LogInv, [Next]_vars PROVE [Log!Next]_<<Ids, Acks>>
      OBVIOUS
    <2>1. CASE UNCHANGED <<lines, last, pc>>
      BY <2>1 DEF Ids, Acks, CommittedLen
    <2>2. ASSUME NEW p \in Process, Turns(p) PROVE [Log!Next]_<<Ids, Acks>>
      BY <2>2, TurnsMap DEF Log!Next
    <2>3. ASSUME NEW e \in Event, NEW how \in {"whole", "torn"}, Stores(e, how)
          PROVE  [Log!Next]_<<Ids, Acks>>
      BY <2>3, StoresMap DEF Log!Next
    <2>4. CASE Repairs
      BY <2>4, RepairsMap DEF Log!Next
    <2> QED
      BY <2>1, <2>2, <2>3, <2>4, Kinds
  <1>3. IInv /\ LogInv /\ [Next]_vars
          => [Log!Next]_<<[k \in 1..CommittedLen |-> lines[k].id], {w \in Writer : pc[w] = "acked"}>>
    BY <1>2 DEF Ids, Acks
  <1> QED
    BY <1>1, <1>3, Invariant, LogInvariant, PTL DEF Spec, ImplementsLog, Log!Spec

-----------------------------------------------------------------------------
(* What a read holds, while segments are renamed, written and repaired under it *)

Has(r, k)    == lines[k].id \in got[r]
Listed(r, k) == lines[k].seg \in todo[r]

\* Of the lines in directories D, those the read must hold, those in a segment before one it has
\* yet to read, and those before a line it holds, it holds or has yet to read.
InReach(r, D) ==
    /\ \A k \in DOMAIN lines :
          /\ lines[k].dir \in D
          /\ lines[k].id \in must[r] \/ \E t \in todo[r] : lines[k].seg < t
          => Has(r, k) \/ Listed(r, k)
    /\ \A j, k \in DOMAIN lines :
          lines[j].dir \in D /\ j < k /\ Has(r, k) => Has(r, j) \/ Listed(r, j)

\* A flat read that an init overtook: what it listed is in the partition, or was never there.
Overtaken(r) == r \in straddled /\ committed /\ got[r] = {}

Early    == {"readIdle", "readReplica", "readMarker", "list", "recheckReplica", "recheckMarker", "partList"}
FlatOnly == {"recheckReplica", "recheckMarker", "residualRead", "replicaList"}

Phase(r) ==
    /\ pc[r] \in Early => got[r] = {}
    /\ pc[r] \in FlatOnly => InReach(r, {"flat"})
    /\ pc[r] = "replicaRead" => InReach(r, Dir)
    /\ pc[r] \in {"flatRead", "readDone"} => InReach(r, Dir) \/ Overtaken(r)
    /\ pc[r] \in {"replicaList", "readDone"} => todo[r] = {}

\* What a read holds and must hold is stored, and what it listed is there.
Known(r) == /\ \A e \in got[r] \cup must[r] : Stored(e)
            /\ \A t \in todo[r] : t <= last

\* Segments move to the partition from the front.
FrontFirst ==
    \A j, k \in DOMAIN lines : lines[j].dir = "part" /\ lines[k].dir = "flat" => lines[j].seg < lines[k].seg

ReadInv ==
    /\ OneDir /\ FrontFirst
    /\ straddled # {} => committed
    /\ \A r \in Reader : Known(r)
    /\ MarkerDropped \/ \A r \in Reader \ blind : Phase(r)

\* What any step does to the lines: one that was there stays what it was, or went to the
\* partition, and a new one comes after all, with an event that was not there.
Moves ==
    /\ \A k \in DOMAIN lines' :
          \/ /\ k \in DOMAIN lines
             /\ lines'[k].id = lines[k].id /\ lines'[k].seg = lines[k].seg
             /\ lines'[k].dir = "flat" => lines[k].dir = "flat"
          \/ /\ \A j \in DOMAIN lines : j < k
             /\ ~Seen(lines'[k].id) /\ last <= lines'[k].seg
    /\ last <= last'
    /\ \A e : Stored(e) => Stored(e)'

\* Every step is one of these moves.
LEMMA LinesMove ==
    ASSUME IInv, LogInv, [Next]_vars
    PROVE  Moves
  <1>0. lines \in Seq(Line) /\ last \in Int
    BY DEF IInv, Types, PcOK, ReadsOK, ConfigOK
  <1>1. CASE lines' = lines /\ last' = last
    BY <1>0, <1>1 DEF Moves, Stored
  <1>2. ASSUME NEW e \in Event, NEW how \in {"whole", "torn"}, Stores(e, how)
        PROVE  Moves
    <2>1. PICK x : lines' = Append(lines, x) /\ x.id = e /\ x.seg = last'
      BY <1>2 DEF Stores, NewLine
    <2>2. /\ DOMAIN lines' = DOMAIN lines \cup {Len(lines) + 1}
          /\ Len(lines) + 1 \notin DOMAIN lines
          /\ \A k \in DOMAIN lines : lines'[k] = lines[k]
          /\ lines'[Len(lines) + 1] = x
      BY <1>2, <2>1, OneMore DEF Stores
    <2>3. \A v : Stored(v) => Stored(v)'
      BY <2>2 DEF Stored
    <2>4. \A j \in DOMAIN lines : j < Len(lines) + 1
      BY <1>0
    <2> QED
      BY <1>2, <2>1, <2>2, <2>3, <2>4 DEF Moves, Stores
  <1>3. CASE \E i \in Initer : MigrateSegment(i)
    <2>1. PICK s : lines' = [k \in DOMAIN lines |->
                       IF lines[k].seg = s THEN [lines[k] EXCEPT !.dir = "part"] ELSE lines[k]]
      BY <1>3 DEF MigrateSegment
    <2>2. DOMAIN lines' = DOMAIN lines /\ last' = last
      BY <1>3, <2>1 DEF MigrateSegment
    <2>3. \A k \in DOMAIN lines :
             /\ lines'[k].id = lines[k].id /\ lines'[k].seg = lines[k].seg
             /\ lines'[k].end = lines[k].end
             /\ lines'[k].dir = "flat" => lines[k].dir = "flat"
      BY <1>0, <2>1, LineFields DEF Line
    <2> QED
      BY <1>0, <2>2, <2>3 DEF Moves, Stored
  <1>4. CASE Trims /\ last' = last
    <2>1. /\ DOMAIN lines' = DOMAIN lines \ {Len(lines)} /\ lines[Len(lines)].end = "torn"
          /\ \A k \in DOMAIN lines' : lines'[k] = lines[k]
          /\ last' = last
      BY <1>0, <1>4 DEF Trims
    <2> QED
      BY <1>0, <2>1 DEF Moves, Stored
  <1>5. CASE OperatorEnds
    <2>1. /\ lines[Len(lines)] \in Line /\ last' = last
          /\ lines' = [lines EXCEPT ![Len(lines)] = [lines[Len(lines)] EXCEPT !.end = "whole"]]
      BY <1>0, <1>5 DEF OperatorEnds
    <2>2. /\ DOMAIN lines' = DOMAIN lines
          /\ \A k \in DOMAIN lines :
                /\ lines'[k].id = lines[k].id /\ lines'[k].seg = lines[k].seg
                /\ lines'[k].dir = lines[k].dir
                /\ lines[k].end = "whole" => lines'[k].end = "whole"
      BY <1>0, <2>1 DEF Line
    <2> QED
      BY <1>0, <2>1, <2>2 DEF Moves, Stored
  <1> QED
    BY <1>1, <1>2, <1>3, <1>4, <1>5, Kinds DEF Turns, Repairs

\* Segments keep moving from the front.
LEMMA FrontStays ==
    ASSUME IInv, OneDir, FrontFirst, [Next]_vars
    PROVE  OneDir' /\ FrontFirst'
  <1>1. lines \in Seq(Line)
    BY DEF IInv, Types, PcOK, ReadsOK, ConfigOK
  <1>2. CASE lines' = lines
    BY <1>2 DEF OneDir, FrontFirst
  <1>3. ASSUME NEW d \in Dir, NEW e, NEW prev, NEW how, OnlyIn(d), Store(e, d, prev, how)
        PROVE  OneDir' /\ FrontFirst'
    <2>1. PICK s : lines' = Append(lines, NewLine(e, d, s, prev, how))
      BY <1>3 DEF Store
    <2> DEFINE new == NewLine(e, d, s, prev, how)
    <2>2. new.dir = d
      BY DEF NewLine
    <2> HIDE DEF new
    <2>3. /\ DOMAIN lines' = DOMAIN lines \cup {Len(lines) + 1}
          /\ lines'[Len(lines) + 1] = new /\ \A k \in DOMAIN lines : lines'[k] = lines[k]
      BY <1>1, <2>1 DEF new
    <2>4. \A k \in DOMAIN lines' : lines'[k].dir = d
      BY <1>3, <2>2, <2>3 DEF OnlyIn
    <2> QED
      BY <2>4 DEF OneDir, FrontFirst
  <1>4. CASE \E i \in Initer : MigrateSegment(i)
    <2>1. PICK s \in Segs("flat") :
              /\ \A t \in Segs("flat") : s <= t
              /\ lines' = [k \in DOMAIN lines |->
                       IF lines[k].seg = s THEN [lines[k] EXCEPT !.dir = "part"] ELSE lines[k]]
      BY <1>4 DEF MigrateSegment
    <2>2. \A k \in DOMAIN lines' :
              /\ k \in DOMAIN lines /\ lines'[k].seg = lines[k].seg
              /\ lines'[k].dir = IF lines[k].seg = s THEN "part" ELSE lines[k].dir
      BY <1>1, <2>1, LineFields DEF Line
    <2>3. s \in Int /\ \A k \in DOMAIN lines : lines[k].seg \in Int
      BY <1>1, LineFields, SpineAssumption DEF Segs, InDir
    <2>4. \A k \in DOMAIN lines : lines[k].dir = "flat" => s <= lines[k].seg
      BY <2>1 DEF Segs, InDir
    <2>5. FrontFirst'
      <3> SUFFICES ASSUME NEW j \in DOMAIN lines', NEW k \in DOMAIN lines',
                          lines'[j].dir = "part", lines'[k].dir = "flat"
                   PROVE  lines'[j].seg < lines'[k].seg
        BY DEF FrontFirst
      <3>1. lines[k].dir = "flat" /\ s < lines[k].seg
        BY <2>2, <2>3, <2>4
      <3> QED
        BY <2>2, <3>1 DEF FrontFirst
    <2> QED
      BY <1>1, <2>1, <2>5, RenameStays
  <1>5. CASE LeavesBehind \/ OperatorTrims \/ OperatorEnds
    <2>1. \A k \in DOMAIN lines' :
             k \in DOMAIN lines /\ lines'[k].seg = lines[k].seg /\ lines'[k].dir = lines[k].dir
      <3>1. CASE LeavesBehind \/ OperatorTrims
        <4>1. lines' = lines \/ lines' = SubSeq(lines, 1, Len(lines) - 1)
          BY <3>1 DEF LeavesBehind, OperatorTrims
        <4> QED
          BY <1>1, <4>1
      <3>2. CASE OperatorEnds
        <4>1. lines[Len(lines)] \in Line
              /\ lines' = [lines EXCEPT ![Len(lines)] = [lines[Len(lines)] EXCEPT !.end = "whole"]]
          BY <1>1, <3>2 DEF OperatorEnds
        <4> QED
          BY <1>1, <4>1 DEF Line
      <3> QED
        BY <1>5, <3>1, <3>2
    <2> QED
      BY <2>1 DEF OneDir, FrontFirst
  <1> QED
    BY <1>2, <1>3, <1>4, <1>5, LineSteps

\* What stays for good: replica.json, what an init straddled, and that it dropped a marker.
LEMMA StaysForGood ==
    ASSUME IInv, SyncInv, [Next]_vars
    PROVE  /\ committed => committed'
           /\ straddled \subseteq straddled'
           /\ straddled' # straddled => committed
           /\ MarkerDropped => MarkerDropped'
  <1>1. \A p \in Process : \A to : pc' = [pc EXCEPT ![p] = to] =>
            \A i \in Initer : pc'[i] = pc[i] \/ i = p
    BY DEF IInv, Types, PcOK, ReadsOK, ConfigOK, Process
  <1>2. ASSUME NEW w \in Writer, AppendNext(w)
        PROVE  /\ UNCHANGED <<committed, straddled>>
               /\ \A i \in Initer : pc'[i] = pc[i]
    <2>1. UNCHANGED <<committed, straddled>> /\ \E to : pc' = [pc EXCEPT ![w] = to]
      BY <1>2 DEF AppendNext, AppendStart, ReadCommitted, ProbeMarker, ProbeMode, PollCommitted, PollMarker,
             PollTimesOut, Recommit, LockFlat, LockPart, GiveUp, FlatHandsBack, PartRefuses, AppendReturns,
             FlatLinks, PartLinks, FlatWrites, PartWrites, Writes, Links, Leave, Goto, store, segments, config
    <2> QED
      BY <1>1, <2>1, PcKnown
  <1>3. ASSUME NEW i \in Initer, SyncNext(i)
        PROVE  /\ committed => committed'
               /\ straddled \subseteq straddled'
               /\ straddled' # straddled => committed
               /\ \A j \in Initer : pc[j] = "anchorsFound" => pc'[j] = "anchorsFound"
    <2>1. i \notin dead /\ pc[i] # "anchorsFound"
      BY <1>3 DEF SyncNext, TakeInitLock, EarlyRefusal, AlreadySynced, EarlyChecksPass, TakeFlatLock,
             TruncateMarker, WriteMarker, RecheckRefuses, RecheckPasses, MigrateSegment, MigrateDone, SeedCutover,
             AdoptAnchor, PublishAnchor, BootstrapFails, PublishReplica, UnlinkMarker, At
    <2>2. pc' = pc \/ \E to : pc' = [pc EXCEPT ![i] = to]
      BY <1>3 DEF SyncNext, TakeInitLock, EarlyRefusal, AlreadySynced, EarlyChecksPass, TakeFlatLock,
             TruncateMarker, WriteMarker, RecheckRefuses, RecheckPasses, MigrateSegment, MigrateDone, SeedCutover,
             AdoptAnchor, PublishAnchor, BootstrapFails, PublishReplica, UnlinkMarker, InitStores, Finish, Goto
    <2>3. CASE UnlinkMarker(i)
      <3>1. committed
        BY <2>1, <2>3 DEF UnlinkMarker, At, SyncInv, MarkerStays
      <3> QED
        BY <1>1, <2>1, <2>2, <2>3, <3>1, PcKnown DEF UnlinkMarker
    <2>4. CASE ~UnlinkMarker(i)
      <3>1. straddled' = straddled /\ (committed => committed')
        BY <1>3, <2>4 DEF SyncNext, TakeInitLock, EarlyRefusal, AlreadySynced, EarlyChecksPass, TakeFlatLock,
             TruncateMarker, WriteMarker, RecheckRefuses, RecheckPasses, MigrateSegment, MigrateDone, SeedCutover,
             AdoptAnchor, PublishAnchor, BootstrapFails, PublishReplica, InitStores, store, segments, config
      <3> QED
        BY <1>1, <2>1, <2>2, <3>1, PcKnown
    <2> QED
      BY <2>3, <2>4
  <1>4. ASSUME NEW s \in Stamper, StampNext(s)
        PROVE  /\ UNCHANGED <<committed, straddled>>
               /\ \A i \in Initer : pc'[i] = pc[i]
    <2>1. UNCHANGED <<committed, straddled>> /\ \E to : pc' = [pc EXCEPT ![s] = to]
      BY <1>4 DEF StampNext, StampReadsReplica, StampReadsMarker, MakeAnchorDir, RollBack, StampEnds,
             StampRechecks, Goto, store, segments, config
    <2> QED
      BY <1>1, <2>1, PcKnown, SpineAssumption
  <1>5. ASSUME NEW r \in Reader, ReadNext(r)
        PROVE  /\ UNCHANGED <<committed, straddled>>
               /\ \A i \in Initer : pc'[i] = pc[i]
    <2>1. UNCHANGED <<committed, straddled>> /\ (pc' = pc \/ \E to : pc' = [pc EXCEPT ![r] = to])
      BY <1>5 DEF ReadNext, ReadStart, ReadActive, ListFlat, ListResidual, ListReplica, ListSegments,
             ReadFlat, ReadResidual, ReadReplica, ReadSegment, FlatVanished, ResidualVanished,
             SegmentEmptied, SkipSegment, NothingLeft, Unaffected, Goto, store, segments, config
    <2> QED
      BY <1>1, <2>1, PcKnown, SpineAssumption
  <1>6. CASE Around
    BY <1>6 DEF Around, Die, PullPeer, OperatorTrims, OperatorEnds, MarkerDropped, store, segments, config
  <1>7. CASE UNCHANGED vars
    BY <1>7 DEF vars, MarkerDropped, store, segments, config
  <1> QED
    BY <1>2, <1>3, <1>4, <1>5, <1>6, <1>7 DEF Next, MarkerDropped

\* A read that met the empty marker is so for good.
LEMMA BlindStays ==
    ASSUME [Next]_vars
    PROVE  blind \subseteq blind'
  <1>1. ASSUME NEW r \in Reader, ReadNext(r)
        PROVE  blind \subseteq blind'
    <2>1. blind' = blind \/ blind' = blind \cup {r}
      BY <1>1, Zenon DEF ReadNext, ReadStart, ReadActive, ListFlat, ListResidual, ListReplica, ListSegments,
             ReadFlat, ReadResidual, ReadReplica, ReadSegment, FlatVanished, ResidualVanished,
             SegmentEmptied, SkipSegment, NothingLeft, reads
    <2> QED
      BY <2>1
  <1>2. CASE UNCHANGED reads
    BY <1>2 DEF reads
  <1>3. CASE UNCHANGED vars
    BY <1>3 DEF vars, reads
  <1> QED
    BY <1>1, <1>2, <1>3 DEF Next

\* Only a step of its own moves a read.
LEMMA ReadsAlone ==
    ASSUME IInv, [Next]_vars, NEW r \in Reader, ~ReadNext(r)
    PROVE  pc'[r] = pc[r] /\ todo'[r] = todo[r] /\ got'[r] = got[r] /\ must'[r] = must[r]
  <1>1. \A p \in Process : \A to : p # r /\ pc' = [pc EXCEPT ![p] = to] => pc'[r] = pc[r]
    BY DEF IInv, Types, PcOK, ReadsOK, ConfigOK, Process
  <1>2. ASSUME NEW w \in Writer, AppendNext(w) PROVE pc'[r] = pc[r]
    <2>1. \E to : pc' = [pc EXCEPT ![w] = to]
      BY <1>2 DEF AppendNext, AppendStart, ReadCommitted, ProbeMarker, ProbeMode, PollCommitted, PollMarker,
             PollTimesOut, Recommit, LockFlat, LockPart, GiveUp, FlatHandsBack, PartRefuses, AppendReturns,
             FlatLinks, PartLinks, FlatWrites, PartWrites, Writes, Leave, Goto
    <2> QED
      BY <1>1, <2>1, PcKnown, SpineAssumption
  <1>3. ASSUME NEW i \in Initer, SyncNext(i) PROVE pc'[r] = pc[r]
    <2>1. pc' = pc \/ \E to : pc' = [pc EXCEPT ![i] = to]
      BY <1>3 DEF SyncNext, TakeInitLock, EarlyRefusal, AlreadySynced, EarlyChecksPass, TakeFlatLock,
             TruncateMarker, WriteMarker, RecheckRefuses, RecheckPasses, MigrateSegment, MigrateDone, SeedCutover,
             AdoptAnchor, PublishAnchor, BootstrapFails, PublishReplica, UnlinkMarker, InitStores, Finish, Goto
    <2> QED
      BY <1>1, <2>1, PcKnown, SpineAssumption
  <1>4. ASSUME NEW s \in Stamper, StampNext(s) PROVE pc'[r] = pc[r]
    <2>1. \E to : pc' = [pc EXCEPT ![s] = to]
      BY <1>4 DEF StampNext, StampReadsReplica, StampReadsMarker, MakeAnchorDir, RollBack, StampEnds,
             StampRechecks, Goto
    <2> QED
      BY <1>1, <2>1, PcKnown, SpineAssumption
  <1>5. ASSUME NEW q \in Reader \ {r}, ReadNext(q)
        PROVE  pc'[r] = pc[r] /\ todo'[r] = todo[r] /\ got'[r] = got[r] /\ must'[r] = must[r]
    <2>1. /\ pc' = pc \/ \E to : pc' = [pc EXCEPT ![q] = to]
          /\ todo' = todo \/ \E to : todo' = [todo EXCEPT ![q] = to]
          /\ got' = got \/ \E to : got' = [got EXCEPT ![q] = to]
          /\ must' = must \/ \E to : must' = [must EXCEPT ![q] = to]
      BY <1>5 DEF ReadNext, ReadStart, ReadActive, ListFlat, ListResidual, ListReplica, ListSegments,
             ReadFlat, ReadResidual, ReadReplica, ReadSegment, FlatVanished, ResidualVanished,
             SegmentEmptied, SkipSegment, NothingLeft, Goto, reads
    <2> QED
      BY <1>5, <2>1 DEF IInv, Types, PcOK, ReadsOK, ConfigOK, Process
  <1>6. CASE Around /\ UNCHANGED <<link, reads>>
    BY <1>6 DEF Around, Die, PullPeer, OperatorTrims, OperatorEnds, reads
  <1>7. CASE UNCHANGED vars
    BY <1>7 DEF vars, reads
  <1> QED
    BY <1>2, <1>3, <1>4, <1>5, <1>6, <1>7 DEF Next, reads

\* While the read rests, what it has in reach stays in reach.
LEMMA ReachStays ==
    ASSUME IInv, Moves, NEW r \in Reader, Known(r), NEW D \in {{"flat"}, Dir}, InReach(r, D),
           lines' \in Seq(Line),
           todo'[r] = todo[r], got'[r] = got[r], must'[r] = must[r]
    PROVE  InReach(r, D)'
  <1>1. \A k \in DOMAIN lines' : k \in Int /\ lines'[k].seg \in Int /\ lines'[k].dir \in Dir
    <2>1. \A k \in DOMAIN lines' : lines'[k] \in Line
      OBVIOUS
    <2> QED
      BY <2>1, SpineAssumption DEF Line
  <1>2. \A k \in DOMAIN lines : k \in Int /\ lines[k].seg \in Int /\ lines[k].dir \in Dir
    BY LineFields, SpineAssumption DEF IInv, Types, PcOK, ReadsOK, ConfigOK, Dir
  <1>3. last \in Int /\ \A t \in todo[r] : t \in Int /\ t <= last
    BY SpineAssumption DEF IInv, Types, PcOK, ReadsOK, ConfigOK, Known
  <1>4. \A e \in got[r] \cup must[r] : Seen(e)
    BY DEF Known, Stored, Seen
  <1> DEFINE Kept(k) == /\ k \in DOMAIN lines
                        /\ lines'[k].id = lines[k].id /\ lines'[k].seg = lines[k].seg
                        /\ lines'[k].dir \in D => lines[k].dir \in D
             New(k)  == /\ \A j \in DOMAIN lines : j < k
                        /\ ~Seen(lines'[k].id) /\ last <= lines'[k].seg
  <1>5. \A k \in DOMAIN lines' : Kept(k) \/ New(k)
    <2>1. SUFFICES ASSUME NEW k \in DOMAIN lines' PROVE Kept(k) \/ New(k)
      OBVIOUS
    <2>2. (k \in DOMAIN lines /\ (lines'[k].dir = "flat" => lines[k].dir = "flat"))
             => (lines'[k].dir \in D => lines[k].dir \in D)
      BY <1>1, <1>2
    <2> QED
      BY <2>2 DEF Moves
  <1> HIDE DEF Kept, New
  <1>6. ASSUME NEW k \in DOMAIN lines', lines'[k].dir \in D,
               lines'[k].id \in must[r] \/ \E t \in todo[r] : lines'[k].seg < t
        PROVE  lines'[k].id \in got[r] \/ lines'[k].seg \in todo[r]
    <2>1. Kept(k)
      BY <1>1, <1>3, <1>4, <1>5, <1>6 DEF New
    <2> QED
      BY <1>6, <2>1 DEF Kept, InReach, Has, Listed
  <1>7. ASSUME NEW j \in DOMAIN lines', NEW k \in DOMAIN lines', lines'[j].dir \in D, j < k,
               lines'[k].id \in got[r]
        PROVE  lines'[j].id \in got[r] \/ lines'[j].seg \in todo[r]
    <2>1. Kept(k)
      BY <1>4, <1>5, <1>7 DEF New
    <2>2. Kept(j)
      BY <1>1, <1>5, <1>7, <2>1 DEF Kept, New
    <2> QED
      BY <1>7, <2>1, <2>2 DEF Kept, InReach, Has, Listed
  <1> QED
    BY <1>6, <1>7 DEF InReach, Has, Listed

\* The next segment is read, or skipped where no line is in it.
LEMMA ReachReads ==
    ASSUME IInv, LogInv, NEW r \in Reader, Known(r), NEW D, InReach(r, D),
           NEW s, NextSegment(r, s), NEW G,
           \A k \in DOMAIN lines :
              lines[k].dir \in D /\ lines[k].seg = s /\ lines[k].end = "whole" => lines[k].id \in G,
           \A e \in G : \E k \in DOMAIN lines : lines[k].id = e /\ lines[k].seg = s,
           lines' = lines, must'[r] = must[r],
           todo'[r] = todo[r] \ {s}, got'[r] = got[r] \cup G
    PROVE  InReach(r, D)'
  <1>1. \A k \in DOMAIN lines :
            k \in Int /\ lines[k].seg \in Int /\ lines[k].end \in {"whole", "torn"}
    BY LineFields, SpineAssumption DEF IInv, Types, PcOK, ReadsOK, ConfigOK
  <1>2. last \in Int /\ s \in todo[r] /\ \A t \in todo[r] : t \in Int /\ t <= last /\ s <= t
    BY SpineAssumption DEF IInv, Types, PcOK, ReadsOK, ConfigOK, Known, NextSegment
  <1>3. Linked /\ Distinct
    BY DEF IInv, Core, LogInv
  <1>4. \A k \in DOMAIN lines : lines[k].id \in must[r] => lines[k].end = "whole"
    <2>1. TAKE k \in DOMAIN lines
    <2>2. lines[k].id \in must[r] => \E j \in DOMAIN lines : lines[j].id = lines[k].id /\ lines[j].end = "whole"
      BY DEF Known, Stored
    <2> QED
      BY <1>3, <2>2 DEF Distinct
  <1>5. \A k \in DOMAIN lines : (\E t \in todo[r] : lines[k].seg < t) => lines[k].end = "whole"
    BY <1>1, <1>2, <1>3 DEF Linked
  <1>6. ASSUME NEW k \in DOMAIN lines, lines[k].dir \in D,
               lines[k].id \in must[r] \/ \E t \in todo'[r] : lines[k].seg < t
        PROVE  lines[k].id \in got'[r] \/ lines[k].seg \in todo'[r]
    <2>1. lines[k].id \in got[r] \/ lines[k].seg \in todo[r]
      BY <1>6 DEF InReach, Has, Listed
    <2>2. lines[k].end = "whole"
      BY <1>4, <1>5, <1>6
    <2> QED
      BY <1>6, <2>1, <2>2
  <1>7. ASSUME NEW j \in DOMAIN lines, NEW k \in DOMAIN lines, lines[j].dir \in D, j < k,
               lines[k].id \in got'[r]
        PROVE  lines[j].id \in got'[r] \/ lines[j].seg \in todo'[r]
    <2>1. lines[j].end = "whole" /\ lines[j].seg <= lines[k].seg
      BY <1>3, <1>7 DEF Linked
    <2>2. CASE lines[k].id \in got[r]
      <3>1. lines[j].id \in got[r] \/ lines[j].seg \in todo[r]
        BY <1>7, <2>2 DEF InReach, Has, Listed
      <3> QED
        BY <1>7, <2>1, <3>1
    <2>3. CASE lines[k].id \in G
      <3>1. lines[k].seg = s
        BY <1>3, <2>3 DEF Distinct
      <3>2. CASE lines[j].seg = s
        BY <1>7, <2>1, <3>2
      <3>3. CASE lines[j].seg < s
        <4>1. lines[j].id \in got[r] \/ lines[j].seg \in todo[r]
          BY <1>2, <1>7, <3>3 DEF InReach, Has, Listed
        <4> QED
          BY <1>1, <1>2, <3>3, <4>1
      <3> QED
        BY <1>1, <1>2, <2>1, <3>1, <3>2, <3>3
    <2> QED
      BY <1>7, <2>2, <2>3
  <1> QED
    BY <1>6, <1>7 DEF InReach, Has, Listed

\* A read that rests knows and holds what it did, in its phase.
LEMMA RestsKeep ==
    ASSUME IInv, LogInv, SyncInv, [Next]_vars, NEW r \in Reader, ~ReadNext(r), Known(r)
    PROVE  Known(r)' /\ (Phase(r) => Phase(r)')
  <1>1. pc'[r] = pc[r] /\ todo'[r] = todo[r] /\ got'[r] = got[r] /\ must'[r] = must[r]
    BY ReadsAlone
  <1>2. Moves
    BY LinesMove
  <1>3. lines' \in Seq(Line) /\ last \in Int /\ last' \in Int /\ \A t \in todo[r] : t \in Int
    BY StepKeeps, SpineAssumption DEF IInv, Types, PcOK, ReadsOK, ConfigOK
  <1>4. Known(r)'
    BY <1>1, <1>2, <1>3 DEF Known, Moves
  <1>5. InReach(r, {"flat"}) => InReach(r, {"flat"})'
    BY <1>1, <1>2, <1>3, ReachStays
  <1>6. InReach(r, Dir) => InReach(r, Dir)'
    BY <1>1, <1>2, <1>3, ReachStays
  <1>7. Overtaken(r) => Overtaken(r)'
    BY <1>1, StaysForGood DEF Overtaken
  <1> QED
    BY <1>1, <1>4, <1>5, <1>6, <1>7 DEF Phase

\* What the steps of a read leave alone.
LEMMA ReaderLeaves ==
    ASSUME IInv, NEW r \in Reader, ReadNext(r)
    PROVE  /\ UNCHANGED <<lines, last, marker, committed, straddled, dead>>
           /\ \A i \in Initer : pc'[i] = pc[i]
  <1>1. /\ UNCHANGED <<lines, last, marker, committed, straddled, dead>>
        /\ pc' = pc \/ \E to : pc' = [pc EXCEPT ![r] = to]
    BY DEF ReadNext, ReadStart, ReadActive, ListFlat, ListResidual, ListReplica, ListSegments,
           ReadFlat, ReadResidual, ReadReplica, ReadSegment, FlatVanished, ResidualVanished,
           SegmentEmptied, SkipSegment, NothingLeft, Unaffected, Goto, store, segments, config
  <1> QED
    BY <1>1, PcKnown, SpineAssumption DEF IInv, Types, PcOK, ReadsOK, ConfigOK

\* What a read takes up is stored.
LEMMA ReaderKnows ==
    ASSUME IInv, LogInv, NEW r \in Reader, ReadNext(r), Known(r)
    PROVE  Known(r)'
  <1>1. UNCHANGED <<lines, last>>
    BY ReaderLeaves
  <1>2. todo \in [Reader -> SUBSET (1..MaxSeg)] /\ got \in [Reader -> SUBSET Event] /\ must \in [Reader -> SUBSET Event]
    BY DEF IInv, Types, PcOK, ReadsOK, ConfigOK
  <1>3. \A e \in Acked : Stored(e)
    BY DEF Acked, LogInv, Seen
  <1>4. \A d \in Dir : \A s : \A e \in WholeIds(d, s) : Stored(e)
    BY DEF WholeIds, InDir, Stored
  <1>5. \A d \in Dir : \A t \in Segs(d) : t <= last
    BY DEF Segs, InDir, IInv, Core, Linked
  <1>6. must'[r] = must[r] \/ must'[r] = Acked
    BY <1>2 DEF ReadNext, ReadStart, ReadActive, ListFlat, ListResidual, ListReplica, ListSegments,
           ReadFlat, ReadResidual, ReadReplica, ReadSegment, FlatVanished, ResidualVanished,
           SegmentEmptied, SkipSegment, NothingLeft, reads
  <1>7. \/ got'[r] = got[r] \/ got'[r] = {}
        \/ \E d \in Dir, s \in Segs("flat") \cup Segs("part") : got'[r] = got[r] \cup WholeIds(d, s)
    BY <1>2 DEF ReadNext, ReadStart, ReadActive, ListFlat, ListResidual, ListReplica, ListSegments,
           ReadFlat, ReadResidual, ReadReplica, ReadSegment, FlatVanished, ResidualVanished,
           SegmentEmptied, SkipSegment, NothingLeft, reads, Dir
  <1>8. todo'[r] \subseteq todo[r] \/ \E d \in Dir : todo'[r] = Segs(d)
    BY <1>2 DEF ReadNext, ReadStart, ReadActive, ListFlat, ListResidual, ListReplica, ListSegments,
           ReadFlat, ReadResidual, ReadReplica, ReadSegment, FlatVanished, ResidualVanished,
           SegmentEmptied, SkipSegment, NothingLeft, reads, Dir
  <1>9. \A e \in got'[r] \cup must'[r] : Stored(e)
    BY <1>3, <1>4, <1>6, <1>7 DEF Known
  <1>10. \A t \in todo'[r] : t <= last
    BY <1>5, <1>8 DEF Known
  <1> QED
    BY <1>1, <1>9, <1>10 DEF Known, Stored

\* Each step of a read keeps what its phase promises.
LEMMA ReaderPhase ==
    ASSUME IInv, LogInv, SyncInv, OneDir, FrontFirst, straddled # {} => committed, ~MarkerDropped,
           NEW r \in Reader, ReadNext(r), r \notin blind', Known(r), Phase(r)
    PROVE  Phase(r)'
  <1>1. UNCHANGED <<lines, last, marker, committed, straddled, dead>>
    BY ReaderLeaves
  <1>2. /\ r \in Process /\ pc \in [Process -> AppendPcs \cup InitPcs \cup StampPcs \cup ReadSteps]
        /\ todo \in [Reader -> SUBSET (1..MaxSeg)] /\ got \in [Reader -> SUBSET Event]
        /\ must \in [Reader -> SUBSET Event] /\ pc[r] \in ReadSteps
    BY PcKnown DEF IInv, Types, PcOK, ReadsOK, ConfigOK
  <1>3. \A k \in DOMAIN lines :
            k \in Int /\ lines[k].seg \in Int /\ lines[k].dir \in Dir
    BY LineFields, SpineAssumption DEF IInv, Types, PcOK, ReadsOK, ConfigOK, Dir
  <1>4. Dir = {"flat", "part"}
    BY DEF Dir
  <1>5. CASE ReadStart(r)
    BY <1>1, <1>2, <1>5 DEF ReadStart, At, Goto, Phase, Early, FlatOnly
  <1>6. CASE ReadActive(r)
    <2>1. pc[r] \in Early /\ got[r] = {} /\ UNCHANGED <<todo, got, must>>
      BY <1>6 DEF ReadActive, At, Phase, Early
    <2>2. CASE pc'[r] = "flatRead"
      <3>1. pc[r] = "recheckMarker" /\ ~Named /\ (marker => InDir("part") = {})
        <4>1. pc[r] = "recheckMarker" /\ ~Named
          BY <1>2, <1>6, <2>2 DEF ReadActive, At, Goto
        <4> QED
          BY <1>6, <4>1 DEF ReadActive, Named
      <3>2. CASE r \in straddled
        BY <1>1, <2>1, <2>2, <3>2 DEF Overtaken, Phase, Early, FlatOnly
      <3>3. CASE r \notin straddled
        <4>1. InDir("part") = {}
          BY <3>1, <3>3 DEF SyncInv, Straddled, PartExplained, Between
        <4>2. InReach(r, {"flat"})
          BY <3>1 DEF Phase, FlatOnly
        <4>3. InReach(r, Dir)
          BY <1>3, <1>4, <4>1, <4>2 DEF InReach, InDir
        <4>4. InReach(r, Dir)'
          BY <1>1, <2>1, <4>3 DEF InReach, Has, Listed
        <4> QED
          BY <2>1, <2>2, <4>4 DEF Phase, Early, FlatOnly
      <3> QED
        BY <3>2, <3>3
    <2>3. CASE pc'[r] # "flatRead"
      <3>1. /\ pc'[r] \in Early
            /\ pc'[r] \in FlatOnly => pc[r] \in FlatOnly
        BY <1>2, <1>6, <2>3 DEF ReadActive, At, Goto, Early, FlatOnly
      <3>2. InReach(r, {"flat"}) => InReach(r, {"flat"})'
        BY <1>1, <2>1 DEF InReach, Has, Listed
      <3> QED
        BY <2>1, <3>1, <3>2 DEF Phase, Early
    <2> QED
      BY <2>2, <2>3
  <1>7. CASE ListFlat(r) \/ ListResidual(r)
    <2>1. /\ pc[r] \in {"list", "partList"} /\ todo'[r] = Segs("flat") /\ UNCHANGED <<got, must>>
          /\ pc'[r] \in {"recheckReplica", "residualRead"}
      BY <1>2, <1>7 DEF ListFlat, ListResidual, ListSegments, At, Goto
    <2>2. got'[r] = {}
      BY <2>1 DEF Phase, Early
    <2>3. \A k \in DOMAIN lines : lines[k].dir = "flat" => lines[k].seg \in todo'[r]
      BY <2>1 DEF Segs, InDir
    <2>4. InReach(r, {"flat"})'
      BY <1>1, <2>3 DEF InReach, Listed
    <2> QED
      BY <2>1, <2>2, <2>4 DEF Phase, Early, FlatOnly
  <1>8. CASE ListReplica(r)
    <2>1. /\ pc[r] = "replicaList" /\ todo'[r] = Segs("part") /\ UNCHANGED <<got, must>>
          /\ pc'[r] = "replicaRead"
      BY <1>2, <1>8 DEF ListReplica, ListSegments, At, Goto
    <2>2. todo[r] = {} /\ InReach(r, {"flat"})
      BY <2>1 DEF Phase, FlatOnly
    <2>3. \A k \in DOMAIN lines : lines[k].dir = "part" => lines[k].seg \in todo'[r]
      BY <2>1 DEF Segs, InDir
    <2>4. \A k \in DOMAIN lines : lines[k].dir = "flat" => ~(\E t \in todo'[r] : lines[k].seg < t)
      BY <1>3, <2>1 DEF Segs, InDir, FrontFirst
    <2>5. InReach(r, Dir)'
      <3>1. ASSUME NEW k \in DOMAIN lines, lines[k].dir = "flat", lines[k].id \in must[r]
            PROVE  lines[k].id \in got[r]
        BY <2>2, <3>1 DEF InReach, Has, Listed
      <3>2. ASSUME NEW j \in DOMAIN lines, NEW k \in DOMAIN lines, lines[j].dir = "flat", j < k,
                   lines[k].id \in got[r]
            PROVE  lines[j].id \in got[r]
        BY <2>2, <3>2 DEF InReach, Has, Listed
      <3> QED
        BY <1>1, <1>3, <1>4, <2>1, <2>3, <2>4, <3>1, <3>2 DEF InReach, Has, Listed
    <2> QED
      BY <2>1, <2>5 DEF Phase, Early, FlatOnly
  <1>9. CASE ReadResidual(r)
    <2>1. PICK s \in Segs("flat") :
              /\ NextSegment(r, s) /\ got'[r] = got[r] \cup WholeIds("flat", s)
              /\ todo'[r] = todo[r] \ {s} /\ must' = must /\ pc' = pc /\ pc[r] = "residualRead"
      BY <1>2, <1>9 DEF ReadResidual, ReadSegment, At
    <2>2. InReach(r, {"flat"})
      BY <2>1 DEF Phase, FlatOnly
    <2>3. InReach(r, {"flat"})'
      <3>1. \A k \in DOMAIN lines :
                lines[k].dir \in {"flat"} /\ lines[k].seg = s /\ lines[k].end = "whole"
                    => lines[k].id \in WholeIds("flat", s)
        BY DEF WholeIds, InDir
      <3>2. \A e \in WholeIds("flat", s) : \E k \in DOMAIN lines : lines[k].id = e /\ lines[k].seg = s
        BY DEF WholeIds, InDir
      <3> QED
        BY <1>1, <2>1, <2>2, <3>1, <3>2, ReachReads
    <2> QED
      BY <2>1, <2>3 DEF Phase, Early, FlatOnly
  <1>10. CASE ReadFlat(r) \/ ReadReplica(r)
    <2>1. PICK d \in Dir, s \in todo[r] :
              /\ s \in Segs(d) /\ NextSegment(r, s)
              /\ got'[r] = got[r] \cup WholeIds(d, s)
              /\ todo'[r] = todo[r] \ {s} /\ must' = must /\ pc' = pc
              /\ \/ pc[r] = "replicaRead"
                 \/ pc[r] = "flatRead" /\ d = "flat"
      <3>1. CASE ReadFlat(r)
        <4>1. pc[r] = "flatRead" /\ ReadSegment(r, "flatRead", "flat")
          BY <3>1 DEF ReadFlat, ReadSegment, At
        <4> QED
          BY <1>2, <1>4, <4>1 DEF ReadSegment, NextSegment
      <3>2. CASE ReadReplica(r)
        <4>1. pc[r] = "replicaRead" /\ ReadSegment(r, "replicaRead", "part")
          BY <3>2 DEF ReadReplica, ReadSegment, At
        <4> QED
          BY <1>2, <1>4, <4>1 DEF ReadSegment, NextSegment
      <3> QED
        BY <1>10, <3>1, <3>2
    <2>2. InReach(r, Dir)
      <3>1. d = "flat" => ~committed
        BY <2>1 DEF IInv, Core, Modes, OnlyIn, Segs, InDir
      <3> QED
        BY <2>1, <3>1 DEF Phase, Overtaken
    <2>3. InReach(r, Dir)'
      <3>1. \A k \in DOMAIN lines : lines[k].seg = s => lines[k].dir = d
        BY <2>1 DEF OneDir, Segs, InDir
      <3>2. \A k \in DOMAIN lines :
                lines[k].dir \in Dir /\ lines[k].seg = s /\ lines[k].end = "whole"
                    => lines[k].id \in WholeIds(d, s)
        BY <3>1 DEF WholeIds, InDir
      <3>3. \A e \in WholeIds(d, s) : \E k \in DOMAIN lines : lines[k].id = e /\ lines[k].seg = s
        BY DEF WholeIds, InDir
      <3>4. /\ lines' = lines /\ must'[r] = must[r] /\ NextSegment(r, s)
            /\ todo'[r] = todo[r] \ {s} /\ got'[r] = got[r] \cup WholeIds(d, s)
        BY <1>1, <2>1
      <3> QED
        BY ONLY IInv, LogInv, Known(r), r \in Reader, <2>2, <3>2, <3>3, <3>4, ReachReads
    <2> QED
      BY <2>1, <2>3 DEF Phase, Early, FlatOnly
  <1>11. CASE FlatVanished(r)
    <2>1. got'[r] = {} /\ pc'[r] = "partList"
      BY <1>2, <1>11 DEF FlatVanished, Goto
    <2> QED
      BY <2>1 DEF Phase, Early, FlatOnly
  <1>12. CASE ResidualVanished(r) \/ SegmentEmptied(r)
    <2>1. PICK s \in todo[r], D \in {{"flat"}, Dir} :
              /\ NextSegment(r, s) /\ \A d \in D : s \notin Segs(d)
              /\ todo'[r] = todo[r] \ {s} /\ got' = got /\ must' = must /\ pc' = pc
              /\ \/ pc[r] = "residualRead" /\ D = {"flat"}
                 \/ pc[r] \in {"flatRead", "replicaRead"} /\ D = Dir
      BY <1>2, <1>12 DEF ResidualVanished, SegmentEmptied, SkipSegment, At
    <2>2. InReach(r, D) => InReach(r, D)'
      <3>1. \A k \in DOMAIN lines : lines[k].dir \in D => lines[k].seg # s
        BY <2>1 DEF Segs, InDir
      <3> DEFINE none == {}
      <3>2. /\ got'[r] = got[r] \cup none
            /\ \A k \in DOMAIN lines :
                  lines[k].dir \in D /\ lines[k].seg = s /\ lines[k].end = "whole" => lines[k].id \in none
            /\ \A e \in none : \E k \in DOMAIN lines : lines[k].id = e /\ lines[k].seg = s
        BY <2>1, <3>1
      <3> HIDE DEF none
      <3>3. /\ lines' = lines /\ must'[r] = must[r] /\ NextSegment(r, s)
            /\ todo'[r] = todo[r] \ {s}
        BY <1>1, <2>1
      <3>4. ASSUME InReach(r, D) PROVE InReach(r, D)'
        BY ONLY IInv, LogInv, Known(r), r \in Reader, <3>2, <3>3, <3>4, ReachReads
      <3> QED
        BY <3>4
    <2>3. Overtaken(r) => Overtaken(r)'
      BY <1>1, <2>1 DEF Overtaken
    <2> QED
      BY <2>1, <2>2, <2>3 DEF Phase, Early, FlatOnly
  <1>13. CASE NothingLeft(r)
    <2>1. /\ UNCHANGED reads /\ todo[r] = {}
          /\ \/ pc[r] \in {"flatRead", "replicaRead"} /\ pc'[r] = "readDone"
             \/ pc[r] = "residualRead" /\ pc'[r] = "replicaList"
      BY <1>2, <1>13 DEF NothingLeft, At, Goto
    <2>2. /\ InReach(r, {"flat"}) => InReach(r, {"flat"})'
          /\ InReach(r, Dir) => InReach(r, Dir)'
          /\ Overtaken(r) => Overtaken(r)'
      BY <1>1, <2>1 DEF InReach, Has, Listed, Overtaken, reads
    <2> QED
      BY <2>1, <2>2 DEF Phase, Early, FlatOnly, reads
  <1> QED
    BY <1>5, <1>6, <1>7, <1>8, <1>9, <1>10, <1>11, <1>12, <1>13 DEF ReadNext

\* In every state of every run.
LEMMA ReadInvariant == Spec => []ReadInv
  <1>1. Init => ReadInv
    <2> SUFFICES ASSUME Init PROVE ReadInv
      OBVIOUS
    <2>1. OneDir /\ FrontFirst /\ straddled = {}
      BY SpineAssumption DEF Init, WellFormed, OneDir, FrontFirst
    <2>2. \A r \in Reader : pc[r] = "readIdle" /\ got[r] = {} /\ must[r] = {} /\ todo[r] = {}
      BY SpineAssumption DEF Init, Process
    <2>3. \A r \in Reader : Known(r) /\ Phase(r)
      BY <2>2 DEF Known, Phase, Early, FlatOnly
    <2> QED
      BY <2>1, <2>3 DEF ReadInv
  <1>2. IInv /\ LogInv /\ SyncInv /\ ReadInv /\ [Next]_vars => ReadInv'
    <2> SUFFICES ASSUME IInv, LogInv, SyncInv, ReadInv, [Next]_vars PROVE ReadInv'
      OBVIOUS
    <2>1. OneDir /\ FrontFirst /\ (straddled # {} => committed)
      BY DEF ReadInv
    <2>2. OneDir' /\ FrontFirst'
      BY <2>1, FrontStays
    <2>3. straddled' # {} => committed'
      BY <2>1, StaysForGood
    <2>4. ASSUME NEW r \in Reader PROVE Known(r)'
      <3>1. Known(r)
        BY DEF ReadInv
      <3> QED
        BY <3>1, RestsKeep, ReaderKnows
    <2>5. ASSUME ~MarkerDropped', NEW r \in Reader, r \notin blind' PROVE Phase(r)'
      <3>1. ~MarkerDropped /\ r \notin blind
        BY <2>5, StaysForGood, BlindStays
      <3>2. Known(r) /\ Phase(r)
        BY <3>1 DEF ReadInv
      <3> QED
        BY <2>1, <2>5, <3>1, <3>2, RestsKeep, ReaderPhase
    <2> QED
      BY <2>2, <2>3, <2>4, <2>5 DEF ReadInv
  <1> QED
    BY <1>1, <1>2, Invariant, LogInvariant, SyncInvariant, PTL DEF Spec

\* For any number of reads, appends, inits and crashes: a read that is done holds every event
\* acknowledged before it began, or an init published between its two last looks; and with an
\* event it holds all before it.  Neither is claimed once an init dropped the marker of a
\* migration, nor of a read whose recheck met the marker of a half-done migration while it was
\* empty.
THEOREM ReadSoundAlways == Spec => []ReadSound
  <1>1. IInv /\ ReadInv => ReadSound
    <2> SUFFICES ASSUME IInv, ReadInv, NEW r \in Reader, pc[r] = "readDone", ~MarkerDropped, r \notin blind
                 PROVE  /\ must[r] \subseteq got[r] \/ r \in straddled
                        /\ \A j, k \in DOMAIN lines :
                              Precedes(j, k) /\ lines[k].id \in got[r] => lines[j].id \in got[r]
      BY DEF ReadSound
    <2>1. Known(r) /\ todo[r] = {} /\ (InReach(r, Dir) \/ Overtaken(r))
      BY DEF ReadInv, Phase
    <2>2. lines \in Seq(Line) /\ Linked /\ \A k \in DOMAIN lines : lines[k].dir \in Dir
      BY LineFields DEF IInv, Types, PcOK, ReadsOK, ConfigOK, Core, Dir
    <2>3. CASE Overtaken(r)
      BY <2>3 DEF Overtaken
    <2>4. CASE InReach(r, Dir)
      <3>1. \A e \in must[r] : e \in got[r]
        BY <2>1, <2>2, <2>4 DEF Known, Stored, InReach, Has, Listed
      <3>2. \A j, k \in DOMAIN lines : j < k /\ lines[k].id \in got[r] => lines[j].id \in got[r]
        BY <2>1, <2>2, <2>4 DEF InReach, Has, Listed
      <3> QED
        BY <2>2, <3>1, <3>2, OrderStored
    <2> QED
      BY <2>1, <2>3, <2>4
  <1> QED
    BY <1>1, Invariant, ReadInvariant, PTL
=============================================================================
