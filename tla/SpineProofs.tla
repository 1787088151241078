------------------------------ MODULE SpineProofs ------------------------------
(***************************************************************************)
(* Proofs about Spine, for any number of writers, inits, stamps and readers *)
(* and any log to begin with: type correctness, that the hash chain is      *)
(* never broken or forked, and that a published sync strands no line.       *)
(***************************************************************************)
EXTENDS Spine, TLAPS

-----------------------------------------------------------------------------
(* Types *)

PcOK ==
    /\ pc \in [Process -> AppendPcs \cup InitPcs \cup StampPcs \cup ReadSteps]
    /\ \A w \in Writer : pc[w] \in AppendPcs
    /\ \A i \in Initer : pc[i] \in InitPcs
    /\ \A s \in Stamper : pc[s] \in StampPcs
    /\ \A r \in Reader : pc[r] \in ReadSteps

LocksOK ==
    /\ flatLock \in Writer \cup Initer \cup {Nobody}
    /\ partLock \in Writer \cup {Nobody}
    /\ initLock \in Initer \cup {Nobody}

ReadsOK ==
    /\ todo \in [Reader -> SUBSET (1..MaxSeg)]
    /\ got \in [Reader -> SUBSET Event]
    /\ must \in [Reader -> SUBSET Event]
    /\ blind \subseteq Reader

ConfigOK ==
    /\ last \in 0..MaxSeg
    /\ marker \in BOOLEAN /\ blank \in BOOLEAN /\ committed \in BOOLEAN /\ peer \in BOOLEAN
    /\ anchorDirs \subseteq Stamper
    /\ dead \subseteq Process /\ straddled \subseteq Process

\* TypeOK in parts, but for the numbers in left, which are Linked's.
Types ==
    /\ lines \in Seq(Line) /\ link \in [Writer -> Event \cup {NoLine}]
    /\ PcOK /\ LocksOK /\ ReadsOK /\ ConfigOK

\* The parts, so that a step need only treat those it disturbs.
LEMMA TypeParts ==
    Types <=> /\ lines \in Seq(Line) /\ link \in [Writer -> Event \cup {NoLine}]
              /\ PcOK /\ LocksOK /\ ReadsOK /\ ConfigOK
  BY Zenon DEF Types

\* The parts, in the next state, make up Types again.
LEMMA TypeAssembles ==
    ASSUME lines' \in Seq(Line), link' \in [Writer -> Event \cup {NoLine}],
           PcOK', LocksOK', ReadsOK', ConfigOK'
    PROVE  Types'
  BY Zenon DEF Types

\* A step that leaves the config files and the crashes alone keeps their types.
LEMMA ConfigSame ==
    ASSUME ConfigOK, UNCHANGED <<last, marker, blank, committed, peer, anchorDirs, dead, straddled>>
    PROVE  ConfigOK'
  BY Zenon DEF ConfigOK

\* A step of anyone but a reader keeps the types of what readers hold.
LEMMA ReadsSame ==
    ASSUME ReadsOK, UNCHANGED reads
    PROVE  ReadsOK'
  BY Zenon DEF ReadsOK, reads

\* A process moves to a step of its own kind.
LEMMA WriterGoes ==
    ASSUME PcOK, NEW w \in Writer, NEW step \in AppendPcs, pc' = [pc EXCEPT ![w] = step]
    PROVE  PcOK'
  BY SpineAssumption DEF PcOK, Process

\* The same of an init.
LEMMA IniterGoes ==
    ASSUME PcOK, NEW i \in Initer, NEW step \in InitPcs, pc' = [pc EXCEPT ![i] = step]
    PROVE  PcOK'
  BY SpineAssumption DEF PcOK, Process

\* The same of a stamp.
LEMMA StamperGoes ==
    ASSUME PcOK, NEW s \in Stamper, NEW step \in StampPcs, pc' = [pc EXCEPT ![s] = step]
    PROVE  PcOK'
  BY SpineAssumption DEF PcOK, Process

\* The same of a read.
LEMMA ReaderGoes ==
    ASSUME PcOK, NEW r \in Reader, NEW step \in ReadSteps, pc' = [pc EXCEPT ![r] = step]
    PROVE  PcOK'
  BY SpineAssumption DEF PcOK, Process

\* The fields of a stored line have their types.
LEMMA LineFields ==
    ASSUME lines \in Seq(Line), NEW k \in DOMAIN lines
    PROVE  /\ lines[k] \in Line /\ lines[k].id \in Event /\ lines[k].prev \in Event \cup {NoLine}
           /\ lines[k].seg \in 1..MaxSeg /\ lines[k].dir \in {"flat", "part"}
           /\ lines[k].end \in {"whole", "torn"}
  <1>1. lines[k] \in Line
    OBVIOUS
  <1> QED
    BY <1>1 DEF Line, Dir

-----------------------------------------------------------------------------
(* The log as one chain *)

\* What the next line stored links to.
LastId   == IF lines = <<>> \/ Len(lines) \in left THEN NoLine ELSE lines[Len(lines)].id
AllWhole == \A k \in DOMAIN lines : lines[k].end = "whole"
OnlyIn(d) == \A k \in DOMAIN lines : lines[k].dir = d

\* The partitions come before the flat stream, and whole ones are left behind.
Ordered ==
    /\ \A j, k \in DOMAIN lines : j < k /\ lines[k].dir = "part" => lines[j].dir = "part"
    /\ left \subseteq DOMAIN lines
    /\ \A n \in left : lines[n].dir = "part" /\ lines[n].end = "whole"

\* Every line links to the one stored before it, but for one that begins a chain behind what was
\* left behind; segments never go back, and only the last line may be torn, in the last segment.
Linked ==
    /\ \A k \in DOMAIN lines :
          \/ lines[k].prev = IF k = 1 THEN NoLine ELSE lines[k - 1].id
          \/ lines[k].prev = NoLine /\ k - 1 \in left
    /\ \A j, k \in DOMAIN lines :
          j < k => lines[j].seg <= lines[k].seg /\ lines[j].end = "whole"
    /\ \A k \in DOMAIN lines :
          lines[k].seg <= last /\ (lines[k].end = "torn" => lines[k].seg = last)
    /\ Ordered

\* In a log whose segments never go back, reading order is the order stored.
LEMMA OrderStored ==
    ASSUME lines \in Seq(Line), Linked, NEW j \in DOMAIN lines, NEW k \in DOMAIN lines
    PROVE  Precedes(j, k) <=> j < k
  <1>1. j \in Nat /\ k \in Nat /\ lines[j].seg \in Int /\ lines[k].seg \in Int
    BY LineFields, SpineAssumption
  <1>2. /\ j < k => lines[j].seg <= lines[k].seg
        /\ k < j => lines[k].seg <= lines[j].seg
    BY DEF Linked
  <1> QED
    BY <1>1, <1>2 DEF Precedes

\* The last of the first n lines, in reading order, is the n-th.
LEMMA LastOfPrefix ==
    ASSUME lines \in Seq(Line), Linked, NEW n \in DOMAIN lines
    PROVE  LastOf(1..n) = n
  <1>1. 1..n \subseteq DOMAIN lines /\ n \in 1..n
    OBVIOUS
  <1>2. \A j, k \in 1..n : Precedes(j, k) <=> j < k
    BY <1>1, OrderStored
  <1>3. \A i \in 1..n : IsLast(i, 1..n) <=> i = n
    BY <1>1, <1>2 DEF IsLast
  <1> QED
    BY <1>1, <1>3 DEF LastOf

\* The same of any lines up to the n-th.
LEMMA LastOfUpTo ==
    ASSUME lines \in Seq(Line), Linked, NEW n \in DOMAIN lines,
           NEW S, n \in S, S \subseteq 1..n
    PROVE  LastOf(S) = n /\ \A i \in S : IsLast(i, S) <=> i = n
  <1>1. 1..n \subseteq DOMAIN lines
    OBVIOUS
  <1>2. \A j, k \in S : Precedes(j, k) <=> j < k
    BY <1>1, OrderStored
  <1>3. \A i \in S : IsLast(i, S) <=> i = n
    BY <1>1, <1>2 DEF IsLast
  <1> QED
    BY <1>3 DEF LastOf, IsLast

\* When all lines are in one directory, the tail read there is the last line, unless that
\* was left behind.
LEMMA TailIsLast ==
    ASSUME lines \in Seq(Line), Linked, NEW d \in Dir, OnlyIn(d)
    PROVE  /\ TailOf(d) = LastId
           /\ TornTail(d) <=> ~AllWhole
  <1>1. InDir(d) = 1..Len(lines) /\ Stream(d) \subseteq 1..Len(lines)
    BY DEF InDir, OnlyIn, Stream
  <1>2. CASE lines = <<>>
    BY <1>1, <1>2 DEF TailOf, TornTail, LastId, AllWhole, Stream
  <1>3. CASE lines # <<>>
    <2>1. Len(lines) \in DOMAIN lines /\ DOMAIN lines = 1..Len(lines) /\ Len(lines) \in Nat
      BY <1>3
    <2>2. Len(lines) \in Left <=> Len(lines) \in left
      BY <2>1 DEF Left, Linked, Ordered
    <2>3. Len(lines) \in left => Stream(d) = {}
      BY <1>1, <2>1 DEF Stream, Left
    <2>4. \A k \in DOMAIN lines : k # Len(lines) => lines[k].end = "whole"
      BY <2>1 DEF Linked
    <2>5. lines[Len(lines)].end \in {"whole", "torn"}
      BY <2>1, LineFields
    <2>6. CASE Len(lines) \in left
      <3>1. AllWhole
        BY <2>4, <2>6 DEF AllWhole, Linked, Ordered
      <3> QED
        BY <2>3, <2>6, <3>1 DEF TailOf, TornTail, LastId
    <2>7. CASE Len(lines) \notin left
      <3>1. Len(lines) \in Stream(d)
        BY <1>1, <2>1, <2>2, <2>7 DEF Stream
      <3>2. /\ LastOf(Stream(d)) = Len(lines)
            /\ \A i \in Stream(d) : IsLast(i, Stream(d)) <=> i = Len(lines)
        BY <1>1, <2>1, <3>1, LastOfUpTo
      <3> QED
        BY <1>3, <2>1, <2>4, <2>5, <2>7, <3>1, <3>2 DEF TailOf, TornTail, LastId, AllWhole
    <2> QED
      BY <2>6, <2>7
  <1> QED
    BY <1>2, <1>3

\* A line stored at the end of a log that is whole and all in one directory.
LEMMA StoreKeeps ==
    ASSUME lines \in Seq(Line), Linked, NEW d \in Dir, OnlyIn(d), AllWhole,
           NEW e \in Event, NEW how \in {"whole", "torn"}, Store(e, d, LastId, how),
           last \in 0..MaxSeg
    PROVE  /\ lines' \in Seq(Line) /\ Linked' /\ OnlyIn(d)' /\ last' \in 0..MaxSeg
           /\ how = "whole" => AllWhole'
           /\ LastId' = e
  <1>1. PICK s \in CurrentSegs : /\ lines' = Append(lines, NewLine(e, d, s, LastId, how))
                                /\ last' = s /\ left' = left
    BY DEF Store
  <1>2. LastId \in Event \cup {NoLine}
    BY LineFields DEF LastId
  <1>3. s \in 1..MaxSeg /\ last <= s /\ last \in Int
    BY SpineAssumption DEF CurrentSegs
  <1> DEFINE new == NewLine(e, d, s, LastId, how)
  <1>4. new \in Line
    BY <1>2, <1>3 DEF NewLine, Line
  <1>5. /\ new.prev = LastId /\ new.seg = s /\ new.dir = d
        /\ new.end = how /\ new.id = e
    BY DEF NewLine
  <1> HIDE DEF new
  <1>6. lines' \in Seq(Line) /\ Len(lines') = Len(lines) + 1
        /\ DOMAIN lines' = DOMAIN lines \cup {Len(lines) + 1}
        /\ lines'[Len(lines) + 1] = new /\ \A k \in DOMAIN lines : lines'[k] = lines[k]
    BY <1>1, <1>4 DEF new
  <1>7. Linked'
    <2>1. \A k \in DOMAIN lines' :
             \/ lines'[k].prev = IF k = 1 THEN NoLine ELSE lines'[k - 1].id
             \/ lines'[k].prev = NoLine /\ k - 1 \in left'
      BY <1>1, <1>5, <1>6 DEF Linked, LastId
    <2>2. \A j, k \in DOMAIN lines' :
             j < k => lines'[j].seg <= lines'[k].seg /\ lines'[j].end = "whole"
      <3>1. \A k \in DOMAIN lines : lines[k].seg <= s
        BY <1>3, LineFields, SpineAssumption DEF Linked
      <3> QED
        BY <1>5, <1>6, <3>1 DEF Linked, AllWhole
    <2>3. \A k \in DOMAIN lines' :
             lines'[k].seg <= last' /\ (lines'[k].end = "torn" => lines'[k].seg = last')
      <3>1. \A k \in DOMAIN lines : lines[k].seg <= s /\ lines[k].end = "whole"
        BY <1>3, LineFields, SpineAssumption DEF Linked, AllWhole
      <3> QED
        BY <1>1, <1>3, <1>5, <1>6, <3>1
    <2>4. Ordered'
      <3>1. \A k \in DOMAIN lines' : lines'[k].dir = d
        BY <1>5, <1>6 DEF OnlyIn
      <3>2. left \subseteq DOMAIN lines /\ \A n \in left : lines[n].dir = "part" /\ lines[n].end = "whole"
        BY DEF Linked, Ordered
      <3> QED
        BY <1>1, <1>6, <3>1, <3>2 DEF Ordered
    <2> QED
      BY <2>1, <2>2, <2>3, <2>4 DEF Linked
  <1>8. Len(lines) + 1 \notin left'
    BY <1>1, <1>6 DEF Linked, Ordered
  <1> QED
    BY <1>1, <1>3, <1>5, <1>6, <1>7, <1>8 DEF OnlyIn, AllWhole, LastId

\* Renaming a segment changes the directory of lines, and nothing else of them.
LEMMA RenameKeeps ==
    ASSUME lines \in Seq(Line), Linked, last' = last /\ left' = left,
           NEW s \in Segs("flat"), \A t \in Segs("flat") : s <= t,
           lines' = [k \in DOMAIN lines |->
                        IF lines[k].seg = s THEN [lines[k] EXCEPT !.dir = "part"] ELSE lines[k]]
    PROVE  lines' \in Seq(Line) /\ Linked'
  <1>1. \A k \in DOMAIN lines :
            lines[k] \in Line /\ [lines[k] EXCEPT !.dir = "part"] \in Line
    <2>1. TAKE k \in DOMAIN lines
    <2>2. lines[k] \in Line
      OBVIOUS
    <2> QED
      BY <2>2 DEF Line, Dir
  <1>2. /\ DOMAIN lines' = DOMAIN lines
        /\ \A k \in DOMAIN lines : /\ lines'[k].prev = lines[k].prev /\ lines'[k].id = lines[k].id
                                   /\ lines'[k].seg = lines[k].seg /\ lines'[k].end = lines[k].end
    BY <1>1 DEF Line
  <1>3. lines' \in Seq(Line)
    <2>1. lines' \in [1..Len(lines) -> Line]
      BY <1>1
    <2> QED
      BY <2>1
  <1>4. \A k \in DOMAIN lines :
           \/ lines'[k].prev = IF k = 1 THEN NoLine ELSE lines'[k - 1].id
           \/ lines'[k].prev = NoLine /\ k - 1 \in left'
    BY <1>2 DEF Linked
  <1>5. \A j, k \in DOMAIN lines :
            j < k => lines'[j].seg <= lines'[k].seg /\ lines'[j].end = "whole"
    BY <1>2 DEF Linked
  <1>6. \A k \in DOMAIN lines :
            lines'[k].seg <= last' /\ (lines'[k].end = "torn" => lines'[k].seg = last')
    BY <1>2 DEF Linked
  <1>7. Ordered'
    <2>1. \A k \in DOMAIN lines :
             lines'[k].dir = IF lines[k].seg = s THEN "part" ELSE lines[k].dir
      BY <1>1 DEF Line
    <2>2. \A j, k \in DOMAIN lines : j < k /\ lines'[k].dir = "part" => lines'[j].dir = "part"
      <3> SUFFICES ASSUME NEW j \in DOMAIN lines, NEW k \in DOMAIN lines, j < k,
                          lines'[k].dir = "part", lines[j].dir # "part"
                   PROVE  lines[j].seg = s
        BY <2>1
      <3>1. lines[j].seg \in Segs("flat") /\ lines[j].seg \in Int /\ lines[k].seg \in Int
        BY LineFields, SpineAssumption DEF Segs, InDir
      <3>2. lines[k].seg = s
        BY <2>1 DEF Linked, Ordered
      <3>3. lines[j].seg <= lines[k].seg /\ s <= lines[j].seg
        BY <3>1 DEF Linked
      <3> QED
        BY <3>1, <3>2, <3>3
    <2>3. left \subseteq DOMAIN lines /\ \A n \in left : lines[n].dir = "part" /\ lines[n].end = "whole"
      BY DEF Linked, Ordered
    <2> QED
      BY <1>2, <2>1, <2>2, <2>3 DEF Ordered
  <1> QED
    BY <1>2, <1>3, <1>4, <1>5, <1>6, <1>7 DEF Linked

\* Without its torn last line the log is one chain still.
LEMMA TrimKeeps ==
    ASSUME lines \in Seq(Line), Linked, UNCHANGED <<last, left>>,
           lines # <<>>, lines[Len(lines)].end = "torn",
           lines' = SubSeq(lines, 1, Len(lines) - 1)
    PROVE  lines' \in Seq(Line) /\ Linked' /\ AllWhole'
  <1>1. /\ lines' \in Seq(Line) /\ DOMAIN lines' = DOMAIN lines \ {Len(lines)}
        /\ Len(lines) \in DOMAIN lines
        /\ \A k \in DOMAIN lines' : lines'[k] = lines[k] /\ (k # 1 => k - 1 \in DOMAIN lines')
    OBVIOUS
  <1>2. Len(lines) \notin left
    BY DEF Linked, Ordered
  <1>3. Ordered'
    BY <1>1, <1>2 DEF Linked, Ordered
  <1>4. Linked'
    BY <1>1, <1>3 DEF Linked
  <1>5. AllWhole'
    BY <1>1 DEF Linked, AllWhole
  <1> QED
    BY <1>1, <1>4, <1>5

\* A partition is left behind: all of it is whole, and no line changes its directory.
LEMMA LeaveKeeps ==
    ASSUME lines \in Seq(Line), Linked, LeavesBehind, last' = last
    PROVE  /\ lines' \in Seq(Line) /\ Linked'
           /\ \A d \in Dir : OnlyIn(d) => OnlyIn(d)'
           /\ \A d \in Dir : InDir(d) = {} => InDir(d)' = {}
  <1>1. /\ lines' \in Seq(Line) /\ DOMAIN lines' = 1..Len(lines') /\ Len(lines') \in Nat
        /\ DOMAIN lines' \subseteq DOMAIN lines
        /\ \A k \in DOMAIN lines' : lines'[k] = lines[k] /\ \A j \in DOMAIN lines : j < k => j \in DOMAIN lines'
        /\ DOMAIN lines \subseteq DOMAIN lines' \cup {Len(lines)}
    BY DEF LeavesBehind, TornTail
  <1>2. ASSUME TornTail("part")
        PROVE  lines[Len(lines)].end = "torn" /\ Len(lines') = Len(lines) - 1 /\ Len(lines) \in DOMAIN lines
    <2>1. PICK i \in Stream("part") : lines[i].end = "torn"
      BY <1>2 DEF TornTail
    <2>2. i \in DOMAIN lines /\ i \in 1..Len(lines) /\ Len(lines) \in Nat
      BY <2>1 DEF Stream, InDir
    <2>3. i = Len(lines)
      BY <2>1, <2>2 DEF Linked
    <2> QED
      BY <1>2, <2>1, <2>2, <2>3 DEF LeavesBehind
  <1>3. ASSUME NEW n \in Border(lines')
        PROVE  n \in DOMAIN lines' /\ lines'[n].dir = "part" /\ lines'[n].end = "whole"
    <2>1. n \in DOMAIN lines' /\ lines'[n].dir = "part"
      BY DEF Border
    <2>2. n \in DOMAIN lines /\ lines'[n] = lines[n] /\ n \in 1..Len(lines) /\ Len(lines) \in Nat
      BY <1>1, <2>1
    <2>3. CASE n # Len(lines)
      BY <2>1, <2>2, <2>3 DEF Linked
    <2>4. CASE n = Len(lines) /\ n \in Left
      <3>1. n \in left
        BY <2>2, <2>4 DEF Left, Linked, Ordered
      <3> QED
        BY <2>1, <2>2, <3>1 DEF Linked, Ordered
    <2>5. CASE n = Len(lines) /\ n \notin Left
      <3>1. n \in Stream("part") /\ Stream("part") \subseteq 1..n
        BY <2>1, <2>2, <2>5 DEF Stream, InDir
      <3>2. IsLast(n, Stream("part"))
        BY <2>2, <3>1, LastOfUpTo
      <3>3. ~TornTail("part")
        BY <1>1, <1>2, <2>1, <2>5
      <3>4. lines[n].end # "torn" /\ lines[n].end \in {"whole", "torn"}
        BY <2>2, <3>1, <3>2, <3>3, LineFields DEF TornTail
      <3> QED
        BY <2>1, <2>2, <3>4
    <2> QED
      BY <2>3, <2>4, <2>5
  <1>4. \A n \in left : n \in DOMAIN lines' /\ lines[n].dir = "part" /\ lines[n].end = "whole"
    <2> SUFFICES ASSUME NEW n \in left
                 PROVE  n \in DOMAIN lines' /\ lines[n].dir = "part" /\ lines[n].end = "whole"
      OBVIOUS
    <2>1. n \in DOMAIN lines /\ lines[n].dir = "part" /\ lines[n].end = "whole"
      BY DEF Linked, Ordered
    <2>2. CASE TornTail("part")
      BY <1>1, <1>2, <2>1, <2>2
    <2>3. CASE ~TornTail("part")
      BY <2>1, <2>3 DEF LeavesBehind
    <2> QED
      BY <2>1, <2>2, <2>3
  <1>5. left' = left \cup Border(lines')
    BY DEF LeavesBehind
  <1>6. Ordered'
    <2>1. \A j, k \in DOMAIN lines' : j < k /\ lines'[k].dir = "part" => lines'[j].dir = "part"
      BY <1>1 DEF Linked, Ordered
    <2>2. left' \subseteq DOMAIN lines' /\ \A n \in left' : lines'[n].dir = "part" /\ lines'[n].end = "whole"
      BY <1>1, <1>3, <1>4, <1>5
    <2> QED
      BY <2>1, <2>2 DEF Ordered
  <1>7. Linked'
    <2>1. \A k \in DOMAIN lines' :
             \/ lines'[k].prev = IF k = 1 THEN NoLine ELSE lines'[k - 1].id
             \/ lines'[k].prev = NoLine /\ k - 1 \in left'
      <3> SUFFICES ASSUME NEW k \in DOMAIN lines'
                   PROVE  \/ lines'[k].prev = IF k = 1 THEN NoLine ELSE lines'[k - 1].id
                          \/ lines'[k].prev = NoLine /\ k - 1 \in left'
        OBVIOUS
      <3>1. k \in DOMAIN lines /\ lines'[k] = lines[k] /\ (k # 1 => lines'[k - 1] = lines[k - 1])
        BY <1>1
      <3> QED
        BY <1>5, <3>1 DEF Linked
    <2> QED
      BY <1>1, <1>6, <2>1 DEF Linked
  <1> QED
    BY <1>1, <1>7 DEF OnlyIn, InDir

\* The operator's repair of a torn tail, either way.
LEMMA RepairKeeps ==
    ASSUME lines \in Seq(Line), Linked, OperatorTrims \/ OperatorEnds
    PROVE  /\ lines' \in Seq(Line) /\ Linked' /\ ~AllWhole
           /\ \A d \in Dir : OnlyIn(d) => OnlyIn(d)'
           /\ \A d \in Dir : InDir(d) = {} => InDir(d)' = {}
  <1>1. lines # <<>> /\ lines[Len(lines)].end = "torn" /\ Len(lines) \in DOMAIN lines
    BY DEF OperatorTrims, OperatorEnds
  <1>2. ~AllWhole
    BY <1>1 DEF AllWhole
  <1>3. CASE OperatorTrims
    <2>1. /\ lines' \in Seq(Line) /\ DOMAIN lines' \subseteq DOMAIN lines
          /\ \A k \in DOMAIN lines' : lines'[k] = lines[k] /\ (k # 1 => k - 1 \in DOMAIN lines')
      BY <1>1, <1>3 DEF OperatorTrims
    <2>2. last' = last /\ left' = left
      BY <1>3 DEF OperatorTrims
    <2>3. Linked'
      BY <1>1, <1>3, <2>2, TrimKeeps DEF OperatorTrims
    <2> QED
      BY <1>2, <2>1, <2>3 DEF OnlyIn, InDir
  <1>4. CASE OperatorEnds
    <2>1. [lines[Len(lines)] EXCEPT !.end = "whole"] \in Line
      <3>1. lines[Len(lines)] \in Line
        BY <1>1
      <3> QED
        BY <3>1 DEF Line
    <2>2. lines' = [lines EXCEPT ![Len(lines)] = [lines[Len(lines)] EXCEPT !.end = "whole"]]
      BY <1>4 DEF OperatorEnds
    <2>3. /\ lines' \in Seq(Line) /\ DOMAIN lines' = DOMAIN lines
          /\ \A k \in DOMAIN lines : k # Len(lines) => lines'[k] = lines[k]
          /\ lines'[Len(lines)] = [lines[Len(lines)] EXCEPT !.end = "whole"]
      BY <1>1, <2>1, <2>2
    <2>4. \A k \in DOMAIN lines : /\ lines'[k].prev = lines[k].prev /\ lines'[k].id = lines[k].id
                                  /\ lines'[k].seg = lines[k].seg /\ lines'[k].dir = lines[k].dir
      <3>1. lines[Len(lines)] \in Line
        BY <1>1
      <3> QED
        BY <1>1, <2>3, <3>1 DEF Line
    <2>5. \A k \in DOMAIN lines : lines[k].end = "whole" => lines'[k].end = "whole"
      BY <1>1, <2>3
    <2>6. last' = last /\ left' = left
      BY <1>4 DEF OperatorEnds
    <2>7. \A k \in DOMAIN lines : lines'[k].end = "torn" => lines[k].end = "torn"
      BY <1>1, <2>3
    <2>8. Linked'
      <3>1. Ordered'
        BY <2>3, <2>4, <2>5, <2>6 DEF Linked, Ordered
      <3> QED
        BY <2>3, <2>4, <2>5, <2>6, <2>7, <3>1 DEF Linked
    <2> QED
      BY <1>2, <2>3, <2>4, <2>8 DEF OnlyIn, InDir
  <1> QED
    BY <1>3, <1>4

-----------------------------------------------------------------------------
(* The inductive invariant: who holds which lock where, which directory the  *)
(* lines are in where, and what a writer is about to link to.                *)

Migrating == {"mark", "fill", "recheck", "migrate", "seed", "anchor", "publish", "unmark"}
Inside    == Migrating \cup {"initCheck", "initFlatWait"}

Held ==
    /\ \A w \in Writer \ dead :
          /\ pc[w] \in {"flat", "flatLinked"} => flatLock = w
          /\ pc[w] \in {"part", "partLinked"} => partLock = w
    /\ \A i \in Initer \ dead :
          /\ pc[i] \in Migrating => flatLock = i
          /\ pc[i] \in Inside => initLock = i

Modes ==
    /\ \A w \in Writer : pc[w] \in {"partWait", "part", "partLinked"} => committed
    /\ \A w \in Writer \ dead : pc[w] = "flatLinked" => ~committed /\ OnlyIn("flat")
    /\ \A i \in Initer \ dead :
          /\ pc[i] \in Inside \ {"initCheck", "unmark"} => ~committed
          /\ pc[i] \in {"seed", "anchor", "publish"} => OnlyIn("part")
    /\ committed => OnlyIn("part")

Pending ==
    \A w \in Writer \ dead :
        pc[w] \in {"flatLinked", "partLinked"} => link[w] = LastId /\ AllWhole

Core == Linked /\ Held /\ Modes /\ Pending

IInv == Types /\ Core

\* What is said of the log alone holds as long as no line is touched.
LEMMA SameLines ==
    ASSUME lines' = lines, last' = last /\ left' = left
    PROVE  /\ Linked' <=> Linked
           /\ \A d : OnlyIn(d)' <=> OnlyIn(d)
           /\ LastId' = LastId /\ (AllWhole' <=> AllWhole)
  BY DEF Linked, Ordered, OnlyIn, LastId, AllWhole

\* A step of a writer that stores nothing and ends outside of its locks.
LEMMA WriterRests ==
    ASSUME Core, PcOK, NEW w \in Writer, NEW to,
           to \notin {"flat", "flatLinked", "part", "partLinked"},
           to = "partWait" => committed,
           pc' = [pc EXCEPT ![w] = to],
           flatLock' \in {flatLock, Released(flatLock, w)},
           partLock' \in {partLock, Released(partLock, w)},
           UNCHANGED <<store, initLock, dead, link>>
    PROVE  Core'
  <1>1. /\ lines' = lines /\ last' = last /\ left' = left /\ committed' = committed /\ dead' = dead
        /\ initLock' = initLock /\ link' = link
    BY DEF store, segments, config
  <1>2. pc'[w] = to /\ \A p \in Process : p # w => pc'[p] = pc[p]
    BY DEF PcOK, Process
  <1>3. /\ w \notin Initer /\ \A v \in Writer \cup Initer : v \in Process
    BY SpineAssumption DEF Process
  <1>4. \A p \in Process : p # w => /\ flatLock = p => flatLock' = p
                                    /\ partLock = p => partLock' = p
    BY DEF Released
  <1>5. Linked' /\ (\A d : OnlyIn(d)' <=> OnlyIn(d)) /\ LastId' = LastId /\ (AllWhole' <=> AllWhole)
    BY <1>1, SameLines DEF Core
  <1>6. Held'
    BY <1>1, <1>2, <1>3, <1>4 DEF Core, Held, Migrating, Inside
  <1>7. Modes'
    BY <1>1, <1>2, <1>3, <1>5 DEF Core, Modes, Inside, Migrating
  <1>8. Pending'
    BY <1>1, <1>2, <1>3, <1>5 DEF Core, Pending
  <1> QED
    BY <1>5, <1>6, <1>7, <1>8 DEF Core

\* A step of an init that stores nothing and leaves replica.json alone.
LEMMA IniterRests ==
    ASSUME Core, PcOK, NEW i \in Initer, i \notin dead, NEW to,
           pc' = [pc EXCEPT ![i] = to],
           flatLock' \in {flatLock, Released(flatLock, i)}, UNCHANGED partLock,
           initLock' \in {initLock, Released(initLock, i)},
           UNCHANGED <<lines, last, left, committed, dead, link>>,
           to \in Migrating => flatLock' = i,
           to \in Inside => initLock' = i,
           to \in Inside \ {"initCheck", "unmark"} => ~committed,
           to \in {"seed", "anchor", "publish"} => OnlyIn("part")
    PROVE  Core'
  <1>2. pc'[i] = to /\ \A p \in Process : p # i => pc'[p] = pc[p]
    BY DEF PcOK, Process
  <1>3. /\ i \notin Writer /\ \A v \in Writer \cup Initer : v \in Process
    BY SpineAssumption DEF Process
  <1>4. \A p \in Process : p # i => /\ flatLock = p => flatLock' = p
                                    /\ initLock = p => initLock' = p
    BY DEF Released
  <1>5. Linked' /\ (\A d : OnlyIn(d)' <=> OnlyIn(d)) /\ LastId' = LastId /\ (AllWhole' <=> AllWhole)
    BY SameLines DEF Core
  <1>6. Held'
    BY <1>2, <1>3, <1>4 DEF Core, Held, Migrating, Inside
  <1>7. Modes'
    BY <1>2, <1>3, <1>5 DEF Core, Modes, Inside, Migrating
  <1>8. Pending'
    BY <1>2, <1>3, <1>5 DEF Core, Pending
  <1> QED
    BY <1>5, <1>6, <1>7, <1>8 DEF Core

\* A step of a stamp or of a reader.
LEMMA OthersRest ==
    ASSUME Core, PcOK, NEW p \in Stamper \cup Reader, NEW to,
           pc' = [pc EXCEPT ![p] = to] \/ pc' = pc,
           UNCHANGED <<lines, last, left, committed, locks, dead, link>>
    PROVE  Core'
  <1>1. flatLock' = flatLock /\ partLock' = partLock /\ initLock' = initLock
    BY DEF locks
  <1>2. \A q \in Writer \cup Initer : pc'[q] = pc[q]
    BY SpineAssumption DEF PcOK, Process
  <1>5. Linked' /\ (\A d : OnlyIn(d)' <=> OnlyIn(d)) /\ LastId' = LastId /\ (AllWhole' <=> AllWhole)
    BY SameLines DEF Core
  <1>6. Held'
    BY <1>1, <1>2 DEF Core, Held, Migrating, Inside
  <1>7. Modes'
    BY <1>2, <1>5 DEF Core, Modes, Inside, Migrating
  <1>8. Pending'
    BY <1>2, <1>5 DEF Core, Pending
  <1> QED
    BY <1>5, <1>6, <1>7, <1>8 DEF Core

-----------------------------------------------------------------------------
(* append() *)

\* Where a quiet step of append() leads, and what it may change.
WriterTargets == AppendPcs \ {"flat", "flatLinked", "part", "partLinked"}

Quiet(w, to) ==
    /\ to \in WriterTargets
    /\ to = "partWait" => committed
    /\ pc' = [pc EXCEPT ![w] = to]
    /\ flatLock' \in {flatLock, Released(flatLock, w)}
    /\ partLock' \in {partLock, Released(partLock, w)}
    /\ UNCHANGED <<store, initLock, dead, straddled, link, reads>>

\* A quiet step of append() keeps the invariant.
LEMMA QuietWriter ==
    ASSUME IInv, NEW w \in Writer, NEW to, Quiet(w, to)
    PROVE  IInv'
  <1>1. PcOK'
    BY WriterGoes, TypeParts DEF IInv, WriterTargets, Quiet
  <1>2. LocksOK'
    BY TypeParts DEF IInv, LocksOK, Released, Quiet
  <1>3. ConfigOK' /\ ReadsOK' /\ lines' = lines /\ link' = link
    BY TypeParts, Zenon DEF IInv, ConfigOK, ReadsOK, store, segments, config, reads, Quiet
  <1>4. Types'
    <2>1. lines' \in Seq(Line) /\ link' \in [Writer -> Event \cup {NoLine}]
      BY <1>3, TypeParts DEF IInv
    <2> QED
      BY <1>1, <1>2, <1>3, <2>1, Zenon DEF Types
  <1>5. Core'
    BY WriterRests, TypeParts DEF IInv, WriterTargets, Quiet
  <1> QED
    BY <1>4, <1>5 DEF IInv

\* The resolves, the polls, the refusals and the returns of append() are quiet.
LEMMA QuietAppendStep ==
    ASSUME IInv, NEW w \in Writer, UNCHANGED <<link, reads>>,
           \/ AppendStart(w) \/ ReadCommitted(w) \/ ProbeMarker(w) \/ ProbeMode(w)
           \/ PollCommitted(w) \/ PollMarker(w) \/ PollTimesOut(w) \/ Recommit(w)
           \/ GiveUp(w) \/ FlatHandsBack(w) \/ PartRefuses(w) \/ AppendReturns(w)
    PROVE  \E to \in WriterTargets : Quiet(w, to)
  <1> USE DEF Quiet, WriterTargets, AppendPcs, AppendSteps, Refusals, Goto, locks
  <1>1. CASE AppendStart(w)
    <2>1. Quiet(w, "resolve")
      BY <1>1 DEF AppendStart
    <2> QED
      BY <2>1
  <1>2. CASE ReadCommitted(w)
    <2>1. Quiet(w, "partWait") \/ Quiet(w, "probe")
      BY <1>2 DEF ReadCommitted
    <2> QED
      BY <2>1
  <1>3. CASE ProbeMarker(w)
    <2>1. Quiet(w, "poll") \/ Quiet(w, "mode")
      BY <1>3 DEF ProbeMarker
    <2> QED
      BY <2>1
  <1>4. CASE ProbeMode(w)
    <2>1. Quiet(w, "unattached") \/ Quiet(w, "flatWait")
      BY <1>4 DEF ProbeMode
    <2> QED
      BY <2>1
  <1>5. CASE PollCommitted(w)
    <2>1. Quiet(w, "partWait") \/ Quiet(w, "pollMarker")
      BY <1>5 DEF PollCommitted
    <2> QED
      BY <2>1
  <1>6. CASE PollMarker(w)
    <2>1. Quiet(w, "poll") \/ Quiet(w, "recommit")
      BY <1>6 DEF PollMarker
    <2> QED
      BY <2>1
  <1>7. CASE PollTimesOut(w)
    <2>1. Quiet(w, "stalled")
      BY <1>7 DEF PollTimesOut
    <2> QED
      BY <2>1
  <1>8. CASE Recommit(w)
    <2>1. Quiet(w, "partWait") \/ Quiet(w, "flatWait")
      BY <1>8 DEF Recommit
    <2> QED
      BY <2>1
  <1>9. CASE GiveUp(w)
    <2>1. Quiet(w, "busy")
      BY <1>9 DEF GiveUp
    <2> QED
      BY <2>1
  <1>10. CASE FlatHandsBack(w)
    <2>1. Quiet(w, "partWait") \/ Quiet(w, "resolve") \/ Quiet(w, "unattached") \/ Quiet(w, "tornTail")
      BY <1>10 DEF FlatHandsBack, Leave
    <2> QED
      BY <2>1
  <1>11. CASE PartRefuses(w)
    <2>1. Quiet(w, "tornTail")
      BY <1>11 DEF PartRefuses, Leave
    <2> QED
      BY <2>1
  <1>12. CASE AppendReturns(w)
    <2>1. Quiet(w, "acked") \/ Quiet(w, "writeError")
      BY <1>12 DEF AppendReturns, Leave
    <2> QED
      BY <2>1
  <1> QED
    BY <1>1, <1>2, <1>3, <1>4, <1>5, <1>6, <1>7, <1>8, <1>9, <1>10, <1>11, <1>12

\* A lock is taken by one process only: whoever lives and held it lost nothing.
LEMMA LockStep ==
    ASSUME IInv, NEW w \in Writer, UNCHANGED <<link, reads>>, LockFlat(w) \/ LockPart(w)
    PROVE  IInv'
  <1> USE DEF LockFlat, LockPart, At, Goto, Free
  <1>1. /\ lines' = lines /\ committed' = committed /\ dead' = dead /\ link' = link
        /\ initLock' = initLock /\ marker' = marker /\ blank' = blank /\ peer' = peer
        /\ anchorDirs' = anchorDirs /\ straddled' = straddled
        /\ last' = last /\ left' = left
    BY DEF store, segments, config
  <1>2. PICK to \in {"flat", "part"} :
            /\ pc' = [pc EXCEPT ![w] = to]
            /\ to = "flat" => flatLock' = w /\ Free(flatLock) /\ partLock' = partLock
            /\ to = "part" => /\ partLock' = w /\ Free(partLock) /\ flatLock' = flatLock
                              /\ pc[w] = "partWait"
    OBVIOUS
  <1>3. Types'
    <2>1. PcOK'
      <3>1. to \in AppendPcs
        BY DEF AppendPcs, AppendSteps
      <3> QED
        BY <1>2, <3>1, WriterGoes, TypeParts DEF IInv
    <2>2. LocksOK'
      BY <1>1, TypeParts DEF IInv, LocksOK
    <2>3. ConfigOK' /\ ReadsOK'
      BY <1>1, TypeParts, ConfigSame, ReadsSame DEF IInv
    <2> QED
      BY <1>1, <2>1, <2>2, <2>3, TypeParts, TypeAssembles DEF IInv
  <1>4. pc'[w] = to /\ \A p \in Process : p # w => pc'[p] = pc[p]
    BY <1>2, TypeParts DEF IInv, PcOK, Process
  <1>5. /\ w \notin Initer /\ \A v \in Writer \cup Initer : v \in Process /\ v # Nobody
    BY SpineAssumption DEF Process
  <1>6. Linked' /\ (\A d : OnlyIn(d)' <=> OnlyIn(d)) /\ LastId' = LastId /\ (AllWhole' <=> AllWhole)
    BY <1>1, SameLines DEF IInv, Core
  <1>7. Held'
    BY <1>1, <1>2, <1>4, <1>5 DEF IInv, Core, Held, Migrating, Inside
  <1>8. Modes'
    <2>1. to = "part" => committed
      BY <1>2 DEF IInv, Core, Modes
    <2> QED
      BY <1>1, <1>2, <1>4, <1>5, <1>6, <2>1 DEF IInv, Core, Modes, Inside, Migrating
  <1>9. Pending'
    BY <1>1, <1>2, <1>4, <1>5, <1>6 DEF IInv, Core, Pending
  <1> QED
    BY <1>3, <1>6, <1>7, <1>8, <1>9 DEF IInv, Core

\* The tail is read: under the lock, with all lines in one directory.
LEMMA LinkStep ==
    ASSUME IInv, NEW w \in Writer, UNCHANGED reads, FlatLinks(w) \/ PartLinks(w)
    PROVE  IInv'
  <1> USE DEF FlatLinks, PartLinks, Links, At, Goto
  <1>1. /\ lines' = lines /\ committed' = committed /\ dead' = dead
        /\ initLock' = initLock /\ flatLock' = flatLock /\ partLock' = partLock
        /\ marker' = marker /\ blank' = blank /\ peer' = peer /\ anchorDirs' = anchorDirs /\ straddled' = straddled
        /\ last' = last /\ left' = left
    BY DEF store, segments, config, locks
  <1>2. PICK d \in Dir, to \in {"flatLinked", "partLinked"} :
            /\ pc' = [pc EXCEPT ![w] = to] /\ link' = [link EXCEPT ![w] = TailOf(d)]
            /\ ~TornTail(d)
            /\ d = "flat" <=> to = "flatLinked"
            /\ d = "flat" => pc[w] = "flat" /\ FlatMayWrite
            /\ d = "part" => pc[w] = "part"
    BY DEF Dir
  <1>3. d \in {"flat", "part"} /\ w \notin dead
    BY DEF Dir
  <1>4. lines \in Seq(Line) /\ Linked
    BY TypeParts DEF IInv, Core
  <1>5. OnlyIn(d)
    <2>1. CASE d = "flat"
      <3>1. InDir("part") = {}
        BY <1>2, <2>1 DEF FlatMayWrite, ModePartitioned
      <3> QED
        BY <1>4, <2>1, <3>1, LineFields DEF InDir, OnlyIn
    <2>2. CASE d = "part"
      BY <1>2, <2>2, SpineAssumption DEF IInv, Core, Modes
    <2> QED
      BY <1>3, <2>1, <2>2
  <1>6. TailOf(d) = LastId /\ AllWhole
    BY <1>2, <1>4, <1>5, TailIsLast
  <1>7. Types'
    <2>1. PcOK'
      <3>1. to \in AppendPcs
        BY DEF AppendPcs, AppendSteps
      <3> QED
        BY <1>2, <3>1, WriterGoes, TypeParts DEF IInv
    <2>2. LocksOK'
      BY <1>1, TypeParts DEF IInv, LocksOK
    <2>3. ConfigOK' /\ ReadsOK'
      BY <1>1, TypeParts, ConfigSame, ReadsSame DEF IInv
    <2>4. LastId \in Event \cup {NoLine}
      BY <1>4, LineFields DEF LastId
    <2>5. link' \in [Writer -> Event \cup {NoLine}]
      BY <1>2, <1>6, <2>4, TypeParts DEF IInv
    <2> QED
      BY <1>1, <1>4, <2>1, <2>2, <2>3, <2>5, TypeAssembles
  <1>8. /\ pc'[w] = to /\ \A p \in Process : p # w => pc'[p] = pc[p]
        /\ link'[w] = LastId /\ \A v \in Writer : v # w => link'[v] = link[v]
    BY <1>2, <1>6, TypeParts DEF IInv, PcOK, Process
  <1>9. /\ w \notin Initer /\ \A v \in Writer \cup Initer : v \in Process
    BY SpineAssumption DEF Process
  <1>10. Linked' /\ (\A e : OnlyIn(e)' <=> OnlyIn(e)) /\ LastId' = LastId /\ (AllWhole' <=> AllWhole)
    BY <1>1, SameLines DEF IInv, Core
  <1>11. Held'
    BY <1>1, <1>2, <1>3, <1>8, <1>9 DEF IInv, Core, Held, Migrating, Inside
  <1>12. Modes'
    <2>1. to = "flatLinked" => ~committed /\ OnlyIn("flat")
      BY <1>2, <1>5 DEF FlatMayWrite
    <2>2. to = "partLinked" => committed
      BY <1>2, <1>3, SpineAssumption DEF IInv, Core, Modes
    <2> QED
      BY <1>1, <1>2, <1>8, <1>9, <1>10, <2>1, <2>2 DEF IInv, Core, Modes, Inside, Migrating
  <1>13. Pending'
    BY <1>1, <1>6, <1>8, <1>9, <1>10 DEF IInv, Core, Pending
  <1> QED
    BY <1>7, <1>10, <1>11, <1>12, <1>13 DEF IInv, Core

\* The line is stored: nobody else was about to link to the same one.
LEMMA WriteStep ==
    ASSUME IInv, NEW w \in Writer, UNCHANGED reads, FlatWrites(w) \/ PartWrites(w)
    PROVE  IInv'
  <1> USE DEF FlatWrites, PartWrites, Writes, At, Goto
  <1>1. /\ committed' = committed /\ dead' = dead
        /\ initLock' = initLock /\ flatLock' = flatLock /\ partLock' = partLock
        /\ marker' = marker /\ blank' = blank /\ peer' = peer /\ anchorDirs' = anchorDirs /\ straddled' = straddled
    BY DEF locks, segments, config
  <1>2. PICK d \in Dir, how \in {"whole", "torn"}, to \in {"written", "broken"} :
            /\ Store(w, d, link[w], how)
            /\ pc' = [pc EXCEPT ![w] = to] /\ link' = [link EXCEPT ![w] = NoLine]
            /\ d = "flat" => pc[w] = "flatLinked"
            /\ d = "part" => pc[w] = "partLinked"
    BY DEF Dir
  <1>3. d \in {"flat", "part"} /\ w \notin dead
    BY DEF Dir
  <1>4. lines \in Seq(Line) /\ Linked /\ w \in Event /\ last \in 0..MaxSeg
    BY TypeParts DEF IInv, Core, Event, ConfigOK
  <1>5. link[w] = LastId /\ AllWhole
    BY <1>2, <1>3 DEF IInv, Core, Pending
  <1>6. OnlyIn(d)
    BY <1>2, <1>3 DEF IInv, Core, Modes
  <1>7. last' \in 0..MaxSeg /\ lines' \in Seq(Line) /\ Linked' /\ OnlyIn(d)'
    BY <1>2, <1>4, <1>5, <1>6, StoreKeeps
  <1>8. Types'
    <2>1. PcOK'
      <3>1. to \in AppendPcs
        BY DEF AppendPcs, AppendSteps
      <3> QED
        BY <1>2, <3>1, WriterGoes, TypeParts DEF IInv
    <2>2. LocksOK'
      BY <1>1, TypeParts DEF IInv, LocksOK
    <2>3. ConfigOK' /\ ReadsOK'
      BY <1>1, <1>7, TypeParts, ReadsSame, Zenon DEF IInv, ConfigOK
    <2>4. link' \in [Writer -> Event \cup {NoLine}]
      BY <1>2, TypeParts DEF IInv
    <2> QED
      BY <1>7, <2>1, <2>2, <2>3, <2>4, TypeAssembles
  <1>9. /\ pc'[w] = to /\ \A p \in Process : p # w => pc'[p] = pc[p]
        /\ \A v \in Writer : v # w => link'[v] = link[v]
    BY <1>2, TypeParts DEF IInv, PcOK, Process
  <1>10. /\ w \notin Initer /\ \A v \in Writer \cup Initer : v \in Process
    BY SpineAssumption DEF Process
  <1>11. Held'
    BY <1>1, <1>2, <1>9, <1>10 DEF IInv, Core, Held, Migrating, Inside
  \* Nobody else who lives is between its tail read and its write, and no init is
  \* past its migration.
  <1>12. \A v \in Writer \ dead : v # w => pc[v] \notin {"flatLinked", "partLinked"}
    <2>1. CASE d = "flat"
      BY <1>2, <1>3, <2>1 DEF IInv, Core, Held, Modes
    <2>2. CASE d = "part"
      BY <1>2, <1>3, <2>2 DEF IInv, Core, Held, Modes
    <2> QED
      BY <1>3, <2>1, <2>2
  <1>13. \A i \in Initer \ dead : pc[i] \notin {"seed", "anchor", "publish"}
    <2>1. CASE d = "flat"
      BY <1>2, <1>3, <1>10, <2>1 DEF IInv, Core, Held, Migrating
    <2>2. CASE d = "part"
      BY <1>2, <1>3, <2>2 DEF IInv, Core, Modes, Inside, Migrating
    <2> QED
      BY <1>3, <2>1, <2>2
  <1>14. committed => d = "part"
    BY <1>2, <1>3 DEF IInv, Core, Modes
  <1>15. Modes'
    BY <1>1, <1>2, <1>7, <1>9, <1>10, <1>12, <1>13, <1>14
       DEF IInv, Core, Modes, Inside, Migrating
  <1>16. Pending'
    BY <1>1, <1>2, <1>9, <1>10, <1>12 DEF IInv, Core, Pending
  <1> QED
    BY <1>7, <1>8, <1>11, <1>15, <1>16 DEF IInv, Core

\* Every step of append() keeps the invariant.
LEMMA AppendStep ==
    ASSUME IInv, NEW w \in Writer, AppendNext(w), UNCHANGED reads
    PROVE  IInv'
  <1>1. CASE LockFlat(w) /\ UNCHANGED link
    BY <1>1, LockStep
  <1>2. CASE LockPart(w) /\ UNCHANGED link
    BY <1>2, LockStep
  <1>3. CASE FlatLinks(w) \/ PartLinks(w)
    BY <1>3, LinkStep
  <1>4. CASE FlatWrites(w) \/ PartWrites(w)
    BY <1>4, WriteStep
  <1>5. CASE /\ \/ AppendStart(w) \/ ReadCommitted(w) \/ ProbeMarker(w) \/ ProbeMode(w)
                \/ PollCommitted(w) \/ PollMarker(w) \/ PollTimesOut(w) \/ Recommit(w)
                \/ GiveUp(w) \/ FlatHandsBack(w) \/ PartRefuses(w) \/ AppendReturns(w)
             /\ UNCHANGED link
    <2>1. \E to \in WriterTargets : Quiet(w, to)
      BY <1>5, QuietAppendStep
    <2> QED
      BY <2>1, QuietWriter
  <1> QED
    BY <1>1, <1>2, <1>3, <1>4, <1>5 DEF AppendNext

-----------------------------------------------------------------------------
(* sync init *)

\* A quiet step of an init: it touches neither a line nor replica.json.
InitQuiet(i, to) ==
    /\ i \notin dead
    /\ to \in InitPcs
    /\ pc' = [pc EXCEPT ![i] = to]
    /\ flatLock' \in {flatLock, Released(flatLock, i)}
    /\ initLock' \in {initLock, Released(initLock, i)}
    /\ to \in Migrating => flatLock' = i
    /\ to \in Inside => initLock' = i
    /\ to \in Inside \ {"initCheck", "unmark"} => ~committed
    /\ to \in {"seed", "anchor", "publish"} => OnlyIn("part")
    /\ marker' \in BOOLEAN /\ blank' \in BOOLEAN
    /\ straddled' \subseteq Process
    /\ UNCHANGED <<lines, last, left, committed, peer, anchorDirs, partLock, dead, link, reads>>

\* A quiet step of an init keeps the invariant.
LEMMA QuietInit ==
    ASSUME IInv, NEW i \in Initer, NEW to, InitQuiet(i, to)
    PROVE  IInv'
  <1> USE DEF InitQuiet
  <1>1. PcOK'
    BY IniterGoes, TypeParts DEF IInv
  <1>2. LocksOK'
    BY TypeParts DEF IInv, LocksOK, Released
  <1>3. ConfigOK' /\ ReadsOK'
    BY TypeParts, ReadsSame, Zenon DEF IInv, ConfigOK
  <1>4. lines' \in Seq(Line) /\ link' \in [Writer -> Event \cup {NoLine}]
    BY TypeParts DEF IInv
  <1>5. Types'
    BY <1>1, <1>2, <1>3, <1>4, TypeAssembles
  <1>6. Core'
    BY IniterRests, TypeParts DEF IInv
  <1> QED
    BY <1>5, <1>6 DEF IInv

\* The checks, the marker and the ends of an init are quiet.
LEMMA QuietInitStep ==
    ASSUME IInv, NEW i \in Initer, UNCHANGED <<link, reads>>,
           \/ EarlyRefusal(i) \/ AlreadySynced(i) \/ EarlyChecksPass(i)
           \/ WriteMarker(i) \/ RecheckRefuses(i) \/ RecheckPasses(i)
           \/ MigrateDone(i) \/ AdoptAnchor(i) \/ BootstrapFails(i) \/ UnlinkMarker(i)
    PROVE  \E to \in InitPcs : InitQuiet(i, to)
  <1>1. /\ i \in Initer \ dead => /\ pc[i] \in Migrating => flatLock = i
                                  /\ pc[i] \in Inside => initLock = i
                                  /\ pc[i] \in Inside \ {"initCheck", "unmark"} => ~committed
                                  /\ pc[i] \in {"seed", "anchor", "publish"} => OnlyIn("part")
        /\ marker \in BOOLEAN /\ blank \in BOOLEAN /\ straddled \subseteq Process
    BY TypeParts, Zenon DEF IInv, Core, Held, Modes, ConfigOK
  <1> USE DEF InitQuiet, InitPcs, InitSteps, InitResults, Goto, At, store, segments, config, locks, Migrating, Inside
  <1>2. CASE EarlyRefusal(i)
    <2>1. InitQuiet(i, "anchorsPresent")
      BY <1>1, <1>2 DEF EarlyRefusal, Finish
    <2> QED
      BY <2>1
  <1>3. CASE AlreadySynced(i)
    <2>1. InitQuiet(i, "already")
      BY <1>1, <1>3 DEF AlreadySynced, Finish
    <2> QED
      BY <2>1
  <1>4. CASE EarlyChecksPass(i)
    <2>1. InitQuiet(i, "initFlatWait")
      BY <1>1, <1>4 DEF EarlyChecksPass
    <2> QED
      BY <2>1
  <1>5. CASE WriteMarker(i)
    <2>1. InitQuiet(i, "recheck") \/ InitQuiet(i, "initFailed")
      BY <1>1, <1>5 DEF WriteMarker, Finish
    <2> QED
      BY <2>1
  <1>6. CASE RecheckRefuses(i)
    <2>1. InitQuiet(i, "anchorsFound")
      BY <1>1, <1>6 DEF RecheckRefuses, Finish
    <2> QED
      BY <2>1
  <1>7. CASE RecheckPasses(i)
    <2>1. InitQuiet(i, "migrate")
      BY <1>1, <1>7 DEF RecheckPasses
    <2> QED
      BY <2>1
  <1>8. CASE MigrateDone(i)
    <2>1. OnlyIn("part")
      <3>1. lines \in Seq(Line)
        BY TypeParts DEF IInv
      <3> QED
        BY <1>8, <3>1, LineFields DEF MigrateDone, Segs, InDir, OnlyIn
    <2>2. InitQuiet(i, "seed") \/ InitQuiet(i, "anchor")
      BY <1>1, <1>8, <2>1 DEF MigrateDone
    <2> QED
      BY <2>2
  <1>9. CASE AdoptAnchor(i)
    <2>1. InitQuiet(i, "publish")
      BY <1>1, <1>9 DEF AdoptAnchor
    <2> QED
      BY <2>1
  <1>10. CASE BootstrapFails(i)
    <2>1. InitQuiet(i, "initFailed")
      BY <1>1, <1>10 DEF BootstrapFails, Finish
    <2> QED
      BY <2>1
  <1>11. CASE UnlinkMarker(i)
    <2>1. InitQuiet(i, "initOk")
      BY <1>1, <1>11 DEF UnlinkMarker, Finish
    <2> QED
      BY <2>1
  <1> QED
    BY <1>2, <1>3, <1>4, <1>5, <1>6, <1>7, <1>8, <1>9, <1>10, <1>11

\* An init takes its lock, then the flat lock: no one else that lives holds it.
LEMMA InitLockStep ==
    ASSUME IInv, NEW i \in Initer, UNCHANGED <<link, reads>>, TakeInitLock(i) \/ TakeFlatLock(i)
    PROVE  IInv'
  <1> USE DEF TakeInitLock, TakeFlatLock, At, Goto, Free
  <1>1. /\ lines' = lines /\ committed' = committed /\ dead' = dead /\ link' = link
        /\ partLock' = partLock /\ marker' = marker /\ blank' = blank /\ peer' = peer
        /\ anchorDirs' = anchorDirs /\ straddled' = straddled
        /\ last' = last /\ left' = left
    BY DEF store, segments, config
  <1>2. PICK to \in {"initCheck", "mark"} :
            /\ pc' = [pc EXCEPT ![i] = to] /\ i \notin dead
            /\ to = "initCheck" => initLock' = i /\ Free(initLock) /\ flatLock' = flatLock
            /\ to = "mark" => /\ flatLock' = i /\ Free(flatLock) /\ initLock' = initLock
                              /\ pc[i] = "initFlatWait"
    OBVIOUS
  <1>3. Types'
    <2>1. PcOK'
      <3>1. to \in InitPcs
        BY DEF InitPcs, InitSteps
      <3> QED
        BY <1>2, <3>1, IniterGoes, TypeParts DEF IInv
    <2>2. LocksOK'
      BY <1>1, TypeParts DEF IInv, LocksOK
    <2>3. ConfigOK' /\ ReadsOK'
      BY <1>1, TypeParts, ConfigSame, ReadsSame DEF IInv
    <2> QED
      BY <1>1, <2>1, <2>2, <2>3, TypeParts, TypeAssembles DEF IInv
  <1>4. pc'[i] = to /\ \A p \in Process : p # i => pc'[p] = pc[p]
    BY <1>2, TypeParts DEF IInv, PcOK, Process
  <1>5. /\ i \notin Writer /\ \A v \in Writer \cup Initer : v \in Process /\ v # Nobody
    BY SpineAssumption DEF Process
  <1>6. Linked' /\ (\A d : OnlyIn(d)' <=> OnlyIn(d)) /\ LastId' = LastId /\ (AllWhole' <=> AllWhole)
    BY <1>1, SameLines DEF IInv, Core
  <1>7. Held'
    BY <1>1, <1>2, <1>4, <1>5 DEF IInv, Core, Held, Migrating, Inside
  <1>8. Modes'
    <2>1. to = "mark" => ~committed
      BY <1>2 DEF IInv, Core, Modes, Inside, Migrating
    <2> QED
      BY <1>1, <1>2, <1>4, <1>5, <1>6, <2>1 DEF IInv, Core, Modes, Inside, Migrating
  <1>9. Pending'
    BY <1>1, <1>2, <1>4, <1>5, <1>6 DEF IInv, Core, Pending
  <1> QED
    BY <1>3, <1>6, <1>7, <1>8, <1>9 DEF IInv, Core

\* While an init that lives is between its marker and its publication, replica.json
\* is absent and no writer that lives is between a tail read and a write.
LEMMA InitAlone ==
    ASSUME IInv, NEW i \in Initer \ dead, pc[i] \in Migrating \ {"unmark"}
    PROVE  /\ flatLock = i /\ initLock = i /\ ~committed
           /\ \A v \in Writer \ dead : pc[v] \notin {"flatLinked", "partLinked"}
           /\ \A j \in Initer \ dead : j # i => pc[j] \notin Inside
  <1>1. flatLock = i /\ initLock = i /\ ~committed
    BY DEF IInv, Core, Held, Modes, Migrating, Inside
  <1>2. i \notin Writer
    BY SpineAssumption
  <1>3. \A v \in Writer \ dead : pc[v] \notin {"flatLinked", "partLinked"}
    BY <1>1, <1>2 DEF IInv, Core, Held, Modes
  <1>4. \A j \in Initer \ dead : j # i => pc[j] \notin Inside
    BY <1>1 DEF IInv, Core, Held
  <1> QED
    BY <1>1, <1>3, <1>4

\* The cutover or the anchor is stored: the lines are all in the partition.
LEMMA InitStoreStep ==
    ASSUME IInv, NEW i \in Initer, UNCHANGED <<link, reads>>, SeedCutover(i) \/ PublishAnchor(i)
    PROVE  IInv'
  <1> USE DEF SeedCutover, PublishAnchor, InitStores, Finish, At, Goto
  <1>1. /\ committed' = committed /\ dead' = dead /\ link' = link /\ partLock' = partLock
        /\ marker' = marker /\ blank' = blank /\ peer' = peer /\ anchorDirs' = anchorDirs /\ straddled' = straddled
    BY DEF locks, segments, config
  <1>2. PICK e \in {i, Anchor}, how \in {"whole", "torn"},
             to \in {"anchor", "publish", "initFailed"} :
            /\ Store(e, "part", TailOf("part"), how) /\ ~TornTail("part")
            /\ pc' = [pc EXCEPT ![i] = to] /\ i \notin dead /\ pc[i] \in {"seed", "anchor"}
            /\ to # "initFailed" => initLock' = initLock /\ flatLock' = flatLock
            /\ to = "initFailed" => /\ initLock' = Released(initLock, i)
                                    /\ flatLock' = Released(flatLock, i)
    BY DEF locks
  <1>3. /\ flatLock = i /\ initLock = i /\ ~committed
        /\ \A v \in Writer \ dead : pc[v] \notin {"flatLinked", "partLinked"}
        /\ \A j \in Initer \ dead : j # i => pc[j] \notin Inside
    BY <1>2, InitAlone DEF Migrating
  <1>4. lines \in Seq(Line) /\ Linked /\ e \in Event /\ "part" \in Dir /\ last \in 0..MaxSeg
    BY TypeParts DEF IInv, Core, Event, Dir, ConfigOK
  <1>5. OnlyIn("part")
    BY <1>2 DEF IInv, Core, Modes
  <1>6. TailOf("part") = LastId /\ AllWhole
    BY <1>2, <1>4, <1>5, TailIsLast
  <1>7. last' \in 0..MaxSeg /\ lines' \in Seq(Line) /\ Linked' /\ OnlyIn("part")'
    BY <1>2, <1>4, <1>5, <1>6, StoreKeeps
  <1>8. Types'
    <2>1. PcOK'
      <3>1. to \in InitPcs
        BY DEF InitPcs, InitSteps, InitResults
      <3> QED
        BY <1>2, <3>1, IniterGoes, TypeParts DEF IInv
    <2>2. LocksOK'
      BY <1>1, <1>2, TypeParts DEF IInv, LocksOK, Released
    <2>3. ConfigOK' /\ ReadsOK'
      BY <1>1, <1>7, TypeParts, ReadsSame, Zenon DEF IInv, ConfigOK
    <2>4. link' \in [Writer -> Event \cup {NoLine}]
      BY <1>1, TypeParts DEF IInv
    <2> QED
      BY <1>7, <2>1, <2>2, <2>3, <2>4, TypeAssembles
  <1>9. pc'[i] = to /\ \A p \in Process : p # i => pc'[p] = pc[p]
    BY <1>2, TypeParts DEF IInv, PcOK, Process
  <1>10. /\ i \notin Writer /\ \A v \in Writer \cup Initer : v \in Process
    BY SpineAssumption DEF Process
  <1>11. Held'
    BY <1>1, <1>2, <1>3, <1>9, <1>10 DEF IInv, Core, Held, Migrating, Inside, Released
  <1>12. Modes'
    BY <1>1, <1>2, <1>3, <1>7, <1>9, <1>10 DEF IInv, Core, Modes, Inside, Migrating
  <1>13. Pending'
    BY <1>1, <1>3, <1>9, <1>10 DEF Pending
  <1> QED
    BY <1>7, <1>8, <1>11, <1>12, <1>13 DEF IInv, Core

\* The marker is truncated, and a partition may be left behind: nobody is about to link to it.
LEMMA TruncateStep ==
    ASSUME IInv, NEW i \in Initer, UNCHANGED <<link, reads>>, TruncateMarker(i)
    PROVE  IInv'
  <1> USE DEF TruncateMarker, At, Goto
  <1>1. /\ committed' = committed /\ dead' = dead /\ link' = link /\ partLock' = partLock
        /\ flatLock' = flatLock /\ initLock' = initLock /\ pc' = [pc EXCEPT ![i] = "fill"]
        /\ peer' = peer /\ anchorDirs' = anchorDirs /\ straddled' = straddled /\ last' = last
        /\ marker' \in BOOLEAN /\ blank' \in BOOLEAN /\ i \notin dead /\ pc[i] = "mark"
    BY DEF locks
  <1>2. /\ flatLock = i /\ initLock = i /\ ~committed
        /\ \A v \in Writer \ dead : pc[v] \notin {"flatLinked", "partLinked"}
        /\ \A j \in Initer \ dead : j # i => pc[j] \notin Inside
    BY <1>1, InitAlone DEF Migrating
  <1>3. lines' \in Seq(Line) /\ Linked'
    <2>1. CASE UNCHANGED <<lines, left>>
      BY <1>1, <2>1, SameLines, TypeParts DEF IInv, Core
    <2>2. CASE LeavesBehind
      BY <1>1, <2>2, LeaveKeeps, TypeParts DEF IInv, Core
    <2> QED
      BY <2>1, <2>2
  <1>4. Types'
    <2>1. PcOK'
      <3>1. "fill" \in InitPcs
        BY DEF InitPcs, InitSteps
      <3> QED
        BY <1>1, <3>1, IniterGoes, TypeParts DEF IInv
    <2>2. LocksOK' /\ ReadsOK'
      BY <1>1, TypeParts, ReadsSame DEF IInv, LocksOK
    <2>3. ConfigOK'
      BY <1>1, TypeParts, Zenon DEF IInv, ConfigOK
    <2> QED
      BY <1>1, <1>3, <2>1, <2>2, <2>3, TypeParts, TypeAssembles DEF IInv
  <1>5. pc'[i] = "fill" /\ \A p \in Process : p # i => pc'[p] = pc[p]
    BY <1>1, TypeParts DEF IInv, PcOK, Process
  <1>6. /\ i \notin Writer /\ \A v \in Writer \cup Initer : v \in Process
    BY SpineAssumption DEF Process
  <1>7. Held'
    BY <1>1, <1>2, <1>5, <1>6 DEF IInv, Core, Held, Migrating, Inside
  <1>8. Modes'
    BY <1>1, <1>2, <1>5, <1>6 DEF IInv, Core, Modes, Inside, Migrating
  <1>9. Pending'
    BY <1>1, <1>2, <1>5, <1>6 DEF Pending
  <1> QED
    BY <1>3, <1>4, <1>7, <1>8, <1>9 DEF IInv, Core

\* A segment is renamed: nobody reads a tail or writes a line meanwhile.
LEMMA RenameStep ==
    ASSUME IInv, NEW i \in Initer, UNCHANGED <<link, reads>>, MigrateSegment(i)
    PROVE  IInv'
  <1> USE DEF MigrateSegment, At
  <1>1. /\ committed' = committed /\ dead' = dead /\ link' = link /\ partLock' = partLock
        /\ flatLock' = flatLock /\ initLock' = initLock /\ pc' = pc
        /\ marker' = marker /\ blank' = blank /\ peer' = peer /\ anchorDirs' = anchorDirs /\ straddled' = straddled
        /\ last' = last /\ left' = left
    BY DEF locks, segments, config
  <1>2. /\ flatLock = i /\ initLock = i /\ ~committed
        /\ \A v \in Writer \ dead : pc[v] \notin {"flatLinked", "partLinked"}
        /\ \A j \in Initer \ dead : j # i => pc[j] \notin Inside
    BY InitAlone DEF Migrating
  <1>3. lines' \in Seq(Line) /\ Linked'
    BY RenameKeeps, TypeParts DEF IInv, Core
  <1>4. Types'
    <2>1. PcOK' /\ LocksOK'
      BY <1>1, TypeParts DEF IInv, PcOK, LocksOK
    <2>2. ConfigOK' /\ ReadsOK'
      BY <1>1, TypeParts, ConfigSame, ReadsSame DEF IInv
    <2>3. link' \in [Writer -> Event \cup {NoLine}]
      BY <1>1, TypeParts DEF IInv
    <2> QED
      BY <1>3, <2>1, <2>2, <2>3, TypeAssembles
  <1>5. Held'
    BY <1>1 DEF IInv, Core, Held
  <1>6. Modes'
    BY <1>1, <1>2 DEF IInv, Core, Modes, Inside, Migrating
  <1>7. Pending'
    BY <1>1, <1>2 DEF Pending
  <1> QED
    BY <1>3, <1>4, <1>5, <1>6, <1>7 DEF IInv, Core

\* replica.json is published: from here on the lines are in the partition.
LEMMA PublishStep ==
    ASSUME IInv, NEW i \in Initer, UNCHANGED <<link, reads>>, PublishReplica(i)
    PROVE  IInv'
  <1> USE DEF PublishReplica, At, Goto
  <1>1. /\ committed' = TRUE /\ dead' = dead /\ link' = link /\ partLock' = partLock
        /\ flatLock' = flatLock /\ initLock' = initLock /\ pc' = [pc EXCEPT ![i] = "unmark"]
        /\ marker' = marker /\ blank' = blank /\ peer' = peer /\ anchorDirs' = anchorDirs /\ straddled' = straddled
        /\ last' = last /\ left' = left
        /\ lines' = lines /\ i \notin dead /\ pc[i] = "publish"
    BY DEF locks, segments, config
  <1>2. /\ flatLock = i /\ initLock = i /\ ~committed
        /\ \A v \in Writer \ dead : pc[v] \notin {"flatLinked", "partLinked"}
        /\ \A j \in Initer \ dead : j # i => pc[j] \notin Inside
    BY <1>1, InitAlone DEF Migrating
  <1>3. OnlyIn("part")
    BY <1>1 DEF IInv, Core, Modes
  <1>4. Types'
    <2>1. PcOK'
      <3>1. "unmark" \in InitPcs
        BY DEF InitPcs, InitSteps
      <3> QED
        BY <1>1, <3>1, IniterGoes, TypeParts DEF IInv
    <2>2. LocksOK' /\ ReadsOK'
      BY <1>1, TypeParts, ReadsSame DEF IInv, LocksOK
    <2>3. ConfigOK'
      BY <1>1, TypeParts, Zenon DEF IInv, ConfigOK
    <2> QED
      BY <1>1, <2>1, <2>2, <2>3, TypeParts, TypeAssembles DEF IInv
  <1>5. pc'[i] = "unmark" /\ \A p \in Process : p # i => pc'[p] = pc[p]
    BY <1>1, TypeParts DEF IInv, PcOK, Process
  <1>6. /\ i \notin Writer /\ \A v \in Writer \cup Initer : v \in Process
    BY SpineAssumption DEF Process
  <1>7. Linked' /\ (\A d : OnlyIn(d)' <=> OnlyIn(d)) /\ LastId' = LastId /\ (AllWhole' <=> AllWhole)
    BY <1>1, SameLines DEF IInv, Core
  <1>8. Held'
    BY <1>1, <1>2, <1>5, <1>6 DEF IInv, Core, Held, Migrating, Inside
  <1>9. Modes'
    BY <1>1, <1>2, <1>3, <1>5, <1>6, <1>7 DEF IInv, Core, Modes, Inside, Migrating
  <1>10. Pending'
    BY <1>1, <1>2, <1>5, <1>6 DEF Pending
  <1> QED
    BY <1>4, <1>7, <1>8, <1>9, <1>10 DEF IInv, Core

\* Every step of an init keeps the invariant.
LEMMA SyncStep ==
    ASSUME IInv, NEW i \in Initer, SyncNext(i), UNCHANGED <<link, reads>>
    PROVE  IInv'
  <1>1. CASE TakeInitLock(i) \/ TakeFlatLock(i)
    BY <1>1, InitLockStep
  <1>2. CASE SeedCutover(i) \/ PublishAnchor(i)
    BY <1>2, InitStoreStep
  <1>3. CASE MigrateSegment(i)
    BY <1>3, RenameStep
  <1>4. CASE PublishReplica(i)
    BY <1>4, PublishStep
  <1>6. CASE TruncateMarker(i)
    BY <1>6, TruncateStep
  <1>5. CASE \/ EarlyRefusal(i) \/ AlreadySynced(i) \/ EarlyChecksPass(i)
             \/ WriteMarker(i) \/ RecheckRefuses(i) \/ RecheckPasses(i)
             \/ MigrateDone(i) \/ AdoptAnchor(i) \/ BootstrapFails(i) \/ UnlinkMarker(i)
    <2>1. \E to \in InitPcs : InitQuiet(i, to)
      BY <1>5, QuietInitStep
    <2> QED
      BY <2>1, QuietInit
  <1> QED
    BY <1>1, <1>2, <1>3, <1>4, <1>5, <1>6 DEF SyncNext

-----------------------------------------------------------------------------
(* Stamps, reads, and what happens around the processes *)

\* A stamp changes anchor directories only: neither a line nor a lock.
LEMMA StampStep ==
    ASSUME IInv, NEW s \in Stamper, StampNext(s), UNCHANGED <<link, reads>>
    PROVE  IInv'
  <1> USE DEF StampNext, StampReadsReplica, StampReadsMarker, MakeAnchorDir, StampEnds,
              StampRechecks, RollBack, At, Goto
  <1>1. /\ lines' = lines /\ marker' = marker /\ blank' = blank /\ committed' = committed /\ peer' = peer
        /\ dead' = dead /\ straddled' = straddled /\ last' = last /\ left' = left /\ link' = link
        /\ flatLock' = flatLock /\ partLock' = partLock /\ initLock' = initLock
    BY DEF store, segments, config, locks
  <1>2. anchorDirs' \in {anchorDirs, anchorDirs \cup {s}, anchorDirs \ {s}}
    BY DEF store, segments, config
  <1>3. PICK to \in StampPcs : pc' = [pc EXCEPT ![s] = to]
    BY DEF StampPcs, StampSteps, StampResults
  <1>4. PcOK'
    BY <1>3, StamperGoes, TypeParts DEF IInv
  <1>5. anchorDirs' \subseteq Stamper
    BY <1>2, TypeParts DEF IInv, ConfigOK
  <1>6. ConfigOK'
    BY <1>1, <1>5, TypeParts, Zenon DEF IInv, ConfigOK
  <1>7. LocksOK' /\ ReadsOK'
    BY <1>1, TypeParts, ReadsSame DEF IInv, LocksOK
  <1>8. lines' \in Seq(Line) /\ link' \in [Writer -> Event \cup {NoLine}]
    BY <1>1, TypeParts DEF IInv
  <1>9. Types'
    BY <1>4, <1>6, <1>7, <1>8, TypeAssembles
  <1>10. Core'
    BY <1>1, <1>3, TypeParts, OthersRest DEF IInv, locks
  <1> QED
    BY <1>9, <1>10 DEF IInv

\* A read collects events of the log, and changes nothing of it.
LEMMA ReadStep ==
    ASSUME IInv, NEW r \in Reader, ReadNext(r), UNCHANGED link
    PROVE  IInv'
  <1>1. UNCHANGED <<store, locks, dead, straddled>>
    BY Zenon DEF ReadNext, ReadStart, ReadActive, ListFlat, ListResidual, ListReplica, ListSegments,
           ReadFlat, ReadResidual, ReadReplica, ReadSegment, FlatVanished, ResidualVanished,
           SegmentEmptied, SkipSegment, NothingLeft, Unaffected
  <1>2. /\ lines' = lines /\ marker' = marker /\ blank' = blank /\ committed' = committed /\ peer' = peer
        /\ anchorDirs' = anchorDirs /\ dead' = dead /\ straddled' = straddled
        /\ last' = last /\ left' = left
        /\ flatLock' = flatLock /\ partLock' = partLock /\ initLock' = initLock
    BY <1>1 DEF store, segments, config, locks
  <1>3. \E to \in ReadSteps : pc' = [pc EXCEPT ![r] = to] \/ pc' = pc
    BY DEF ReadNext, ReadStart, ReadActive, ListFlat, ListResidual, ListReplica, ListSegments,
           ReadFlat, ReadResidual, ReadReplica, ReadSegment, FlatVanished, ResidualVanished,
           SegmentEmptied, SkipSegment, NothingLeft, ReadSteps, Goto
  <1>4. PcOK'
    BY <1>3, ReaderGoes, TypeParts DEF IInv, PcOK
  <1>5. ReadsOK'
    <2> USE TypeParts DEF IInv
    <2>1. \A d \in Dir : Segs(d) \subseteq 1..MaxSeg
      BY LineFields DEF Segs, InDir
    <2>2. \A d, s : WholeIds(d, s) \subseteq Event
      BY LineFields DEF WholeIds, InDir
    <2>3. Acked \subseteq Event
      BY DEF Acked, Event
    <2>4. "flat" \in Dir /\ "part" \in Dir
      BY DEF Dir
    <2>5. CASE ReadStart(r)
      BY <2>3, <2>5 DEF ReadStart, ReadsOK
    <2>6. CASE ReadActive(r)
      <3>1. UNCHANGED <<todo, got, must>> /\ blind' \in {blind, blind \cup {r}}
        BY <2>6 DEF ReadActive
      <3> QED
        BY <3>1 DEF ReadsOK
    <2>11. CASE NothingLeft(r)
      <3>1. UNCHANGED reads
        BY <2>11 DEF NothingLeft
      <3> QED
        BY <3>1, ReadsSame
    <2>7. CASE ListFlat(r) \/ ListResidual(r) \/ ListReplica(r)
      BY <2>1, <2>4, <2>7 DEF ListFlat, ListResidual, ListReplica, ListSegments, ReadsOK
    <2>8. CASE ReadFlat(r) \/ ReadResidual(r) \/ ReadReplica(r)
      <3>1. PICK d \in Dir, s \in 1..MaxSeg : /\ got' = [got EXCEPT ![r] = @ \cup WholeIds(d, s)]
                                              /\ todo' = [todo EXCEPT ![r] = @ \ {s}]
                                              /\ must' = must /\ blind' = blind
        BY <2>1, <2>4, <2>8 DEF ReadFlat, ReadResidual, ReadReplica, ReadSegment
      <3>2. got \in [Reader -> SUBSET Event] /\ todo \in [Reader -> SUBSET (1..MaxSeg)]
        BY DEF ReadsOK
      <3>3. got' \in [Reader -> SUBSET Event]
        BY <2>2, <3>1, <3>2
      <3>4. todo' \in [Reader -> SUBSET (1..MaxSeg)]
        BY <3>1, <3>2
      <3> QED
        BY <3>1, <3>3, <3>4 DEF ReadsOK
    <2>9. CASE FlatVanished(r)
      BY <2>9 DEF FlatVanished, ReadsOK
    <2>10. CASE ResidualVanished(r) \/ SegmentEmptied(r)
      BY <2>10 DEF ResidualVanished, SegmentEmptied, SkipSegment, ReadsOK
    <2> QED
      BY <2>5, <2>6, <2>7, <2>8, <2>9, <2>10, <2>11 DEF ReadNext
  <1>6. ConfigOK' /\ LocksOK'
    BY <1>2, ConfigSame, TypeParts DEF IInv, LocksOK
  <1>7. lines' \in Seq(Line) /\ link' \in [Writer -> Event \cup {NoLine}]
    BY <1>2, TypeParts DEF IInv
  <1>8. Types'
    BY <1>4, <1>5, <1>6, <1>7, TypeAssembles
  <1>9. Core'
    BY <1>1, <1>2, <1>3, TypeParts, OthersRest DEF IInv
  <1> QED
    BY <1>8, <1>9 DEF IInv

\* A crash: what the invariant says of processes, it says of those that live.
LEMMA DieStep ==
    ASSUME IInv, NEW p \in Process, Die(p), UNCHANGED <<link, reads>>
    PROVE  IInv'
  <1> USE DEF Die
  <1>1. /\ lines' = lines /\ marker' = marker /\ blank' = blank /\ committed' = committed /\ peer' = peer
        /\ anchorDirs' = anchorDirs /\ dead' = dead \cup {p} /\ straddled' = straddled
        /\ last' = last /\ left' = left
        /\ flatLock' = flatLock /\ partLock' = partLock /\ initLock' = initLock
        /\ pc' = pc /\ link' = link
    BY DEF store, segments, config, locks
  <1>2. dead' \subseteq Process
    BY <1>1, TypeParts DEF IInv, ConfigOK
  <1>3. ConfigOK'
    BY <1>1, <1>2, TypeParts, Zenon DEF IInv, ConfigOK
  <1>4. PcOK' /\ LocksOK' /\ ReadsOK'
    BY <1>1, TypeParts, ReadsSame DEF IInv, PcOK, LocksOK
  <1>5. lines' \in Seq(Line) /\ link' \in [Writer -> Event \cup {NoLine}]
    BY <1>1, TypeParts DEF IInv
  <1>6. Types'
    BY <1>3, <1>4, <1>5, TypeAssembles
  <1>7. Linked' /\ (\A d : OnlyIn(d)' <=> OnlyIn(d)) /\ LastId' = LastId /\ (AllWhole' <=> AllWhole)
    BY <1>1, SameLines DEF IInv, Core
  <1>8. Held'
    BY <1>1 DEF IInv, Core, Held
  <1>9. Modes'
    BY <1>1, <1>7 DEF IInv, Core, Modes
  <1>10. Pending'
    BY <1>1, <1>7 DEF IInv, Core, Pending
  <1> QED
    BY <1>6, <1>7, <1>8, <1>9, <1>10 DEF IInv, Core

\* A peer's partition arrives: it is none of this checkout's lines.
LEMMA PullStep ==
    ASSUME IInv, PullPeer, UNCHANGED <<link, reads>>
    PROVE  IInv'
  <1> USE DEF PullPeer, segments, config
  <1>1. ConfigOK'
    BY TypeParts, Zenon DEF IInv, ConfigOK
  <1>2. PcOK' /\ LocksOK' /\ ReadsOK'
    BY TypeParts, ReadsSame DEF IInv, PcOK, LocksOK, locks
  <1>3. lines' \in Seq(Line) /\ link' \in [Writer -> Event \cup {NoLine}]
    BY TypeParts DEF IInv
  <1>4. Types'
    BY <1>1, <1>2, <1>3, TypeAssembles
  <1>5. Linked' /\ (\A d : OnlyIn(d)' <=> OnlyIn(d)) /\ LastId' = LastId /\ (AllWhole' <=> AllWhole)
    BY SameLines DEF IInv, Core
  <1>6. Held'
    BY DEF IInv, Core, Held, locks
  <1>7. Modes'
    BY <1>5 DEF IInv, Core, Modes
  <1>8. Pending'
    BY <1>5 DEF IInv, Core, Pending
  <1> QED
    BY <1>4, <1>5, <1>6, <1>7, <1>8 DEF IInv, Core

\* The torn tail is repaired: no writer that lives is about to link to it.
LEMMA RepairStep ==
    ASSUME IInv, OperatorTrims \/ OperatorEnds, UNCHANGED <<link, reads>>
    PROVE  IInv'
  <1>1. /\ marker' = marker /\ blank' = blank /\ committed' = committed /\ peer' = peer
        /\ anchorDirs' = anchorDirs /\ dead' = dead /\ straddled' = straddled
        /\ last' = last /\ left' = left
        /\ flatLock' = flatLock /\ partLock' = partLock /\ initLock' = initLock
        /\ pc' = pc /\ link' = link
    BY DEF OperatorTrims, OperatorEnds, locks, config
  <1>2. /\ lines' \in Seq(Line) /\ Linked' /\ ~AllWhole
        /\ \A d \in Dir : OnlyIn(d) => OnlyIn(d)'
    BY RepairKeeps, TypeParts DEF IInv, Core
  <1>3. ConfigOK' /\ ReadsOK'
    BY <1>1, ConfigSame, ReadsSame, TypeParts DEF IInv
  <1>4. PcOK' /\ LocksOK' /\ link' \in [Writer -> Event \cup {NoLine}]
    BY <1>1, TypeParts DEF IInv, PcOK, LocksOK
  <1>5. Types'
    BY <1>2, <1>3, <1>4, TypeAssembles
  <1>6. Held'
    BY <1>1 DEF IInv, Core, Held
  <1>7. "flat" \in Dir /\ "part" \in Dir
    BY DEF Dir
  <1>8. Modes'
    BY <1>1, <1>2, <1>7 DEF IInv, Core, Modes
  <1>9. Pending'
    BY <1>1, <1>2 DEF IInv, Core, Pending
  <1> QED
    BY <1>2, <1>5, <1>6, <1>8, <1>9 DEF IInv, Core

-----------------------------------------------------------------------------
(* The invariant holds *)

\* It holds when the run begins: a flat log, nobody at work, no config file.
LEMMA InitHolds == Init => IInv
  <1> SUFFICES ASSUME Init PROVE IInv
    OBVIOUS
  <1>1. WellFormed(lines)
    BY SpineAssumption DEF Init
  <1>2. lines \in Seq(Line) /\ OnlyIn("flat")
    BY <1>1 DEF WellFormed, OnlyIn
  <1>3. Linked /\ last \in 0..MaxSeg
    <2>1. CASE lines = <<>>
      BY <2>1, SpineAssumption DEF Init, Linked, Ordered
    <2>2. CASE lines # <<>>
      <3>1. last = lines[Len(lines)].seg /\ Len(lines) \in DOMAIN lines
        BY <1>2, <2>2 DEF Init
      <3>2. last \in 1..MaxSeg /\ \A k \in DOMAIN lines : lines[k].seg <= last /\ lines[k].end = "whole"
        BY <1>1, <1>2, <3>1, LineFields DEF WellFormed
      <3>3. \A j, k \in DOMAIN lines : j < k => lines[j].seg <= lines[k].seg /\ lines[j].end = "whole"
        BY <1>1 DEF WellFormed
      <3>4. \A k \in DOMAIN lines : lines[k].prev = IF k = 1 THEN NoLine ELSE lines[k - 1].id
        BY <1>1 DEF WellFormed
      <3>5. Ordered
        BY <1>2 DEF Init, Ordered, OnlyIn
      <3> QED
        BY <3>2, <3>3, <3>4, <3>5 DEF Linked
    <2> QED
      BY <2>1, <2>2
  <1>4. /\ \A w \in Writer : pc[w] = "idle"
        /\ \A i \in Initer : pc[i] = "initIdle"
        /\ \A s \in Stamper : pc[s] = "stampIdle"
        /\ \A r \in Reader : pc[r] = "readIdle"
    BY SpineAssumption DEF Init, Process
  <1>5. PcOK
    <2>1. /\ "idle" \in AppendPcs /\ "initIdle" \in InitPcs
          /\ "stampIdle" \in StampPcs /\ "readIdle" \in ReadSteps
      BY DEF AppendPcs, AppendSteps, InitPcs, InitSteps, StampPcs, StampSteps, ReadSteps
    <2>2. pc \in [Process -> AppendPcs \cup InitPcs \cup StampPcs \cup ReadSteps]
      <3>1. \A p \in Process : pc[p] \in AppendPcs \cup InitPcs \cup StampPcs \cup ReadSteps
        BY <1>4, <2>1 DEF Process
      <3>2. pc = [p \in Process |-> pc[p]]
        BY DEF Init
      <3> QED
        BY <3>1, <3>2
    <2> QED
      BY <1>4, <2>1, <2>2 DEF PcOK
  <1>6. LocksOK /\ ReadsOK
    BY DEF Init, LocksOK, ReadsOK
  <1>7. ConfigOK
    BY <1>3, SpineAssumption, Zenon DEF Init, ConfigOK
  <1>8. link \in [Writer -> Event \cup {NoLine}]
    BY DEF Init
  <1>9. Types
    BY <1>2, <1>5, <1>6, <1>7, <1>8, TypeParts
  <1>10. Held /\ Modes /\ Pending
    <2>1. committed = FALSE
      BY DEF Init
    <2> QED
      BY <1>4, <2>1 DEF Held, Modes, Pending, Migrating, Inside
  <1> QED
    BY <1>3, <1>9, <1>10 DEF IInv, Core

\* Every step of everyone keeps it.
LEMMA StepKeeps == IInv /\ [Next]_vars => IInv'
  <1> SUFFICES ASSUME IInv, [Next]_vars PROVE IInv'
    OBVIOUS
  <1>1. ASSUME NEW w \in Writer, AppendNext(w), UNCHANGED reads PROVE IInv'
    BY <1>1, AppendStep
  <1>2. ASSUME NEW i \in Initer, SyncNext(i), UNCHANGED <<link, reads>> PROVE IInv'
    BY <1>2, SyncStep
  <1>3. ASSUME NEW s \in Stamper, StampNext(s), UNCHANGED <<link, reads>> PROVE IInv'
    BY <1>3, StampStep
  <1>4. ASSUME NEW r \in Reader, ReadNext(r), UNCHANGED link PROVE IInv'
    BY <1>4, ReadStep
  <1>5. ASSUME Around, UNCHANGED <<link, reads>> PROVE IInv'
    BY <1>5, DieStep, PullStep, RepairStep DEF Around
  <1>6. CASE UNCHANGED vars
    <2>1. /\ UNCHANGED <<store, locks, pc, dead, straddled, link, reads>>
          /\ UNCHANGED <<lines, last, left, marker, blank, committed, peer, anchorDirs>>
          /\ UNCHANGED <<flatLock, partLock, initLock>>
      BY <1>6 DEF vars, store, segments, config, locks
    <2>2. PcOK' /\ LocksOK' /\ ReadsOK' /\ ConfigOK'
      BY <2>1, TypeParts, ReadsSame, ConfigSame DEF IInv, PcOK, LocksOK
    <2>3. lines' \in Seq(Line) /\ link' \in [Writer -> Event \cup {NoLine}]
      BY <2>1, TypeParts DEF IInv
    <2>4. Types'
      BY <2>2, <2>3, TypeAssembles
    <2>5. Linked' /\ (\A d : OnlyIn(d)' <=> OnlyIn(d)) /\ LastId' = LastId /\ (AllWhole' <=> AllWhole)
      BY <2>1, SameLines DEF IInv, Core
    <2>6. Held' /\ Modes' /\ Pending'
      BY <2>1, <2>5 DEF IInv, Core, Held, Modes, Pending
    <2> QED
      BY <2>4, <2>5, <2>6 DEF IInv, Core
  <1> QED
    BY <1>1, <1>2, <1>3, <1>4, <1>5, <1>6 DEF Next

\* IInv is inductive, and so holds in every state of every run.
THEOREM Invariant == Spec => []IInv
  BY InitHolds, StepKeeps, PTL DEF Spec

\* In every state of every run the variables have their types.
THEOREM TypeCorrect == Spec => []TypeOK
  <1>1. ASSUME IInv PROVE TypeOK
    <2>1. left \subseteq 1..Len(lines)
      BY <1>1 DEF IInv, Types, Core, Linked, Ordered
    <2> QED
      BY <1>1, <2>1, Zenon DEF IInv, Types, TypeOK, PcOK, LocksOK, ReadsOK, ConfigOK
  <1> QED
    BY <1>1, Invariant, PTL

\* For any number of appends, inits, crashes, torn writes and repairs: each line
\* that append() or the init stored links to the line before it in reading order,
\* or begins the chain of a partition that took the place of a lost one, and
\* nothing follows a torn line.
THEOREM ChainSafe == Spec => []ChainUnbroken
  <1>1. ASSUME IInv PROVE ChainUnbroken
    <2>1. lines \in Seq(Line) /\ Linked
      BY <1>1, TypeParts DEF IInv, Core
    <2> SUFFICES ASSUME NEW k \in DOMAIN lines
                 PROVE  LET before == {j \in DOMAIN lines : Precedes(j, k)}
                        IN  /\ \/ lines[k].prev = IF before = {} THEN NoLine
                                                  ELSE lines[LastOf(before)].id
                               \/ lines[k].prev = NoLine /\ k - 1 \in left
                            /\ \A j \in before : lines[j].end = "whole"
      BY DEF ChainUnbroken
    <2> DEFINE before == {j \in DOMAIN lines : Precedes(j, k)}
    <2>2. k \in 1..Len(lines) /\ Len(lines) \in Nat
      BY <2>1
    <2>3. before = 1..(k - 1)
      BY <2>1, <2>2, OrderStored
    <2>4. \A j \in before : lines[j].end = "whole"
      BY <2>1, <2>2, <2>3 DEF Linked
    <2>5. CASE k = 1
      BY <2>1, <2>3, <2>4, <2>5 DEF Linked
    <2>6. CASE k # 1
      <3>1. k - 1 \in DOMAIN lines /\ before # {}
        BY <2>2, <2>3, <2>6
      <3>2. LastOf(before) = k - 1
        BY <2>1, <2>3, <3>1, LastOfPrefix
      <3> QED
        BY <2>1, <2>4, <2>6, <3>1, <3>2 DEF Linked
    <2> QED
      BY <2>5, <2>6
  <1> QED
    BY <1>1, Invariant, PTL

\* For any number of them: once replica.json stands, no line is left in the flat
\* stream, and none is written there.
THEOREM NoneStranded == Spec => []NoStrandedFlat
  <1>1. ASSUME IInv PROVE NoStrandedFlat
    BY <1>1 DEF IInv, Core, Modes, NoStrandedFlat, OnlyIn, InDir
  <1> QED
    BY <1>1, Invariant, PTL

-----------------------------------------------------------------------------
(* The migration and the segments *)

\* The lines of a segment are in one directory.
OneDir == \A j, k \in DOMAIN lines : lines[j].seg = lines[k].seg => lines[j].dir = lines[k].dir

\* Where the lines all are in one directory, a stored line goes there.
LEMMA StoreStays ==
    ASSUME lines \in Seq(Line), NEW d \in Dir, OnlyIn(d), NEW e, NEW prev, NEW how, Store(e, d, prev, how)
    PROVE  OneDir'
  <1>1. PICK s : lines' = Append(lines, NewLine(e, d, s, prev, how))
    BY DEF Store
  <1> DEFINE new == NewLine(e, d, s, prev, how)
  <1>2. new.dir = d
    BY DEF NewLine
  <1> HIDE DEF new
  <1>3. /\ DOMAIN lines' = DOMAIN lines \cup {Len(lines) + 1}
        /\ lines'[Len(lines) + 1] = new /\ \A k \in DOMAIN lines : lines'[k] = lines[k]
    BY <1>1 DEF new
  <1>4. \A k \in DOMAIN lines' : lines'[k].dir = d
    BY <1>2, <1>3 DEF OnlyIn
  <1> QED
    BY <1>4 DEF OneDir

\* A rename takes a segment as a whole.
LEMMA RenameStays ==
    ASSUME lines \in Seq(Line), OneDir, NEW s,
           lines' = [k \in DOMAIN lines |->
                        IF lines[k].seg = s THEN [lines[k] EXCEPT !.dir = "part"] ELSE lines[k]]
    PROVE  OneDir'
  <1>1. \A k \in DOMAIN lines : lines[k] \in Line
    OBVIOUS
  <1>2. \A k \in DOMAIN lines' :
            /\ k \in DOMAIN lines /\ lines'[k].seg = lines[k].seg
            /\ lines'[k].dir = IF lines[k].seg = s THEN "part" ELSE lines[k].dir
    BY <1>1 DEF Line
  <1> QED
    BY <1>2 DEF OneDir

\* A repair moves no line, nor is one moved that is left behind.
LEMMA RepairStays ==
    ASSUME lines \in Seq(Line), OneDir, LeavesBehind \/ OperatorTrims \/ OperatorEnds
    PROVE  OneDir'
  <1>1. \A k \in DOMAIN lines : lines[k] \in Line
    OBVIOUS
  <1>2. CASE LeavesBehind \/ OperatorTrims
    <2>1. lines' = lines \/ lines' = SubSeq(lines, 1, Len(lines) - 1)
      BY <1>2 DEF LeavesBehind, OperatorTrims
    <2> QED
      BY <2>1 DEF OneDir
  <1>3. CASE OperatorEnds
    <2>1. /\ DOMAIN lines' = DOMAIN lines
          /\ \A k \in DOMAIN lines : lines'[k].seg = lines[k].seg /\ lines'[k].dir = lines[k].dir
      BY <1>1, <1>3 DEF OperatorEnds, Line
    <2> QED
      BY <2>1 DEF OneDir
  <1> QED
    BY <1>2, <1>3

\* All that a step does to the lines.
LEMMA LineSteps ==
    ASSUME IInv, [Next]_vars
    PROVE  \/ lines' = lines
           \/ \E d \in Dir : \E e, prev, how : OnlyIn(d) /\ Store(e, d, prev, how)
           \/ \E i \in Initer : MigrateSegment(i)
           \/ LeavesBehind \/ OperatorTrims \/ OperatorEnds
  <1>1. Modes
    BY DEF IInv, Core
  <1>2. ASSUME NEW w \in Writer, AppendNext(w)
        PROVE  lines' = lines \/ \E d \in Dir : \E e, prev, how : OnlyIn(d) /\ Store(e, d, prev, how)
    <2>1. CASE FlatWrites(w)
      BY <1>1, <2>1 DEF FlatWrites, Writes, At, Modes, Dir
    <2>2. CASE PartWrites(w)
      BY <1>1, <2>2 DEF PartWrites, Writes, At, Modes, Dir
    <2> QED
      BY <1>2, <2>1, <2>2
         DEF AppendNext, AppendStart, ReadCommitted, ProbeMarker, ProbeMode, PollCommitted, PollMarker,
             PollTimesOut, Recommit, LockFlat, LockPart, GiveUp, FlatHandsBack, PartRefuses,
             AppendReturns, FlatLinks, PartLinks, Links, store, segments, config
  <1>3. ASSUME NEW i \in Initer, SyncNext(i)
        PROVE  \/ lines' = lines
               \/ \E d \in Dir : \E e, prev, how : OnlyIn(d) /\ Store(e, d, prev, how)
               \/ MigrateSegment(i) \/ LeavesBehind
    <2>1. CASE SeedCutover(i)
      BY <1>1, <2>1 DEF SeedCutover, InitStores, At, Modes, Dir
    <2>2. CASE PublishAnchor(i)
      BY <1>1, <2>2 DEF PublishAnchor, InitStores, At, Modes, Dir
    <2> QED
      BY <1>3, <2>1, <2>2
         DEF SyncNext, TakeInitLock, EarlyRefusal, AlreadySynced, EarlyChecksPass, TakeFlatLock,
             TruncateMarker, WriteMarker, RecheckRefuses, RecheckPasses, MigrateDone, AdoptAnchor,
             BootstrapFails, PublishReplica, UnlinkMarker, store, segments, config
  <1>4. ASSUME NEW s \in Stamper, StampNext(s)
        PROVE  lines' = lines
    BY <1>4 DEF StampNext, StampReadsReplica, StampReadsMarker, MakeAnchorDir, RollBack, StampEnds,
                StampRechecks, store, segments, config
  <1>5. ASSUME NEW r \in Reader, ReadNext(r)
        PROVE  lines' = lines
    BY <1>5 DEF ReadNext, ReadStart, ReadActive, ListFlat, ListResidual, ListReplica, ListSegments, ReadFlat,
                ReadResidual, ReadReplica, ReadSegment, FlatVanished, ResidualVanished, SegmentEmptied,
                SkipSegment, NothingLeft,
                Unaffected, store, segments, config
  <1>6. CASE Around
    BY <1>6 DEF Around, Die, PullPeer, store, segments, config
  <1>7. CASE UNCHANGED vars
    BY <1>7 DEF vars, store, segments, config
  <1> QED
    BY <1>2, <1>3, <1>4, <1>5, <1>6, <1>7 DEF Next

\* The refusal of the migration to overwrite a segment is never what ends a run: each segment moves
\* as a whole, and whatever is stored goes where all lines are.
THEOREM MigrationNeverClashesAlways == Spec => []MigrationNeverClashes
  <1>1. Init => OneDir
    BY SpineAssumption DEF Init, WellFormed, OneDir
  <1>2. IInv /\ OneDir /\ [Next]_vars => OneDir'
    <2> SUFFICES ASSUME IInv, OneDir, [Next]_vars
                 PROVE  OneDir'
      OBVIOUS
    <2>1. lines \in Seq(Line)
      BY DEF IInv, Types, PcOK
    <2>2. CASE lines' = lines
      BY <2>2 DEF OneDir
    <2>3. CASE \E d \in Dir : \E e, prev, how : OnlyIn(d) /\ Store(e, d, prev, how)
      BY <2>1, <2>3, StoreStays
    <2>4. CASE \E i \in Initer : MigrateSegment(i)
      BY <2>1, <2>4, RenameStays DEF MigrateSegment
    <2> QED
      BY <2>1, <2>2, <2>3, <2>4, LineSteps, RepairStays
  <1>3. OneDir => MigrationNeverClashes
    BY DEF OneDir, MigrationNeverClashes, Segs, InDir
  <1> QED
    BY <1>1, <1>2, <1>3, Invariant, PTL DEF Spec

-----------------------------------------------------------------------------
(* What the marker tells: stamps, syncs and appends that look for each other's *)
(* trace, each before and after leaving its own                                *)

Marked == {"recheck", "migrate", "seed", "anchor", "publish", "unmark"}
Past   == {"migrate", "seed", "anchor", "publish"}

\* An init that lives and wrote the marker still has it, until replica.json is there.
MarkerStays == \A i \in Initer \ dead :
    /\ pc[i] \in Marked => Named
    /\ pc[i] = "fill" => marker
    /\ pc[i] = "unmark" => committed

\* A stamp leaves its directory before it looks again, and one let stand keeps it.
DirsStand == \A s \in Stamper : pc[s] \in {"stamping", "restampMarker", "standing"} => s \in anchorDirs

\* Past its own second look an init is alone: no stamp was let stand.
NoneStands == \A i \in Initer \ dead : pc[i] \in Past => \A s \in Stamper : pc[s] # "standing"

\* Whoever is between its two reads after the publication meets the marker, or straddled it.
Straddled ==
    committed => /\ \A p \in Stamper \cup Reader : pc[p] \in Between => Named \/ p \in straddled
                 /\ \A s \in Stamper : pc[s] = "standing" => s \in straddled

\* A partition of this checkout is explained by a marker or by replica.json, unless
\* an init dropped the marker.
PartExplained == InDir("part") # {} => marker \/ committed \/ MarkerDropped

SyncInv == MarkerStays /\ DirsStand /\ NoneStands /\ Straddled /\ PartExplained

\* A step of anyone but an init or a stamp.
LEMMA OthersExplained ==
    ASSUME SyncInv, dead \subseteq dead',
           UNCHANGED <<marker, blank, committed, anchorDirs, straddled>>,
           \A p \in Initer \cup Stamper : pc'[p] = pc[p],
           \A r \in Reader : pc'[r] \in Between => pc[r] \in Between \/ ~committed,
           InDir("part")' # {} => InDir("part") # {} \/ committed
    PROVE  SyncInv'
  <1>1. MarkerStays' /\ DirsStand' /\ NoneStands'
    BY DEF SyncInv, MarkerStays, Named, DirsStand, NoneStands
  <1>2. Straddled'
    BY DEF SyncInv, Straddled, Named
  <1>3. PartExplained'
    BY DEF SyncInv, PartExplained, MarkerDropped
  <1> QED
    BY <1>1, <1>2, <1>3 DEF SyncInv

\* A stored line goes to the partition only where there is one, or replica.json is there.
LEMMA WriterPart ==
    ASSUME IInv, NEW w \in Writer, AppendNext(w)
    PROVE  InDir("part")' # {} => InDir("part") # {} \/ committed
  <1>1. CASE PartWrites(w)
    BY <1>1 DEF PartWrites, At, IInv, Core, Modes
  <1>2. CASE FlatWrites(w)
    <2>1. PICK e, s, prev, how : lines' = Append(lines, NewLine(e, "flat", s, prev, how))
      BY <1>2 DEF FlatWrites, Writes, Store
    <2>2. NewLine(e, "flat", s, prev, how).dir = "flat"
      BY DEF NewLine
    <2>3. lines \in Seq(Line)
      BY DEF IInv, Types, PcOK
    <2> HIDE DEF NewLine
    <2>4. \A k \in DOMAIN lines' : lines'[k].dir = "part" => k \in DOMAIN lines /\ lines[k].dir = "part"
      BY <2>1, <2>2, <2>3
    <2> QED
      BY <2>4 DEF InDir
  <1>3. CASE ~PartWrites(w) /\ ~FlatWrites(w)
    <2>1. lines' = lines
      BY <1>3 DEF AppendNext, AppendStart, ReadCommitted, ProbeMarker, ProbeMode, PollCommitted, PollMarker,
             PollTimesOut, Recommit, LockFlat, LockPart, GiveUp, FlatHandsBack, PartRefuses,
             AppendReturns, FlatLinks, PartLinks, Links, store, segments, config
    <2> QED
      BY <2>1 DEF InDir
  <1> QED
    BY <1>1, <1>2, <1>3

\* append() leaves the traces of the others alone.
LEMMA WriterExplained ==
    ASSUME IInv, SyncInv, NEW w \in Writer, AppendNext(w)
    PROVE  SyncInv'
  <1>1. UNCHANGED <<marker, blank, committed, anchorDirs, straddled, dead>>
    BY DEF AppendNext, AppendStart, ReadCommitted, ProbeMarker, ProbeMode, PollCommitted, PollMarker,
           PollTimesOut, Recommit, LockFlat, LockPart, GiveUp, FlatHandsBack, PartRefuses,
           AppendReturns, FlatLinks, PartLinks, FlatWrites, PartWrites, Writes, Links, store, segments, config
  <1>2. \E to : pc' = [pc EXCEPT ![w] = to]
    BY DEF AppendNext, AppendStart, ReadCommitted, ProbeMarker, ProbeMode, PollCommitted, PollMarker,
           PollTimesOut, Recommit, LockFlat, LockPart, GiveUp, FlatHandsBack, PartRefuses,
           AppendReturns, FlatLinks, PartLinks, FlatWrites, PartWrites, Writes, Leave, Goto
  <1>3. \A p \in Initer \cup Stamper \cup Reader : pc'[p] = pc[p]
    BY <1>2, SpineAssumption DEF IInv, Types, PcOK, Process
  <1>4. InDir("part")' # {} => InDir("part") # {} \/ committed
    BY WriterPart
  <1> QED
    BY <1>1, <1>3, <1>4, OthersExplained

\* A reader comes between its two reads on finding no replica.json.
LEMMA ReaderExplained ==
    ASSUME IInv, SyncInv, NEW r \in Reader, ReadNext(r)
    PROVE  SyncInv'
  <1>1. UNCHANGED <<lines, marker, blank, committed, anchorDirs, straddled, dead>>
    BY DEF ReadNext, ReadStart, ReadActive, ListFlat, ListResidual, ListReplica, ListSegments,
           ReadFlat, ReadResidual, ReadReplica, ReadSegment, FlatVanished, ResidualVanished,
           SegmentEmptied, SkipSegment, NothingLeft, Unaffected, store, segments, config
  <1>2. \/ pc' = pc
        \/ \E to : pc' = [pc EXCEPT ![r] = to] /\ (to \in Between => ~committed)
    BY DEF ReadNext, ReadStart, ReadActive, ListFlat, ListResidual, ListReplica, ListSegments,
           ReadFlat, ReadResidual, ReadReplica, ReadSegment, FlatVanished, ResidualVanished,
           SegmentEmptied, SkipSegment, NothingLeft, Between, Goto
  <1>3. \A p \in Initer \cup Stamper : pc'[p] = pc[p]
    BY <1>2, SpineAssumption DEF IInv, Types, PcOK, Process
  <1>4. \A q \in Reader : pc'[q] \in Between => pc[q] \in Between \/ ~committed
    BY <1>2, SpineAssumption DEF IInv, Types, PcOK, Process
  <1>5. InDir("part")' = InDir("part")
    BY <1>1 DEF InDir
  <1> QED
    BY <1>1, <1>3, <1>4, <1>5, OthersExplained

\* Crashes, pulls and repairs leave no trace and take none away.
LEMMA AroundExplained ==
    ASSUME IInv, SyncInv, Around
    PROVE  SyncInv'
  <1>1. UNCHANGED <<marker, blank, committed, anchorDirs, straddled, pc>> /\ dead \subseteq dead'
    BY DEF Around, Die, PullPeer, OperatorTrims, OperatorEnds, store, segments, config
  <1>2. InDir("part")' # {} => InDir("part") # {}
    <2>1. CASE OperatorTrims \/ OperatorEnds
      BY <2>1, RepairKeeps DEF IInv, Types, PcOK, Core, Dir
    <2>2. CASE PullPeer \/ \E p \in Process : Die(p)
      BY <2>2 DEF PullPeer, Die, store, segments, config, InDir
    <2> QED
      BY <2>1, <2>2 DEF Around
  <1> QED
    BY <1>1, <1>2, OthersExplained

\* A stamp stands on finding no marker: no init is past its second look then.
LEMMA StampExplained ==
    ASSUME IInv, SyncInv, NEW s \in Stamper, StampNext(s)
    PROVE  SyncInv'
  <1>1. UNCHANGED <<lines, marker, blank, committed, straddled, dead>>
    BY DEF StampNext, StampReadsReplica, StampReadsMarker, MakeAnchorDir, RollBack, StampEnds,
           StampRechecks, store, segments, config
  <1>2. PICK to :
            /\ pc' = [pc EXCEPT ![s] = to]
            /\ \/ anchorDirs' = anchorDirs \/ anchorDirs' = anchorDirs \cup {s}
               \/ anchorDirs' = anchorDirs \ {s} /\ to \in {"stampFailed", "syncMode"}
            /\ to = "stamping" => s \in anchorDirs'
            /\ to \in Between => to = "restampMarker" /\ ~committed
            /\ to = "restampMarker" => pc[s] = "stamping"
            /\ to = "standing" => pc[s] = "restampMarker" /\ ~Named
    BY DEF StampNext, StampReadsReplica, StampReadsMarker, MakeAnchorDir, RollBack, StampEnds,
           StampRechecks, Between, At, Goto, store, segments, config
  <1>3. pc'[s] = to /\ \A p \in Process : p # s => pc'[p] = pc[p]
    BY <1>2 DEF IInv, Types, PcOK, Process
  <1>4. s \notin Initer /\ \A p \in Initer \cup Stamper \cup Reader : p \in Process
    BY SpineAssumption DEF Process
  <1>5. MarkerStays'
    BY <1>1, <1>3, <1>4 DEF SyncInv, MarkerStays, Named
  <1>6. DirsStand'
    BY <1>1, <1>2, <1>3, <1>4 DEF SyncInv, DirsStand
  <1>7. NoneStands'
    BY <1>1, <1>2, <1>3, <1>4 DEF SyncInv, NoneStands, MarkerStays, Named, Marked, Past
  <1>8. Straddled'
    <2> SUFFICES ASSUME committed
                 PROVE  /\ \A p \in Stamper \cup Reader : pc'[p] \in Between => Named \/ p \in straddled
                        /\ \A q \in Stamper : pc'[q] = "standing" => q \in straddled
      BY <1>1 DEF Straddled, Named
    <2>1. to \notin Between /\ (to = "standing" => s \in straddled)
      BY <1>2 DEF SyncInv, Straddled, Named, Between
    <2>2. /\ \A p \in Stamper \cup Reader : pc[p] \in Between => Named \/ p \in straddled
          /\ \A q \in Stamper : pc[q] = "standing" => q \in straddled
      BY Zenon DEF SyncInv, Straddled, Named
    <2>3. \A p \in Stamper \cup Reader : p # s => pc'[p] = pc[p]
      BY <1>3, <1>4
    <2> QED
      <3>1. \A p \in Stamper \cup Reader : pc'[p] \in Between => Named \/ p \in straddled
        BY <1>3, <2>1, <2>2, <2>3, Zenon
      <3>2. \A q \in Stamper : pc'[q] = "standing" => q \in straddled
        BY <1>3, <2>1, <2>2, <2>3
      <3> QED
        BY <3>1, <3>2
  <1>9. PartExplained'
    BY <1>1, <1>3, <1>4 DEF SyncInv, PartExplained, MarkerDropped, InDir
  <1> QED
    BY <1>5, <1>6, <1>7, <1>8, <1>9 DEF SyncInv

\* An init alone comes past its marker: what the others are at, it knows.
LEMMA SyncAlone ==
    ASSUME IInv, NEW i \in Initer \ dead, pc[i] \in Migrating
    PROVE  \A j \in Initer \ dead : pc[j] \in Migrating => j = i
  BY DEF IInv, Core, Held

\* A step of an init that neither writes nor removes a marker or replica.json.
LEMMA QuietSync ==
    ASSUME IInv, SyncInv, NEW i \in Initer \ dead, NEW to,
           UNCHANGED <<marker, blank, committed, anchorDirs, straddled, dead>>,
           pc' = [pc EXCEPT ![i] = to],
           pc[i] # "anchorsFound",
           to \in Marked => pc[i] \in Marked /\ to # "unmark", to # "fill",
           to \in Past => pc[i] \in Past \/ anchorDirs = {},
           InDir("part")' # {} => InDir("part") # {} \/ marker
    PROVE  SyncInv'
  <1>1. pc'[i] = to /\ \A p \in Process : p # i => pc'[p] = pc[p]
    BY DEF IInv, Types, PcOK, Process
  <1>2. i \notin Stamper \cup Reader /\ \A p \in Initer \cup Stamper \cup Reader : p \in Process
    BY SpineAssumption DEF Process
  <1>3. MarkerStays'
    BY <1>1, <1>2 DEF SyncInv, MarkerStays, Named, Marked
  <1>4. DirsStand'
    BY <1>1, <1>2 DEF SyncInv, DirsStand
  <1>5. NoneStands'
    BY <1>1, <1>2 DEF SyncInv, NoneStands, DirsStand
  <1>6. Straddled'
    BY <1>1, <1>2 DEF SyncInv, Straddled, Named
  <1>7. PartExplained'
    BY <1>1, <1>2 DEF SyncInv, PartExplained, MarkerDropped
  <1> QED
    BY <1>3, <1>4, <1>5, <1>6, <1>7 DEF SyncInv

\* The checks, the migration and the events an init stores.
LEMMA InitExplained ==
    ASSUME IInv, SyncInv, NEW i \in Initer, SyncNext(i),
           ~TruncateMarker(i), ~WriteMarker(i), ~RecheckRefuses(i), ~PublishReplica(i), ~UnlinkMarker(i), ~MigrateSegment(i)
    PROVE  SyncInv'
  <1>1. i \in Initer \ dead
    BY DEF SyncNext, TakeInitLock, EarlyRefusal, AlreadySynced, EarlyChecksPass, TakeFlatLock,
           RecheckPasses, MigrateDone, SeedCutover, AdoptAnchor, PublishAnchor, BootstrapFails, At
  <1>2. UNCHANGED <<marker, blank, committed, anchorDirs, straddled, dead>>
    BY DEF SyncNext, TakeInitLock, EarlyRefusal, AlreadySynced, EarlyChecksPass, TakeFlatLock,
           RecheckPasses, MigrateDone, SeedCutover, AdoptAnchor, PublishAnchor, BootstrapFails,
           InitStores, store, segments, config
  <1>3. PICK to : /\ pc' = [pc EXCEPT ![i] = to]
                  /\ pc[i] # "anchorsFound"
                  /\ to \in Marked => pc[i] \in Marked /\ to # "unmark"
                  /\ to # "fill"
                  /\ to \in Past => pc[i] \in Past \/ anchorDirs = {}
    BY DEF SyncNext, TakeInitLock, EarlyRefusal, AlreadySynced, EarlyChecksPass, TakeFlatLock,
           RecheckPasses, MigrateDone, SeedCutover, AdoptAnchor, PublishAnchor, BootstrapFails,
           InitStores, Finish, Goto, At, Marked, Past
  <1>4. InDir("part")' # {} => InDir("part") # {} \/ marker
    <2>1. CASE SeedCutover(i) \/ PublishAnchor(i)
      BY <1>1, <2>1 DEF SeedCutover, PublishAnchor, At, SyncInv, MarkerStays, Named, Marked
    <2>2. CASE ~SeedCutover(i) /\ ~PublishAnchor(i)
      <3>1. lines' = lines
        BY <2>2 DEF SyncNext, TakeInitLock, EarlyRefusal, AlreadySynced, EarlyChecksPass, TakeFlatLock,
               RecheckPasses, MigrateDone, AdoptAnchor, BootstrapFails, store, segments, config
      <3> QED
        BY <3>1 DEF InDir
    <2> QED
      BY <2>1, <2>2
  <1> QED
    BY <1>1, <1>2, <1>3, <1>4, QuietSync

\* A segment is renamed under the marker.
LEMMA RenameExplained ==
    ASSUME IInv, SyncInv, NEW i \in Initer, MigrateSegment(i)
    PROVE  SyncInv'
  <1>1. UNCHANGED <<marker, blank, committed, anchorDirs, straddled, pc, dead>> /\ marker
    BY DEF MigrateSegment, config, At, SyncInv, MarkerStays, Named, Marked
  <1>2. MarkerStays' /\ DirsStand' /\ NoneStands' /\ Straddled'
    BY <1>1 DEF SyncInv, MarkerStays, Named, DirsStand, NoneStands, Straddled
  <1>3. PartExplained'
    BY <1>1 DEF PartExplained
  <1> QED
    BY <1>2, <1>3 DEF SyncInv

\* The marker is truncated, written and removed, and replica.json is published.
LEMMA MarkerExplained ==
    ASSUME IInv, SyncInv, NEW i \in Initer,
           TruncateMarker(i) \/ WriteMarker(i) \/ RecheckRefuses(i) \/ PublishReplica(i) \/ UnlinkMarker(i)
    PROVE  SyncInv'
  <1> USE DEF TruncateMarker, WriteMarker, RecheckRefuses, PublishReplica, UnlinkMarker, Finish, Goto, At,
              segments
  <1>1. /\ UNCHANGED <<anchorDirs, dead>> /\ i \in Initer \ dead /\ pc[i] \in Migrating
        /\ straddled \subseteq straddled'
    BY DEF Migrating
  <1>2. PICK to : /\ pc' = [pc EXCEPT ![i] = to]
                  /\ \/ TruncateMarker(i) /\ to = "fill"
                     \/ WriteMarker(i) /\ to = "recheck" /\ blank' = FALSE
                     \/ WriteMarker(i) /\ to = "initFailed"
                     \/ RecheckRefuses(i) /\ to = "anchorsFound"
                     \/ PublishReplica(i) /\ to = "unmark"
                     \/ UnlinkMarker(i) /\ to = "initOk"
    OBVIOUS
  <1>3. pc'[i] = to /\ \A p \in Process : p # i => pc'[p] = pc[p]
    BY <1>2 DEF IInv, Types, PcOK, Process
  <1>4. i \notin Stamper \cup Reader /\ \A p \in Initer \cup Stamper \cup Reader : p \in Process
    BY SpineAssumption DEF Process
  <1>5. \A j \in Initer \ dead : j # i => pc'[j] \notin Marked /\ pc'[j] # "fill"
    BY <1>1, <1>3, <1>4, SyncAlone DEF Migrating, Marked
  <1>6. DirsStand'
    BY <1>1, <1>3, <1>4 DEF SyncInv, DirsStand
  <1>7. NoneStands'
    <2>1. \A j \in Initer \ dead : pc'[j] \in Past => j # i
      BY <1>2, <1>3, <1>4 DEF Past
    <2>2. Past \subseteq Marked
      BY DEF Past, Marked
    <2>3. \A j \in Initer \ dead : pc'[j] \notin Past
      BY <1>5, <2>1, <2>2, Zenon
    <2> QED
      BY <1>1, <2>3, Zenon DEF NoneStands
  <1>8. CASE TruncateMarker(i)
    <2>1. marker' = TRUE /\ committed' = committed /\ straddled' = straddled /\ to = "fill" /\ ~committed
      BY <1>1, <1>2, <1>8, InitAlone DEF Migrating
    <2>2. MarkerStays' /\ Straddled' /\ PartExplained'
      BY <1>1, <1>3, <1>5, <2>1 DEF MarkerStays, Straddled, PartExplained, Marked
    <2> QED
      BY <1>6, <1>7, <2>2 DEF SyncInv
  <1>9. CASE WriteMarker(i)
    <2>1. /\ marker' = marker /\ committed' = committed /\ straddled' = straddled /\ ~committed /\ marker
          /\ \/ to = "recheck" /\ blank' = FALSE
             \/ to = "initFailed"
      BY <1>1, <1>2, <1>9, InitAlone DEF Migrating, SyncInv, MarkerStays
    <2>2. MarkerStays' /\ Straddled' /\ PartExplained'
      BY <1>1, <1>3, <1>5, <2>1 DEF MarkerStays, Named, Straddled, PartExplained, Marked
    <2> QED
      BY <1>6, <1>7, <2>2 DEF SyncInv
  <1>10. CASE RecheckRefuses(i)
    <2>1. committed' = committed /\ straddled' = straddled /\ to = "anchorsFound" /\ ~committed
      BY <1>1, <1>2, <1>10, InitAlone DEF Migrating
    <2>2. MarkerStays' /\ Straddled' /\ PartExplained'
      BY <1>1, <1>3, <1>5, <2>1 DEF MarkerStays, Straddled, PartExplained, MarkerDropped, Marked
    <2> QED
      BY <1>6, <1>7, <2>2 DEF SyncInv
  <1>11. CASE PublishReplica(i)
    <2>1. /\ committed' = TRUE /\ marker' = marker /\ blank' = blank /\ straddled' = straddled
          /\ to = "unmark" /\ Named /\ \A s \in Stamper : pc[s] # "standing"
      BY <1>1, <1>2, <1>11 DEF SyncInv, MarkerStays, Marked, NoneStands, Past
    <2>2. MarkerStays' /\ Straddled' /\ PartExplained'
      BY <1>1, <1>3, <1>4, <1>5, <2>1 DEF MarkerStays, Named, Straddled, PartExplained
    <2> QED
      BY <1>6, <1>7, <2>2 DEF SyncInv
  <1>12. CASE UnlinkMarker(i)
    <2>1. /\ committed' = committed /\ to = "initOk" /\ committed
          /\ straddled' = straddled \cup {p \in Process : pc[p] \in Between}
      BY <1>1, <1>2, <1>12 DEF SyncInv, MarkerStays
    <2>2. MarkerStays' /\ Straddled' /\ PartExplained'
      BY <1>1, <1>3, <1>4, <1>5, <2>1 DEF MarkerStays, SyncInv, Straddled, PartExplained, Marked
    <2> QED
      BY <1>6, <1>7, <2>2 DEF SyncInv
  <1> QED
    BY <1>8, <1>9, <1>10, <1>11, <1>12

\* In every state of every run.
LEMMA SyncInvariant == Spec => []SyncInv
  <1>1. Init => SyncInv
    <2> SUFFICES ASSUME Init PROVE SyncInv
      OBVIOUS
    <2>1. /\ \A i \in Initer : pc[i] = "initIdle"
          /\ \A s \in Stamper : pc[s] = "stampIdle"
          /\ \A r \in Reader : pc[r] = "readIdle"
      BY SpineAssumption DEF Init, Process
    <2>2. InDir("part") = {} /\ committed = FALSE
      BY SpineAssumption DEF Init, WellFormed, InDir
    <2> QED
      BY <2>1, <2>2 DEF SyncInv, MarkerStays, Named, DirsStand, NoneStands, Straddled, PartExplained,
                        Marked, Past, Between
  <1>2. IInv /\ SyncInv /\ [Next]_vars => SyncInv'
    <2> SUFFICES ASSUME IInv, SyncInv, [Next]_vars PROVE SyncInv'
      OBVIOUS
    <2>1. ASSUME NEW i \in Initer, SyncNext(i) PROVE SyncInv'
      BY <2>1, InitExplained, RenameExplained, MarkerExplained
    <2>2. CASE UNCHANGED vars
      <3>1. UNCHANGED <<lines, marker, blank, committed, anchorDirs, straddled, pc, dead>>
        BY <2>2 DEF vars, store, segments, config
      <3> QED
        BY <3>1, OthersExplained DEF InDir
    <2> QED
      BY <2>1, <2>2, WriterExplained, StampExplained, ReaderExplained, AroundExplained DEF Next
  <1> QED
    BY <1>1, <1>2, Invariant, PTL DEF Spec

\* For any number of stamps and inits, whichever die: of the two second looks one fires, so
\* that no stamp was let stand in a checkout whose sync was published, but one the publication
\* overtook between its two reads.
THEOREM AnchorsOrSyncAlways == Spec => []AnchorsOrSync
  <1>1. SyncInv => AnchorsOrSync
    BY DEF SyncInv, Straddled, AnchorsOrSync
  <1> QED
    BY <1>1, SyncInvariant, PTL

\* For any number of appends, inits and stamps: an append that refuses had a peer's partition
\* before it, or took the one of a migration under way without the lock, or a marker was dropped.
THEOREM RefusalJustifiedAlways == Spec => RefusalJustified
  <1>1. ASSUME IInv, SyncInv, [Next]_vars,
               NEW w \in Writer, pc'[w] = "unattached", pc[w] # "unattached"
        PROVE  peer \/ (pc[w] = "mode" /\ (marker \/ committed)) \/ MarkerDropped
    <2>1. \A v \in Process \ {w} : \A to : pc' = [pc EXCEPT ![v] = to] => pc'[w] = pc[w]
      BY DEF IInv, Types, PcOK
    <2>2. AppendNext(w)
      <3>1. ASSUME NEW v \in Writer, AppendNext(v) PROVE v = w
        <4>1. \E to : pc' = [pc EXCEPT ![v] = to]
          BY <3>1 DEF AppendNext, AppendStart, ReadCommitted, ProbeMarker, ProbeMode, PollCommitted,
                 PollMarker, PollTimesOut, Recommit, LockFlat, LockPart, GiveUp, FlatHandsBack, PartRefuses,
                 AppendReturns, FlatLinks, PartLinks, FlatWrites, PartWrites, Writes, Leave, Goto
        <4> QED
          BY <1>1, <2>1, <4>1 DEF Process
      <3>2. ASSUME NEW i \in Initer, SyncNext(i) PROVE FALSE
        <4>1. pc' = pc \/ \E to : pc' = [pc EXCEPT ![i] = to]
          BY <3>2 DEF SyncNext, TakeInitLock, EarlyRefusal, AlreadySynced, EarlyChecksPass, TakeFlatLock,
                 TruncateMarker, WriteMarker, RecheckRefuses, RecheckPasses, MigrateSegment, MigrateDone, SeedCutover,
                 AdoptAnchor, PublishAnchor, BootstrapFails, PublishReplica, UnlinkMarker, InitStores,
                 Finish, Goto
        <4> QED
          BY <1>1, <2>1, <4>1, SpineAssumption DEF Process
      <3>3. ASSUME NEW s \in Stamper, StampNext(s) PROVE FALSE
        <4>1. \E to : pc' = [pc EXCEPT ![s] = to]
          BY <3>3 DEF StampNext, StampReadsReplica, StampReadsMarker, MakeAnchorDir, RollBack, StampEnds,
                 StampRechecks, Goto
        <4> QED
          BY <1>1, <2>1, <4>1, SpineAssumption DEF Process
      <3>4. ASSUME NEW r \in Reader, ReadNext(r) PROVE FALSE
        <4>1. pc' = pc \/ \E to : pc' = [pc EXCEPT ![r] = to]
          BY <3>4 DEF ReadNext, ReadStart, ReadActive, ListFlat, ListResidual, ListReplica, ListSegments,
                 ReadFlat, ReadResidual, ReadReplica, ReadSegment, FlatVanished, ResidualVanished,
                 SegmentEmptied, SkipSegment, NothingLeft, Goto
        <4> QED
          BY <1>1, <2>1, <4>1, SpineAssumption DEF Process
      <3>5. CASE Around
        BY <1>1, <3>5 DEF Around, Die, PullPeer, OperatorTrims, OperatorEnds
      <3>6. CASE UNCHANGED vars
        BY <1>1, <3>6 DEF vars
      <3> QED
        BY <1>1, <3>1, <3>2, <3>3, <3>4, <3>5, <3>6 DEF Next
    <2>3. /\ ModePartitioned
          /\ \/ pc[w] = "mode"
             \/ ~committed /\ ~marker
      <3>1. \A to : pc' = [pc EXCEPT ![w] = to] => to = "unattached"
        BY <1>1 DEF IInv, Types, PcOK, Process
      <3> QED
        BY <2>2, <3>1 DEF AppendNext, AppendStart, ReadCommitted, ProbeMarker, ProbeMode, PollCommitted,
               PollMarker, PollTimesOut, Recommit, LockFlat, LockPart, GiveUp, FlatHandsBack, PartRefuses,
               AppendReturns, FlatLinks, PartLinks, FlatWrites, PartWrites, Writes, Leave, Goto, At
    <2>4. peer \/ marker \/ committed \/ MarkerDropped
      BY <1>1, <2>3, Zenon DEF ModePartitioned, SyncInv, PartExplained
    <2> QED
      BY <2>3, <2>4, Zenon
  <1>2. IInv /\ SyncInv /\ [Next]_vars =>
            [\A w \in Writer :
                pc'[w] = "unattached" /\ pc[w] # "unattached" =>
                    \/ peer
                    \/ pc[w] = "mode" /\ (marker \/ committed)
                    \/ MarkerDropped]_vars
    BY <1>1, Zenon
  <1> QED
    BY <1>2, Invariant, SyncInvariant, PTL DEF Spec, RefusalJustified
-----------------------------------------------------------------------------
(* Which partition an init stores in *)

\* The marker is empty only inside the writeFile of a run, or after one that ended there.
Blanked ==
    marker /\ blank => \E i \in Initer : pc[i] = "fill" \/ (pc[i] = "initFailed" /\ i \in MayTear)

\* A step that leaves a marker as it is, and the runs that left one empty where they are.
LEMMA KeptRests ==
    ASSUME PartitionKept, Blanked,
           UNCHANGED <<left, blank>>, marker' => marker, dead \subseteq dead',
           \A i \in Initer : pc[i] \in {"fill", "initFailed", "anchorsFound"} => pc'[i] = pc[i]
    PROVE  PartitionKept' /\ Blanked'
  BY DEF PartitionKept, Blanked, MarkerDropped

\* A step of anyone but an init.
LEMMA OthersKept ==
    ASSUME IInv, PartitionKept, Blanked,
           \/ \E w \in Writer : AppendNext(w)
           \/ \E s \in Stamper : StampNext(s)
           \/ \E r \in Reader : ReadNext(r)
           \/ Around \/ UNCHANGED vars
    PROVE  PartitionKept' /\ Blanked'
  <1>1. /\ pc \in [Process -> AppendPcs \cup InitPcs \cup StampPcs \cup ReadSteps]
        /\ \A i \in Initer : i \in Process /\ i \notin Writer \cup Stamper \cup Reader
    BY SpineAssumption DEF IInv, Types, PcOK, Process
  <1>2. ASSUME NEW p \in Writer \cup Stamper \cup Reader, UNCHANGED <<left, marker, blank, dead>>,
               pc' = pc \/ \E to : pc' = [pc EXCEPT ![p] = to]
        PROVE  PartitionKept' /\ Blanked'
    BY <1>1, <1>2, KeptRests
  <1>3. ASSUME NEW w \in Writer, AppendNext(w)
        PROVE  PartitionKept' /\ Blanked'
    <2>1. UNCHANGED <<left, marker, blank, dead>> /\ \E to : pc' = [pc EXCEPT ![w] = to]
      BY <1>3 DEF AppendNext, AppendStart, ReadCommitted, ProbeMarker, ProbeMode, PollCommitted, PollMarker,
             PollTimesOut, Recommit, LockFlat, LockPart, GiveUp, FlatHandsBack, PartRefuses, AppendReturns,
             FlatLinks, PartLinks, FlatWrites, PartWrites, Writes, Links, Leave, Goto, Store,
             store, segments, config
    <2> QED
      BY <1>2, <2>1
  <1>4. ASSUME NEW s \in Stamper, StampNext(s)
        PROVE  PartitionKept' /\ Blanked'
    <2>1. UNCHANGED <<left, marker, blank, dead>> /\ \E to : pc' = [pc EXCEPT ![s] = to]
      BY <1>4 DEF StampNext, StampReadsReplica, StampReadsMarker, MakeAnchorDir, RollBack, StampEnds,
             StampRechecks, Goto, store, segments, config
    <2> QED
      BY <1>2, <2>1
  <1>5. ASSUME NEW r \in Reader, ReadNext(r)
        PROVE  PartitionKept' /\ Blanked'
    <2>1. UNCHANGED <<left, marker, blank, dead>> /\ (pc' = pc \/ \E to : pc' = [pc EXCEPT ![r] = to])
      BY <1>5 DEF ReadNext, ReadStart, ReadActive, ListFlat, ListResidual, ListReplica, ListSegments,
             ReadFlat, ReadResidual, ReadReplica, ReadSegment, FlatVanished, ResidualVanished,
             SegmentEmptied, SkipSegment, NothingLeft, Unaffected, Goto, store, segments, config
    <2> QED
      BY <1>2, <2>1
  <1>6. CASE Around
    <2>1. UNCHANGED <<left, marker, blank, pc>> /\ dead \subseteq dead'
      BY <1>6 DEF Around, Die, PullPeer, OperatorTrims, OperatorEnds, store, segments, config
    <2> QED
      BY <2>1, KeptRests
  <1>7. CASE UNCHANGED vars
    <2>1. UNCHANGED <<left, marker, blank, pc, dead>>
      BY <1>7 DEF vars, store, segments, config
    <2> QED
      BY <2>1, KeptRests
  <1> QED
    BY <1>3, <1>4, <1>5, <1>6, <1>7

\* A step of an init that does not write the marker.
LEMMA InitKept ==
    ASSUME IInv, PartitionKept, Blanked, NEW i \in Initer, SyncNext(i),
           ~TruncateMarker(i), ~WriteMarker(i)
    PROVE  PartitionKept' /\ Blanked'
  <1>1. /\ pc \in [Process -> AppendPcs \cup InitPcs \cup StampPcs \cup ReadSteps]
        /\ Initer \subseteq Process
    BY DEF IInv, Types, PcOK, Process
  <1>2. /\ UNCHANGED <<left, blank, dead>> /\ (marker' => marker)
        /\ pc[i] \notin {"fill", "initFailed", "anchorsFound"}
        /\ pc' = pc \/ \E to : pc' = [pc EXCEPT ![i] = to]
    BY DEF SyncNext, TakeInitLock, EarlyRefusal, AlreadySynced, EarlyChecksPass, TakeFlatLock,
           RecheckRefuses, RecheckPasses, MigrateSegment, MigrateDone, SeedCutover, AdoptAnchor,
           PublishAnchor, BootstrapFails, PublishReplica, UnlinkMarker, InitStores, Store, Finish,
           At, Goto, store, segments, config
  <1> QED
    BY <1>1, <1>2, KeptRests

\* A run that reads no id where a partition has lines: another one ended inside the write of the
\* marker, or dropped it.
LEMMA MarkerKept ==
    ASSUME IInv, SyncInv, PartitionKept, Blanked, NEW i \in Initer, TruncateMarker(i) \/ WriteMarker(i)
    PROVE  PartitionKept' /\ Blanked'
  <1>1. PICK to : /\ pc' = [pc EXCEPT ![i] = to]
                  /\ \/ TruncateMarker(i) /\ to = "fill"
                     \/ WriteMarker(i) /\ (blank' = FALSE \/ (to = "initFailed" /\ i \in MayTear))
    BY DEF TruncateMarker, WriteMarker, Finish, Goto
  <1>2. pc[i] \in {"mark", "fill"} /\ i \notin dead /\ dead' = dead
    BY DEF TruncateMarker, WriteMarker, At
  <1>3. pc'[i] = to /\ \A j \in Initer : j # i => pc'[j] = pc[j]
    BY <1>1 DEF IInv, Types, PcOK, Process
  <1>4. Blanked'
    BY <1>1, <1>3 DEF Blanked
  <1>5. CASE left' = left
    BY <1>2, <1>3, <1>4, <1>5 DEF PartitionKept, MarkerDropped
  <1>6. CASE left' # left
    <2>1. TruncateMarker(i) /\ ~Named /\ LeavesBehind
      BY <1>6 DEF TruncateMarker, WriteMarker, segments
    <2>2. InDir("part") # {}
      <3>1. PICK n \in Border(lines') : TRUE
        BY <1>6, <2>1 DEF LeavesBehind
      <3>2. n \in DOMAIN lines' /\ lines'[n].dir = "part"
        BY <3>1 DEF Border
      <3>3. n \in DOMAIN lines /\ lines'[n] = lines[n]
        <4>1. lines \in Seq(Line) /\ (lines' = lines \/ lines' = SubSeq(lines, 1, Len(lines) - 1))
          BY <2>1 DEF LeavesBehind, IInv, Types
        <4> QED
          BY <3>2, <4>1
      <3> QED
        BY <3>2, <3>3 DEF InDir
    <2>3. ~committed /\ pc[i] = "mark"
      BY <1>2, <2>1, InitAlone DEF TruncateMarker, At, Migrating
    <2>4. MarkerDropped \/ (marker /\ blank)
      BY <2>1, <2>2, <2>3 DEF SyncInv, PartExplained, Named
    <2>5. CASE MarkerDropped
      BY <1>2, <1>3, <1>4, <2>5 DEF PartitionKept, MarkerDropped
    <2>6. CASE marker /\ blank
      <3>1. PICK j \in Initer : pc[j] = "fill" \/ (pc[j] = "initFailed" /\ j \in MayTear)
        BY <2>6 DEF Blanked
      <3>2. pc[j] = "fill" => j \in dead
        BY <1>2, <2>3, SyncAlone DEF Migrating
      <3> QED
        BY <1>2, <1>3, <1>4, <2>3, <3>1, <3>2 DEF PartitionKept
    <2> QED
      BY <2>4, <2>5, <2>6
  <1> QED
    BY <1>4, <1>5, <1>6

\* For any number of inits, whichever die where: a partition that was begun is resumed, and left
\* behind for one of another id only when its marker was left empty or dropped.
THEOREM PartitionKeptAlways == Spec => []PartitionKept
  <1>1. Init => PartitionKept /\ Blanked
    BY DEF Init, PartitionKept, Blanked
  <1>2. IInv /\ SyncInv /\ PartitionKept /\ Blanked /\ [Next]_vars => PartitionKept' /\ Blanked'
    <2> SUFFICES ASSUME IInv, SyncInv, PartitionKept, Blanked, [Next]_vars
                 PROVE  PartitionKept' /\ Blanked'
      OBVIOUS
    <2>1. ASSUME NEW i \in Initer, SyncNext(i) PROVE PartitionKept' /\ Blanked'
      BY <2>1, InitKept, MarkerKept
    <2> QED
      BY <2>1, OthersKept DEF Next
  <1> QED
    BY <1>1, <1>2, Invariant, SyncInvariant, PTL DEF Spec
=============================================================================
