--------------------------- MODULE AppendLockProofs ---------------------------
(***************************************************************************)
(* Proofs about AppendLock for any calls, processes, hosts and budgets.     *)
(***************************************************************************)
EXTENDS AppendLock, TLAPS

USE DEF At, Goto, Live, Waiting, Reclaiming, Steps, NoFile, FileOf

-----------------------------------------------------------------------------

\* The state stays in its types.
THEOREM TypeCorrect == Spec => []TypeOK
<1> USE CallAssumption DEF TypeOK, FileState
<1>1. Init => TypeOK
  <2>1. NoFile \in FileState
    OBVIOUS
  <2>2. [c \in Call |-> NoFile] \in [Call -> FileState]
    BY <2>1
  <2> SUFFICES ASSUME Init PROVE TypeOK
    OBVIOUS
  <2>3. file \in FileState /\ rec \in [Call -> FileState]
    BY <2>1, <2>2, Zenon DEF Init
  <2>4. raced \in BOOLEAN
    BY Zenon DEF Init
  <2>5. /\ pc \in [Call -> Steps]
        /\ nullReads \in [Call -> 0..GracePolls]
        /\ waited \in [Call -> 0..WaitPolls]
        /\ dead \subseteq Process
        /\ faults \in 0..MaxFaults
    BY DEF Init
  <2>6. QED
    BY <2>3, <2>4, <2>5, Zenon DEF TypeOK
<1>2. TypeOK /\ [Next]_vars => TypeOK'
  <2> SUFFICES ASSUME TypeOK, [Next]_vars PROVE TypeOK'
    OBVIOUS
  <2>1. ASSUME NEW c \in Call, Acquire(c) PROVE TypeOK'
    <3>1. CASE Start(c) BY <3>1 DEF Start
    <3>2. CASE OpenCreates(c) BY <3>2 DEF OpenCreates
    <3>3. CASE OpenExists(c) BY <3>3 DEF OpenExists
    <3>4. CASE OpenFails(c) BY <3>4 DEF OpenFails
    <3>5. CASE ReadNull(c) BY <3>5 DEF ReadNull, ReadsNull, Fault, Wait
    <3>6. CASE GraceOver(c) BY <3>6 DEF GraceOver, ReadsNull, Fault
    <3>7. CASE ReadRecord(c) BY <3>7 DEF ReadRecord, ReadsRecord
    <3>8. CASE ProbeSteals(c) BY <3>8 DEF ProbeSteals
    <3>9. CASE ProbeWaits(c) BY <3>9 DEF ProbeWaits, Fault, Wait
    <3>10. CASE UnlinkDead(c) BY <3>10 DEF UnlinkDead, Fault, Wait
    <3>11. CASE UnlinkBodyless(c) BY <3>11 DEF UnlinkBodyless, Fault
    <3>12. CASE WriteBody(c) BY <3>12 DEF WriteBody
    <3>13. CASE BodyFails(c)
      <4>1. file' \in FileState
        <5>1. FileOf(c, TRUE) \in FileState
          OBVIOUS
        <5>2. QED BY <3>13, <5>1, Zenon DEF BodyFails
      <4>2. QED BY <3>13, <4>1 DEF BodyFails
    <3>14. QED
      BY <2>1, <3>1, <3>2, <3>3, <3>4, <3>5, <3>6, <3>7, <3>8, <3>9, <3>10, <3>11,
         <3>12, <3>13 DEF Acquire
  <2>2. ASSUME NEW c \in Call, Release(c) PROVE TypeOK'
    BY <2>2 DEF Release, ReleaseReads, UnlinkOwn, Fault
  <2>3. ASSUME NEW p \in Process, Die(p) PROVE TypeOK'
    BY <2>3 DEF Die
  <2>4. CASE UNCHANGED vars
    BY <2>4 DEF vars
  <2>5. QED
    BY <2>1, <2>2, <2>3, <2>4 DEF Next
<1>3. QED
  BY <1>1, <1>2, PTL DEF Spec

-----------------------------------------------------------------------------

\* A live creator or holder finds its own file at the path, with its record once
\* it has written it.
OwnersHaveFile ==
    \A c \in Call :
        /\ At(c, "body") => file = FileOf(c, FALSE)
        /\ pc[c] \in {"held", "unlinkOwn"} /\ Live(c) => file = FileOf(c, TRUE)

\* A live waiter about to steal still sees the dead owner's record.
StealersSeeDead ==
    \A c \in Call : At(c, "unlinkDead") =>
        \E d \in Call : file = FileOf(d, TRUE) /\ ~Live(d)

\* A live waiter whose grace is over still sees a file no live call is working on.
GraceSeesAbandoned ==
    \A c \in Call : At(c, "unlinkBodyless") => file # NoFile /\ ~Unwritten /\ ~Unread

\* Live waiters are about to unlink one at a time.
OneReclaimer ==
    \A c, d \in Call :
        Live(c) /\ Live(d) /\ pc[c] \in Reclaiming /\ pc[d] \in Reclaiming => c = d

SafeWhileNoRace == OwnersHaveFile /\ StealersSeeDead /\ GraceSeesAbandoned /\ OneReclaimer

RaceFree == ~raced

\* The history is never taken back.
LEMMA RaceStable == ASSUME TypeOK, [Next]_vars, RaceFree' PROVE RaceFree
BY DEF RaceFree, TypeOK, Next, Acquire, Release, Die, vars, Start, OpenCreates, OpenExists,
   OpenFails, ReadNull, GraceOver, ReadRecord, ProbeSteals, ProbeWaits, UnlinkDead,
   UnlinkBodyless, WriteBody, BodyFails, ReleaseReads, UnlinkOwn

\* The core of the argument: while no window was hit, only an owner removes its
\* own file, and a reclaimer only the file it judged.
LEMMA SafeStep ==
    ASSUME TypeOK, SafeWhileNoRace, [Next]_vars, RaceFree' PROVE SafeWhileNoRace'
<1> USE CallAssumption DEF TypeOK, FileState
<1> DEFINE Safe == SafeWhileNoRace
<1> USE DEF SafeWhileNoRace, OwnersHaveFile, StealersSeeDead, GraceSeesAbandoned,
            OneReclaimer, Unwritten, Unread
<1>1. ASSUME NEW c \in Call, Acquire(c) PROVE Safe'
  <2>1. CASE Start(c) BY <2>1 DEF Start
  <2>2. CASE OpenCreates(c) BY <2>2 DEF OpenCreates
  <2>3. CASE OpenExists(c) BY <2>3 DEF OpenExists
  <2>4. CASE OpenFails(c) BY <2>4 DEF OpenFails
  <2>5. CASE ReadNull(c) BY <2>5 DEF ReadNull, ReadsNull, Fault, Wait
  <2>6. CASE GraceOver(c)
    <3>1. file # NoFile /\ ~Unwritten /\ ~Unread
      BY <2>6 DEF GraceOver, RaceFree, Absent
    <3>2. \A d \in Call \ {c} : ~(Live(d) /\ pc[d] \in Reclaiming)
      BY <2>6 DEF GraceOver, RaceFree, Overlap
    <3>3. pc' = [pc EXCEPT ![c] = "unlinkBodyless"] /\ file' = file /\ dead' = dead
      BY <2>6 DEF GraceOver
    <3>4. OwnersHaveFile' /\ StealersSeeDead'
      BY <3>3
    <3>5. GraceSeesAbandoned'
      BY <3>1, <3>3
    <3>6. OneReclaimer'
      BY <3>2, <3>3
    <3>7. QED BY <3>4, <3>5, <3>6
  <2>7. CASE ReadRecord(c) BY <2>7 DEF ReadRecord, ReadsRecord
  <2>8. CASE ProbeSteals(c) BY <2>8 DEF ProbeSteals, Stealable, OwnerProvenDead, Overlap, RaceFree
  <2>9. CASE ProbeWaits(c) BY <2>9 DEF ProbeWaits, Fault, Wait
  <2>10. CASE UnlinkDead(c) BY <2>10 DEF UnlinkDead, Fault, Wait
  <2>11. CASE UnlinkBodyless(c) BY <2>11 DEF UnlinkBodyless, Fault
  <2>12. CASE WriteBody(c)
    <3>1. file = FileOf(c, FALSE) /\ Live(c)
      BY <2>12 DEF WriteBody
    <3>2. file' = FileOf(c, TRUE) /\ pc' = [pc EXCEPT ![c] = "held"] /\ dead' = dead
      BY <2>12, <3>1 DEF WriteBody
    <3>3. \A d \in Call : Live(d) /\ pc[d] \in {"body", "held", "unlinkOwn"} => d = c
      BY <3>1
    <3>4. OwnersHaveFile'
      BY <3>2, <3>3
    <3>5. StealersSeeDead' /\ GraceSeesAbandoned'
      <4>1. \A d \in Call : ~At(d, "unlinkDead")
        BY <3>1
      <4>2. \A d \in Call : ~At(d, "unlinkBodyless")
        BY <2>12, <3>1 DEF WriteBody
      <4>3. QED BY <3>2, <4>1, <4>2
    <3>6. OneReclaimer'
      BY <3>2
    <3>7. QED BY <3>4, <3>5, <3>6
  <2>13. CASE BodyFails(c) BY <2>13 DEF BodyFails
  <2>14. QED
    BY <1>1, <2>1, <2>2, <2>3, <2>4, <2>5, <2>6, <2>7, <2>8, <2>9, <2>10, <2>11,
       <2>12, <2>13 DEF Acquire
<1>2. ASSUME NEW c \in Call, ReleaseReads(c) PROVE Safe'
  BY <1>2 DEF ReleaseReads, Fault
<1>3. ASSUME NEW c \in Call, UnlinkOwn(c) PROVE Safe'
  BY <1>3 DEF UnlinkOwn, Fault
<1>4. ASSUME NEW p \in Process, Die(p) PROVE Safe'
  BY <1>4 DEF Die
<1>5. CASE UNCHANGED vars
  BY <1>5 DEF vars
<1>6. QED
  BY <1>1, <1>2, <1>3, <1>4, <1>5 DEF Next, Release

\* What holds in every state, and is inductive.
RaceInv == TypeOK /\ (RaceFree => SafeWhileNoRace)

\* Types, and as long as none of the windows was hit, that the lock file is its holder's.
THEOREM RaceInvariant == Spec => []RaceInv
<1>1. Init => SafeWhileNoRace
  BY CallAssumption DEF Init, SafeWhileNoRace, OwnersHaveFile, StealersSeeDead,
     GraceSeesAbandoned, OneReclaimer
<1>2. TypeOK /\ (RaceFree => SafeWhileNoRace) /\ [Next]_vars => (RaceFree => SafeWhileNoRace)'
  BY RaceStable, SafeStep
<1>3. QED
  BY <1>1, <1>2, TypeCorrect, PTL DEF Spec, RaceInv

\* For any number of writers, processes and crashes: two of them are in their
\* critical sections together only after one of the four windows was hit.
THEOREM ForkFree == Spec => []ForkNeedsRace
<1>1. RaceInv => ForkNeedsRace
  BY DEF RaceInv, RaceFree, SafeWhileNoRace, OwnersHaveFile, ForkNeedsRace, MutualExclusion,
     Holding
<1>2. QED
  BY <1>1, RaceInvariant, PTL

\* Until then, no step of anyone touches the lock file of a live holder.
THEOREM HoldersKeepFile == Spec => HeldFileStays
<1>1. ASSUME RaceInv, RaceInv', [Next]_vars,
             NEW c \in Call, Holding(c), Holding(c)', ~raced'
      PROVE file' = file
  <2>1. RaceFree /\ RaceFree'
    BY <1>1, RaceStable DEF RaceInv, RaceFree
  <2>2. file = FileOf(c, TRUE)
    BY <1>1, <2>1 DEF RaceInv, SafeWhileNoRace, OwnersHaveFile, Holding
  <2>3. file' = FileOf(c, TRUE)
    BY <1>1, <2>1 DEF RaceInv, SafeWhileNoRace, OwnersHaveFile, Holding
  <2>4. QED BY <2>2, <2>3
<1>2. RaceInv /\ RaceInv' /\ [Next]_vars =>
        [\A c \in Call : (Holding(c) /\ Holding(c)' /\ ~raced') => file' = file]_vars
  BY <1>1
<1>3. QED
  BY <1>2, RaceInvariant, PTL DEF Spec, HeldFileStays
=============================================================================
