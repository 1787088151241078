-------------------------- MODULE WorktreeLockProofs --------------------------
(***************************************************************************)
(* Proofs about WorktreeLock for any calls, processes, hosts and budgets.   *)
(***************************************************************************)
EXTENDS WorktreeLock, TLAPS

USE DEF At, Goto, Live, Contending, Owning, Steps

-----------------------------------------------------------------------------

\* The state stays in its types.
THEOREM TypeCorrect == Spec => []TypeOK
<1>1. Init => TypeOK
  BY WorktreeCallAssumption DEF Init, TypeOK
<1>2. TypeOK /\ [Next]_vars => TypeOK'
  <2> SUFFICES ASSUME TypeOK, [Next]_vars PROVE TypeOK'
    OBVIOUS
  <2> USE WorktreeCallAssumption DEF TypeOK
  <2>1. ASSUME NEW c \in Call, Acquire(c) PROVE TypeOK'
    <3>1. CASE Prepare(c) BY <3>1 DEF Prepare
    <3>2. CASE Publish(c) BY <3>2 DEF Publish
    <3>3. CASE PublishFails(c) BY <3>3 DEF PublishFails
    <3>4. CASE LookMissing(c) BY <3>4 DEF LookMissing
    <3>5. CASE LookFinds(c) BY <3>5 DEF LookFinds
    <3>6. CASE ReadOwner(c) BY <3>6 DEF ReadOwner
    <3>7. CASE ProbeDead(c) BY <3>7 DEF ProbeDead, ProvenDead
    <3>8. CASE ProbeWaits(c) BY <3>8 DEF ProbeWaits, Wait
    <3>9. CASE Quarantine(c) BY <3>9 DEF Quarantine
    <3>10. CASE QuarantineFails(c) BY <3>10 DEF QuarantineFails, Wait
    <3>11. QED
      BY <2>1, <3>1, <3>2, <3>3, <3>4, <3>5, <3>6, <3>7, <3>8, <3>9, <3>10 DEF Acquire
  <2>2. ASSUME NEW c \in Call, Release(c) PROVE TypeOK'
    BY <2>2 DEF Release, ReleaseReads, RenameAside
  <2>3. ASSUME NEW p \in Process, Die(p) PROVE TypeOK'
    BY <2>3 DEF Die
  <2>4. CASE UNCHANGED vars
    BY <2>4 DEF vars
  <2>5. QED
    BY <2>1, <2>2, <2>3, <2>4 DEF Next
<1>3. QED
  BY <1>1, <1>2, PTL DEF Spec

-----------------------------------------------------------------------------

\* The lock belongs to every call that published it and has not given it back,
\* unless the call is dead and its directory is in its tombstone.
OwnersPublished ==
    \A c \in Call : pc[c] \in Owning => lock = c \/ (c \in tomb /\ ~Live(c))

\* Only calls that published are recorded: in the lock, by a contender that read
\* the lock, or in a tombstone.
RecordsPublished ==
    \A c, d \in Call :
        \/ lock = d \/ rec[c] = d
        => pc[d] \in Owning \/ pc[d] = "released"

\* A contender about to quarantine has read the record of a dead process.
TargetsDead ==
    \A c \in Call : pc[c] = "quarantine" => \E d \in Call : rec[c] = d /\ ~Live(d)

SafeWhileNoneDeparted ==
    OwnersPublished /\ RecordsPublished /\ TargetsDead

\* Nobody departs twice: once a released call is dead, it stays so.
LEMMA DepartedStable == ASSUME TypeOK, [Next]_vars, Departed PROVE Departed'
<1>1. PICK c \in Call : pc[c] = "released" /\ ~Live(c)
  BY DEF Departed
<1>2. pc'[c] = "released" /\ ~Live(c)'
  BY <1>1 DEF TypeOK, Next, Acquire, Release, Die, vars, Prepare, Publish, PublishFails,
     LookMissing, LookFinds, ReadOwner, ProbeDead, ProbeWaits, Quarantine, QuarantineFails,
     Wait, ReleaseReads, RenameAside
<1>3. QED
  BY <1>2 DEF Departed

\* The core of the argument: every step of a run nobody departed from keeps the
\* lock with its publishers.
LEMMA SafeStep ==
    ASSUME TypeOK, SafeWhileNoneDeparted, ~Departed, [Next]_vars PROVE SafeWhileNoneDeparted'
<1> USE WorktreeCallAssumption DEF TypeOK
<1> DEFINE Safe == SafeWhileNoneDeparted
<1> USE DEF SafeWhileNoneDeparted, OwnersPublished, RecordsPublished, TargetsDead
<1>1. ASSUME NEW c \in Call, Acquire(c) PROVE Safe'
  <2>1. CASE Prepare(c) BY <2>1 DEF Prepare
  <2>2. CASE Publish(c) BY <2>2 DEF Publish
  <2>3. CASE PublishFails(c) BY <2>3 DEF PublishFails
  <2>4. CASE LookMissing(c) BY <2>4 DEF LookMissing
  <2>5. CASE LookFinds(c) BY <2>5 DEF LookFinds
  <2>6. CASE ReadOwner(c) BY <2>6 DEF ReadOwner
  <2>7. CASE ProbeDead(c) BY <2>7 DEF ProbeDead, ProvenDead
  <2>8. CASE ProbeWaits(c) BY <2>8 DEF ProbeWaits, Wait
  <2>9. CASE Quarantine(c)
    <3>1. PICK d \in Call : rec[c] = d /\ ~Live(d)
      BY <2>9 DEF Quarantine
    <3>2. d \notin tomb
      BY <2>9, <3>1 DEF Quarantine
    <3>3. pc[d] \in Owning
      BY <3>1 DEF Departed
    <3>4. lock = d
      BY <3>2, <3>3
    <3>5. lock' = NoDir /\ tomb' = tomb \cup {d} /\ rec' = rec /\ dead' = dead
      BY <2>9, <3>1 DEF Quarantine
    <3>6. pc' = [pc EXCEPT ![c] = "publish"]
      BY <2>9 DEF Quarantine
    <3>7. OwnersPublished'
      BY <3>1, <3>4, <3>5, <3>6
    <3>8. RecordsPublished' /\ TargetsDead'
      BY <2>9, <3>5, <3>6 DEF Quarantine
    <3>9. QED BY <3>7, <3>8
  <2>10. CASE QuarantineFails(c) BY <2>10 DEF QuarantineFails, Wait
  <2>11. QED
    BY <1>1, <2>1, <2>2, <2>3, <2>4, <2>5, <2>6, <2>7, <2>8, <2>9, <2>10 DEF Acquire
<1>2. ASSUME NEW c \in Call, ReleaseReads(c) PROVE Safe'
  BY <1>2 DEF ReleaseReads
<1>3. ASSUME NEW c \in Call, RenameAside(c) PROVE Safe'
  <2>1. lock = c
    BY <1>3 DEF RenameAside
  <2>2. QED BY <1>3, <2>1 DEF RenameAside
<1>4. ASSUME NEW p \in Process, Die(p) PROVE Safe'
  BY <1>4 DEF Die
<1>5. CASE UNCHANGED vars
  BY <1>5 DEF vars
<1>6. QED
  BY <1>1, <1>2, <1>3, <1>4, <1>5 DEF Next, Release

\* Two live holders would both own the one directory.
LEMMA SafeExcludes == ASSUME TypeOK, SafeWhileNoneDeparted PROVE MutualExclusion
BY DEF SafeWhileNoneDeparted, OwnersPublished, MutualExclusion, Holding

\* For any number of contenders and of crashes: two calls are in their critical
\* sections together only if some process ended after giving the lock back.
THEOREM CrashSafe == Spec => []ForkNeedsDeparture
<1>1. Init => SafeWhileNoneDeparted
  BY WorktreeCallAssumption DEF Init, SafeWhileNoneDeparted, OwnersPublished, RecordsPublished, TargetsDead
<1>2. TypeOK /\ (~Departed => SafeWhileNoneDeparted) /\ [Next]_vars
         => (~Departed => SafeWhileNoneDeparted)'
  BY DepartedStable, SafeStep
<1>3. TypeOK /\ (~Departed => SafeWhileNoneDeparted) => ForkNeedsDeparture
  BY SafeExcludes DEF ForkNeedsDeparture
<1>4. QED
  BY <1>1, <1>2, <1>3, TypeCorrect, PTL DEF Spec

-----------------------------------------------------------------------------

\* TmpAccounted made inductive: a live call has its private directory exactly while it contends
\* (an idle call that fails at once and an owner that releases must not have one either).
TmpWhileContending == \A c \in Call : Live(c) => (c \in tmp <=> pc[c] \in Contending)

\* No collection of orphans takes a live call's directory, whichever call of its host runs it:
\* what OrphanTmps yields belongs to the dead.
LEMMA OrphansAreDead == ASSUME NEW c \in Call, NEW d \in OrphanTmps(c) PROVE ~Live(d)
BY DEF OrphanTmps

\* Giving up takes the call's own directory and orphans, a poll only orphans.
LEMMA WaitAccounts ==
    ASSUME TypeOK, TmpWhileContending, NEW c \in Call, pc[c] \in Contending, Live(c),
           Wait(c), UNCHANGED <<lock, tomb, rec, dead>>
    PROVE  TmpWhileContending'
<1> SUFFICES ASSUME NEW d \in Call, Live(d) PROVE d \in tmp' <=> pc'[d] \in Contending
  BY DEF TmpWhileContending
<1>1. d \in tmp <=> pc[d] \in Contending
  BY DEF TmpWhileContending
<1>2. d \notin OrphanTmps(c)
  BY OrphansAreDead
<1>3. QED
  BY <1>1, <1>2 DEF Wait, TypeOK

\* A step keeps the account of every live call: its own directory moves with its pc,
\* those of the others are spared.
LEMMA AccountStep == ASSUME TypeOK, TmpWhileContending, [Next]_vars PROVE TmpWhileContending'
<1> USE DEF TypeOK
<1>1. ASSUME NEW c \in Call, Acquire(c) PROVE TmpWhileContending'
  <2>1. CASE Prepare(c) BY <2>1 DEF Prepare, TmpWhileContending
  <2>2. CASE Publish(c) BY <2>2 DEF Publish, TmpWhileContending
  <2>3. CASE PublishFails(c) BY <2>3 DEF PublishFails, TmpWhileContending
  <2>4. CASE LookMissing(c) BY <2>4 DEF LookMissing, TmpWhileContending
  <2>5. CASE LookFinds(c) BY <2>5 DEF LookFinds, TmpWhileContending
  <2>6. CASE ReadOwner(c) BY <2>6 DEF ReadOwner, TmpWhileContending
  <2>7. CASE ProbeDead(c) BY <2>7 DEF ProbeDead, TmpWhileContending
  <2>8. CASE ProbeWaits(c) BY <2>8, WaitAccounts DEF ProbeWaits
  <2>9. CASE Quarantine(c)
    <3>1. \A d \in Call : Live(d) => d \notin OrphanTmps(c)
      BY OrphansAreDead
    <3>2. QED BY <2>9, <3>1 DEF Quarantine, TmpWhileContending
  <2>10. CASE QuarantineFails(c) BY <2>10, WaitAccounts DEF QuarantineFails
  <2>11. QED
    BY <1>1, <2>1, <2>2, <2>3, <2>4, <2>5, <2>6, <2>7, <2>8, <2>9, <2>10 DEF Acquire
<1>2. ASSUME NEW c \in Call, Release(c) PROVE TmpWhileContending'
  BY <1>2 DEF Release, ReleaseReads, RenameAside, TmpWhileContending
<1>3. ASSUME NEW p \in Process, Die(p) PROVE TmpWhileContending'
  BY <1>3 DEF Die, TmpWhileContending
<1>4. CASE UNCHANGED vars
  BY <1>4 DEF vars, TmpWhileContending
<1>5. QED
  BY <1>1, <1>2, <1>3, <1>4 DEF Next

\* For any number of contenders and of crashes: no collection of orphans destroys an
\* in-flight publish, and no call that is over leaves its own directory behind.
THEOREM TmpAccountedAlways == Spec => []TmpAccounted
<1>1. Init => TmpWhileContending
  BY DEF Init, TmpWhileContending
<1>2. TypeOK /\ TmpWhileContending /\ [Next]_vars => TmpWhileContending'
  BY AccountStep
<1>3. TmpWhileContending => TmpAccounted
  BY DEF TmpWhileContending, TmpAccounted
<1>4. QED
  BY <1>1, <1>2, <1>3, TypeCorrect, PTL DEF Spec
=============================================================================
