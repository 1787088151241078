# TLA+ for Máddu

A model of the parts of this repository whose correctness depends on the order in
which things happen: the locks every writer takes, the event spine with its migration
to team sync, the sessions, lanes, worktrees and approvals that are folded from it, and
the product runtime that decides, performs and records protected actions. TLC checks the
models on small instances; TLAPS proves, for all instances, every safety and action
property that holds there, and that the spine and the runtime's store implement abstract
logs. What is left to TLC alone is liveness.

Contents: [the system](#1-the-system), [the models](#2-the-models-and-the-code),
[runs](#3-runs), [fairness](#4-fairness), [proofs](#5-proofs),
[disagreements](#6-where-the-code-disagrees-with-its-comments),
[limits](#7-what-is-not-modelled), [plan](#8-plan).

## 1. The system

Máddu is a files-only framework for agent sessions that work on one repository. There
is no daemon every writer goes through: the command line, hooks, the bridge server and
background jobs are separate Node processes over the same files. `lib/` below is
`src/template/maddu/runtime/lib/`.

| component | state | operations | what is hard | correct when |
|---|---|---|---|---|
| append lock, `lib/append-lock.mjs` | a lock file, an owner record in it | acquire, steal, grace reclaim, release | created and filled by two calls; reclaimed by path; processes die | one holder; waiters get past the dead; bounded callers are answered |
| worktree lock, `lib/worktree-lock.mjs` | a lock directory, private directories, tombstones | publish, look, quarantine, collect orphans, release | several reclaimers of one dead owner; orphan collection by name | crashes never let two in; no live call loses its directory; nothing is left behind |
| spine storage core, `lib/spine-append-core.mjs` | segments of the flat stream and of partitions, config markers | resolve where to write, link, append, list, parse, merge | config is read without a lock, torn tails | one unbroken hash chain; no event lost |
| spine, `lib/spine.mjs` | the same files | append with its retry loop, readAll, readAllStrict, cursors | reads take no lock, and segments move under them | what append returned is there for good; a read has no gap |
| team sync, `lib/spine-sync.mjs` | replica.json, its pending marker, partitions, anchors | `sync init` and its resume, continuation, doctor, join | crashes between any two renames; concurrent appends and stamps | the migration loses nothing and can be finished |
| spine anchors, `lib/spine-anchor.mjs` | anchor directories with digests of segments | stamp, upgrade, verify, recover | a networked wait between two looks at the config | never stands beside a partitioned spine |
| projections, `lib/projections.mjs` | none (folds of the spine) | project, reduceSessions, foldOwnership | two ownership folds; the mode may change between two reads | both folds agree on what one checkout wrote |
| session lifecycle, `lib/session-lifecycle.mjs`, `session-active.mjs`, `janitor.mjs` | sessions folded from the spine, the active-session pointer | register, renew, heartbeat, close, sweep | three nested locks; snapshots that age; one pointer for all | what a writer decided still holds when it appends |
| session hooks, `lib/harness/fire-core.mjs`, `discipline.mjs` | Claude session ids bound to sessions | start, end, edit with mint and rollback | concurrent edits, a late end of a continued conversation | one session for one Claude session |
| lane ownership, `lib/lane-ownership.mjs` | claims folded from the spine | claim, force, automatic claim, release, orphan pass | a decision and several appends under two locks; partial failure | no claim outlives its session; only force evicts |
| worktrees, `lib/worktrees.mjs`, `worktree-recovery.mjs`, `worktree-identity.mjs` | git worktrees, attachments and intents in the spine | attach, detach, finalize, sweep, operator's recovery | git and spine change in several steps; disks change by hand; foreign attachments | only what a durable intent allows is removed; each attachment ends once |
| replica lineage, `lib/replica-lineage.mjs` | a file in the git directory | record, read | what a clone must not believe | foreign intents stay foreign |
| approvals, `lib/approvals.mjs`, `commands/approval.mjs`, `_strict-approval.mjs`, `lib/bridge-routes-approvals.mjs` | requests, decisions and policies in the spine; the machine's policies file | request with its cascade, strict gate, respond, set policy, migrate | everyone looks, then appends; a file without a lock | an automatic allow goes back to an operator's word; a caller is told what the spine holds |
| model promotion, `commands/model.mjs`, `lib/model-projection.mjs`, `verify-referential.mjs` | a checkpoint's stage, derived twice | propose, confirm, release, roll back | the stage moves between a check and an event | nothing above candidate without a decision; both readers agree |
| product runtime: store, `src/runtime/execution/store.mjs` | one file per run, its image in memory, a queue of promises | append with compare-and-swap, read, load | failed and torn writes, crashes, concurrent callers | a log with one event per operation, nothing after its end |
| product runtime: lifecycle, `src/runtime/lifecycle/` | Run objects that cache the head and the end of a run | start, open, refresh, record, evaluate, complete, fail, cancel | stale caches, starts that race, cancel without compare-and-swap | one start wins |
| product runtime: execution, `decision.mjs`, `boundary.mjs` in `src/runtime/execution/` | signed handles, the host's side effects | decide, recordApproval, execute, release, reconcile | evidence read before it is used; a crash around the side effect | an allow is covered by evidence; performed once; never ahead of its record |
| product runtime: core, `src/runtime/core/` | none | canonical form, envelope, reduceRun, receipts, verification | edge cases of encodings | pure functions |
| schedule, loops, coordinator | `schedule.ndjson`, loop events | put, fire, iterate | an unlocked file; ticks that overlap | — |
| autonomy, trust, workers, gates, bridge, cockpit, learning, plans, registries, command line | projections and files | read and append one event at a time | — | as their appends |

**How they interact.** Every writer of the spine goes through `append()`, which resolves
the stream (flat, or this checkout's partition) from two config files, takes that
stream's append lock, reads the tail, links the new line to it and writes it. `sync init`
takes its own lock and the flat lock, writes a marker, renames the flat segments into a
partition, seeds it, publishes `replica.json` and removes the marker. `spine anchor`
computes digests of flat segments and must not run across such a migration; the two look
for each other's traces instead of sharing a lock. Readers take no lock at all. Sessions,
lanes, worktrees and approvals are folds of what readers return and are changed by
further appends: sessions and lanes under the locks claude-binding, session-close and
lane-claims, in that order; worktrees under lane-claims and a worktree lock of the lane,
with the recovery trigger under a third; approvals under none. The janitor's sweep goes
through sessions, orphaned claims and worktrees. The product runtime shares none of these
files: it is a library in a host's process with a store of its own, whose callers are
concurrent promises.

## 2. The models and the code

Each file-system call or `await` after which another process can be observed is one step.
A call that was made is a constant, or an element of a scene that `Init` chooses: its
program counter is `pc`, and its result is the last value of it.

| module | models | state |
|---|---|---|
| `AppendLock` | `append-lock.mjs` | `file` (the lock file and whether its record is written), per call `pc`, `rec` (the record it read), `nullReads`, `waited`; ended processes `dead`; `faults`, the swallowed errors so far; history `raced` |
| `WorktreeLock` | `worktree-lock.mjs` | `lock`, `tmp`, `tomb` (the three kinds of directory), `rec`, `waited`, `dead` |
| `SpineStore` | the files | `lines` (stored lines in the order written, each with its segment, directory, link and end), `last` (the number of the last segment file), `left` (after which lines a partition was left behind), `marker` and `blank` (the marker exists, and is empty), `committed`, `peer`, `anchorDirs`, three locks |
| `SpineAppend` | `append`, `resolveWriteReplica`, `appendFlatChained`, `appendPartitioned` | `link`, the tail a writer read |
| `SpineSync` | `syncInit`, `stampAnchor` | — |
| `SpineRead` | `readAll`, `readAllPartitioned`, `parseStreamDir` | `todo`, `got`, and the histories `must` and `blind` |
| `Spine` | all of them at once, crashes, a pull of a peer, operator repairs | history `straddled` |
| `EventLog` | abstract: what the spine promises | `log`, `acked` |
| `Projection` | `reduceSessions` and both modes of `foldOwnership` in `projections.mjs` | `status`, `stale`, `beat`, `claim`, `rank`, `mode`, `corrupt` |
| `SessionStore` | the locks and files that session and lane writers share | `binding`, `pointer`, `lock`, and what each process remembers: `at`, `aim`, `todo`, `picked`, `seen` |
| `SessionLifecycle` | `session-lifecycle.mjs`, `session-active.mjs`, `session.mjs`, `register.mjs`, the sweep of `janitor.mjs` | history `unlocked` |
| `SessionHooks` | the start, end and edit hooks of `fire-core.mjs`, the binding of `discipline.mjs` | — |
| `LaneOwnership` | `lane-ownership.mjs`, the orphan pass | — |
| `Sessions` | the four at once, failing appends, exits, a spine that becomes a synced one | — |
| `WorktreeStore` | attachments and intents as `worktree-recovery.mjs` and `replica-lineage.mjs` read them, the checkout and its removal, the locks | `wt`, `intent`, `disk`, `hidden`, `cool`, `saw`; history `meddled` |
| `WorktreeAttach` | `lane claim [--force] [--worktree]`, `attachLaneWorktree` | history `adopted` |
| `WorktreeDetach` | `lane release` with its dispositions and `--recover`, the finalizer, the janitor's worktree pass behind its trigger | `how`, the disposition verified |
| `Worktrees` | both at once, failing git commands and appends, exits, hands on the disk, an outage, a session closed, a pull | `may`, what may still happen |
| `Approvals` | `approvals.mjs`, its callers and responders, the policies of repository and machine | `requested`, `ledger`, `policies`, `stated`, `matched`, `file`; history `word`, `kept`, `clash` |
| `Promotion` | `commands/model.mjs` from promote to rollback, `deriveModels`, the verifier's stage | `stage`, `marked`, `proposed`, `approved`, `taken`, `counted`; history `ignored` |
| `EvidenceStore` | `store.mjs` (FileStore) | `file`, `mem`, `damaged`, `queue`, `req` |
| `EvidenceRun` | `run.mjs`, the result of `runGate` | `run` (what each Run object caches), `refreshing`, `gate`, `acked` |
| `EvidenceAction` | `decision.mjs`, `boundary.mjs`, and what `reduceRun` says of checks and operations | `handles`, `performed`, `released` (the host's side) |
| `Evidence` | the three at once | — |
| `RunLog` | abstract: the contract at the head of `store.mjs` | `log` |
| `MC*` | instances for TLC | |
| `*Proofs` | theorems and proofs | |

**Locks.** The models of the two locks keep every step of the code. Everywhere else a lock
is a variable: taken when free, free when its holder is dead. That is what `ForkFree`,
`HoldersKeepFile` (proved) and `SurvivorAcquires` (checked) say of `AppendLock` outside
four windows, which the history variable `raced` records. In each a live call is about to
unlink a path it has not judged right, because its unlink names the path and not the record:

- `Overlap`: another live call is about to unlink as well;
- `Unwritten`: the grace period ended on a creator that is alive and still to write its
  record (the residual append-lock.mjs:213-217 accepts);
- `Absent`: it ended on a missing file (`readLock` gives null for that too), so that the
  unlink of append-lock.mjs:185 hits whoever creates the file next;
- `Unread`: it ended on the record of a live owner that could not be read (`readLock` gives
  null for any error).

None can be left out: with any one of them dropped from `raced`, TLC finds two holders.
An error that the code swallows (a read in `readLock`, an unlink) is a step `Fault`, at
most `MaxFaults` of them in a run; that they end is what `SurvivorAcquires` needs. A read
or unlink that fails in the release leaves the file of a live process behind, for which
strict callers wait until that process ends.

**Spine.** A line stands for its hash; `prev` is the line it links to. `lines` is in the
order of writing, and a renamed segment changes `dir` of its lines. That the order of
reading (segment name, then position) is the order of writing is not assumed but shown
(`ChainUnbroken`). `straddled` records processes between whose reads of `replica.json`
and of the marker an init published the one and removed the other. A torn line may be
left by a failed write or by a crash; the operator repairs it in one of the two ways the
`TORN_TAIL` message names; when the line cut off was the only one of its segment, the
empty file stays, which is why `last` is kept apart from `lines`.

The marker is written by `writeFile`, which truncates it first (`TruncateMarker`,
`WriteMarker`); a run that dies or fails between the two leaves it empty, and an empty
marker names no partition (`Named`). The lines of the partition in use are `Stream("part")`.
A run that finds no id where a partition was begun opens another one: `LeavesBehind` puts
the last lines of the old one into `left`, and what is stored from then on begins a chain of
its own. A torn line at the end of a partition that is left behind is dropped with it: it is
no event, and nobody appends there any more. Readers go on reading left partitions with the
others, as `readAllPartitioned` does.

An `append()` of the code resolves twice before it writes; the second one is modelled, the
first refuses alike. The secret gate, invalid config files and colliding new ids are
refusals of `sync init` before it changes anything, and are left out; `MigrationResumes`
therefore says that the migration completes where no such refusal applies.
`AlreadySynced` changes nothing because by `NoStrandedFlat` the modelled code leaves no
flat line for the continuation to move.

**Everything above the spine.** An append is one step there, and what `readAll` returns is
what has been appended so far: that is what `ImplementsLog` says of `Spine`. The folds of
`projections.mjs` are kept up to date event by event instead of being folded anew for each
read, and a snapshot is a read of them. An append may fail, which ends the call.

**Sessions and lanes.** A process is one call of a command, a route or a hook. Ages are
three: fresh, old enough to be marked stale, old enough to be closed; calls take less than
the half hour in which a heartbeat ages. Both ownership folds are kept all the time, so
that a spine may become a synced one between two steps of a writer that goes by the other.
The active-session pointer has a lock that nothing is nested in, so an operation on it is
one step, or is skipped. What the hooks print and the checks of `discipline.mjs` are left
out.

**Worktrees.** One lane is looked at. A checkout is known by the token in its git
directory, which is written here as the id of its attachment; a checkout without one, or
with one that no attachment has, is `Alien`. Git commands succeed or fail; the checks of
the lane branch are a refusal that may come. A removal is three steps: the check of the
token (in `DetachRemoves`, `Finalize` and `Recover`), the removal by path whatever is there
by then (`EraseCheckout`), and the probe that nothing is (`ProbeGone`). A hand or an outage
may come between any two of them; `meddled` records the processes between whose check and
removal one did. A claim is one step, as `Sessions` looks
inside it, and a forced claim two, because its preflight looks at the worktree under
another lock than the one an attach records it under. `Import` brings an attachment of
another replica, before or after the ones made here in the order in which the merged spine
lists them.

**Approvals and promotion.** Requests cascade through the repository's policies and the
machine's. The fold of the policies is that of the projection, with its quirk: an `always'
answer to a request that is no longer open sets a policy of the tool alone. `stated` is the
fold of the migration, which knows policies that were set and none that were answered.
`LedgerTail` is the number of decisions a projection shows (100). `policies.json` is
truncated and written, and between the two, or when two texts overlap, it does not parse
and reads as no policies. One checkpoint is looked at; its two derived stages are kept up
to date event by event.

**Product runtime.** docs/57 deploys it as one process with one queue per run, so there
is one store object; a crash loses it and the next process loads the file. An append
answers in one step, its turn in the queue: no other turn and no other caller comes
between the answer and the code that awaited it, because every turn that writes does
file I/O. (With a MemoryStore turns are microtasks and this argument does not hold; that
store is not modelled.) A read takes a turn and changes nothing; it is part of the step
that uses it. A failed write leaves nothing, a part of the line, or all of it; a full
queue (`busy`) is a write that leaves nothing. Handles are signed and cannot be made up,
so they are the decision events; the host keeps them across a crash. Clocks are a free
choice: a request for approval may have expired at any look. Calls that end without
having changed anything (a handle that does not bind, a host that denies, a request that
is not pending) are not steps. Every result of a gate that is not a pass is `"fail"`,
success and failure of an operation are `"known"`, and a run ended by `fail()` is one
ended by `complete()`: no property tells them apart.

## 3. Runs

All passing runs are exhaustive. `sessions`, `worktrees` and their kin check deadlock,
with a last step for the state in which every call has ended; the others do not, since
there the system simply stops.

| run | question | instance | why that is enough |
|---|---|---|---|
| `append_lock` | when can two hold the lock, who is answered | three calls in three processes, one on another host, two may die, one with a finite budget of one poll, grace of two polls, I/O errors | a fork needs one owner and two reclaimers; the third process is the new owner that loses its file |
| `worktree_lock` | can crashes or races to quarantine let two in, or cost or leave a directory | three calls on one host, two may die, I/O errors | as above: dead owner, two contenders |
| `spine` | chain, stranded lines, refusals, reads, stamps, refinement of `EventLog` | seven scenes (`SevenScenes`): two inits beside two appends, or beside a stamp; one init beside a writer that may die and another writer, a stamp or a reader; an init that may die and one whose marker write may fail, beside a reader or a third init. One init may crash (`MayDie`; a stamp or a reader holds no lock, so one that dies is one that takes no further step), two writers' lines, the anchor line and one init's marker write may tear (`MayTear`), repairs, a pull, an empty log or one of two segments | two writers meet at one tail; an init resumes another's half-done migration; two segments make it half-done; stamps and reads each have two looks; a stamp makes an init drop a marker, and the reader meets what is left; an empty marker needs a half-done migration, a run that ends inside its write and someone after it |
| `spine_liveness` | does every append return, does a migration complete, and in the partition it began | three inits of which two may die, two of them beside an append, or one beside two appends of which one may die (`ThreeScenes`) | each may die at every step, and a third run follows two that died |
| `spine_half` | (violated) is a half-done migration marked | one stamp, two inits, one of which may die | |
| `sessions` | do decisions hold when they are appended, for sessions, bindings, pointers and lanes | every pair from a menu of 22 calls on four spines (a held lane, an orphaned one, a superseded live owner in a synced spine, a corrupt line), failed appends, one process may exit, a turn to sync | two writers race at a time; the menu has every kind of call in the roles of owner, rival, hook and sweep |
| `worktrees` | what is removed, what is recorded, who is spared | every pair from a menu of 11 calls on thirteen states that earlier calls leave, with one of: a session closed, a checkout replaced, an outage, a pull; and a detach cut short with another call and a sweep after it | two contenders and what the third finds |
| `worktrees_adoption` | (violated) is a worktree that was handed out again kept | a detach that may be cut short, a claim of the same session, a sweep | |
| `approvals` | where automatic allows, second decisions, told outcomes and lost policies come from; who moves a checkpoint | eleven scenes: two gates with three sets of answers and policy changes, with or without a standing policy; gates beside three writers of the machine's policies; promotions with answers, confirm, release, rollback and a migration; three actors may die; `LedgerTail` is 2 | two decisions of one request, two lanes of a tool, two writers of a file and two promotions of a checkpoint meet; a tail of 2 is overrun |
| `evidence` | racing starts, releases, the file as a log; on what evidence an allow stands; is an operation performed once, and never ahead of its record | two starts with different keys, a cancel and two releases, on a new run, with a record, or on one with an allowed operation; three decisions on two Run objects, two equal and one under another binding, while the approval is answered or, when it has been, while the gates are checked again; two executes, a reconcile and a complete; one failed write and one crash where faults are on | two Run objects are all a compare-and-swap can tell apart; the evidence changes once between any two reads; a retry after the failure and one after the crash |
| `evidence_torn` | (violated) can what was acknowledged be read back | the same with one execute | |
| `evidence_reconcile` | (violated) can what is unresolved be reconciled | the same without failures | |

What the properties say:

- `ForkNeedsRace`, `ForkNeedsDeparture`: two holders only through the windows the history
  variables name. `BestEffortDecides`, `AcquireDecides`: bounded callers are answered.
  `SurvivorAcquires`: what the dead leave behind does not block. `TmpAccounted`: no live
  contender loses its private directory, and none of the living leaves one.
- `ChainUnbroken`: links follow reading order across both directories, and nothing
  follows a torn line; only the first line of a partition opened in place of a
  lost one links to none. `NoStrandedFlat`: nothing is left where no one looks.
  `RefusalJustified`: `REPLICA_UNATTACHED` only with a peer, or from a resolve without the
  lock while an init is under way or has just published. `ReadSound`: a read holds what had
  returned before it began, and has no gap that a cursor would skip. `AnchorsOrSync`: a
  stamp let stand and a sync never coexist. Three exceptions are named: `straddled` (a read
  may then miss events, but still has no gap; a stamp may then stand beside the sync), for
  refusals and reads `MarkerDropped`, the window of `spine_half`, and for reads `blind` (the
  recheck met the empty marker of a half-done migration). `ImplementsLog`: every step is a step of
  `EventLog` or changes nothing of it. `AppendDecides`, `MigrationResumes`: liveness;
  the second also says (`PartitionKept`) that a begun migration is resumed in its own
  partition unless a run ended inside its write of the marker, or dropped it.
- `RecordsAgree`: what is kept twice agrees (both folds of ownership; bindings and spine).
  `DecisionsHold`: what a session writer decided under its locks still holds when its
  append is made: close and renewal find the session active, registration finds it absent,
  a sweep spares who came back, two edits mint once, a late end spares a continuation.
  `NoNewOrphan`, `NoBystanderEvicted`, `ClaimIsSole`: lanes. `LiveSessionKept`: the binding
  and the pointer of a live session. `NoLockCycle`: nobody waits in a ring.
- `OneEpoch`: one live worktree of a lane. `EndJustified`: an attachment ends once, is one
  made here, ends as intended, and a sweep or plain release has removed the checkout
  itself, unless an outage hid it between the check of the token and the removal.
  `RemovalIsIntended`: a checkout goes away only after a durable intent; what a hand put at
  the path goes only if it came between that check and the removal, or if the attachment has
  no token.
  `OtherActiveSpared`: nobody but a sweep that completes an intent ends the attachment of
  another active session. `ReleaseLeavesNoWorktree`: no checkout without its claim,
  unless an attachment of another replica is in front of it.
- `AllowTraces`: what a policy allows goes back to an operator's word that covers it, or to
  a second `allow-always`. `SecondNeedsRace`: who decides a request again looked before the
  first decision, or is its cascade. `OutcomeIsDecided`: a caller goes by a decision of its
  own request, its cascade's or the first shown. `GlobalKept`: the machine's file loses
  nothing while writers do not overlap; that an overlap, which may lose an update, brings no
  allow that nobody gave is part of `AllowTraces`. `ExplicitAbove`: no cascade moves a checkpoint
  above candidate. `StagesAgree`: registry and verifier agree outside the window named.
- `ImplementsRunLog`: what the file can be read back as is a `RunLog`, across failed
  writes and crashes. `StartAgrees`, `ReleasedOnce`, `AllowIsCovered`, `PerformedOnce`,
  `AckedIsReadable`: see the module. The exception in `AckedIsReadable` is `Astray`, a
  write behind a line that cannot be read; a run shows that it happens.

Type invariants are proved (`TypeCorrect` of each proof module); that of `Evidence` is
checked in its run as well.

## 4. Fairness

Only the liveness properties of `append_lock`, `worktree_lock` and `spine_liveness` assume
any: a live process takes its next step (weak fairness of each call's steps), because a
Node process with a pending timer or completed I/O is scheduled. None for crashes, pulls,
repairs or other processes' errors. In `Spine` the timeout of the poll of a migration is
strongly fair: the loop adds up the time it waited, so it cannot poll for ever. Everything
else is safety and holds under any schedule; nothing is assumed of operators, hosts, gates
or hooks.

## 5. Proofs

TLAPS checks eight modules, for any sets of calls, processes, sessions, lanes, requests,
operations, gates and scenes, any budgets and any logs to begin with, from the assumptions on the constants
that the modules name. TLC evaluates these assumptions in the runs. They say: calls have
processes and ids are distinct (`CallAssumption`, `WorktreeCallAssumption`,
`ProjectionAssumption`, `StoreAssumption`, `WorktreeAssumption`, `ActorsAssumption`), and
every lane and replica has the ids the models give it (`FallbackAssumption`,
`LocalAssumption`); an old log is a chain (`SpineAssumption`); a scene gives each call the
ids it needs, and starts on a spine or a run's log that some history has left (the
`ScenesAssumption` of four modules); requests and commands are well formed, and the
wildcard is no tool (`AskingAssumption`, `CommandAssumption`, `PromotingAssumption`); a
call of `startRun` makes a Run object of its own, and a gate set is numbered from 1 and not
empty, because `freezeGateSet` refuses an empty one (`CallsAssumption`,
`PolicyAssumption`).

- **`AppendLockProofs`.** `TypeCorrect`. `ForkFree` (`ForkNeedsRace`) and
  `HoldersKeepFile` (`HeldFileStays`). The invariant is `RaceInv`: while none of the four
  windows was hit, a call that has created the file and not yet given it up is the one in the file
  (`OwnersHaveFile`), a call about to steal holds the record of a dead owner that is still
  in the file (`StealersSeeDead`), one whose grace is over sees a file that no live call
  is working on (`GraceSeesAbandoned`), and only one live call is about to reclaim
  (`OneReclaimer`). Mutual exclusion alone is not inductive: it does not say that an unlink
  under way cannot hit a live owner.
- **`WorktreeLockProofs`.** `TypeCorrect`, and `CrashSafe` (`ForkNeedsDeparture`): as long
  as no process ended after one of its calls gave the lock back, what a contender's record
  names is published or has a tombstone, so that a quarantine only ever moves a dead
  owner's directory. `TmpAccountedAlways`, from `TmpWhileContending`: a live call has its
  private directory exactly while it contends, which also covers a call that fails at once
  and an owner that releases; `OrphansAreDead` says that a collection of orphans, whoever
  runs it, takes none of the living.
- **`SpineProofs`.** `TypeCorrect`, `ChainSafe` (`ChainUnbroken`), `NoneStranded`
  (`NoStrandedFlat`) and `MigrationNeverClashesAlways`, from
  `IInv == TypeOK /\ Linked /\ Held /\ Modes /\ Pending`. `Linked` speaks of the order
  stored, not of the order read: every line links to the one stored before it,
  segments never go back, only the last line may be torn. `Held` says which steps a process
  can be at only with its lock. `Modes` ties the config files to where lines can be: no
  partition lines before a migration, no flat ones once it is published, and a flat writer
  under the lock excludes a migration; it also says where a partition left behind may end
  (that a segment is in one directory, `OneDir`, is an
  invariant on top of it, for `MigrationNeverClashes`).
  `Pending` says that the tail a writer has linked to, or an init is about to extend, is
  still the last line. Without `Held` and `Modes` an append that chose its stream before
  the migration could store behind it; without `Pending` a link could be stale when it is
  written. That reading order is stored order (`OrderStored`, `TailIsLast`) is a lemma from
  `Linked`. `StoreKeeps`, `RenameKeeps` and `RepairKeeps` say that the three ways `lines`
  changes keep `Linked`, and `LeaveKeeps` that leaving a partition behind does, and every action is one of those or leaves it alone.
  `AnchorsOrSyncAlways` and `RefusalJustifiedAlways` rest on `SyncInv` over it: a living
  init's marker stays until replica.json is there, a stamp let stand keeps its directory,
  an init past its second look has none beside it, whoever is between its two reads after
  the publication still meets the marker or straddled it, and lines in the partition are
  explained by a marker, by replica.json, or by a marker that was dropped.
  `PartitionKeptAlways` adds `Blanked` (an empty marker is that of a run inside its
  `writeFile`, or of one that ended there): where a run reads no id though a partition has
  lines, one of the two exceptions has happened.
- **`SpineLogProofs`.** `LogImplemented`: `Spec => ImplementsLog`. Every step of `Spine` is
  of one of three kinds (`Kinds`): it leaves the lines alone (`Turns`), stores one new
  event (`Stores`), or edits directories and ends (`Repairs`). `LogInv` adds to `IInv` that
  ids are distinct and who has written its event. The `…Map` lemmas show that a turn is an
  acknowledgement or a stutter of `EventLog`, a whole line a `Store`, and a torn one, a
  rename or a repair a `Store` or a stutter. `ReadSoundAlways` is proved here too, from
  `ReadInv`: whatever writers, inits, crashes and repairs do, a stored line stays itself or
  goes to the partition, and a new one comes after all (`Moves`), and segments go to the
  partition from the front (`FrontFirst`). So what a reader must hold, and what precedes
  something it holds or has yet to read, it holds or has yet to read (`InReach`): of the
  flat lines while it has only looked there, of all lines once it has listed the partition.
  A read of the flat directory whose recheck an init straddled may hold nothing
  (`Overtaken`), never a part. All of this is said of readers that are not `blind`.
- **`SessionsProofs`.** `TypeCorrect` and the seven properties of the `sessions` run. The
  invariant is `IInv == TypeOK /\ OpsOK /\ Core`: at each step, `Held` is the set of locks
  a process holds, and `Says` what it goes by (the status of its session, the binding, the
  owners it is about to release). Each action is shown to keep what the others say
  (`Minds`) because it changes sessions only under the close lock, lanes only under the
  claims lock and bindings only under the binding lock.
- **`WorktreesProofs`.** `TypeCorrect`, `OneEpoch`, `EndJustified`, `NoLockCycle`,
  `ReleaseLeavesNoWorktree`, `RemovalIsIntended` and that the trigger keeps its cooldown,
  from `IInv == TypeOK /\ Core` of the same form: `Held`, and in `Says` what a process has
  read of the lane, of an intent, of the path (`SaysOfDisk`: who is past the check of the token
  has that checkout before it, or was meddled with) and of the trigger. `OtherActiveSparedAlways` needs
  `Sparing` over it: a session at work that has a worktree, or is about to get one, is in
  every snapshot still used (`Seen`), and what a process is about to end is its
  own, was intended, or is nobody's who is at work (`SparesOthers`).
- **`ApprovalsProofs`.** `TypeCorrect` and the six properties of the `approvals` run, each
  from an invariant of its own over `Base == TypeOK /\ Steps`: `Staged` (the two stages
  differ only after the events named), `OneWriter` (who is between truncation and write),
  `Explicit` (a promotion above candidate never reaches the cascade), `Looks` (a decision
  is later than its author's look), `Grounded` (what was told is in the ledger), and
  `Lineage` (every allowing policy, held or about to be written, is covered by an
  operator's word).
- **`EvidenceProofs`.** `TypeCorrect`, the five invariants of the `evidence` run and
  `LogImplemented`: `Spec => ImplementsRunLog`, all from `IInv` (`Inductive`). Its heart is
  `Follows`: as long as every line of the file can be read, it holds the store's memory, or
  one event more that nobody was told of (a write that failed but landed); a store that
  loaded as damaged has in memory what can be read; and before the first failure all of it
  agrees. `Queued` says that each
  waiting call waits once, `PerCall` what its request stands on (`Fits`: a decision that is
  compared with the head of the log stands on what the log holds), that nothing it has yet
  to append is there already (`Fresh`), and how far its Run object has come (`Object`,
  `Opened`); `Ordered` that
  every decision on the log, in memory or on file, was covered by what stood before it; and
  `OnceOnly` that an effect the host had is on record, or that the store takes no further
  event. Without `Fresh` an event could be stored twice after a write that failed but
  landed; without `Ordered` of the file a crash could load what the memory never held.

Checked by TLC only: the five liveness properties `BestEffortDecides`, `SurvivorAcquires`,
`AcquireDecides`, `AppendDecides` and `MigrationResumes` (but for its part
`PartitionKept`, which is proved), which speak of fairness and
ENABLED and are out of TLAPS's reach. The properties of the four violated runs are false.

## 6. Where the code disagrees with its comments

Four runs are violated; each checks what a comment says of the program.

- **A half-done migration can lose its marker** (`spine_half`). An init dies while it
  renames segments. A stamp makes its directory and has not rechecked yet. The next init
  resumes, finds the directory and refuses, and on its way out removes the marker
  (spine-sync.mjs:351), though the earlier run had already moved segments. Reads then see
  the flat rest only, without the older events that were moved, and appends are refused
  although no peer is there: the exception `MarkerDropped` in `ReadSound` and
  `RefusalJustified`.
- **Acknowledged events that cannot be read back** (`evidence_torn`). A write fails after
  some of its bytes, or all of them, reached the file. The store's memory stays as it was
  and nothing is marked damaged, so the next append goes behind that line and is
  acknowledged as durable; the next process stops reading before it. Side effects are
  nevertheless not repeated (`PerformedOnce` holds in the same instance), because a damaged
  file refuses the next intent.
- **An operation that can never be reconciled** (`evidence_reconcile`). A reconcile on the
  Run object of an execute that is still waiting for `perform` moves the head that the
  object caches; when `perform` answers nothing known, ACTION_FINISHED lands, the operation
  is unresolved again, and its one OUTCOME_RECONCILED is spent.
- **A worktree handed out again is removed** (`worktrees_adoption`). A detach records its
  intent and is cut short, by a crash or by a git command that fails; the same session
  claims the lane and is handed the live attachment (worktrees.mjs:200); the next sweep
  completes the intent and removes the checkout the session works in.

Further disagreements, met while modelling; the properties that hold name them as
exceptions, and TLC violates each property without its exception:

- An `allow-always` answer to a request that is already decided sets a policy of the tool
  on all lanes: projections.mjs:302-305 reads `ev.data.lane`, which no writer sets
  (docs/09 has a policy per lane; `AllowedAgain` in `AllowTraces`).
- An automatic `allow-always` makes a policy of its own in the repository, so a cascade
  under way puts back a policy an operator has just cleared, and a repository policy
  outlives the machine's policy that it came from (docs/09).
- A request may be decided more than once (`SecondNeedsRace`), where CHANGELOG.md:637
  and bridge-routes-approvals.mjs:67-73 speak of one decision; a strict gate goes by its own
  automatic decision also when an operator's came first (`OutcomeIsDecided`).
- Concurrent saves of `policies.json` lose updates or leave a file that reads as none
  (`clash` in `GlobalKept`).
- docs/51-slm-governance.md:59-63 says that no standing policy can advance a model above
  candidate; `approval migrate-legacy-decisions` also decides pending promotion requests
  that a policy matched (`"migrated"` in `ExplicitAbove`).
- The registry and the verifier derive different stages when an approval arrives after the
  checkpoint has moved, as `promote --wait` makes no second check (`StagesAgree`);
  model-projection.mjs:4-6 says that it mirrors the verifier.
- The preflight of a forced claim looks for a live worktree under the claims lock
  (lane.mjs:321), not the lane's: an attach may record one right after, and the attach of
  the forced claim is then refused.
- The bridge's lane release (bridge-routes-lanes.mjs:145) passes no worktree hooks, though
  lane-ownership.mjs:326 and :355 rely on them; the model is of the command's release.
- `liveAttachmentForLane` takes the first live attachment, so one imported from another
  replica hides the actor's own and a plain release leaves its checkout behind
  (the exception in `ReleaseLeavesNoWorktree`).
- The marker is truncated before it is written (spine-sync.mjs:343), also when a run resumes.
  Where one dies inside that write the marker is empty: reads see the flat rest of the
  half-done migration only (`blind` in `ReadSound`), though spine-sync.mjs:335-338 has them
  stay consistent, and the next run, which is to resume "into its SAME replicaId"
  (spine-sync.mjs:315), mints another id and leaves the partition behind (`left` in
  `ChainUnbroken`, the exception in `PartitionKept`). With replica.json this cannot happen:
  it is written aside and renamed.
- The comment on the "barrier residual" (spine-sync.mjs:494-501) expects that an append
  which saw neither marker nor replica.json may still write a flat segment behind the
  migration, and the code reports one as `strandedFlat`. In the model there is none
  (`NoStrandedFlat`), for `append()` looks again under the flat lock
  (spine-append-core.mjs:1560), which the init holds from before the marker to its return.
  The report can still fire where the flat lock itself let two in (the windows of
  `AppendLock`), or for files that no `append()` wrote.
- The removal of a checkout goes by its path, some awaits after the check of its token
  (worktrees.mjs:604 and :611, :681 and :685, :899 and :910). A checkout put there in between
  is removed, though worktrees.mjs:595-596 says that one manually removed and recreated must
  not be; and when the path goes out of sight in between, git takes the missing path for
  done, the probe finds nothing and the terminal is appended, though worktrees.mjs:659-661
  says that an absent instance is never terminalized automatically: the checkout may come
  back without its attachment (`meddled` in `RemovalIsIntended` and `AutoRemovesItself`).
- An attach whose token write or `WORKTREE_ATTACHED` append fails and whose rollback fails
  too leaves a checkout without attachment, at which later attaches of the lane fail.

Narrower windows are named by the exceptions of properties that hold: the unlink of
`tryStealDead` after its second read of the record, and a grace that ended on a slow
creator, a missing file or a live owner's unreadable record (`raced`); a quarantine on the record of a call that released before its process
ended (`Departed`); a read or a stamp whose recheck straddles the end of a migration
(`straddled`); a path that changes between the check of a checkout's token and its removal
(`meddled`); a marker left empty (`blind`, `left`); and a refusal as unattached by a resolve that looked at the partitions while
an init was moving into one (`RefusalJustified`).

## 7. What is not modelled

`PROJECT.json` lists every component with its status. Left out of modelled files: the
identity law and ceremony of workspaces, the fingerprint cache, redaction and event
construction (`spine.mjs`, `spine-append-core.mjs`); the order that `kWayMergeStreams` gives
events of different partitions; continuation, doctor and join (`spine-sync.mjs`); receipts
and upgrade of proofs (`spine-anchor.mjs`); the checks and texts of the hooks
(`discipline.mjs`, `fire-core.mjs`); the lane branch, the write-target guard and the
mutation witness (`worktrees.mjs` and its neighbours); the dataset, training and evaluation
events of a model; power loss, as opposed to the crash of a process; gate subsets, attempts
and policies other than one boundary (`decision.mjs`). The worktree lock is not exercised
across hosts: a pid of another host is never proved dead, so a contender only waits. Most
of the remaining code is read-only checks, text, HTTP routes, rendering and registries
whose only writes are single appends or whole files; there is no order of steps in them to
check.

Hazards of the code that `PROJECT.json` does not count among those the properties cover:

- `schedule.ndjson` is read, changed and written without a lock (`lib/schedule.mjs`): a tick
  writes back whole records it read earlier, which brings back a schedule removed or
  disabled meanwhile, and overlapping ticks (the server's interval and start-up tick, a
  second bridge, the command line) fire a minute twice. `lastTriggerFiredAt` reads the flat
  stream alone, so a cooldown is not enforced in a synced checkout.
- A stamp that dies leaves its directory, which makes every init refuse, and an init that
  dies leaves a marker, which makes every stamp refuse (spine-anchor.mjs:480): by design an
  operator's matter.
- The continuation of a synced checkout moves several residual segments in one run
  (spine-sync.mjs:131).
- Every append of a run waits for the one before it (store.mjs:86); that all are answered
  depends on the file system alone.

Bounds: `MaxSeg` (segments), `WaitPolls` and `GracePolls` (polls of a budget), `MaxFails`
and `MaxCrashes` (failed writes and crashes of the runtime's process), `LedgerTail`
(decisions shown), `Aid` and `LocalAids` (attachments), and the sets of calls and scenes.
No other counter is cut off.

## 8. Plan

Written, in this order: the two locks; `SpineStore`, `SpineAppend`, `SpineSync`, `SpineRead`,
`EventLog`, `Spine`; `EvidenceStore`, `EvidenceRun`, `EvidenceAction`, `RunLog`, `Evidence`;
`Projection`, `SessionStore`, `SessionLifecycle`, `SessionHooks`, `LaneOwnership`, `Sessions`;
`WorktreeStore`, `WorktreeAttach`, `WorktreeDetach`, `Worktrees`; `Approvals`, `Promotion`;
and their proofs, those of `Evidence` last.

Next:

1. `ResidualMigration` (the continuation of a synced checkout) and `WsIdentity` (the
   identity an append is stamped with, settled by others in between).
2. `KWayMerge`: merge order as a recursive function against a reference definition, and
   what the cursors of `readSince` skip.
3. `Schedule`: the unlocked file and overlapping ticks.

To prove: nothing is left of the properties above but liveness. The modules to come are to
be proved about as well: that the continuation keeps `Linked` and `NoStrandedFlat`, that an
identity settled by others is not overwritten, and for overlapping ticks the invariant that
names the window in which a minute is fired twice. What `KWayMerge` computes for every
input is an induction over data and stays with TLC.
