------------------------------ MODULE Promotion ------------------------------
(***************************************************************************)
(* The promotions of one checkpoint (commands/model.mjs), which ride on the *)
(* approvals: propose, approve, confirm, release and roll back.  Two readers *)
(* derive the checkpoint's stage from the spine: the registry                *)
(* (model-projection.mjs), which the commands go by, and the verifier        *)
(* (verify-referential.mjs).  Checkpoints are independent of each other.     *)
(***************************************************************************)
EXTENDS Approvals

VARIABLES
    stage,       \* the checkpoint's stage in the registry
    marked,      \* and as the verifier derives it
    proposed,    \* requests with a MODEL_PROMOTION_PROPOSED
    flagged,     \* those whose proposal the verifier flags
    approved,    \* requests with a MODEL_PROMOTION_APPROVED
    taken,       \* those whose approval moved the registry
    counted,     \* those whose approval the verifier took
    ignored,     \* history: an approval of them moved the registry nowhere
    released     \* the spine has a MODEL_RELEASED

promotionVars == <<stage, marked, proposed, flagged, approved, taken, counted, ignored, released>>

vars == <<approvalVars, promotionVars>>

Stages == <<"experiment", "candidate", "canary", "released">>
Stage  == {Stages[n] : n \in 1..4}

Rank(s) == CHOOSE n \in 1..4 : Stages[n] = s

Follows(to, from) == Rank(to) = Rank(from) + 1

Promotes(r) == asking[r].kind = "promote"

ASSUME PromotingAssumption ==
    /\ \A r \in Request : Promotes(r) => asking[r].from \in Stage /\ asking[r].to \in Stage
    /\ \A o \in Command : command[o].kind = "rollback" => command[o].to \in Stage
    /\ \A o \in Command : command[o].kind = "confirm" => Promotes(command[o].of)

\* A scene starts on a spine whose policies were all set by operators.
ASSUME ScenesAssumption ==
    \A sc \in Scenes :
       /\ sc.policies \in Policies /\ sc.globals \in Policies
       /\ sc.stage \in Stage
       /\ sc.released \in BOOLEAN

-----------------------------------------------------------------------------
(* Events, and what the two readers make of them *)

ProposedEvent(r) ==
    /\ proposed' = proposed \cup {r}
    /\ flagged' = IF asking[r].from = marked /\ Follows(asking[r].to, marked)
                  THEN flagged ELSE flagged \cup {r}
    /\ UNCHANGED <<stage, marked, approved, taken, counted, ignored, released>>

Allowed(r) == FirstDecision(r) \in Allowing

\* Mutant of Takes: the decision is not looked up.
TakesUndecided(r) == r \in proposed \ taken /\ asking[r].from = stage

\* deriveModels: an approval takes once, if the checkpoint is where the proposal saw it.
Takes(r) ==
    /\ r \in proposed \ taken
    /\ Allowed(r)
    /\ asking[r].from = stage
    /\ Follows(asking[r].to, stage)

\* The verifier's: the first approval of a proposal counts, wherever the checkpoint is.
Counts(r) == r \in proposed \ counted /\ Allowed(r)

ApprovedEvent(r) ==
    /\ approved' = approved \cup {r}
    /\ stage' = IF Takes(r) THEN asking[r].to ELSE stage
    /\ taken' = IF Takes(r) THEN taken \cup {r} ELSE taken
    /\ ignored' = IF Takes(r) THEN ignored ELSE ignored \cup {r}
    /\ marked' = IF Counts(r) /\ r \notin flagged THEN asking[r].to ELSE marked
    /\ counted' = IF Counts(r) THEN counted \cup {r} ELSE counted
    /\ UNCHANGED <<proposed, flagged, released>>

RolledBackEvent(to) ==
    /\ stage' = IF Rank(to) < Rank(stage) THEN to ELSE stage
    /\ marked' = IF Rank(to) < Rank(marked) THEN to ELSE marked
    /\ UNCHANGED <<proposed, flagged, approved, taken, counted, ignored, released>>

-----------------------------------------------------------------------------
(* model promote *)

\* The manifest's from_stage must be the derived one.
CheckStage(r) ==
    /\ At(r, "start")
    /\ Goto(r, IF asking[r].from = stage /\ Follows(asking[r].to, stage) THEN "ask" ELSE "done")
    /\ UNCHANGED <<spineView, machine, memory, word, promotionVars>>

\* After its own request, and the cascade up to candidate.
Propose(r) ==
    /\ At(r, "propose")
    /\ ProposedEvent(r)
    /\ Goto(r, CASE auto[r] # None /\ auto[r].decision \in Allowing -> "approve"
                 [] auto[r] = None /\ asking[r].waits -> "await"
                 [] OTHER -> "done")
    /\ UNCHANGED <<spineView, machine, memory, word>>

\* --wait polls the whole spine for the first decision.
Await(r) ==
    /\ At(r, "await")
    /\ FirstDecision(r) # None
    /\ outcome' = [outcome EXCEPT ![r] = FirstDecision(r)]
    /\ Goto(r, IF Allowed(r) THEN "approve" ELSE "done")
    /\ UNCHANGED <<spineView, machine, seen, auto, todo, base, word, promotionVars>>

\* approveNow: no second look at the checkpoint.
ApproveNow(r) ==
    /\ At(r, "approve")
    /\ ApprovedEvent(r)
    /\ Goto(r, "done")
    /\ UNCHANGED <<spineView, machine, memory, word>>

-----------------------------------------------------------------------------
(* model promote --confirm, model release, model rollback: look, then append *)

ConfirmLook(o) ==
    /\ At(o, "confirm")
    /\ LET r == command[o].of IN
       Goto(o, IF /\ r \in proposed \ approved
                  /\ Allowed(r)
                  /\ asking[r].from = stage
                  /\ Follows(asking[r].to, stage)
               THEN "approve" ELSE "done")
    /\ UNCHANGED <<spineView, machine, memory, word, promotionVars>>

Confirm(o) ==
    /\ At(o, "approve")
    /\ ApprovedEvent(command[o].of)
    /\ Goto(o, "done")
    /\ UNCHANGED <<spineView, machine, memory, word>>

ReleaseLook(o) ==
    /\ At(o, "release")
    /\ Goto(o, IF stage = "released" THEN "publish" ELSE "done")
    /\ UNCHANGED <<spineView, machine, memory, word, promotionVars>>

Release(o) ==
    /\ At(o, "publish")
    /\ released' = TRUE
    /\ Goto(o, "done")
    /\ UNCHANGED <<spineView, machine, memory, word, stage, marked, proposed, flagged, approved,
                   taken, counted, ignored>>

RollbackLook(o) ==
    /\ At(o, "rollback")
    /\ Goto(o, IF released /\ Rank(command[o].to) < Rank(stage) THEN "revert" ELSE "done")
    /\ UNCHANGED <<spineView, machine, memory, word, promotionVars>>

Rollback(o) ==
    /\ At(o, "revert")
    /\ RolledBackEvent(command[o].to)
    /\ Goto(o, "done")
    /\ UNCHANGED <<spineView, machine, memory, word>>

PromoteStep(r) ==
    \/ CheckStage(r)
    \/ Propose(r)
    \/ Await(r)
    \/ ApproveNow(r)

StageStep(o) ==
    \/ ConfirmLook(o)
    \/ Confirm(o)
    \/ ReleaseLook(o)
    \/ Release(o)
    \/ RollbackLook(o)
    \/ Rollback(o)

-----------------------------------------------------------------------------
FirstStep(a) ==
    IF a \in Command THEN command[a].kind ELSE IF Promotes(a) THEN "start" ELSE "ask"

Init ==
    \E sc \in Scenes :
       /\ requested = <<>>
       /\ ledger = <<>>
       /\ policies = sc.policies
       /\ stated = sc.policies
       /\ matched = [r \in Request |-> None]
       /\ file = [state |-> "whole", has |-> sc.globals]
       /\ kept = sc.globals
       /\ clash = FALSE
       /\ pc = [a \in Actor |-> IF a \in sc.actors THEN FirstStep(a) ELSE "absent"]
       /\ seen = [a \in Actor |-> 0]
       /\ auto = [r \in Request |-> None]
       /\ todo = [o \in Command |-> {}]
       /\ base = [o \in Command |-> NoPolicy]
       /\ outcome = [r \in Request |-> None]
       /\ word = {k \in Key : sc.policies[k] = "allow-always" \/ sc.globals[k] = "allow-always"}
       /\ stage = sc.stage
       /\ marked = sc.stage
       /\ proposed = {} /\ flagged = {} /\ approved = {} /\ taken = {} /\ counted = {} /\ ignored = {}
       /\ released = sc.released

ApprovalStep ==
    /\ \/ \E r \in Request : RequestStep(r)
       \/ \E o \in Command : CommandStep(o)
       \/ \E a \in Actor : Die(a)
    /\ UNCHANGED promotionVars

Next ==
    \/ ApprovalStep
    \/ \E r \in Request : PromoteStep(r)
    \/ \E o \in Command : StageStep(o)

Spec == Init /\ [][Next]_vars

-----------------------------------------------------------------------------
(* Properties *)

Place ==
    {"absent", "done", "ask", "project", "machine", "decide", "answer", "poll", "start", "propose",
     "await", "approve", "policy", "respond", "migrate", "backfill", "global", "truncate", "write",
     "confirm", "release", "publish", "rollback", "revert"}

\* The variables keep their types.
TypeOK ==
    /\ requested \in Seq(Request)
    /\ ledger \in Seq(Entry)
    /\ policies \in Policies /\ stated \in Policies
    /\ matched \in [Request -> Standing \cup {None}]
    /\ file \in [state : {"whole", "empty", "garbled"}, has : Policies]
    /\ kept \in Policies /\ clash \in BOOLEAN
    /\ pc \in [Actor -> Place]
    /\ seen \in [Actor -> Nat]
    /\ auto \in [Request -> Automatic \cup {None}]
    /\ todo \in [Command -> SUBSET Request]
    /\ base \in [Command -> Policies]
    /\ outcome \in [Request -> Decision \cup {None, "open", "timeout"}]
    /\ word \subseteq Key
    /\ stage \in Stage /\ marked \in Stage /\ released \in BOOLEAN
    /\ proposed \subseteq Request /\ flagged \subseteq Request
    /\ approved \subseteq Request /\ ignored \subseteq Request
    /\ taken \subseteq Request /\ counted \subseteq Request

Covers(k, key) == k[1] \in {key[1], Wild} /\ k[2] \in {key[2], Wild}

\* A request of the tool was allowed for good by an answer that was not its first.
AllowedAgain(tool) ==
    \E i, j \in DOMAIN ledger :
       /\ i < j
       /\ ledger[i].of = ledger[j].of
       /\ ledger[j].decision = "allow-always"
       /\ asking[ledger[j].of].tool = tool

\* What a policy allows without being asked goes back to an operator's word on that tool
\* and lane, through whatever the policies derived from each other (maybeAutoDecide, the
\* fold), unless a second allow-always widened a policy to all lanes of its tool.
AllowTraces ==
    \A i \in DOMAIN ledger :
       ledger[i].by # "operator" /\ ledger[i].decision = "allow-always" =>
          \/ \E k \in word : Covers(k, KeyOf(ledger[i].of))
          \/ AllowedAgain(asking[ledger[i].of].tool)

\* A request is decided again only by its own cascade, once, or by a responder or a
\* migration that looked before the decision was there.
SecondNeedsRace ==
    \A i, j \in DOMAIN ledger :
       i < j /\ ledger[i].of = ledger[j].of =>
          IF ledger[j].by \in {"policy", "global"}
          THEN ledger[i].by \notin {"policy", "global"}
          ELSE ledger[j].seen < i

\* Whoever goes on or gives up on a decision does so on one of its own request: its
\* cascade's, or the first, or the first still shown when more than LedgerTail followed.
OutcomeIsDecided ==
    \A r \in Request : outcome[r] \in Decision =>
       \E i \in Answers(r) :
          /\ ledger[i].decision = outcome[r]
          /\ \/ ledger[i].by \in {"policy", "global"}
             \/ \A j \in Answers(r) : j < i => j + LedgerTail <= Len(ledger)

\* As long as no two writers of the machine's policies overlap and none dies in its
\* write, every policy that was saved is there until it is removed.
GlobalKept ==
    ~clash /\ (\A o \in Command : pc[o] # "write") => file = [state |-> "whole", has |-> kept]

\* Above candidate a checkpoint moves by an operator's decision on that request, or by
\* the migration of old decisions, and never by the cascade.
ExplicitAbove ==
    \A r \in taken : asking[r].to \in {"canary", "released"} =>
       ledger[Min(Answers(r))].by \in {"operator", "migrated"}

\* The registry and the verifier derive one stage, unless an approval arrived that the
\* registry ignores, or one of a proposal made on a stage that had passed.
StagesAgree == ignored = {} /\ approved \cap flagged = {} => stage = marked
=============================================================================
