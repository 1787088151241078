------------------------------ MODULE Approvals ------------------------------
(***************************************************************************)
(* The approvals of one repository: requests with their automatic cascade   *)
(* (approvals.mjs), the strict gate that waits for an answer, operators'    *)
(* answers and standing policies, the migration of old requests, and the    *)
(* policies of the machine, one file that its writers share without a lock. *)
(*                                                                         *)
(* An append is one step, as module Spine shows.  What projections.mjs      *)
(* folds from the spine is kept up to date event by event; a projection is  *)
(* one read of it.  Wild process may end between two of its steps.           *)
(***************************************************************************)
EXTENDS Naturals, Sequences, FiniteSets, FiniteSetsExt

CONSTANTS
    Request,     \* approval ids
    asking,      \* asking[r]: kind (once | gate | promote), tool, lane; stages of a promotion
    Command,     \* the operators' commands
    command,     \* command[o]: kind, and the request, key or decision it is about
    Tool, Lane,
    Wild,         \* no tool or lane named: all of them
    None,        \* no decision
    LedgerTail,  \* decisions that a projection shows (100)
    Scenes,      \* the spines to start from, each with the actors that run
    MayDie       \* actors whose process may end early

VARIABLES
    requested,   \* the requests on the spine, in order
    ledger,      \* the decisions on the spine, in order
    policies,    \* key -> standing policy of the repository
    stated,      \* key -> the same from APPROVAL_POLICY_SET events alone
    matched,     \* request -> what `stated' said of it when it was appended
    file,        \* the machine's policies.json: is it whole, and what it holds
    pc,
    seen,        \* actor -> length of the ledger when it last projected
    auto,        \* request -> the automatic decision it found
    todo,        \* command -> requests it has yet to decide
    base,        \* command -> policies it is about to write
    outcome,     \* request -> what its caller was told
    word,        \* history: keys operators said allow-always of
    kept,        \* history: the machine's policies as its writers left them
    clash        \* history: two writers of the machine's file overlapped, or one died

spineView    == <<requested, ledger, policies, stated, matched>>
machine      == <<file, kept, clash>>
memory       == <<seen, auto, todo, base, outcome>>
approvalVars == <<spineView, machine, pc, memory, word>>

Actor    == Request \cup Command
Key      == (Tool \cup {Wild}) \X (Lane \cup {Wild})
Decision == {"allow-once", "allow-always", "deny", "deny-always"}
Standing == {"allow-always", "deny"}
Allowing == {"allow-once", "allow-always"}
NoPolicy == [k \in Key |-> None]
Policies == [Key -> Standing \cup {None}]
Entry    == [of : Request, decision : Decision, seen : Nat,
             by : {"operator", "policy", "global", "migrated"}]
Automatic     == [decision : Standing, by : {"policy", "global"}]

ASSUME ActorsAssumption ==
    /\ Request \cap Command = {}
    /\ None \notin Decision \cup Automatic
    /\ LedgerTail \in Nat \ {0}

ASSUME AskingAssumption ==
    /\ Wild \notin Tool
    /\ \A r \in Request :
         /\ asking[r].kind \in {"once", "gate", "promote"}
         /\ asking[r].tool \in Tool
         /\ asking[r].lane \in Lane \cup {Wild}

ASSUME CommandAssumption ==
    \A o \in Command :
       LET c == command[o] IN
       /\ c.kind \in {"respond", "policy", "global", "migrate", "confirm", "release", "rollback"}
       /\ c.kind \in {"respond", "confirm"} => c.of \in Request
       /\ c.kind = "respond" => c.decision \in Decision
       /\ c.kind \in {"policy", "global"} => c.key \in Key
       /\ c.kind = "policy" => c.decision \in Standing \cup {"clear"}
       /\ c.kind = "global" => c.decision \in Standing \cup {"remove"}

KeyOf(r) == <<asking[r].tool, asking[r].lane>>

\* The keys that cover a key, the most specific first.
Ladder(k) == <<k, <<k[1], Wild>>, <<Wild, k[2]>>, <<Wild, Wild>>>>

\* What a set of policies says of a request: its most specific policy.
Match(pols, r) ==
    LET hits == {n \in 1..4 : pols[Ladder(KeyOf(r))[n]] # None}
    IN  IF hits = {} THEN None ELSE pols[Ladder(KeyOf(r))[Min(hits)]]

At(a, step)   == pc[a] = step
Goto(a, step) == pc' = [pc EXCEPT ![a] = step]

Answers(r)   == {i \in DOMAIN ledger : ledger[i].of = r}
Requested(r) == \E i \in DOMAIN requested : requested[i] = r
Open(r)      == Requested(r) /\ Answers(r) = {}

DecisionAmong(ids) == IF ids = {} THEN None ELSE ledger[Min(ids)].decision

\* The first decision of a request on the spine, and in what a projection shows.
\* LatestDecision: mutant of ShownDecision.
FirstDecision(r)   == DecisionAmong(Answers(r))
LatestDecision(r)  == IF Answers(r) = {} THEN None ELSE ledger[Max(Answers(r))].decision
ShownDecision(r)   == DecisionAmong({i \in Answers(r) : i + LedgerTail > Len(ledger)})

\* Mutant of AnsweredKey: the policy is one of the tool.
ToolKey(r) == <<asking[r].tool, Wild>>

\* The key an `always' answer sets: of the request while that is open; of a later answer
\* only the tool is known, as the fold looks for the lane where no writer puts it.
AnsweredKey(r) == IF Open(r) THEN KeyOf(r) ELSE <<asking[r].tool, Wild>>

-----------------------------------------------------------------------------
(* Events *)

\* APPROVAL_DECIDED, written by an actor that last projected when the ledger was `look' long.
Decide(r, decision, by, look) ==
    /\ ledger' = Append(ledger, [of |-> r, decision |-> decision, by |-> by, seen |-> look])
    /\ policies' = CASE decision = "allow-always" -> [policies EXCEPT ![AnsweredKey(r)] = "allow-always"]
                     [] decision = "deny-always"  -> [policies EXCEPT ![AnsweredKey(r)] = "deny"]
                     [] OTHER                     -> policies
    /\ word' = IF by = "operator" /\ decision = "allow-always" THEN word \cup {AnsweredKey(r)} ELSE word
    /\ UNCHANGED <<requested, stated, matched>>

\* Mutant of Cascades: every promotion asks the policies.
CascadesAlways(r) == TRUE

Cascades(r) == asking[r].kind # "promote" \/ asking[r].to = "candidate"

Ask(r) ==
    /\ At(r, "ask")
    /\ requested' = Append(requested, r)
    /\ matched' = [matched EXCEPT ![r] = Match(stated, r)]
    /\ Goto(r, IF Cascades(r) THEN "project" ELSE "propose")
    /\ UNCHANGED <<ledger, policies, stated, machine, memory, word>>

\* APPROVAL_POLICY_SET
SetPolicy(o) ==
    /\ At(o, "policy")
    /\ LET c == command[o]
           value == IF c.decision = "clear" THEN None ELSE c.decision IN
       /\ policies' = [policies EXCEPT ![c.key] = value]
       /\ stated' = [stated EXCEPT ![c.key] = value]
       /\ word' = IF value = "allow-always" THEN word \cup {c.key} ELSE word
    /\ Goto(o, "done")
    /\ UNCHANGED <<requested, ledger, matched, machine, memory>>

-----------------------------------------------------------------------------
(* The automatic cascade, and what its caller makes of it *)

\* Where a caller goes once the cascade is over: it reports, waits or goes on.
AfterCascade(r, decision) ==
    CASE asking[r].kind = "once"    -> "answer"
      [] asking[r].kind = "promote" -> "propose"
      [] decision = None            -> "poll"
      [] OTHER                      -> "done"

Consult(r, step, pols, by, otherwise) ==
    /\ At(r, step)
    /\ auto' = IF Match(pols, r) = None THEN auto
               ELSE [auto EXCEPT ![r] = [decision |-> Match(pols, r), by |-> by]]
    /\ Goto(r, IF Match(pols, r) = None THEN otherwise ELSE "decide")

Project(r) ==
    /\ Consult(r, "project", policies, "policy", "machine")
    /\ seen' = [seen EXCEPT ![r] = Len(ledger)]
    /\ UNCHANGED <<spineView, machine, todo, base, outcome, word>>

\* A file that does not parse holds no policies.
Parsed == IF file.state = "whole" THEN file.has ELSE NoPolicy

ReadMachine(r) ==
    /\ Consult(r, "machine", Parsed, "global", AfterCascade(r, None))
    /\ UNCHANGED <<spineView, machine, seen, todo, base, outcome, word>>

\* No look at whether the request is still open; the gate goes by its own decision.
AutoDecide(r) ==
    /\ At(r, "decide")
    /\ Decide(r, auto[r].decision, auto[r].by, seen[r])
    /\ outcome' = IF asking[r].kind = "gate" THEN [outcome EXCEPT ![r] = auto[r].decision] ELSE outcome
    /\ Goto(r, AfterCascade(r, auto[r].decision))
    /\ UNCHANGED <<machine, seen, auto, todo, base>>

Told(r, what) ==
    /\ outcome' = [outcome EXCEPT ![r] = what]
    /\ Goto(r, "done")
    /\ UNCHANGED <<spineView, machine, seen, auto, todo, base, word>>

Answer(r) ==
    /\ At(r, "answer")
    /\ Told(r, IF ShownDecision(r) = None THEN "open" ELSE ShownDecision(r))

Poll(r) ==
    /\ At(r, "poll")
    /\ ShownDecision(r) # None
    /\ Told(r, ShownDecision(r))

TimeOut(r) ==
    /\ At(r, "poll") \/ At(r, "await")
    /\ Told(r, "timeout")

-----------------------------------------------------------------------------
(* Operators *)

\* Mutant of LookOpen: any request that is on the spine may be answered.
LookRequested(o) ==
    /\ At(o, "respond")
    /\ seen' = [seen EXCEPT ![o] = Len(ledger)]
    /\ Goto(o, IF Requested(command[o].of) THEN "answer" ELSE "done")
    /\ UNCHANGED <<spineView, machine, auto, todo, base, outcome, word>>

\* Both responders answer what they see open, and are refused otherwise.
LookOpen(o) ==
    /\ At(o, "respond")
    /\ seen' = [seen EXCEPT ![o] = Len(ledger)]
    /\ Goto(o, IF Open(command[o].of) THEN "answer" ELSE "done")
    /\ UNCHANGED <<spineView, machine, auto, todo, base, outcome, word>>

Respond(o) ==
    /\ At(o, "answer")
    /\ Decide(command[o].of, command[o].decision, "operator", seen[o])
    /\ Goto(o, "done")
    /\ UNCHANGED <<machine, memory>>

\* The migration reads the spine once: requests a stated policy matched when they were
\* made and no one has decided.
MigrateLook(o) ==
    /\ At(o, "migrate")
    /\ seen' = [seen EXCEPT ![o] = Len(ledger)]
    /\ todo' = [todo EXCEPT ![o] = {r \in Request : Open(r) /\ matched[r] # None}]
    /\ Goto(o, IF todo'[o] = {} THEN "done" ELSE "backfill")
    /\ UNCHANGED <<spineView, machine, auto, base, outcome, word>>

Migrate(o) ==
    /\ At(o, "backfill")
    /\ LET r == requested[Min({i \in DOMAIN requested : requested[i] \in todo[o]})] IN
       /\ Decide(r, matched[r], "migrated", seen[o])
       /\ todo' = [todo EXCEPT ![o] = @ \ {r}]
       /\ Goto(o, IF todo[o] = {r} THEN "done" ELSE "backfill")
    /\ UNCHANGED <<machine, seen, auto, base, outcome>>

-----------------------------------------------------------------------------
(* The machine's policies: read, truncate, write, with no lock *)

MidWrite(p) == At(p, "truncate") \/ At(p, "write")

\* Mutant of ReadForWrite: the policies that are there are not read first.
WriteAlone(o) ==
    /\ At(o, "global")
    /\ base' = [base EXCEPT ![o] = [NoPolicy EXCEPT ![command[o].key] =
                                       IF command[o].decision = "remove" THEN None ELSE command[o].decision]]
    /\ clash' = (clash \/ \E p \in Command : MidWrite(p))
    /\ word' = IF command[o].decision = "allow-always" THEN word \cup {command[o].key} ELSE word
    /\ Goto(o, "truncate")
    /\ UNCHANGED <<spineView, file, kept, seen, auto, todo, outcome>>

\* saveGlobalPolicy, removeGlobalPolicy: a removal of what is not there writes nothing.
ReadForWrite(o) ==
    /\ At(o, "global")
    /\ LET c == command[o] IN
       IF c.decision = "remove" /\ Parsed[c.key] = None
       THEN /\ Goto(o, "done")
            /\ UNCHANGED <<base, clash, word>>
       ELSE /\ base' = [base EXCEPT ![o] = [Parsed EXCEPT ![c.key] =
                                               IF c.decision = "remove" THEN None ELSE c.decision]]
            /\ clash' = (clash \/ \E p \in Command : MidWrite(p))
            /\ word' = IF c.decision = "allow-always" THEN word \cup {c.key} ELSE word
            /\ Goto(o, "truncate")
    /\ UNCHANGED <<spineView, file, kept, seen, auto, todo, outcome>>

Truncate(o) ==
    /\ At(o, "truncate")
    /\ file' = [state |-> "empty", has |-> NoPolicy]
    /\ Goto(o, "write")
    /\ UNCHANGED <<spineView, kept, clash, memory, word>>

\* Over what another writer left in between, the rest of a longer text may stay behind.
Write(o) ==
    /\ At(o, "write")
    /\ \/ file' = [state |-> "whole", has |-> base[o]]
       \/ file.state # "empty" /\ file' = [state |-> "garbled", has |-> NoPolicy]
    /\ kept' = [kept EXCEPT ![command[o].key] =
                   IF command[o].decision = "remove" THEN None ELSE command[o].decision]
    /\ Goto(o, "done")
    /\ UNCHANGED <<spineView, clash, memory, word>>

-----------------------------------------------------------------------------
\* A process ends early: killed, or thrown out by an append or a write.
Die(a) ==
    /\ a \in MayDie
    /\ pc[a] \notin {"absent", "done"}
    /\ clash' = (clash \/ At(a, "write"))
    /\ Goto(a, "done")
    /\ UNCHANGED <<spineView, file, kept, memory, word>>

RequestStep(r) ==
    \/ Ask(r)
    \/ Project(r)
    \/ ReadMachine(r)
    \/ AutoDecide(r)
    \/ Answer(r)
    \/ Poll(r)
    \/ TimeOut(r)

CommandStep(o) ==
    \/ SetPolicy(o)
    \/ LookOpen(o)
    \/ Respond(o)
    \/ MigrateLook(o)
    \/ Migrate(o)
    \/ ReadForWrite(o)
    \/ Truncate(o)
    \/ Write(o)
=============================================================================
