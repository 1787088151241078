--------------------------- MODULE ApprovalsProofs ---------------------------
(***************************************************************************)
(* Proofs about Approvals and Promotion: what licenses an automatic         *)
(* decision, who decides twice, what callers go by, and where a checkpoint  *)
(* stands.                                                                  *)
(***************************************************************************)
EXTENDS Promotion, TLAPS, NaturalsInduction, WellFoundedInduction

\* The types by parts.
SpineTyped ==
    /\ requested \in Seq(Request)
    /\ ledger \in Seq(Entry)
    /\ policies \in Policies /\ stated \in Policies
    /\ matched \in [Request -> Standing \cup {None}]
    /\ word \subseteq Key

MachineTyped ==
    /\ file \in [state : {"whole", "empty", "garbled"}, has : Policies]
    /\ kept \in Policies
    /\ clash \in BOOLEAN

MemoryTyped ==
    /\ seen \in [Actor -> Nat]
    /\ auto \in [Request -> Automatic \cup {None}]
    /\ todo \in [Command -> SUBSET Request]
    /\ base \in [Command -> Policies]
    /\ outcome \in [Request -> Decision \cup {None, "open", "timeout"}]

PcTyped == pc \in [Actor -> Place]

StageTyped ==
    /\ stage \in Stage /\ marked \in Stage /\ released \in BOOLEAN
    /\ proposed \subseteq Request /\ flagged \subseteq Request
    /\ approved \subseteq Request /\ ignored \subseteq Request
    /\ taken \subseteq Request /\ counted \subseteq Request

\* Where each process can be, and what it holds there.
RequestSteps(r) ==
    /\ pc[r] = "decide" => auto[r] \in Automatic
    /\ pc[r] \in {"start", "ask"} => ~ Requested(r)
    /\ pc[r] \in {"project", "machine", "decide"} => Cascades(r)
    /\ pc[r] \in {"start", "propose", "await", "approve"} => Promotes(r)
    /\ pc[r] \in {"project", "machine", "decide", "answer", "poll", "propose", "await", "approve"} =>
          Requested(r)

CommandSteps(o) ==
    /\ pc[o] \in {"respond", "answer"} => command[o].kind = "respond"
    /\ pc[o] = "policy" => command[o].kind = "policy"
    /\ pc[o] \in {"global", "truncate", "write"} => command[o].kind = "global"
    /\ pc[o] \in {"confirm", "approve"} => command[o].kind = "confirm"
    /\ pc[o] \in {"rollback", "revert"} => command[o].kind = "rollback"
    /\ pc[o] = "answer" => Requested(command[o].of)
    /\ \A r \in todo[o] : Requested(r) /\ matched[r] # None
    /\ pc[o] = "backfill" => todo[o] # {}

Steps ==
    /\ \A r \in Request : RequestSteps(r)
    /\ \A o \in Command : CommandSteps(o)

Base == TypeOK /\ Steps

\* What a step of actor a leaves alone, as far as where the others are goes.
OthersKept(a) ==
    /\ \A r \in Request : Requested(r) => Requested(r)' /\ matched'[r] = matched[r]
    /\ \A r \in Request \ {a} : (Requested(r)' => Requested(r)) /\ auto'[r] = auto[r]
    /\ \A o \in Command \ {a} : todo'[o] = todo[o]

-----------------------------------------------------------------------------
(* Least elements, and policies *)

\* A non-empty set of naturals has a least element, which is its Min.
LEMMA MinIs ==
    ASSUME NEW S, S \subseteq Nat, S # {}
    PROVE  Min(S) \in S /\ \A b \in S : Min(S) <= b
  <1>1. PICK a \in S : \A b \in S : ~ (<<b, a>> \in OpToRel(<, Nat))
    BY WFMin, NatLessThanWellFounded, Zenon
  <1>2. \A a1, b1 \in Nat : <<b1, a1>> \in OpToRel(<, Nat) <=> b1 < a1
    BY SMT DEF OpToRel
  <1>3. \A b \in S : ~ (b < a)
    BY <1>1, <1>2, Zenon
  <1>4. \A b \in S : a <= b
    BY <1>3
  <1> QED
    BY <1>4 DEF Min

\* The rungs of a request's ladder are keys, each covering the request.
LEMMA LadderCovers ==
    ASSUME NEW r \in Request, NEW n \in 1..4
    PROVE  /\ KeyOf(r) \in Key
           /\ Ladder(KeyOf(r))[n] \in Key
           /\ Covers(Ladder(KeyOf(r))[n], KeyOf(r))
  BY AskingAssumption DEF Ladder, KeyOf, Key, Covers

\* What policies say of a request is what one of the keys that cover it says.
LEMMA MatchIs ==
    ASSUME NEW r \in Request, NEW pols \in Policies
    PROVE  /\ Match(pols, r) \in Standing \cup {None}
           /\ Match(pols, r) # None =>
                 \E k \in Key : Covers(k, KeyOf(r)) /\ pols[k] = Match(pols, r)
  <1> DEFINE hits == {n \in 1..4 : pols[Ladder(KeyOf(r))[n]] # None}
  <1>1. CASE hits = {}
    BY <1>1 DEF Match
  <1>2. CASE hits # {}
    <2>1. Min(hits) \in hits
      <3>1. hits \subseteq Nat
        OBVIOUS
      <3> HIDE DEF hits
      <3> QED
        BY <1>2, <3>1, MinIs
    <2>2. PICK n \in 1..4 : n = Min(hits)
      BY <2>1
    <2>3. Match(pols, r) = pols[Ladder(KeyOf(r))[n]]
      BY <1>2, <2>2 DEF Match
    <2> QED
      BY <2>3, LadderCovers DEF Policies
  <1> QED
    BY <1>1, <1>2

\* The entries of the ledger.
LEMMA EntriesAre ==
    ASSUME TypeOK
    PROVE  /\ Len(ledger) \in Nat /\ DOMAIN ledger = 1..Len(ledger)
           /\ \A i \in DOMAIN ledger : ledger[i] \in Entry
  <1>1. ledger \in Seq(Entry)
    BY DEF TypeOK
  <1> QED
    BY <1>1

\* What a caller is told of a set of decisions.
LEMMA AmongIs ==
    ASSUME TypeOK, NEW ids \in SUBSET DOMAIN ledger
    PROVE  /\ DecisionAmong(ids) \in Decision \cup {None}
           /\ DecisionAmong(ids) # None => ids # {}
           /\ ids # {} => /\ Min(ids) \in ids
                          /\ \A i \in ids : Min(ids) <= i
                          /\ DecisionAmong(ids) = ledger[Min(ids)].decision
                          /\ DecisionAmong(ids) # None
  <1>1. ids \subseteq Nat
    BY EntriesAre
  <1>2. ids # {} => Min(ids) \in ids /\ \A i \in ids : Min(ids) <= i
    BY <1>1, MinIs
  <1>3. \A i \in DOMAIN ledger : ledger[i].decision \in Decision
    BY EntriesAre DEF Entry
  <1>4. ids # {} => Min(ids) \in DOMAIN ledger
    BY <1>2
  <1> QED
    BY <1>2, <1>3, <1>4, ActorsAssumption DEF DecisionAmong

-----------------------------------------------------------------------------
(* Types, and where each process is *)

\* The parts make up the types.
LEMMA TypedParts == TypeOK <=> SpineTyped /\ MachineTyped /\ MemoryTyped /\ PcTyped /\ StageTyped
  BY Zenon DEF TypeOK, SpineTyped, MachineTyped, MemoryTyped, PcTyped, StageTyped

\* A key that an answer sets is a key.
LEMMA AnsweredKeyIs == ASSUME NEW r \in Request PROVE AnsweredKey(r) \in Key
  BY AskingAssumption DEF AnsweredKey, KeyOf, Key

\* A decision keeps the types, and what was requested.
LEMMA DecideTyped ==
    ASSUME SpineTyped, NEW r \in Request, NEW d \in Decision, NEW look \in Nat,
           NEW by \in {"operator", "policy", "global", "migrated"},
           Decide(r, d, by, look)
    PROVE  SpineTyped' /\ requested' = requested /\ matched' = matched
  <1>1. [of |-> r, decision |-> d, by |-> by, seen |-> look] \in Entry
    BY DEF Entry
  <1>2. ledger' \in Seq(Entry)
    BY <1>1 DEF SpineTyped, Decide
  <1>3. policies' \in Policies
    BY AnsweredKeyIs DEF SpineTyped, Decide, Policies, Standing
  <1>4. word' \subseteq Key
    BY AnsweredKeyIs DEF SpineTyped, Decide
  <1> QED
    BY <1>2, <1>3, <1>4 DEF SpineTyped, Decide

\* The types hold at the start, and every process is where it may be.
LEMMA BaseInit == Init => Base
  <1> SUFFICES ASSUME Init PROVE Base
    OBVIOUS
  <1> PICK sc \in Scenes :
        /\ requested = <<>> /\ ledger = <<>>
        /\ policies = sc.policies /\ stated = sc.policies
        /\ matched = [r \in Request |-> None]
        /\ file = [state |-> "whole", has |-> sc.globals]
        /\ kept = sc.globals /\ clash = FALSE
        /\ pc = [a \in Actor |-> IF a \in sc.actors THEN FirstStep(a) ELSE "absent"]
        /\ seen = [a \in Actor |-> 0]
        /\ auto = [r \in Request |-> None]
        /\ todo = [o \in Command |-> {}]
        /\ base = [o \in Command |-> NoPolicy]
        /\ outcome = [r \in Request |-> None]
        /\ word = {k \in Key : sc.policies[k] = "allow-always" \/ sc.globals[k] = "allow-always"}
        /\ stage = sc.stage /\ marked = sc.stage
        /\ proposed = {} /\ flagged = {} /\ approved = {} /\ taken = {} /\ counted = {} /\ ignored = {}
        /\ released = sc.released
    BY DEF Init
  <1>1. SpineTyped /\ MachineTyped /\ MemoryTyped /\ StageTyped
    <2>1. sc.policies \in Policies /\ sc.globals \in Policies /\ sc.stage \in Stage /\ sc.released \in BOOLEAN
      BY ScenesAssumption
    <2>2. SpineTyped
      BY <2>1 DEF SpineTyped
    <2>3. MachineTyped
      BY <2>1 DEF MachineTyped
    <2>4. NoPolicy \in Policies
      BY DEF NoPolicy, Policies
    <2>5. MemoryTyped
      BY <2>4 DEF MemoryTyped
    <2>6. StageTyped
      BY <2>1 DEF StageTyped
    <2> QED
      BY <2>2, <2>3, <2>5, <2>6
  <1>2. \A a \in Actor : FirstStep(a) \in Place
    BY CommandAssumption DEF FirstStep, Actor, Place
  <1>3. PcTyped
    BY <1>2 DEF PcTyped, Place
  <1>4. ASSUME NEW r \in Request PROVE RequestSteps(r)
    BY <1>4, ActorsAssumption DEF RequestSteps, FirstStep, Actor, Requested
  <1>5. ASSUME NEW o \in Command PROVE CommandSteps(o)
    BY <1>5, CommandAssumption DEF CommandSteps, FirstStep, Actor
  <1> QED
    BY <1>1, <1>3, <1>4, <1>5, TypedParts DEF Base, Steps

\* A step that moves one actor, and leaves it where it may be, leaves all where they may be.
LEMMA StepsKept ==
    ASSUME Base, NEW a \in Actor, NEW s, pc' = [pc EXCEPT ![a] = s], OthersKept(a),
           a \in Request => RequestSteps(a)',
           a \in Command => CommandSteps(a)'
    PROVE  Steps'
  <1>0. pc \in [Actor -> Place]
    BY TypedParts DEF Base, PcTyped
  <1>1. ASSUME NEW r \in Request PROVE RequestSteps(r)'
    <2>1. CASE r = a
      BY <2>1
    <2>2. CASE r # a
      <3>1. pc'[r] = pc[r] /\ auto'[r] = auto[r] /\ (Requested(r)' <=> Requested(r))
        BY <1>0, <2>2 DEF OthersKept, Actor
      <3>2. RequestSteps(r)
        BY DEF Base, Steps
      <3> QED
        BY <3>1, <3>2 DEF RequestSteps
    <2> QED
      BY <2>1, <2>2
  <1>2. ASSUME NEW o \in Command PROVE CommandSteps(o)'
    <2>1. CASE o = a
      BY <2>1
    <2>2. CASE o # a
      <3>1. pc'[o] = pc[o] /\ todo'[o] = todo[o]
        BY <1>0, <2>2 DEF OthersKept, Actor
      <3>2. CommandSteps(o) /\ todo[o] \subseteq Request
        BY TypedParts DEF Base, Steps, MemoryTyped
      <3>3. \A r \in Request : Requested(r) => Requested(r)' /\ matched'[r] = matched[r]
        BY DEF OthersKept
      <3>4. pc[o] = "answer" => command[o].of \in Request
        BY <3>2, CommandAssumption DEF CommandSteps
      <3> QED
        BY <3>1, <3>2, <3>3, <3>4 DEF CommandSteps
    <2> QED
      BY <2>1, <2>2
  <1> QED
    BY <1>1, <1>2 DEF Steps

\* The same for the whole of Base.
LEMMA BaseKept ==
    ASSUME Base, NEW a \in Actor, NEW s \in Place, pc' = [pc EXCEPT ![a] = s],
           SpineTyped', MachineTyped', MemoryTyped', StageTyped', OthersKept(a),
           a \in Request => RequestSteps(a)',
           a \in Command => CommandSteps(a)'
    PROVE  Base'
  <1>1. PcTyped'
    BY TypedParts DEF Base, PcTyped
  <1>2. TypeOK'
    BY <1>1, Zenon DEF TypeOK, SpineTyped, MachineTyped, MemoryTyped, PcTyped, StageTyped
  <1> QED
    BY <1>2, StepsKept DEF Base

\* What a step leaves alone keeps its type.
LEMMA TypesKept ==
    ASSUME Base
    PROVE  /\ UNCHANGED <<requested, ledger, policies, stated, matched, word>> => SpineTyped'
           /\ UNCHANGED <<file, kept, clash>> => MachineTyped'
           /\ UNCHANGED <<seen, auto, todo, base, outcome>> => MemoryTyped'
           /\ UNCHANGED promotionVars => StageTyped'
  <1>1. SpineTyped /\ MachineTyped /\ MemoryTyped /\ StageTyped
    BY TypedParts DEF Base
  <1>2. UNCHANGED <<requested, ledger, policies, stated, matched, word>> => SpineTyped'
    BY <1>1 DEF SpineTyped
  <1>3. UNCHANGED <<file, kept, clash>> => MachineTyped'
    BY <1>1 DEF MachineTyped
  <1>4. UNCHANGED <<seen, auto, todo, base, outcome>> => MemoryTyped'
    BY <1>1 DEF MemoryTyped
  <1>5. UNCHANGED promotionVars => StageTyped'
    BY <1>1 DEF StageTyped, promotionVars
  <1> QED
    BY <1>2, <1>3, <1>4, <1>5

\* A length of the ledger is a number.
LEMMA LookTyped ==
    ASSUME Base, NEW a \in Actor
    PROVE  /\ Len(ledger) \in Nat
           /\ seen[a] \in Nat
           /\ [seen EXCEPT ![a] = Len(ledger)] \in [Actor -> Nat]
  BY EntriesAre, TypedParts DEF Base, MemoryTyped

\* Where a caller goes after its cascade.
LEMMA AfterIs ==
    ASSUME NEW r \in Request, NEW d
    PROVE  /\ AfterCascade(r, d) \in {"answer", "propose", "poll", "done"}
           /\ AfterCascade(r, None) \in {"answer", "propose", "poll"}
           /\ AfterCascade(r, d) = "propose" => Promotes(r)
           /\ AfterCascade(r, None) = "propose" => Promotes(r)
  <1>1. asking[r].kind \in {"once", "gate", "promote"}
    BY AskingAssumption
  <1>2. CASE asking[r].kind = "once"
    BY <1>2 DEF AfterCascade
  <1>3. CASE asking[r].kind = "promote"
    BY <1>3 DEF AfterCascade, Promotes
  <1>4. CASE asking[r].kind = "gate"
    BY <1>4 DEF AfterCascade
  <1> QED
    BY <1>1, <1>2, <1>3, <1>4

\* The steps of the cascade and of its caller.
LEMMA BaseRequestStep ==
    ASSUME Base, NEW r \in Request, RequestStep(r), UNCHANGED promotionVars
    PROVE  Base'
  <1>0. SpineTyped /\ MachineTyped /\ MemoryTyped /\ PcTyped /\ StageTyped /\ RequestSteps(r)
    BY TypedParts DEF Base, Steps
  <1>a. r \in Actor /\ r \notin Command
    BY ActorsAssumption DEF Actor
  <1>1. CASE Ask(r)
    <2>1. requested' \in Seq(Request) /\ matched' \in [Request -> Standing \cup {None}]
      BY <1>0, <1>1, MatchIs DEF Ask, SpineTyped
    <2>2. SpineTyped'
      BY <1>0, <1>1, <2>1 DEF Ask, SpineTyped
    <2>3. \A q \in Request : Requested(q)' <=> Requested(q) \/ q = r
      <3>1. requested \in Seq(Request) /\ requested' = Append(requested, r)
        BY <1>0, <1>1 DEF Ask, SpineTyped
      <3>2. /\ DOMAIN requested = 1..Len(requested) /\ DOMAIN requested' = 1..(Len(requested) + 1)
            /\ Len(requested) \in Nat
            /\ requested'[Len(requested) + 1] = r
            /\ \A i \in DOMAIN requested : requested'[i] = requested[i]
        BY <3>1
      <3> QED
        BY <3>2 DEF Requested
    <2>4. ~ Requested(r)
      BY <1>0, <1>1 DEF Ask, At, RequestSteps
    <2>5. OthersKept(r)
      BY <1>0, <1>1, <2>3, <2>4 DEF Ask, OthersKept, memory, SpineTyped
    <2>6. PICK s \in {"project", "propose"} : pc' = [pc EXCEPT ![r] = s] /\ (s = "project" => Cascades(r)) /\ (s = "propose" => ~ Cascades(r))
      BY <1>1 DEF Ask, Goto
    <2>7. RequestSteps(r)'
      BY <1>0, <1>a, <2>3, <2>6 DEF RequestSteps, Cascades, Promotes, PcTyped
    <2>8. MachineTyped' /\ MemoryTyped' /\ StageTyped'
      BY <1>1, TypesKept DEF Ask, machine, memory
    <2> QED
      BY <1>a, <2>2, <2>5, <2>6, <2>7, <2>8, BaseKept DEF Place
  <1>2. CASE Project(r) \/ ReadMachine(r)
    <2>1. PICK pols \in Policies, by \in {"policy", "global"}, step \in {"project", "machine"},
               otherwise \in {"machine", "answer", "propose", "poll"} :
            /\ Consult(r, step, pols, by, otherwise)
            /\ otherwise = "propose" => Promotes(r)
            /\ UNCHANGED <<spineView, machine, todo, base, outcome, word>>
            /\ seen' \in [Actor -> Nat]
      <3>1. CASE Project(r)
        BY <1>0, <1>a, <3>1, LookTyped DEF Project, SpineTyped
      <3>2. CASE ReadMachine(r)
        <4>1. Parsed \in Policies
          BY <1>0 DEF Parsed, MachineTyped, NoPolicy, Policies
        <4> QED
          BY <1>0, <3>2, <4>1, AfterIs DEF ReadMachine, MemoryTyped
      <3> QED
        BY <1>2, <3>1, <3>2
    <2>2. Match(pols, r) # None => [decision |-> Match(pols, r), by |-> by] \in Automatic
      BY MatchIs DEF Automatic
    <2>3. auto' \in [Request -> Automatic \cup {None}] /\ \A q \in Request \ {r} : auto'[q] = auto[q]
      BY <1>0, <2>1, <2>2 DEF Consult, MemoryTyped
    <2>4. MemoryTyped'
      BY <1>0, <2>1, <2>3 DEF MemoryTyped
    <2>5. \A q \in Request : Requested(q)' <=> Requested(q)
      BY <2>1 DEF spineView, Requested
    <2>6. OthersKept(r)
      BY <2>1, <2>3, <2>5 DEF OthersKept, spineView
    <2>7. PICK s \in {"decide", otherwise} :
            /\ pc' = [pc EXCEPT ![r] = s]
            /\ s = "decide" => auto'[r] \in Automatic
      BY <1>0, <2>1, <2>2 DEF Consult, Goto, MemoryTyped
    <2>8. Cascades(r) /\ Requested(r)
      BY <1>0, <2>1 DEF Consult, At, RequestSteps
    <2>9. RequestSteps(r)'
      BY <1>0, <1>a, <2>1, <2>5, <2>7, <2>8 DEF RequestSteps, PcTyped, Cascades, Promotes
    <2>10. SpineTyped' /\ MachineTyped' /\ StageTyped'
      BY <2>1, TypesKept DEF spineView, machine
    <2> QED
      BY <1>a, <2>4, <2>6, <2>7, <2>9, <2>10, BaseKept DEF Place
  <1>3. CASE AutoDecide(r)
    <2>1. auto[r] \in Automatic /\ seen[r] \in Nat
      BY <1>0, <1>3, <1>a DEF AutoDecide, At, RequestSteps, MemoryTyped
    <2>2. auto[r].decision \in Decision /\ auto[r].by \in {"operator", "policy", "global", "migrated"}
      BY <2>1 DEF Automatic, Standing, Decision
    <2>3. SpineTyped' /\ requested' = requested /\ matched' = matched
      BY <1>0, <1>3, <2>1, <2>2, DecideTyped DEF AutoDecide
    <2>4. MemoryTyped'
      BY <1>0, <1>3, <2>2 DEF AutoDecide, MemoryTyped
    <2>5. \A q \in Request : Requested(q)' <=> Requested(q)
      BY <2>3 DEF Requested
    <2>6. OthersKept(r)
      BY <1>3, <2>3, <2>5 DEF AutoDecide, OthersKept
    <2>7. PICK s \in {"answer", "propose", "poll", "done"} :
            pc' = [pc EXCEPT ![r] = s] /\ (s = "propose" => Promotes(r))
      BY <1>3, AfterIs DEF AutoDecide, Goto
    <2>8. Requested(r)
      BY <1>0, <1>3 DEF AutoDecide, At, RequestSteps
    <2>9. RequestSteps(r)'
      BY <1>0, <1>a, <2>5, <2>7, <2>8 DEF RequestSteps, PcTyped
    <2>10. MachineTyped' /\ StageTyped'
      BY <1>3, TypesKept DEF AutoDecide, machine
    <2> QED
      BY <1>a, <2>3, <2>4, <2>6, <2>7, <2>9, <2>10, BaseKept DEF Place
  <1>4. CASE Answer(r) \/ Poll(r) \/ TimeOut(r)
    <2>1. PICK what \in Decision \cup {"open", "timeout"} : Told(r, what)
      <3>1. ShownDecision(r) \in Decision \cup {None}
        BY AmongIs DEF ShownDecision, Answers, Base
      <3> QED
        BY <1>4, <3>1 DEF Answer, Poll, TimeOut
    <2>2. MemoryTyped'
      BY <1>0, <2>1 DEF Told, MemoryTyped
    <2>3. \A q \in Request : Requested(q)' <=> Requested(q)
      BY <2>1 DEF Told, spineView, Requested
    <2>4. OthersKept(r)
      BY <2>1, <2>3 DEF Told, OthersKept, spineView
    <2>5. pc' = [pc EXCEPT ![r] = "done"]
      BY <2>1 DEF Told, Goto
    <2>6. RequestSteps(r)'
      BY <1>0, <1>a, <2>5 DEF RequestSteps, PcTyped
    <2>7. SpineTyped' /\ MachineTyped' /\ StageTyped'
      BY <2>1, TypesKept DEF Told, spineView, machine
    <2> QED
      BY <1>a, <2>2, <2>4, <2>5, <2>6, <2>7, BaseKept DEF Place
  <1> QED
    BY <1>1, <1>2, <1>3, <1>4 DEF RequestStep

\* The migration takes a request it has yet to decide.
LEMMA NextToMigrate ==
    ASSUME Base, NEW o \in Command, pc[o] = "backfill"
    PROVE  requested[Min({i \in DOMAIN requested : requested[i] \in todo[o]})] \in todo[o]
  <1> DEFINE S == {i \in DOMAIN requested : requested[i] \in todo[o]}
  <1>1. requested \in Seq(Request) /\ todo[o] \subseteq Request /\ CommandSteps(o)
    BY TypedParts DEF Base, Steps, SpineTyped, MemoryTyped
  <1>2. S \subseteq Nat
    BY <1>1
  <1>3. S # {}
    BY <1>1 DEF CommandSteps, Requested
  <1>4. Min(S) \in S
    <2> HIDE DEF S
    <2> QED
      BY <1>2, <1>3, MinIs
  <1> QED
    BY <1>4

\* The steps of the operators' commands.
LEMMA BaseCommandStep ==
    ASSUME Base, NEW o \in Command, CommandStep(o), UNCHANGED promotionVars
    PROVE  Base'
  <1>0. SpineTyped /\ MachineTyped /\ MemoryTyped /\ PcTyped /\ StageTyped /\ CommandSteps(o)
    BY TypedParts DEF Base, Steps
  <1>a. o \in Actor /\ o \notin Request
    BY ActorsAssumption DEF Actor
  <1>b. pc[o] \in {"policy"} => command[o].key \in Key /\ command[o].decision \in Standing \cup {"clear"}
    BY <1>0, CommandAssumption DEF CommandSteps
  <1>c. pc[o] \in {"global", "truncate", "write"} =>
           command[o].key \in Key /\ command[o].decision \in Standing \cup {"remove"}
    BY <1>0, CommandAssumption DEF CommandSteps
  <1>d. pc[o] \in {"respond", "answer"} =>
           command[o].of \in Request /\ command[o].decision \in Decision /\ command[o].kind = "respond"
    BY <1>0, CommandAssumption DEF CommandSteps
  <1>1. CASE SetPolicy(o)
    <2>1. SpineTyped'
      <3>1. PICK value \in Standing \cup {None} :
              /\ policies' = [policies EXCEPT ![command[o].key] = value]
              /\ stated' = [stated EXCEPT ![command[o].key] = value]
              /\ word' = IF value = "allow-always" THEN word \cup {command[o].key} ELSE word
        BY <1>b, <1>1 DEF SetPolicy, At
      <3>2. policies' \in Policies /\ stated' \in Policies
        BY <1>0, <3>1 DEF SpineTyped, Policies
      <3>3. word' \subseteq Key
        BY <1>0, <1>b, <1>1, <3>1 DEF SpineTyped, SetPolicy, At
      <3> QED
        BY <1>0, <1>1, <3>2, <3>3 DEF SpineTyped, SetPolicy
    <2>2. MachineTyped' /\ MemoryTyped' /\ StageTyped'
      BY <1>1, TypesKept DEF SetPolicy, machine, memory
    <2>3. OthersKept(o)
      BY <1>1 DEF SetPolicy, OthersKept, memory, Requested
    <2>4. pc' = [pc EXCEPT ![o] = "done"] /\ todo' = todo /\ matched' = matched /\ requested' = requested
      BY <1>1 DEF SetPolicy, Goto, memory
    <2>5. CommandSteps(o)'
      BY <1>0, <1>a, <2>4 DEF CommandSteps, PcTyped, Requested
    <2> QED
      BY <1>a, <2>1, <2>2, <2>3, <2>4, <2>5, BaseKept DEF Place
  <1>2. CASE LookOpen(o)
    <2>1. SpineTyped' /\ MachineTyped' /\ StageTyped'
      BY <1>2, TypesKept DEF LookOpen, spineView, machine
    <2>2. MemoryTyped'
      BY <1>0, <1>a, <1>2, LookTyped DEF LookOpen, MemoryTyped
    <2>3. OthersKept(o)
      BY <1>2 DEF LookOpen, OthersKept, spineView, Requested
    <2>4. PICK s \in {"answer", "done"} :
            pc' = [pc EXCEPT ![o] = s] /\ (s = "answer" => Requested(command[o].of))
      BY <1>2 DEF LookOpen, Goto, Open
    <2>5. CommandSteps(o)'
      BY <1>0, <1>a, <1>2, <1>d, <2>4 DEF LookOpen, At, CommandSteps, PcTyped, Requested, spineView
    <2> QED
      BY <1>a, <2>1, <2>2, <2>3, <2>4, <2>5, BaseKept DEF Place
  <1>3. CASE Respond(o)
    <2>1. SpineTyped' /\ requested' = requested /\ matched' = matched
      <3>1. command[o].of \in Request /\ command[o].decision \in Decision /\ seen[o] \in Nat
        BY <1>3, <1>a, <1>d, LookTyped DEF Respond, At
      <3> QED
        BY <1>0, <1>3, <3>1, DecideTyped DEF Respond
    <2>2. MachineTyped' /\ MemoryTyped' /\ StageTyped'
      BY <1>3, TypesKept DEF Respond, machine, memory
    <2>3. OthersKept(o)
      BY <1>3, <2>1 DEF Respond, OthersKept, memory, Requested
    <2>4. pc' = [pc EXCEPT ![o] = "done"] /\ todo' = todo
      BY <1>3 DEF Respond, Goto, memory
    <2>5. CommandSteps(o)'
      BY <1>0, <1>a, <2>1, <2>4 DEF CommandSteps, PcTyped, Requested
    <2> QED
      BY <1>a, <2>1, <2>2, <2>3, <2>4, <2>5, BaseKept DEF Place
  <1>4. CASE MigrateLook(o)
    <2>1. SpineTyped' /\ MachineTyped' /\ StageTyped'
      BY <1>4, TypesKept DEF MigrateLook, spineView, machine
    <2>2. todo' \in [Command -> SUBSET Request] /\ todo'[o] = {r \in Request : Open(r) /\ matched[r] # None}
      BY <1>0, <1>4 DEF MigrateLook, MemoryTyped
    <2>3. MemoryTyped'
      BY <1>0, <1>a, <1>4, <2>2, LookTyped DEF MigrateLook, MemoryTyped
    <2>4. OthersKept(o)
      BY <1>0, <1>4 DEF MigrateLook, OthersKept, spineView, Requested, MemoryTyped
    <2>5. PICK s \in {"backfill", "done"} :
            pc' = [pc EXCEPT ![o] = s] /\ (s = "backfill" => todo'[o] # {})
      BY <1>4 DEF MigrateLook, Goto
    <2>6. \A r \in todo'[o] : Requested(r)' /\ matched'[r] # None
      BY <1>4, <2>2 DEF MigrateLook, Open, Requested, spineView
    <2>7. CommandSteps(o)'
      BY <1>0, <1>a, <2>5, <2>6 DEF CommandSteps, PcTyped
    <2> QED
      BY <1>a, <2>1, <2>3, <2>4, <2>5, <2>7, BaseKept DEF Place
  <1>5. CASE Migrate(o)
    <2>1. PICK r \in todo[o] :
            /\ Decide(r, matched[r], "migrated", seen[o])
            /\ todo' = [todo EXCEPT ![o] = @ \ {r}]
            /\ Goto(o, IF todo[o] = {r} THEN "done" ELSE "backfill")
      BY <1>5, NextToMigrate DEF Migrate, At
    <2>2. r \in Request /\ matched[r] \in Standing /\ seen[o] \in Nat
      BY <1>0, <1>a, <2>1, LookTyped DEF MemoryTyped, SpineTyped, CommandSteps
    <2>3. SpineTyped' /\ requested' = requested /\ matched' = matched
      BY <1>0, <2>1, <2>2, DecideTyped DEF Standing, Decision
    <2>4. todo' \in [Command -> SUBSET Request] /\ todo'[o] = todo[o] \ {r}
      BY <1>0, <2>1 DEF MemoryTyped
    <2>5. MemoryTyped'
      BY <1>0, <1>5, <2>4 DEF Migrate, MemoryTyped
    <2>6. MachineTyped' /\ StageTyped'
      BY <1>5, TypesKept DEF Migrate, machine
    <2>7. OthersKept(o)
      BY <1>0, <1>5, <2>1, <2>3 DEF Migrate, OthersKept, Requested, MemoryTyped
    <2>8. PICK s \in {"backfill", "done"} :
            pc' = [pc EXCEPT ![o] = s] /\ (s = "backfill" => todo[o] # {r})
      BY <2>1 DEF Goto
    <2>9. CommandSteps(o)'
      BY <1>0, <1>a, <2>1, <2>3, <2>4, <2>8 DEF CommandSteps, PcTyped, Requested
    <2> QED
      BY <1>a, <2>3, <2>5, <2>6, <2>7, <2>8, <2>9, BaseKept DEF Place
  <1>6. CASE ReadForWrite(o)
    <2>1. SpineTyped' /\ StageTyped'
      <3>1. word' \subseteq Key
        BY <1>0, <1>6, <1>c DEF ReadForWrite, At, SpineTyped
      <3> QED
        BY <1>0, <1>6, <3>1, TypesKept DEF ReadForWrite, spineView, SpineTyped
    <2>2. MachineTyped'
      BY <1>0, <1>6 DEF ReadForWrite, MachineTyped
    <2>3. base' \in [Command -> Policies]
      <3>1. Parsed \in Policies
        BY <1>0 DEF Parsed, MachineTyped, NoPolicy, Policies
      <3>2. ASSUME NEW v \in Standing \cup {None} PROVE [Parsed EXCEPT ![command[o].key] = v] \in Policies
        BY <3>1 DEF Policies
      <3>3. (IF command[o].decision = "remove" THEN None ELSE command[o].decision) \in Standing \cup {None}
        BY <1>6, <1>c DEF ReadForWrite, At
      <3> QED
        BY <1>0, <1>6, <3>2, <3>3 DEF ReadForWrite, MemoryTyped
    <2>4. MemoryTyped'
      BY <1>0, <1>6, <2>3 DEF ReadForWrite, MemoryTyped
    <2>5. OthersKept(o)
      BY <1>6 DEF ReadForWrite, OthersKept, spineView, Requested
    <2>6. PICK s \in {"truncate", "done"} : pc' = [pc EXCEPT ![o] = s]
      BY <1>6 DEF ReadForWrite, Goto
    <2>7. CommandSteps(o)'
      BY <1>0, <1>a, <1>6, <2>6 DEF ReadForWrite, At, CommandSteps, PcTyped, Requested, spineView
    <2> QED
      BY <1>a, <2>1, <2>2, <2>4, <2>5, <2>6, <2>7, BaseKept DEF Place
  <1>7. CASE Truncate(o) \/ Write(o)
    <2>1. SpineTyped' /\ MemoryTyped' /\ StageTyped'
      BY <1>7, TypesKept DEF Truncate, Write, spineView, memory
    <2>2. MachineTyped'
      <3>1. base[o] \in Policies /\ NoPolicy \in Policies
        BY <1>0 DEF MemoryTyped, NoPolicy, Policies
      <3>2. CASE Truncate(o)
        BY <1>0, <3>1, <3>2 DEF Truncate, MachineTyped
      <3>3. CASE Write(o)
        <4>1. file' \in [state : {"whole", "empty", "garbled"}, has : Policies]
          BY <3>1, <3>3 DEF Write
        <4>2. PICK v \in Standing \cup {None} : kept' = [kept EXCEPT ![command[o].key] = v]
          BY <1>c, <3>3 DEF Write, At
        <4>3. kept' \in Policies
          BY <1>0, <4>2 DEF MachineTyped, Policies
        <4> QED
          BY <1>0, <3>3, <4>1, <4>3 DEF Write, MachineTyped
      <3> QED
        BY <1>7, <3>2, <3>3
    <2>3. OthersKept(o)
      BY <1>7 DEF Truncate, Write, OthersKept, spineView, memory, Requested
    <2>4. PICK s \in {"write", "done"} : pc' = [pc EXCEPT ![o] = s] /\ todo' = todo /\ (s = "write" => At(o, "truncate"))
      BY <1>7 DEF Truncate, Write, Goto, memory
    <2>5. CommandSteps(o)'
      BY <1>0, <1>a, <1>7, <2>4 DEF Truncate, Write, At, CommandSteps, PcTyped, Requested, spineView
    <2> QED
      BY <1>a, <2>1, <2>2, <2>3, <2>4, <2>5, BaseKept DEF Place
  <1> QED
    BY <1>1, <1>2, <1>3, <1>4, <1>5, <1>6, <1>7 DEF CommandStep

\* An early end.
LEMMA BaseDie ==
    ASSUME Base, NEW a \in Actor, Die(a), UNCHANGED promotionVars
    PROVE  Base'
  <1>0. MachineTyped /\ PcTyped /\ (a \in Command => CommandSteps(a))
    BY TypedParts DEF Base, Steps
  <1>1. SpineTyped' /\ MemoryTyped' /\ StageTyped'
    BY TypesKept DEF Die, spineView, memory
  <1>2. MachineTyped'
    BY <1>0 DEF Die, MachineTyped, At
  <1>3. OthersKept(a)
    BY DEF Die, OthersKept, spineView, memory, Requested
  <1>4. pc' = [pc EXCEPT ![a] = "done"] /\ todo' = todo /\ matched' = matched /\ requested' = requested
    BY DEF Die, Goto, memory, spineView
  <1>5. a \in Request => RequestSteps(a)'
    BY <1>0, <1>4 DEF RequestSteps, PcTyped
  <1>6. a \in Command => CommandSteps(a)'
    BY <1>0, <1>4 DEF CommandSteps, PcTyped, Requested
  <1> QED
    BY <1>1, <1>2, <1>3, <1>4, <1>5, <1>6, BaseKept DEF Place

\* The steps of a promotion.
LEMMA BasePromoteStep ==
    ASSUME Base, NEW r \in Request, PromoteStep(r)
    PROVE  Base'
  <1>0. SpineTyped /\ MachineTyped /\ MemoryTyped /\ PcTyped /\ StageTyped /\ RequestSteps(r)
    BY TypedParts DEF Base, Steps
  <1>a. r \in Actor /\ r \notin Command
    BY ActorsAssumption DEF Actor
  <1>1. SpineTyped' /\ MachineTyped' /\ requested' = requested /\ matched' = matched
    BY TypesKept DEF PromoteStep, CheckStage, Propose, Await, ApproveNow, spineView, machine
  <1>2. MemoryTyped' /\ auto' = auto /\ todo' = todo
    <2>1. CASE Await(r)
      <3>1. FirstDecision(r) \in Decision \cup {None}
        BY AmongIs DEF FirstDecision, Answers, Base
      <3> QED
        BY <1>0, <2>1, <3>1 DEF Await, MemoryTyped
    <2>2. CASE CheckStage(r) \/ Propose(r) \/ ApproveNow(r)
      BY <2>2, TypesKept DEF CheckStage, Propose, ApproveNow, memory
    <2> QED
      BY <2>1, <2>2 DEF PromoteStep
  <1>3. StageTyped'
    <2>1. CASE CheckStage(r) \/ Await(r)
      BY <2>1, TypesKept DEF CheckStage, Await
    <2>2. CASE Propose(r)
      BY <1>0, <2>2 DEF Propose, ProposedEvent, StageTyped
    <2>3. CASE ApproveNow(r)
      <3>1. asking[r].to \in Stage
        BY <1>0, <2>3, PromotingAssumption DEF ApproveNow, At, RequestSteps
      <3> QED
        BY <1>0, <2>3, <3>1 DEF ApproveNow, ApprovedEvent, StageTyped
    <2> QED
      BY <2>1, <2>2, <2>3 DEF PromoteStep
  <1>4. OthersKept(r)
    BY <1>1, <1>2 DEF OthersKept, Requested
  <1>6. PICK t \in {"ask", "approve", "await", "done"} :
          /\ pc' = [pc EXCEPT ![r] = t]
          /\ t \in {"approve", "await"} => pc[r] \in {"propose", "await"}
          /\ t = "ask" => pc[r] = "start"
    BY DEF PromoteStep, CheckStage, Propose, Await, ApproveNow, Goto, At
  <1>7. RequestSteps(r)'
    BY <1>0, <1>a, <1>1, <1>6 DEF RequestSteps, PcTyped, Requested
  <1> QED
    BY <1>a, <1>1, <1>2, <1>3, <1>4, <1>6, <1>7, BaseKept DEF Place

\* The steps of the commands on the checkpoint.
LEMMA BaseStageStep ==
    ASSUME Base, NEW o \in Command, StageStep(o)
    PROVE  Base'
  <1>0. PcTyped /\ StageTyped /\ CommandSteps(o)
    BY TypedParts DEF Base, Steps
  <1>a. o \in Actor /\ o \notin Request
    BY ActorsAssumption DEF Actor
  <1>1. /\ SpineTyped' /\ MachineTyped' /\ MemoryTyped'
        /\ requested' = requested /\ matched' = matched /\ auto' = auto /\ todo' = todo
    BY TypesKept DEF StageStep, ConfirmLook, Confirm, ReleaseLook, Release, RollbackLook, Rollback,
                     spineView, machine, memory
  <1>2. StageTyped'
    <2>1. CASE ConfirmLook(o) \/ ReleaseLook(o) \/ RollbackLook(o)
      BY <2>1, TypesKept DEF ConfirmLook, ReleaseLook, RollbackLook
    <2>2. CASE Confirm(o)
      <3>1. command[o].of \in Request /\ asking[command[o].of].to \in Stage
        BY <1>0, <2>2, CommandAssumption, PromotingAssumption DEF Confirm, At, CommandSteps
      <3> QED
        BY <1>0, <2>2, <3>1 DEF Confirm, ApprovedEvent, StageTyped
    <2>3. CASE Release(o)
      BY <1>0, <2>3 DEF Release, StageTyped
    <2>4. CASE Rollback(o)
      <3>1. command[o].to \in Stage
        BY <1>0, <2>4, PromotingAssumption DEF Rollback, At, CommandSteps
      <3> QED
        BY <1>0, <2>4, <3>1 DEF Rollback, RolledBackEvent, StageTyped
    <2> QED
      BY <2>1, <2>2, <2>3, <2>4 DEF StageStep
  <1>3. OthersKept(o)
    BY <1>1 DEF OthersKept, Requested
  <1>4. PICK t \in {"approve", "publish", "revert", "done"} :
          /\ pc' = [pc EXCEPT ![o] = t]
          /\ t = "approve" => pc[o] = "confirm"
          /\ t = "revert" => pc[o] = "rollback"
    BY DEF StageStep, ConfirmLook, Confirm, ReleaseLook, Release, RollbackLook, Rollback, Goto, At
  <1>5. CommandSteps(o)'
    BY <1>0, <1>a, <1>1, <1>4 DEF CommandSteps, PcTyped, Requested
  <1> QED
    BY <1>a, <1>1, <1>2, <1>3, <1>4, <1>5, BaseKept DEF Place

\* Every step is one of an actor, or none.
LEMMA StepCases ==
    ASSUME [Next]_vars
    PROVE  \/ \E r \in Request : RequestStep(r) /\ UNCHANGED promotionVars
           \/ \E o \in Command : CommandStep(o) /\ UNCHANGED promotionVars
           \/ \E a \in Actor : Die(a) /\ UNCHANGED promotionVars
           \/ \E r \in Request : PromoteStep(r)
           \/ \E o \in Command : StageStep(o)
           \/ UNCHANGED vars
  BY Zenon DEF Next, ApprovalStep

\* The types and places are kept by every step.
LEMMA BaseNext == Base /\ [Next]_vars => Base'
  <1> SUFFICES ASSUME Base, [Next]_vars PROVE Base'
    OBVIOUS
  <1>1. CASE UNCHANGED vars
    <2>1. pc' = pc /\ auto' = auto /\ todo' = todo /\ matched' = matched /\ requested' = requested
      BY <1>1, Zenon DEF vars, approvalVars, spineView, memory
    <2>2. SpineTyped' /\ MachineTyped' /\ MemoryTyped' /\ StageTyped'
      BY <1>1, TypesKept, Zenon DEF vars, approvalVars, spineView, machine, memory
    <2>3. TypeOK'
      BY <2>1, <2>2, TypedParts, Zenon DEF Base, TypeOK, SpineTyped, MachineTyped, MemoryTyped, PcTyped, StageTyped
    <2>4. \A r \in Request : Requested(r)' <=> Requested(r)
      BY <2>1 DEF Requested
    <2>5. ASSUME NEW r \in Request PROVE RequestSteps(r)'
      BY <2>1, <2>4 DEF Base, Steps, RequestSteps
    <2>6. ASSUME NEW o \in Command PROVE CommandSteps(o)'
      BY <2>1 DEF Base, Steps, CommandSteps, Requested
    <2> QED
      BY <2>3, <2>5, <2>6 DEF Base, Steps
  <1> QED
    BY <1>1, StepCases, BaseRequestStep, BaseCommandStep, BaseDie, BasePromoteStep, BaseStageStep

\* Type correctness: the variables keep their types, whatever the requests, the commands
\* and their interleaving.
THEOREM TypeCorrect == Spec => []TypeOK
  <1>1. Base => TypeOK
    BY DEF Base
  <1> QED
    BY <1>1, BaseInit, BaseNext, PTL DEF Spec

\* The invariant on which the rest stands.
LEMMA BaseAlways == Spec => []Base
  BY BaseInit, BaseNext, PTL DEF Spec

-----------------------------------------------------------------------------
(* Two readers of one checkpoint *)

\* While no approval was ignored, the registry and the verifier took the same ones.
Staged ==
    /\ ignored = {} => approved = taken /\ counted = taken
    /\ StagesAgree

\* What a step does to the checkpoint.
LEMMA StageCases ==
    ASSUME Base, [Next]_vars
    PROVE  \/ UNCHANGED promotionVars
           \/ \E r \in Request : Promotes(r) /\ ProposedEvent(r) /\ ledger' = ledger
           \/ \E r \in Request : ApprovedEvent(r) /\ ledger' = ledger
           \/ \E to : RolledBackEvent(to) /\ ledger' = ledger
           \/ \E o \in Command : Release(o)
  <1>1. ASSUME NEW r \in Request, PromoteStep(r)
        PROVE  \/ UNCHANGED promotionVars
               \/ Promotes(r) /\ ProposedEvent(r) /\ ledger' = ledger
               \/ ApprovedEvent(r) /\ ledger' = ledger
    BY <1>1 DEF PromoteStep, CheckStage, Propose, Await, ApproveNow, spineView, Base, Steps, RequestSteps, At
  <1>2. ASSUME NEW o \in Command, StageStep(o)
        PROVE  \/ UNCHANGED promotionVars
               \/ command[o].of \in Request /\ ApprovedEvent(command[o].of) /\ ledger' = ledger
               \/ RolledBackEvent(command[o].to) /\ ledger' = ledger
               \/ Release(o)
    BY <1>2, CommandAssumption
       DEF StageStep, ConfirmLook, Confirm, ReleaseLook, RollbackLook, Rollback, spineView, Base, Steps,
           CommandSteps, At
  <1>3. UNCHANGED vars => UNCHANGED promotionVars
    BY Zenon DEF vars
  <1> QED
    BY <1>1, <1>2, <1>3, StepCases

\* A step keeps the two readers together.
LEMMA StagedStep == Base /\ Staged /\ [Next]_vars => Staged'
  <1> SUFFICES ASSUME Base, Staged, [Next]_vars PROVE Staged'
    OBVIOUS
  <1>1. CASE UNCHANGED promotionVars
    BY <1>1 DEF promotionVars, Staged, StagesAgree
  <1>2. ASSUME NEW r \in Request, ProposedEvent(r) PROVE Staged'
    BY <1>2 DEF ProposedEvent, Staged, StagesAgree
  <1>3. ASSUME NEW r \in Request, ApprovedEvent(r) PROVE Staged'
    <2> SUFFICES ASSUME ignored' = {} PROVE Staged'
      BY DEF Staged, StagesAgree
    <2>1. Takes(r) /\ ignored = {} /\ taken' = taken \cup {r} /\ stage' = asking[r].to
      BY <1>3 DEF ApprovedEvent
    <2>2. approved = taken /\ counted = taken
      BY <2>1 DEF Staged
    <2>3. Counts(r) /\ counted' = counted \cup {r}
      BY <1>3, <2>1, <2>2 DEF Takes, Counts, ApprovedEvent
    <2>4. approved' = taken' /\ counted' = taken'
      BY <1>3, <2>1, <2>2, <2>3 DEF ApprovedEvent
    <2>5. approved' \cap flagged' = {} => stage' = marked'
      BY <1>3, <2>1, <2>3 DEF ApprovedEvent
    <2> QED
      BY <2>4, <2>5 DEF Staged, StagesAgree
  <1>4. ASSUME NEW to, RolledBackEvent(to) PROVE Staged'
    BY <1>4 DEF RolledBackEvent, Staged, StagesAgree
  <1>5. ASSUME NEW o \in Command, Release(o) PROVE Staged'
    BY <1>5 DEF Release, Staged, StagesAgree
  <1> QED
    BY <1>1, <1>2, <1>3, <1>4, <1>5, StageCases

\* The registry and the verifier agree as long as no approval comes that the registry
\* ignores, and none of a proposal that the verifier flags.
THEOREM StagesAgreeAlways == Spec => []StagesAgree
  <1>1. Init => Staged
    BY DEF Init, Staged, StagesAgree
  <1>2. Staged => StagesAgree
    BY DEF Staged
  <1> QED
    BY <1>1, <1>2, BaseAlways, StagedStep, PTL DEF Spec

-----------------------------------------------------------------------------
(* The machine's policies *)

\* What a writer is about to leave.
Leaves(o) == [kept EXCEPT ![command[o].key] =
                IF command[o].decision = "remove" THEN None ELSE command[o].decision]

\* Until two writers overlap or one dies, one writes at a time, from what was last kept.
OneWriter ==
    clash \/
    /\ \A o, p \in Command : MidWrite(o) /\ MidWrite(p) => o = p
    /\ (\A o \in Command : pc[o] # "write") => file = [state |-> "whole", has |-> kept]
    /\ \A o \in Command : MidWrite(o) => base[o] = Leaves(o)
    /\ \A o \in Command : pc[o] = "write" => file.state = "empty"

\* A step that touches neither the file nor who writes it.
Elsewhere ==
    /\ UNCHANGED <<file, kept, clash, base>>
    /\ \A o \in Command : pc'[o] = pc[o] \/ {pc[o], pc'[o]} \cap {"truncate", "write"} = {}

\* The steps that are not a writer's leave the file and the writers alone.
LEMMA MachineCases ==
    ASSUME Base, [Next]_vars
    PROVE  \/ Elsewhere
           \/ \E o \in Command : ReadForWrite(o) \/ Truncate(o) \/ Write(o)
           \/ \E a \in Actor : Die(a)
  <1>0. pc \in [Actor -> Place]
    BY TypedParts DEF Base, PcTyped
  <1>1. ASSUME NEW r \in Request, RequestStep(r) \/ PromoteStep(r) PROVE Elsewhere
    <2>1. UNCHANGED <<file, kept, clash, base>>
      BY <1>1 DEF RequestStep, Ask, Project, ReadMachine, AutoDecide, Answer, Poll, TimeOut, Told,
                  PromoteStep, CheckStage, Propose, Await, ApproveNow, machine, memory
    <2>2. \E s : pc' = [pc EXCEPT ![r] = s]
      BY <1>1 DEF RequestStep, Ask, Project, ReadMachine, Consult, AutoDecide, Answer, Poll, TimeOut, Told,
                  PromoteStep, CheckStage, Propose, Await, ApproveNow, Goto
    <2>3. \A o \in Command : o # r
      BY ActorsAssumption
    <2> QED
      BY <1>0, <2>1, <2>2, <2>3 DEF Elsewhere, Actor
  <1>2. ASSUME NEW o \in Command, StageStep(o) \/ SetPolicy(o) \/ LookOpen(o) \/ Respond(o) \/ MigrateLook(o) \/ Migrate(o)
        PROVE  Elsewhere
    <2>1. UNCHANGED <<file, kept, clash, base>>
      BY <1>2 DEF StageStep, ConfirmLook, Confirm, ReleaseLook, Release, RollbackLook, Rollback,
                  SetPolicy, LookOpen, Respond, MigrateLook, Migrate, machine, memory
    <2>2. PICK s : /\ pc' = [pc EXCEPT ![o] = s]
                   /\ pc[o] \notin {"truncate", "write"} /\ s \notin {"truncate", "write"}
      <3>1. CASE StageStep(o)
        BY <3>1 DEF StageStep, ConfirmLook, Confirm, ReleaseLook, Release, RollbackLook, Rollback, Goto, At
      <3>2. CASE SetPolicy(o) \/ LookOpen(o) \/ Respond(o)
        BY <3>2 DEF SetPolicy, LookOpen, Respond, Goto, At
      <3>3. CASE MigrateLook(o)
        <4>1. pc' = [pc EXCEPT ![o] = "done"] \/ pc' = [pc EXCEPT ![o] = "backfill"]
          BY <3>3 DEF MigrateLook, Goto
        <4>2. pc[o] \in {"migrate", "backfill"}
          BY <3>3 DEF MigrateLook, At
        <4> QED
          BY <4>1, <4>2
      <3>4. CASE Migrate(o)
        <4>1. pc' = [pc EXCEPT ![o] = "done"] \/ pc' = [pc EXCEPT ![o] = "backfill"]
          BY <3>4 DEF Migrate, Goto
        <4>2. pc[o] \in {"migrate", "backfill"}
          BY <3>4 DEF Migrate, At
        <4> QED
          BY <4>1, <4>2
      <3> QED
        BY <1>2, <3>1, <3>2, <3>3, <3>4
    <2> QED
      BY <1>0, <2>1, <2>2 DEF Elsewhere, Actor
  <1>3. UNCHANGED vars => Elsewhere
    BY DEF vars, approvalVars, machine, memory, Elsewhere
  <1> QED
    BY <1>1, <1>2, <1>3, StepCases DEF CommandStep

\* A step keeps the writers apart.
LEMMA OneWriterStep == Base /\ OneWriter /\ [Next]_vars => OneWriter'
  <1> SUFFICES ASSUME Base, OneWriter, [Next]_vars, ~ clash' PROVE OneWriter'
    BY DEF OneWriter
  <1>0. MachineTyped /\ MemoryTyped /\ pc \in [Actor -> Place] /\ \A o \in Command : o \in Actor
    BY TypedParts DEF Base, PcTyped, Actor
  <1>1. CASE Elsewhere
    <2>1. \A o \in Command : (MidWrite(o)' <=> MidWrite(o)) /\ (pc'[o] = "write" <=> pc[o] = "write")
      BY <1>1 DEF Elsewhere, MidWrite, At
    <2> QED
      BY <1>1, <2>1 DEF Elsewhere, OneWriter, Leaves
  <1>2. ASSUME NEW o \in Command, ReadForWrite(o) PROVE OneWriter'
    <2>1. CASE command[o].decision = "remove" /\ Parsed[command[o].key] = None
      <3>1. Elsewhere
        BY <1>0, <1>2, <2>1 DEF ReadForWrite, Goto, At, Elsewhere
      <3> QED
        BY <1>1, <3>1
    <2>2. CASE ~ (command[o].decision = "remove" /\ Parsed[command[o].key] = None)
      <3>1. /\ ~ clash /\ \A p \in Command : ~ MidWrite(p)
            /\ base' = [base EXCEPT ![o] = [Parsed EXCEPT ![command[o].key] =
                            IF command[o].decision = "remove" THEN None ELSE command[o].decision]]
            /\ pc' = [pc EXCEPT ![o] = "truncate"]
            /\ file' = file /\ kept' = kept
        BY <1>2, <2>2 DEF ReadForWrite, Goto
      <3>2. file = [state |-> "whole", has |-> kept]
        BY <3>1 DEF OneWriter, MidWrite, At
      <3>3. Parsed = kept
        BY <3>2 DEF Parsed
      <3>4. \A p \in Command : (MidWrite(p)' <=> p = o) /\ pc'[p] # "write"
        BY <1>0, <3>1 DEF MidWrite, At
      <3>5. base'[o] = Leaves(o)'
        BY <1>0, <3>1, <3>3 DEF Leaves, MemoryTyped
      <3> QED
        BY <3>1, <3>2, <3>4, <3>5 DEF OneWriter
    <2> QED
      BY <2>1, <2>2
  <1>3. ASSUME NEW o \in Command, Truncate(o) PROVE OneWriter'
    <2>1. /\ file'.state = "empty" /\ kept' = kept /\ base' = base /\ ~ clash
          /\ pc' = [pc EXCEPT ![o] = "write"] /\ MidWrite(o)
      BY <1>3 DEF Truncate, Goto, MidWrite, memory
    <2>2. \A p \in Command : (MidWrite(p)' <=> MidWrite(p)) /\ (pc'[p] = "write" => p = o)
      BY <1>0, <2>1 DEF MidWrite, At, OneWriter
    <2>3. pc'[o] = "write"
      BY <1>0, <2>1
    <2> QED
      BY <2>1, <2>2, <2>3 DEF OneWriter, Leaves
  <1>4. ASSUME NEW o \in Command, Write(o) PROVE OneWriter'
    <2>1. /\ ~ clash /\ file.state = "empty" /\ base[o] = Leaves(o) /\ MidWrite(o)
          /\ \A p \in Command : MidWrite(p) => p = o
      BY <1>4 DEF Write, At, OneWriter, MidWrite
    <2>2. /\ file' = [state |-> "whole", has |-> base[o]] /\ kept' = Leaves(o)
          /\ pc' = [pc EXCEPT ![o] = "done"]
      BY <1>4, <2>1 DEF Write, Goto, Leaves
    <2>3. \A p \in Command : ~ MidWrite(p)' /\ pc'[p] # "write"
      BY <1>0, <2>1, <2>2 DEF MidWrite, At
    <2> QED
      BY <2>1, <2>2, <2>3 DEF OneWriter
  <1>5. ASSUME NEW a \in Actor, Die(a) PROVE OneWriter'
    <2>1. /\ ~ clash /\ pc[a] # "write" /\ file' = file /\ kept' = kept /\ base' = base
          /\ pc' = [pc EXCEPT ![a] = "done"]
      BY <1>5 DEF Die, Goto, At, memory
    <2>2. \A o \in Command : (MidWrite(o)' => MidWrite(o)) /\ (pc'[o] = "write" <=> pc[o] = "write")
      BY <1>0, <2>1 DEF MidWrite, At
    <2> QED
      BY <2>1, <2>2 DEF OneWriter, Leaves
  <1> QED
    BY <1>1, <1>2, <1>3, <1>4, <1>5, MachineCases

\* No policy saved for the machine is lost to a writer alone: only two that overlap, or
\* one that dies in its write, can lose one.
THEOREM GlobalKeptAlways == Spec => []GlobalKept
  <1>1. Init => OneWriter
    <2> SUFFICES ASSUME Init PROVE OneWriter
      OBVIOUS
    <2>1. file = [state |-> "whole", has |-> kept]
      BY DEF Init
    <2>2. \A o \in Command : pc[o] \in {command[o].kind, "absent"}
      BY DEF Init, FirstStep, Actor
    <2>3. \A o \in Command : ~ MidWrite(o) /\ pc[o] # "write"
      BY <2>2, CommandAssumption DEF MidWrite, At
    <2> QED
      BY <2>1, <2>3 DEF OneWriter
  <1>2. OneWriter => GlobalKept
    BY DEF OneWriter, GlobalKept
  <1> QED
    BY <1>1, <1>2, BaseAlways, OneWriterStep, PTL DEF Spec

-----------------------------------------------------------------------------
(* How the ledger grows *)

\* What an entry at the end of the ledger leaves of the rest.
LEMMA Appended ==
    ASSUME TypeOK, NEW e, ledger' = Append(ledger, e)
    PROVE  /\ Len(ledger) \in Nat /\ DOMAIN ledger = 1..Len(ledger)
           /\ Len(ledger') = Len(ledger) + 1 /\ DOMAIN ledger' = 1..(Len(ledger) + 1)
           /\ ledger'[Len(ledger) + 1] = e
           /\ \A i \in DOMAIN ledger : i \in DOMAIN ledger' /\ ledger'[i] = ledger[i]
  BY EntriesAre DEF TypeOK

\* Who adds to the ledger.
LEMMA LedgerCases ==
    ASSUME Base, [Next]_vars
    PROVE  \/ ledger' = ledger
           \/ \E r \in Request : AutoDecide(r) /\ UNCHANGED promotionVars
           \/ \E o \in Command : (Respond(o) \/ Migrate(o)) /\ UNCHANGED promotionVars
  <1>1. ASSUME NEW r \in Request, RequestStep(r)
        PROVE  ledger' = ledger \/ AutoDecide(r)
    BY <1>1 DEF RequestStep, Ask, Project, ReadMachine, Answer, Poll, TimeOut, Told, spineView
  <1>2. ASSUME NEW o \in Command, CommandStep(o)
        PROVE  ledger' = ledger \/ Respond(o) \/ Migrate(o)
    BY <1>2 DEF CommandStep, SetPolicy, LookOpen, MigrateLook, ReadForWrite, Truncate, Write, spineView
  <1>3. ASSUME NEW r \in Request, PromoteStep(r) PROVE ledger' = ledger
    BY <1>3 DEF PromoteStep, CheckStage, Propose, Await, ApproveNow, spineView
  <1>4. ASSUME NEW o \in Command, StageStep(o) PROVE ledger' = ledger
    BY <1>4 DEF StageStep, ConfirmLook, Confirm, ReleaseLook, Release, RollbackLook, Rollback, spineView
  <1>5. ASSUME NEW a \in Actor, Die(a) PROVE ledger' = ledger
    BY <1>5 DEF Die, spineView
  <1>6. UNCHANGED vars => ledger' = ledger
    BY DEF vars, approvalVars, spineView
  <1> QED
    BY <1>1, <1>2, <1>3, <1>4, <1>5, <1>6, StepCases

\* What is added: an entry of its actor, for a request that is on the spine.
LEMMA AddedIs ==
    ASSUME Base
    PROVE  /\ \A r \in Request : AutoDecide(r) =>
                 /\ auto[r] \in Automatic /\ Cascades(r) /\ Requested(r) /\ seen[r] \in Nat
                 /\ Decide(r, auto[r].decision, auto[r].by, seen[r])
                 /\ pc[r] = "decide" /\ pc' = [pc EXCEPT ![r] = AfterCascade(r, auto[r].decision)]
           /\ \A o \in Command : Respond(o) =>
                 /\ command[o].of \in Request /\ Requested(command[o].of) /\ seen[o] \in Nat
                 /\ Decide(command[o].of, command[o].decision, "operator", seen[o])
                 /\ pc[o] = "answer" /\ pc' = [pc EXCEPT ![o] = "done"] /\ memory' = memory
           /\ \A o \in Command : Migrate(o) =>
                 \E r \in todo[o] :
                    /\ r \in Request /\ Requested(r) /\ matched[r] \in Standing /\ seen[o] \in Nat
                    /\ Decide(r, matched[r], "migrated", seen[o])
                    /\ seen' = seen /\ todo' = [todo EXCEPT ![o] = @ \ {r}]
                    /\ outcome' = outcome /\ auto' = auto
                    /\ (pc' = [pc EXCEPT ![o] = "done"] \/ pc' = [pc EXCEPT ![o] = "backfill"])
  <1>0. /\ MemoryTyped /\ SpineTyped /\ \A r \in Request : RequestSteps(r) /\ seen[r] \in Nat
        /\ \A o \in Command : CommandSteps(o) /\ seen[o] \in Nat
    <2>1. MemoryTyped /\ SpineTyped
      BY TypedParts DEF Base
    <2> QED
      BY <2>1 DEF Base, Steps, MemoryTyped, Actor
  <1>1. ASSUME NEW r \in Request, AutoDecide(r)
        PROVE  /\ auto[r] \in Automatic /\ Cascades(r) /\ Requested(r) /\ seen[r] \in Nat
               /\ Decide(r, auto[r].decision, auto[r].by, seen[r])
               /\ pc[r] = "decide" /\ pc' = [pc EXCEPT ![r] = AfterCascade(r, auto[r].decision)]
    BY <1>0, <1>1 DEF AutoDecide, At, Goto, RequestSteps
  <1>2. ASSUME NEW o \in Command, Respond(o)
        PROVE  /\ command[o].of \in Request /\ Requested(command[o].of) /\ seen[o] \in Nat
               /\ Decide(command[o].of, command[o].decision, "operator", seen[o])
               /\ pc[o] = "answer" /\ pc' = [pc EXCEPT ![o] = "done"] /\ memory' = memory
    BY <1>0, <1>2, CommandAssumption DEF Respond, At, Goto, CommandSteps
  <1>3. ASSUME NEW o \in Command, Migrate(o)
        PROVE  \E r \in todo[o] :
                  /\ r \in Request /\ Requested(r) /\ matched[r] \in Standing /\ seen[o] \in Nat
                  /\ Decide(r, matched[r], "migrated", seen[o])
                  /\ seen' = seen /\ todo' = [todo EXCEPT ![o] = @ \ {r}]
                  /\ outcome' = outcome /\ auto' = auto
                  /\ (pc' = [pc EXCEPT ![o] = "done"] \/ pc' = [pc EXCEPT ![o] = "backfill"])
    <2>1. PICK r \in todo[o] :
            /\ Decide(r, matched[r], "migrated", seen[o])
            /\ todo' = [todo EXCEPT ![o] = @ \ {r}]
            /\ Goto(o, IF todo[o] = {r} THEN "done" ELSE "backfill")
      BY <1>3, NextToMigrate DEF Migrate, At
    <2>2. r \in Request /\ Requested(r) /\ matched[r] \in Standing
      BY <1>0, <2>1 DEF MemoryTyped, SpineTyped, CommandSteps
    <2> QED
      BY <1>0, <1>3, <2>1, <2>2 DEF Migrate, Goto
  <1> QED
    BY <1>1, <1>2, <1>3

-----------------------------------------------------------------------------
(* Above candidate *)

\* Policies answer what cascades; what was taken was proposed, and answered.
Explicit ==
    /\ \A i \in DOMAIN ledger : ledger[i].by \in {"policy", "global"} => Cascades(ledger[i].of)
    /\ \A r \in proposed : Promotes(r)
    /\ \A r \in taken : Promotes(r) /\ \E i \in DOMAIN ledger : ledger[i].of = r

\* A step keeps that.
LEMMA ExplicitStep == Base /\ Explicit /\ [Next]_vars => Explicit'
  <1> SUFFICES ASSUME Base, Explicit, [Next]_vars PROVE Explicit'
    OBVIOUS
  <1>0. TypeOK
    BY DEF Base
  <1>1. ASSUME ledger' = ledger PROVE Explicit'
    <2>1. ASSUME NEW r \in Request, Takes(r) PROVE \E i \in DOMAIN ledger : ledger[i].of = r
      <3>1. FirstDecision(r) # None
        BY <2>1, ActorsAssumption DEF Takes, Allowed, Allowing, Decision
      <3>2. Answers(r) # {}
        BY <1>0, <3>1, AmongIs DEF FirstDecision, Answers
      <3> QED
        BY <3>2 DEF Answers
    <2>2. UNCHANGED promotionVars => Explicit'
      BY <1>1 DEF Explicit, promotionVars
    <2>3. ASSUME NEW r \in Request, Promotes(r), ProposedEvent(r) PROVE Explicit'
      BY <1>1, <2>3 DEF Explicit, ProposedEvent
    <2>4. ASSUME NEW r \in Request, ApprovedEvent(r) PROVE Explicit'
      BY <1>1, <2>1, <2>4 DEF Explicit, ApprovedEvent, Takes
    <2>5. ASSUME NEW to, RolledBackEvent(to) PROVE Explicit'
      BY <1>1, <2>5 DEF Explicit, RolledBackEvent
    <2>6. ASSUME NEW o \in Command, Release(o) PROVE Explicit'
      BY <1>1, <2>6 DEF Explicit, Release
    <2> QED
      BY <2>2, <2>3, <2>4, <2>5, <2>6, StageCases
  <1>2. ASSUME NEW r \in Request, NEW d, NEW by, NEW look, Decide(r, d, by, look), UNCHANGED promotionVars,
               by \in {"policy", "global"} => Cascades(r)
        PROVE  Explicit'
    <2>1. ledger' = Append(ledger, [of |-> r, decision |-> d, by |-> by, seen |-> look])
      BY <1>2 DEF Decide
    <2>2. /\ DOMAIN ledger' = DOMAIN ledger \cup {Len(ledger) + 1}
          /\ \A i \in DOMAIN ledger : ledger'[i] = ledger[i]
          /\ ledger'[Len(ledger) + 1].of = r /\ ledger'[Len(ledger) + 1].by = by
      BY <1>0, <2>1, Appended
    <2> QED
      BY <1>2, <2>2 DEF Explicit, promotionVars
  <1> QED
    BY <1>1, <1>2, LedgerCases, AddedIs

\* Above candidate a checkpoint moves on the word of an operator, given now or on the old
\* ledger that was migrated, and never on that of the cascade.
THEOREM ExplicitAboveAlways == Spec => []ExplicitAbove
  <1>1. Init => Explicit
    BY DEF Init, Explicit
  <1>2. Base /\ Explicit => ExplicitAbove
    <2> SUFFICES ASSUME Base, Explicit, NEW r \in taken, asking[r].to \in {"canary", "released"}
                 PROVE  ledger[Min(Answers(r))].by \in {"operator", "migrated"}
      BY DEF ExplicitAbove
    <2>1. Promotes(r) /\ ~ Cascades(r)
      BY DEF Explicit, Cascades, Promotes
    <2>2. Min(Answers(r)) \in Answers(r)
      <3>1. Answers(r) \subseteq DOMAIN ledger /\ Answers(r) # {}
        BY DEF Explicit, Answers
      <3> QED
        BY <3>1, AmongIs DEF Base
    <2>3. ledger[Min(Answers(r))] \in Entry /\ ledger[Min(Answers(r))].of = r /\ Min(Answers(r)) \in DOMAIN ledger
      BY <2>2, EntriesAre DEF Answers, Base
    <2> QED
      BY <2>1, <2>3 DEF Explicit, Entry
  <1> QED
    BY <1>1, <1>2, BaseAlways, ExplicitStep, PTL DEF Spec

-----------------------------------------------------------------------------
(* Deciding again *)

\* A request whose cascade is not over.
Early == {"start", "ask", "project", "machine", "decide"}

\* Who is about to decide looked when there was no decision; a cascade decides once.
Looks ==
    /\ \A a \in Actor : seen[a] <= Len(ledger)
    /\ \A o \in Command : pc[o] = "answer" =>
          \A i \in DOMAIN ledger : ledger[i].of = command[o].of => seen[o] < i
    /\ \A o \in Command : pc[o] = "backfill" =>
          \A i \in DOMAIN ledger : ledger[i].of \in todo[o] => seen[o] < i
    /\ \A r \in Request : pc[r] \in Early =>
          \A i \in DOMAIN ledger : ledger[i].of = r => ledger[i].by \notin {"policy", "global"}
    /\ SecondNeedsRace

\* How a step moves the actors: who gets to decide has looked in that step.
Walks ==
    /\ \A a \in Actor : seen'[a] \in {seen[a], Len(ledger)}
    /\ \A o \in Command : pc'[o] = "answer" =>
          Open(command[o].of) \/ (pc[o] = "answer" /\ seen'[o] = seen[o])
    /\ \A o \in Command : pc'[o] = "backfill" =>
          \/ \A r \in todo'[o] : Open(r)
          \/ pc[o] = "backfill" /\ seen'[o] = seen[o] /\ todo'[o] \subseteq todo[o]
    /\ \A r \in Request : pc'[r] \in Early => pc[r] \in Early

\* A step walks if its actor does, and leaves the others alone.
LEMMA WalksOne ==
    ASSUME Base, NEW a \in Actor, NEW s, pc' = [pc EXCEPT ![a] = s],
           \A b \in Actor \ {a} : seen'[b] = seen[b],
           \A o \in Command \ {a} : todo'[o] = todo[o],
           seen'[a] \in {seen[a], Len(ledger)},
           a \in Command /\ s = "answer" => Open(command[a].of),
           a \in Command /\ s = "backfill" =>
              \/ \A r \in todo'[a] : Open(r)
              \/ pc[a] = "backfill" /\ seen'[a] = seen[a] /\ todo'[a] \subseteq todo[a],
           a \in Request /\ s \in Early => pc[a] \in Early
    PROVE  Walks
  <1>1. pc \in [Actor -> Place]
    BY TypedParts DEF Base, PcTyped
  <1>2. \A b \in Actor : pc'[b] = IF b = a THEN s ELSE pc[b]
    BY <1>1
  <1> QED
    BY <1>2 DEF Walks, Actor

\* Every step walks.
LEMMA WalksAlways == ASSUME Base, [Next]_vars PROVE Walks
  <1>0. /\ seen \in [Actor -> Nat] /\ todo \in [Command -> SUBSET Request]
        /\ \A r \in Request : r \in Actor /\ r \notin Command
        /\ \A o \in Command : o \in Actor /\ o \notin Request
    BY TypedParts, ActorsAssumption DEF Base, MemoryTyped, Actor
  <1>1. ASSUME NEW r \in Request, RequestStep(r) \/ PromoteStep(r) PROVE Walks
    <2>1. todo' = todo /\ (seen' = seen \/ seen' = [seen EXCEPT ![r] = Len(ledger)])
      BY <1>1 DEF RequestStep, Ask, Project, ReadMachine, AutoDecide, Answer, Poll, TimeOut, Told,
                  PromoteStep, CheckStage, Propose, Await, ApproveNow, memory
    <2>2. PICK s : pc' = [pc EXCEPT ![r] = s] /\ (s \in Early => pc[r] \in Early)
      <3>1. CASE RequestStep(r) /\ ~ Project(r) /\ ~ ReadMachine(r) /\ ~ AutoDecide(r)
        BY <3>1 DEF RequestStep, Ask, Answer, Poll, TimeOut, Told, Goto, At, Early
      <3>2. CASE Project(r) \/ ReadMachine(r)
        <4>1. pc[r] \in Early /\ \E s : pc' = [pc EXCEPT ![r] = s]
          BY <3>2 DEF Project, ReadMachine, Consult, Goto, At, Early
        <4> QED
          BY <4>1
      <3>3. CASE AutoDecide(r)
        BY <3>3 DEF AutoDecide, Goto, At, Early
      <3>4. CASE PromoteStep(r)
        <4>1. CASE CheckStage(r)
          BY <4>1 DEF CheckStage, Goto, At, Early
        <4>2. CASE ~ CheckStage(r)
          <5>1. PICK s \in {"approve", "await", "done"} : pc' = [pc EXCEPT ![r] = s]
            BY <3>4, <4>2 DEF PromoteStep, Propose, Await, ApproveNow, Goto
          <5> QED
            BY <5>1 DEF Early
        <4> QED
          BY <4>1, <4>2
      <3> QED
        BY <1>1, <3>1, <3>2, <3>3, <3>4
    <2>3. seen'[r] \in {seen[r], Len(ledger)} /\ \A b \in Actor \ {r} : seen'[b] = seen[b]
      BY <1>0, <2>1
    <2> QED
      BY <1>0, <2>1, <2>2, <2>3, WalksOne
  <1>2. ASSUME NEW o \in Command, CommandStep(o) PROVE Walks
    <2>1. /\ seen'[o] \in {seen[o], Len(ledger)} /\ \A b \in Actor \ {o} : seen'[b] = seen[b]
          /\ \A p \in Command \ {o} : todo'[p] = todo[p]
      <3>1. seen' = seen \/ seen' = [seen EXCEPT ![o] = Len(ledger)]
        BY <1>2 DEF CommandStep, SetPolicy, LookOpen, Respond, MigrateLook, Migrate, ReadForWrite, Truncate, Write, memory
      <3>2. todo' = todo \/ \E S : todo' = [todo EXCEPT ![o] = S]
        BY <1>2 DEF CommandStep, SetPolicy, LookOpen, Respond, MigrateLook, Migrate, ReadForWrite, Truncate, Write, memory
      <3> QED
        BY <1>0, <3>1, <3>2
    <2>2. CASE SetPolicy(o) \/ Respond(o) \/ ReadForWrite(o) \/ Truncate(o) \/ Write(o)
      <3>1. PICK s \in {"done", "truncate", "write"} : pc' = [pc EXCEPT ![o] = s]
        BY <2>2 DEF SetPolicy, Respond, ReadForWrite, Truncate, Write, Goto
      <3> QED
        BY <1>0, <2>1, <3>1, WalksOne
    <2>3. CASE LookOpen(o)
      <3>1. PICK s \in {"done", "answer"} : pc' = [pc EXCEPT ![o] = s] /\ (s = "answer" => Open(command[o].of))
        BY <2>3 DEF LookOpen, Goto
      <3> QED
        BY <1>0, <2>1, <3>1, WalksOne
    <2>4. CASE MigrateLook(o)
      <3>1. \A r \in todo'[o] : Open(r)
        BY <1>0, <2>4 DEF MigrateLook
      <3>2. PICK s \in {"done", "backfill"} : pc' = [pc EXCEPT ![o] = s]
        BY <2>4 DEF MigrateLook, Goto
      <3> QED
        BY <1>0, <2>1, <3>1, <3>2, WalksOne
    <2>5. CASE Migrate(o)
      <3>1. pc[o] = "backfill" /\ seen' = seen /\ todo'[o] \subseteq todo[o]
        BY <1>0, <2>5, AddedIs DEF Migrate, At
      <3>2. PICK s \in {"done", "backfill"} : pc' = [pc EXCEPT ![o] = s]
        BY <2>5, AddedIs
      <3> QED
        BY <1>0, <2>1, <3>1, <3>2, WalksOne
    <2> QED
      BY <1>2, <2>2, <2>3, <2>4, <2>5 DEF CommandStep
  <1>3. ASSUME NEW o \in Command, StageStep(o) PROVE Walks
    <2>1. seen' = seen /\ todo' = todo
      BY <1>3 DEF StageStep, ConfirmLook, Confirm, ReleaseLook, Release, RollbackLook, Rollback, memory
    <2>2. PICK s \in {"approve", "publish", "revert", "done"} : pc' = [pc EXCEPT ![o] = s]
      BY <1>3 DEF StageStep, ConfirmLook, Confirm, ReleaseLook, Release, RollbackLook, Rollback, Goto
    <2> QED
      BY <1>0, <2>1, <2>2, WalksOne
  <1>4. ASSUME NEW a \in Actor, Die(a) PROVE Walks
    <2>1. seen' = seen /\ todo' = todo /\ pc' = [pc EXCEPT ![a] = "done"]
      BY <1>4 DEF Die, Goto, memory
    <2> QED
      BY <1>0, <2>1, WalksOne DEF Early
  <1>5. CASE UNCHANGED vars
    <2>1. seen' = seen /\ todo' = todo /\ pc' = pc
      BY <1>5 DEF vars, approvalVars, memory
    <2> QED
      BY <2>1 DEF Walks
  <1> QED
    BY <1>1, <1>2, <1>3, <1>4, <1>5, StepCases

\* An entry that the actor it is of may add.
MayAdd(r, by, look) ==
    /\ look \in Nat
    /\ IF by \in {"policy", "global"}
       THEN pc[r] = "decide" /\ pc'[r] \notin Early
       ELSE \A i \in DOMAIN ledger : ledger[i].of = r => look < i

\* A step keeps the looks.
LEMMA LooksStep == Base /\ Looks /\ [Next]_vars => Looks'
  <1> SUFFICES ASSUME Base, Looks, [Next]_vars PROVE Looks'
    OBVIOUS
  <1>0. /\ TypeOK /\ Walks /\ seen \in [Actor -> Nat] /\ Len(ledger) \in Nat /\ pc \in [Actor -> Place]
        /\ \A o \in Command : o \in Actor
        /\ \A o \in Command : pc'[o] = "answer" => command[o].of \in Request
    <2>1. Base'
      BY BaseNext
    <2>2. \A o \in Command : pc'[o] = "answer" => command[o].of \in Request
      BY <2>1, CommandAssumption DEF Base, Steps, CommandSteps
    <2> QED
      BY <2>2, WalksAlways, TypedParts, EntriesAre DEF Base, MemoryTyped, PcTyped, Actor
  <1>1. ASSUME ledger' = ledger PROVE Looks'
    <2>1. \A a \in Actor : seen'[a] <= Len(ledger')
      BY <1>0, <1>1 DEF Walks, Looks
    <2>2. ASSUME NEW o \in Command, pc'[o] = "answer", NEW i \in DOMAIN ledger, ledger[i].of = command[o].of
          PROVE  seen'[o] < i
      BY <1>0, <2>2 DEF Walks, Looks, Open, Answers
    <2>3. ASSUME NEW o \in Command, pc'[o] = "backfill", NEW i \in DOMAIN ledger, ledger[i].of \in todo'[o]
          PROVE  seen'[o] < i
      BY <1>0, <2>3 DEF Walks, Looks, Open, Answers
    <2>4. \A r \in Request : pc'[r] \in Early =>
             \A i \in DOMAIN ledger : ledger[i].of = r => ledger[i].by \notin {"policy", "global"}
      BY <1>0 DEF Walks, Looks
    <2>5. SecondNeedsRace'
      BY <1>1 DEF Looks, SecondNeedsRace
    <2> QED
      BY <1>1, <2>1, <2>2, <2>3, <2>4, <2>5 DEF Looks
  <1>2. ASSUME NEW r \in Request, NEW d, NEW by, NEW look, Decide(r, d, by, look), MayAdd(r, by, look)
        PROVE  Looks'
    <2> DEFINE n == Len(ledger) + 1
    <2>1. /\ DOMAIN ledger = 1..Len(ledger) /\ DOMAIN ledger' = 1..n /\ Len(ledger') = n
          /\ \A i \in DOMAIN ledger : ledger'[i] = ledger[i]
          /\ ledger'[n].of = r /\ ledger'[n].by = by /\ ledger'[n].seen = look
      BY <1>0, <1>2, Appended DEF Decide
    <2>a. \A i \in DOMAIN ledger' : i = n \/ (i \in DOMAIN ledger /\ i < n)
      BY <1>0, <2>1
    <2>2. \A a \in Actor : seen'[a] <= Len(ledger')
      BY <1>0, <2>1 DEF Walks, Looks
    <2>3. ASSUME NEW o \in Command, pc'[o] = "answer", NEW i \in DOMAIN ledger', ledger'[i].of = command[o].of
          PROVE  seen'[o] < i
      <3>1. CASE i = n
        BY <1>0, <3>1 DEF Walks, Looks
      <3>2. CASE i \in DOMAIN ledger
        BY <1>0, <2>1, <2>3, <3>2 DEF Walks, Looks, Open, Answers
      <3> QED
        BY <2>a, <3>1, <3>2
    <2>4. ASSUME NEW o \in Command, pc'[o] = "backfill", NEW i \in DOMAIN ledger', ledger'[i].of \in todo'[o]
          PROVE  seen'[o] < i
      <3>1. CASE i = n
        BY <1>0, <3>1 DEF Walks, Looks
      <3>2. CASE i \in DOMAIN ledger
        BY <1>0, <2>1, <2>4, <3>2 DEF Walks, Looks, Open, Answers
      <3> QED
        BY <2>a, <3>1, <3>2
    <2>5. ASSUME NEW q \in Request, pc'[q] \in Early, NEW i \in DOMAIN ledger', ledger'[i].of = q
          PROVE  ledger'[i].by \notin {"policy", "global"}
      <3>1. CASE i = n
        BY <1>2, <2>1, <2>5, <3>1 DEF MayAdd
      <3>2. CASE i \in DOMAIN ledger
        BY <1>0, <2>1, <2>5, <3>2 DEF Walks, Looks
      <3> QED
        BY <2>a, <3>1, <3>2
    <2>6. SecondNeedsRace'
      <3> SUFFICES ASSUME NEW i \in DOMAIN ledger', NEW j \in DOMAIN ledger', i < j, ledger'[i].of = ledger'[j].of
                   PROVE  IF ledger'[j].by \in {"policy", "global"}
                          THEN ledger'[i].by \notin {"policy", "global"}
                          ELSE ledger'[j].seen < i
        BY DEF SecondNeedsRace
      <3>1. i \in DOMAIN ledger
        BY <1>0, <2>1
      <3>2. CASE j \in DOMAIN ledger
        BY <2>1, <3>1, <3>2 DEF Looks, SecondNeedsRace
      <3>3. CASE j = n
        <4>1. ledger[i].of = r /\ ledger'[i] = ledger[i]
          BY <2>1, <3>1, <3>3
        <4>2. CASE by \in {"policy", "global"}
          BY <1>2, <2>1, <3>1, <3>3, <4>1, <4>2 DEF MayAdd, Looks, Early
        <4>3. CASE by \notin {"policy", "global"}
          BY <1>2, <2>1, <3>1, <3>3, <4>1, <4>3 DEF MayAdd
        <4> QED
          BY <4>2, <4>3
      <3> QED
        BY <2>a, <3>2, <3>3
    <2> QED
      BY <2>2, <2>3, <2>4, <2>5, <2>6 DEF Looks
  <1>3. ASSUME NEW r \in Request, AutoDecide(r) PROVE Looks'
    <2>1. auto[r] \in Automatic /\ seen[r] \in Nat /\ Decide(r, auto[r].decision, auto[r].by, seen[r]) /\ pc[r] = "decide"
      BY <1>3, AddedIs
    <2>2. pc'[r] \in {"answer", "propose", "poll", "done"}
      BY <1>0, <1>3, AddedIs, AfterIs DEF Actor
    <2> QED
      BY <1>2, <2>1, <2>2 DEF MayAdd, Early, Automatic
  <1>4. ASSUME NEW o \in Command, Respond(o) PROVE Looks'
    <2>1. /\ command[o].of \in Request /\ seen[o] \in Nat /\ pc[o] = "answer"
          /\ Decide(command[o].of, command[o].decision, "operator", seen[o])
      BY <1>4, AddedIs
    <2> QED
      BY <1>2, <2>1 DEF MayAdd, Looks
  <1>5. ASSUME NEW o \in Command, Migrate(o) PROVE Looks'
    <2>1. PICK r \in todo[o] : r \in Request /\ seen[o] \in Nat /\ Decide(r, matched[r], "migrated", seen[o])
      BY <1>5, AddedIs
    <2>2. pc[o] = "backfill"
      BY <1>5 DEF Migrate, At
    <2> QED
      BY <1>2, <2>1, <2>2 DEF MayAdd, Looks
  <1> QED
    BY <1>1, <1>3, <1>4, <1>5, LedgerCases

\* A cascade decides a request once; another decision after the first comes from a
\* responder or a migration that looked before there was one.
THEOREM SecondNeedsRaceAlways == Spec => []SecondNeedsRace
  <1>1. Init => Looks
    BY CommandAssumption DEF Init, Looks, SecondNeedsRace, FirstStep, Actor
  <1>2. Looks => SecondNeedsRace
    BY DEF Looks
  <1> QED
    BY <1>1, <1>2, BaseAlways, LooksStep, PTL DEF Spec

-----------------------------------------------------------------------------
(* What callers go by *)

\* A decision that a caller may go by.
Grounds(r, i) ==
    /\ i \in DOMAIN ledger
    /\ ledger[i].of = r
    /\ \/ ledger[i].by \in {"policy", "global"}
       \/ \A j \in DOMAIN ledger : ledger[j].of = r /\ j < i => j + LedgerTail <= Len(ledger)

\* Every caller that was told a decision was told one it may go by.
Grounded ==
    \A r \in Request : outcome[r] \in Decision =>
       \E i : Grounds(r, i) /\ ledger[i].decision = outcome[r]

\* What a projection shows of a request, or the whole spine says first, is such a decision.
LEMMA ShownGrounds ==
    ASSUME TypeOK, NEW r \in Request,
           NEW what, what \in {ShownDecision(r), FirstDecision(r)}, what # None
    PROVE  \E i : Grounds(r, i) /\ ledger[i].decision = what
  <1>0. Answers(r) \subseteq DOMAIN ledger /\ LedgerTail \in Nat /\ Len(ledger) \in Nat /\ DOMAIN ledger = 1..Len(ledger)
    BY ActorsAssumption, EntriesAre DEF Answers
  <1>1. CASE what = ShownDecision(r)
    <2> DEFINE ids == {i \in Answers(r) : i + LedgerTail > Len(ledger)}
    <2>1. /\ Min(ids) \in ids /\ \A i \in ids : Min(ids) <= i
          /\ what = ledger[Min(ids)].decision
      <3>1. ids \in SUBSET DOMAIN ledger /\ what = DecisionAmong(ids)
        BY <1>0, <1>1 DEF ShownDecision
      <3> HIDE DEF ids
      <3> QED
        BY <3>1, AmongIs
    <2>2. PICK m \in ids : what = ledger[m].decision /\ \A i \in ids : m <= i
      BY <2>1, Zenon
    <2>3. ASSUME NEW j \in DOMAIN ledger, ledger[j].of = r, j < m PROVE j + LedgerTail <= Len(ledger)
      <3>1. j \notin ids /\ j \in Answers(r)
        BY <1>0, <2>2, <2>3 DEF Answers
      <3> QED
        BY <1>0, <3>1
    <2>4. Grounds(r, m)
      BY <1>0, <2>2, <2>3 DEF Grounds, Answers
    <2> QED
      BY <2>2, <2>4
  <1>2. CASE what = FirstDecision(r)
    <2>1. /\ Min(Answers(r)) \in Answers(r) /\ \A i \in Answers(r) : Min(Answers(r)) <= i
          /\ what = ledger[Min(Answers(r))].decision
      BY <1>0, <1>2, AmongIs DEF FirstDecision
    <2>2. PICK m \in Answers(r) : what = ledger[m].decision /\ \A i \in Answers(r) : m <= i
      BY <2>1, Zenon
    <2>3. \A j \in DOMAIN ledger : ledger[j].of = r => ~ (j < m)
      BY <1>0, <2>2 DEF Answers
    <2>4. Grounds(r, m)
      BY <2>2, <2>3 DEF Grounds, Answers
    <2> QED
      BY <2>2, <2>4
  <1> QED
    BY <1>1, <1>2

\* How a caller comes to be told something.
LEMMA OutcomeCases ==
    ASSUME Base, [Next]_vars, NEW r \in Request
    PROVE  \/ outcome'[r] = outcome[r]
           \/ outcome'[r] \in {"open", "timeout"}
           \/ AutoDecide(r) /\ outcome'[r] = auto[r].decision
           \/ /\ ledger' = ledger /\ outcome'[r] # None
              /\ outcome'[r] \in {ShownDecision(r), FirstDecision(r)}
  <1>0. outcome \in [Request -> Decision \cup {None, "open", "timeout"}]
    BY TypedParts DEF Base, MemoryTyped
  <1>1. ASSUME NEW q \in Request, RequestStep(q)
        PROVE  \/ outcome' = outcome
               \/ \E w : outcome' = [outcome EXCEPT ![q] = w] /\
                     \/ w \in {"open", "timeout"}
                     \/ AutoDecide(q) /\ w = auto[q].decision
                     \/ ledger' = ledger /\ w # None /\ w = ShownDecision(q)
    <2>1. CASE Ask(q) \/ Project(q) \/ ReadMachine(q)
      BY <2>1 DEF Ask, Project, ReadMachine, memory
    <2>2. CASE AutoDecide(q)
      BY <2>2 DEF AutoDecide
    <2>3. CASE Answer(q) \/ Poll(q) \/ TimeOut(q)
      BY <2>3 DEF Answer, Poll, TimeOut, Told, spineView
    <2> QED
      BY <1>1, <2>1, <2>2, <2>3 DEF RequestStep
  <1>2. ASSUME NEW q \in Request, PromoteStep(q)
        PROVE  \/ outcome' = outcome
               \/ \E w : outcome' = [outcome EXCEPT ![q] = w] /\ ledger' = ledger /\ w # None /\ w = FirstDecision(q)
    BY <1>2 DEF PromoteStep, CheckStage, Propose, Await, ApproveNow, memory, spineView
  <1>3. ASSUME NEW o \in Command, CommandStep(o) \/ StageStep(o) PROVE outcome' = outcome
    BY <1>3 DEF CommandStep, SetPolicy, LookOpen, Respond, MigrateLook, Migrate, ReadForWrite, Truncate, Write,
                StageStep, ConfirmLook, Confirm, ReleaseLook, Release, RollbackLook, Rollback, memory
  <1>4. ASSUME NEW a \in Actor, Die(a) PROVE outcome' = outcome
    BY <1>4 DEF Die, memory
  <1>5. UNCHANGED vars => outcome' = outcome
    BY DEF vars, approvalVars, memory
  <1> QED
    BY <1>0, <1>1, <1>2, <1>3, <1>4, <1>5, StepCases

\* The ledger stays, or gets one entry.
LEMMA LedgerGrows ==
    ASSUME Base, [Next]_vars
    PROVE  \/ ledger' = ledger
           \/ \E e : ledger' = Append(ledger, e)
  BY LedgerCases, AddedIs DEF Decide

\* A step keeps every caller's grounds.
LEMMA GroundedStep == Base /\ Grounded /\ [Next]_vars => Grounded'
  <1> SUFFICES ASSUME Base, Grounded, [Next]_vars, NEW r \in Request, outcome'[r] \in Decision
               PROVE  \E i : Grounds(r, i)' /\ ledger'[i].decision = outcome'[r]
    BY DEF Grounded
  <1>0. TypeOK /\ LedgerTail \in Nat /\ Len(ledger) \in Nat /\ DOMAIN ledger = 1..Len(ledger)
    BY EntriesAre, ActorsAssumption DEF Base
  <1>1. ASSUME NEW i, Grounds(r, i) PROVE Grounds(r, i)' /\ ledger'[i] = ledger[i]
    <2>1. CASE ledger' = ledger
      BY <1>1, <2>1 DEF Grounds
    <2>2. ASSUME NEW e, ledger' = Append(ledger, e) PROVE Grounds(r, i)' /\ ledger'[i] = ledger[i]
      <3>1. /\ Len(ledger') = Len(ledger) + 1 /\ DOMAIN ledger' = 1..(Len(ledger) + 1)
            /\ \A j \in DOMAIN ledger : j \in DOMAIN ledger' /\ ledger'[j] = ledger[j]
        BY <1>0, <2>2, Appended
      <3>2. \A j \in DOMAIN ledger' : j < i => j \in DOMAIN ledger
        BY <1>0, <1>1, <3>1 DEF Grounds
      <3>3. ASSUME NEW j \in DOMAIN ledger', j < i, ledger'[j].of = r, ledger[i].by \notin {"policy", "global"}
            PROVE  j + LedgerTail <= Len(ledger')
        <4>1. j + LedgerTail <= Len(ledger) /\ j \in Nat
          BY <1>0, <1>1, <3>1, <3>2, <3>3 DEF Grounds
        <4> QED
          BY <1>0, <3>1, <4>1
      <3> QED
        BY <1>1, <3>1, <3>3 DEF Grounds
    <2> QED
      BY <2>1, <2>2, LedgerGrows
  <1>2. CASE outcome'[r] = outcome[r]
    BY <1>1, <1>2 DEF Grounded
  <1>3. CASE outcome'[r] \in {"open", "timeout"}
    BY <1>3 DEF Decision
  <1>4. CASE AutoDecide(r) /\ outcome'[r] = auto[r].decision
    <2>1. auto[r] \in Automatic /\ Decide(r, auto[r].decision, auto[r].by, seen[r])
      BY <1>4, AddedIs
    <2>2. /\ DOMAIN ledger' = 1..(Len(ledger) + 1)
          /\ ledger'[Len(ledger) + 1].of = r /\ ledger'[Len(ledger) + 1].by = auto[r].by
          /\ ledger'[Len(ledger) + 1].decision = auto[r].decision
      BY <1>0, <2>1, Appended DEF Decide
    <2>3. PICK n : n = Len(ledger) + 1
      OBVIOUS
    <2>4. Grounds(r, n)' /\ ledger'[n].decision = outcome'[r]
      BY <1>0, <1>4, <2>1, <2>2, <2>3 DEF Grounds, Automatic
    <2> QED
      BY <2>4
  <1>5. CASE /\ ledger' = ledger /\ outcome'[r] # None
             /\ outcome'[r] \in {ShownDecision(r), FirstDecision(r)}
    <2>1. \E i : Grounds(r, i) /\ ledger[i].decision = outcome'[r]
      BY <1>0, <1>5, ShownGrounds
    <2> QED
      BY <1>1, <2>1
  <1> QED
    BY <1>2, <1>3, <1>4, <1>5, OutcomeCases

\* Whoever goes on or gives up on a decision does so on one of its own request: its
\* cascade's, or the earliest the projection still showed.
THEOREM OutcomeIsDecidedAlways == Spec => []OutcomeIsDecided
  <1>1. Init => Grounded
    BY ActorsAssumption DEF Init, Grounded
  <1>2. Grounded => OutcomeIsDecided
    BY DEF Grounded, Grounds, OutcomeIsDecided, Answers
  <1> QED
    BY <1>1, <1>2, BaseAlways, GroundedStep, PTL DEF Spec

-----------------------------------------------------------------------------
(* Where what is allowed without being asked comes from *)

\* An operator's word covers the key, or a second allow-always widened its tool's policy.
Licensed(k) ==
    \/ \E w \in word : Covers(w, k)
    \/ AllowedAgain(k[1])

\* Policies that allow only what is licensed.
Sound(pols) == \A k \in Key : pols[k] = "allow-always" => Licensed(k)

\* A request that its caller is about to allow by a policy.
AboutToAllow(r) == pc[r] = "decide" /\ auto[r].decision = "allow-always"

\* Whatever holds or passes on a standing allowance is licensed.
Lineage ==
    /\ Sound(policies) /\ Sound(stated) /\ Sound(file.has)
    /\ \A o \in Command : Sound(base[o])
    /\ \A r \in Request : matched[r] = "allow-always" => Licensed(KeyOf(r))
    /\ \A r \in Request : AboutToAllow(r) => Licensed(KeyOf(r))
    /\ AllowTraces

\* A key that covers another passes its license on.
LEMMA CoversLicensed ==
    ASSUME TypeOK, NEW k \in Key, NEW r \in Request, Covers(k, KeyOf(r)), Licensed(k)
    PROVE  Licensed(KeyOf(r))
  <1>1. CASE \E w \in word : Covers(w, k)
    BY <1>1 DEF Covers, Licensed
  <1>2. CASE AllowedAgain(k[1])
    <2>1. PICK i \in DOMAIN ledger : ledger[i].decision = "allow-always" /\ asking[ledger[i].of].tool = k[1]
      BY <1>2 DEF AllowedAgain
    <2>2. asking[ledger[i].of].tool # Wild
      BY <2>1, EntriesAre, AskingAssumption DEF Entry
    <2>3. k[1] = KeyOf(r)[1]
      BY <2>1, <2>2 DEF Covers
    <2> QED
      BY <1>2, <2>3 DEF Licensed
  <1> QED
    BY <1>1, <1>2 DEF Licensed

\* What sound policies allow a request is licensed.
LEMMA MatchLicensed ==
    ASSUME TypeOK, NEW r \in Request, NEW pols \in Policies, Sound(pols), Match(pols, r) = "allow-always"
    PROVE  Licensed(KeyOf(r))
  <1>1. "allow-always" # None
    BY ActorsAssumption DEF Decision
  <1>2. PICK k \in Key : Covers(k, KeyOf(r)) /\ pols[k] = "allow-always"
    BY <1>1, MatchIs
  <1> QED
    BY <1>2, CoversLicensed DEF Sound

\* A license is never lost.
LEMMA LicenseKept ==
    ASSUME TypeOK, word \subseteq word', ledger' = ledger \/ \E e : ledger' = Append(ledger, e)
    PROVE  \A k : Licensed(k) => Licensed(k)'
  <1>1. \A i \in DOMAIN ledger : i \in DOMAIN ledger' /\ ledger'[i] = ledger[i]
    BY Appended
  <1>2. \A t : AllowedAgain(t) => AllowedAgain(t)'
    BY <1>1 DEF AllowedAgain
  <1> QED
    BY <1>2 DEF Licensed

\* An operator never takes a word back.
LEMMA WordGrows == ASSUME Base, [Next]_vars PROVE word \subseteq word'
  <1>1. ASSUME NEW r \in Request, RequestStep(r) \/ PromoteStep(r) PROVE word \subseteq word'
    BY <1>1 DEF RequestStep, Ask, Project, ReadMachine, AutoDecide, Decide, Answer, Poll, TimeOut, Told,
                PromoteStep, CheckStage, Propose, Await, ApproveNow
  <1>2. ASSUME NEW o \in Command, CommandStep(o) PROVE word \subseteq word'
    BY <1>2 DEF CommandStep, SetPolicy, LookOpen, Respond, Decide, MigrateLook, Migrate, ReadForWrite, Truncate, Write
  <1>3. ASSUME NEW o \in Command, StageStep(o) PROVE word' = word
    BY <1>3 DEF StageStep, ConfirmLook, Confirm, ReleaseLook, Release, RollbackLook, Rollback
  <1>4. ASSUME NEW a \in Actor, Die(a) PROVE word' = word
    BY <1>4 DEF Die
  <1>5. UNCHANGED vars => word' = word
    BY DEF vars, approvalVars
  <1> QED
    BY <1>1, <1>2, <1>3, <1>4, <1>5, StepCases

\* What a step does not touch stays sound.
LEMMA LineageParts ==
    ASSUME Base, Lineage, [Next]_vars
    PROVE  /\ policies' = policies => Sound(policies)'
           /\ stated' = stated => Sound(stated)'
           /\ file' = file => Sound(file.has)'
           /\ base' = base => \A o \in Command : Sound(base[o])'
           /\ matched' = matched => \A r \in Request : matched'[r] = "allow-always" => Licensed(KeyOf(r))'
           /\ (\A r \in Request : AboutToAllow(r)' => AboutToAllow(r)) =>
                 \A r \in Request : AboutToAllow(r)' => Licensed(KeyOf(r))'
           /\ ledger' = ledger => AllowTraces'
  <1>0. word \subseteq word' /\ \A k : Licensed(k) => Licensed(k)'
    BY WordGrows, LicenseKept, LedgerGrows DEF Base
  <1>1. ledger' = ledger => AllowTraces'
    BY <1>0 DEF Lineage, AllowTraces, AllowedAgain
  <1>2. /\ policies' = policies => Sound(policies)'
        /\ stated' = stated => Sound(stated)'
        /\ file' = file => Sound(file.has)'
        /\ base' = base => \A o \in Command : Sound(base[o])'
    BY <1>0 DEF Lineage, Sound
  <1>3. /\ matched' = matched => \A r \in Request : matched'[r] = "allow-always" => Licensed(KeyOf(r))'
        /\ (\A r \in Request : AboutToAllow(r)' => AboutToAllow(r)) =>
                 \A r \in Request : AboutToAllow(r)' => Licensed(KeyOf(r))'
    BY <1>0 DEF Lineage
  <1> QED
    BY <1>1, <1>2, <1>3

\* A decision keeps the policies and the ledger sound, if what it allows is licensed.
LEMMA LineageDecide ==
    ASSUME Base, Lineage, [Next]_vars, NEW r \in Request, NEW d, NEW by, NEW look,
           Decide(r, d, by, look), Requested(r),
           by # "operator" /\ d = "allow-always" => Licensed(KeyOf(r))
    PROVE  Sound(policies)' /\ AllowTraces'
  <1>0. word \subseteq word' /\ (\A k : Licensed(k) => Licensed(k)') /\ TypeOK
    BY WordGrows, LicenseKept, LedgerGrows DEF Base
  <1>1. /\ DOMAIN ledger = 1..Len(ledger) /\ DOMAIN ledger' = 1..(Len(ledger) + 1) /\ Len(ledger) \in Nat
        /\ \A i \in DOMAIN ledger : ledger'[i] = ledger[i]
        /\ ledger'[Len(ledger) + 1] = [of |-> r, decision |-> d, by |-> by, seen |-> look]
    BY <1>0, Appended DEF Decide
  <1>2. AllowTraces'
    <2>1. ASSUME NEW i \in DOMAIN ledger, ledger[i].by # "operator", ledger[i].decision = "allow-always"
          PROVE  \E k : k = KeyOf(ledger[i].of) /\ Licensed(k)'
      <3>1. Licensed(KeyOf(ledger[i].of))
        BY <2>1 DEF Lineage, AllowTraces, Licensed, KeyOf
      <3> QED
        BY <1>0, <3>1
    <2>2. ASSUME by # "operator", d = "allow-always" PROVE \E k : k = KeyOf(r) /\ Licensed(k)'
      BY <1>0, <2>2
    <2>3. ASSUME NEW i \in DOMAIN ledger', ledger'[i].by # "operator", ledger'[i].decision = "allow-always",
                 NEW q, q = ledger'[i].of
          PROVE  \E k : k = KeyOf(q) /\ Licensed(k)'
      <3>1. CASE i \in DOMAIN ledger
        BY <1>1, <2>1, <2>3, <3>1
      <3>2. CASE i = Len(ledger) + 1
        BY <1>1, <2>2, <2>3, <3>2
      <3> QED
        BY <1>1, <3>1, <3>2
    <2>4. ASSUME NEW i \in DOMAIN ledger', ledger'[i].by # "operator", ledger'[i].decision = "allow-always",
                 NEW q, q = ledger'[i].of
          PROVE  \/ \E w \in word' : Covers(w, KeyOf(q))
                 \/ AllowedAgain(asking[q].tool)'
      <3>1. PICK k : k = KeyOf(q) /\ Licensed(k)'
        BY <2>3, <2>4
      <3>2. (\E w \in word' : Covers(w, k)) \/ AllowedAgain(k[1])'
        BY <3>1 DEF Licensed
      <3>3. k = <<asking[q].tool, asking[q].lane>> /\ k[1] = asking[q].tool
        BY <3>1 DEF KeyOf
      <3> QED
        BY <3>1, <3>2, <3>3
    <2> QED
      BY <2>4 DEF AllowTraces
  <1>3. CASE d # "allow-always"
    <2>1. policies' = policies \/ policies' = [policies EXCEPT ![AnsweredKey(r)] = "deny"]
      BY <1>3 DEF Decide
    <2>2. policies \in [Key -> Standing \cup {None}]
      BY <1>0 DEF TypeOK, Policies
    <2>3. \A k \in Key : policies'[k] = "allow-always" => policies[k] = "allow-always"
      BY <2>1, <2>2
    <2>4. \A k \in Key : policies[k] = "allow-always" => Licensed(k)
      BY DEF Lineage, Sound
    <2>5. Sound(policies)'
      BY <1>0, <2>3, <2>4 DEF Sound
    <2> QED
      BY <1>2, <2>5
  <1>4. CASE d = "allow-always"
    <2>1. PICK key \in Key : key = AnsweredKey(r)
      BY AnsweredKeyIs
    <2>2. Licensed(key)'
      <3>1. CASE by = "operator"
        <4>1. key \in word'
          BY <1>4, <2>1, <3>1 DEF Decide
        <4>2. Covers(key, key)
          BY DEF Covers
        <4> QED
          BY <4>1, <4>2 DEF Licensed
      <3>2. CASE by # "operator" /\ Open(r)
        <4>1. key = KeyOf(r)
          BY <2>1, <3>2 DEF AnsweredKey
        <4>2. Licensed(key)
          BY <1>4, <3>2, <4>1
        <4> QED
          BY <1>0, <4>2
      <3>3. CASE by # "operator" /\ ~ Open(r)
        <4>1. PICK i \in DOMAIN ledger : ledger[i].of = r
          BY <3>3 DEF Open, Answers
        <4>2. i \in DOMAIN ledger' /\ Len(ledger) + 1 \in DOMAIN ledger' /\ i < Len(ledger) + 1
          BY <1>1, <4>1
        <4>3. ledger'[i].of = r /\ ledger'[Len(ledger) + 1].of = r /\ ledger'[Len(ledger) + 1].decision = "allow-always"
          BY <1>1, <1>4, <4>1
        <4>4. key[1] = asking[r].tool
          BY <2>1, <3>3 DEF AnsweredKey
        <4>5. AllowedAgain(key[1])'
          BY <4>2, <4>3, <4>4 DEF AllowedAgain
        <4> QED
          BY <4>5 DEF Licensed
      <3> QED
        BY <3>1, <3>2, <3>3
    <2>3. policies \in [Key -> Standing \cup {None}] /\ policies' = [policies EXCEPT ![key] = "allow-always"]
      BY <1>0, <1>4, <2>1 DEF TypeOK, Policies, Decide
    <2>4. \A k \in Key : policies'[k] = "allow-always" => policies[k] = "allow-always" \/ k = key
      BY <2>3
    <2>5. \A k \in Key : policies[k] = "allow-always" => Licensed(k)
      BY DEF Lineage, Sound
    <2>6. \A k \in Key : policies'[k] = "allow-always" => Licensed(k)'
      BY <1>0, <2>2, <2>4, <2>5
    <2>7. Sound(policies)'
      BY <2>6 DEF Sound
    <2> QED
      BY <1>2, <2>7
  <1> QED
    BY <1>3, <1>4

\* A step keeps the lineage.
LEMMA LineageStep == Base /\ Lineage /\ [Next]_vars => Lineage'
  <1> SUFFICES ASSUME Base, Lineage, [Next]_vars PROVE Lineage'
    OBVIOUS
  <1>0. /\ TypeOK /\ word \subseteq word' /\ \A k : Licensed(k) => Licensed(k)'
        /\ pc \in [Actor -> Place] /\ auto \in [Request -> Automatic \cup {None}]
        /\ policies \in Policies /\ stated \in Policies /\ base \in [Command -> Policies]
        /\ \A r \in Request : r \in Actor /\ r \notin Command
        /\ \A o \in Command : o \in Actor /\ o \notin Request
    BY WordGrows, LicenseKept, LedgerGrows, TypedParts, ActorsAssumption
       DEF Base, PcTyped, MemoryTyped, SpineTyped, Actor
  <1>a. ASSUME NEW a \in Actor, NEW s, s # "decide", pc' = [pc EXCEPT ![a] = s], auto' = auto
        PROVE  \A r \in Request : AboutToAllow(r)' => AboutToAllow(r)
    BY <1>0, <1>a DEF AboutToAllow
  <1>b. ASSUME UNCHANGED <<ledger, policies, stated, file, base, matched>>,
               \A r \in Request : AboutToAllow(r)' => AboutToAllow(r)
        PROVE  Lineage'
    BY <1>b, LineageParts DEF Lineage
  <1>1. ASSUME NEW r \in Request, Ask(r) PROVE Lineage'
    <2>1. \A q \in Request : matched'[q] = "allow-always" => Licensed(KeyOf(q))'
      <3>1. \A q \in Request : matched'[q] = "allow-always" =>
               matched[q] = "allow-always" \/ (q = r /\ Match(stated, r) = "allow-always")
        BY <1>0, <1>1 DEF Ask, TypeOK
      <3>2. \A q \in Request : matched'[q] = "allow-always" => Licensed(KeyOf(q))
        BY <1>0, <3>1, MatchLicensed DEF Lineage
      <3> QED
        BY <1>0, <3>2
    <2>2. PICK s \in {"project", "propose"} : pc' = [pc EXCEPT ![r] = s] /\ auto' = auto
      BY <1>1 DEF Ask, Goto, memory
    <2>3. \A q \in Request : AboutToAllow(q)' => AboutToAllow(q)
      BY <1>0, <1>a, <2>2
    <2>4. UNCHANGED <<ledger, policies, stated, file, base>>
      BY <1>1 DEF Ask, machine, memory
    <2> QED
      BY <2>1, <2>3, <2>4, LineageParts DEF Lineage
  <1>2. ASSUME NEW r \in Request, NEW step, NEW pols \in Policies, NEW by, NEW otherwise,
               Sound(pols), Consult(r, step, pols, by, otherwise), otherwise # "decide",
               UNCHANGED <<ledger, policies, stated, file, base, matched>>
        PROVE  Lineage'
    <2>1. \A q \in Request : AboutToAllow(q)' =>
             AboutToAllow(q) \/ (q = r /\ Match(pols, r) = "allow-always")
      <3>1. CASE Match(pols, r) = None
        BY <1>0, <1>2, <3>1 DEF Consult, Goto, AboutToAllow
      <3>2. CASE Match(pols, r) # None
        <4>1. /\ auto' = [auto EXCEPT ![r] = [decision |-> Match(pols, r), by |-> by]]
              /\ pc' = [pc EXCEPT ![r] = "decide"]
          BY <1>2, <3>2 DEF Consult, Goto
        <4> QED
          BY <1>0, <4>1 DEF AboutToAllow
      <3> QED
        BY <3>1, <3>2
    <2>2. \A q \in Request : AboutToAllow(q)' => Licensed(KeyOf(q))
      BY <1>0, <1>2, <2>1, MatchLicensed DEF Lineage
    <2>3. \A q \in Request : AboutToAllow(q)' => Licensed(KeyOf(q))'
      BY <1>0, <2>2
    <2> QED
      BY <1>2, <2>3, LineageParts DEF Lineage
  <1>3. ASSUME NEW r \in Request, Project(r) PROVE Lineage'
    BY <1>0, <1>2, <1>3 DEF Project, spineView, machine, Lineage
  <1>4. ASSUME NEW r \in Request, ReadMachine(r) PROVE Lineage'
    <2>1. Parsed \in Policies /\ Sound(Parsed)
      <3>1. file.has \in Policies /\ Sound(file.has)
        BY <1>0 DEF TypeOK, Lineage
      <3>2. NoPolicy \in Policies
        BY DEF NoPolicy, Policies
      <3>3. Sound(NoPolicy)
        BY ActorsAssumption DEF Sound, NoPolicy, Decision
      <3> QED
        BY <3>1, <3>2, <3>3 DEF Parsed
    <2>2. AfterCascade(r, None) # "decide"
      BY AfterIs
    <2>3. Consult(r, "machine", Parsed, "global", AfterCascade(r, None))
          /\ UNCHANGED <<ledger, policies, stated, file, base, matched>>
      BY <1>4 DEF ReadMachine, spineView, machine
    <2> QED
      BY <1>2, <2>1, <2>2, <2>3
  <1>5. ASSUME NEW r \in Request, NEW d, NEW by, NEW look, Decide(r, d, by, look), Requested(r),
               by # "operator" /\ d = "allow-always" => Licensed(KeyOf(r)),
               file' = file, base' = base, \A q \in Request : AboutToAllow(q)' => AboutToAllow(q)
        PROVE  Lineage'
    <2>1. Sound(policies)' /\ AllowTraces'
      BY <1>5, LineageDecide
    <2>2. stated' = stated /\ matched' = matched
      BY <1>5 DEF Decide
    <2> QED
      BY <1>5, <2>1, <2>2, LineageParts DEF Lineage
  <1>6. ASSUME NEW r \in Request, AutoDecide(r) PROVE Lineage'
    <2>1. /\ auto[r] \in Automatic /\ Requested(r) /\ Decide(r, auto[r].decision, auto[r].by, seen[r])
          /\ pc[r] = "decide" /\ pc' = [pc EXCEPT ![r] = AfterCascade(r, auto[r].decision)]
      BY <1>6, AddedIs
    <2>2. AfterCascade(r, auto[r].decision) # "decide"
      BY AfterIs
    <2>3. auto' = auto /\ file' = file /\ base' = base
      BY <1>6 DEF AutoDecide, machine
    <2>4. \A q \in Request : AboutToAllow(q)' => AboutToAllow(q)
      BY <1>0, <1>a, <2>1, <2>2, <2>3
    <2>5. auto[r].decision = "allow-always" => Licensed(KeyOf(r))
      BY <2>1 DEF Lineage, AboutToAllow
    <2> QED
      BY <1>5, <2>1, <2>3, <2>4, <2>5
  <1>7. ASSUME NEW o \in Command, Respond(o) PROVE Lineage'
    <2>1. /\ command[o].of \in Request /\ Requested(command[o].of)
          /\ Decide(command[o].of, command[o].decision, "operator", seen[o])
          /\ pc' = [pc EXCEPT ![o] = "done"]
      BY <1>7, AddedIs
    <2>2. auto' = auto /\ file' = file /\ base' = base
      BY <1>7 DEF Respond, machine, memory
    <2>3. \A q \in Request : AboutToAllow(q)' => AboutToAllow(q)
      BY <1>0, <1>a, <2>1, <2>2
    <2> QED
      BY <1>5, <2>1, <2>2, <2>3
  <1>8. ASSUME NEW o \in Command, Migrate(o) PROVE Lineage'
    <2>1. PICK r \in todo[o] :
            /\ r \in Request /\ Requested(r) /\ Decide(r, matched[r], "migrated", seen[o]) /\ auto' = auto
            /\ (pc' = [pc EXCEPT ![o] = "done"] \/ pc' = [pc EXCEPT ![o] = "backfill"])
      BY <1>8, AddedIs
    <2>2. file' = file /\ base' = base
      BY <1>8 DEF Migrate, machine
    <2>3. \A q \in Request : AboutToAllow(q)' => AboutToAllow(q)
      BY <1>0, <1>a, <2>1
    <2>4. matched[r] = "allow-always" => Licensed(KeyOf(r))
      BY <2>1 DEF Lineage
    <2> QED
      BY <1>5, <2>1, <2>2, <2>3, <2>4
  <1>9. ASSUME NEW o \in Command, SetPolicy(o) PROVE Lineage'
    <2>1. PICK value : /\ policies' = [policies EXCEPT ![command[o].key] = value]
                       /\ stated' = [stated EXCEPT ![command[o].key] = value]
                       /\ word' = IF value = "allow-always" THEN word \cup {command[o].key} ELSE word
      BY <1>9 DEF SetPolicy
    <2>2. value = "allow-always" => Licensed(command[o].key)'
      BY <2>1 DEF Licensed, Covers
    <2>3. \A k \in Key : /\ policies'[k] = "allow-always" => Licensed(k)'
                         /\ stated'[k] = "allow-always" => Licensed(k)'
      <3>1. policies \in [Key -> Standing \cup {None}] /\ stated \in [Key -> Standing \cup {None}]
        BY <1>0 DEF Policies
      <3>2. \A k \in Key : /\ policies[k] = "allow-always" => Licensed(k)'
                           /\ stated[k] = "allow-always" => Licensed(k)'
        BY <1>0 DEF Lineage, Sound
      <3> QED
        BY <2>1, <2>2, <3>1, <3>2
    <2>4. /\ UNCHANGED <<ledger, file, base, matched>> /\ auto' = auto
          /\ pc' = [pc EXCEPT ![o] = "done"]
      BY <1>9 DEF SetPolicy, machine, memory, Goto
    <2>5. \A q \in Request : AboutToAllow(q)' => AboutToAllow(q)
      BY <1>0, <1>a, <2>4
    <2>6. Sound(policies)' /\ Sound(stated)'
      BY <2>3 DEF Sound
    <2> QED
      BY <2>4, <2>5, <2>6, LineageParts DEF Lineage
  <1>10. ASSUME NEW o \in Command, ReadForWrite(o) PROVE Lineage'
    <2>1. PICK s \in {"done", "truncate"} : pc' = [pc EXCEPT ![o] = s]
      BY <1>10 DEF ReadForWrite, Goto
    <2>2. UNCHANGED <<ledger, policies, stated, file, matched>> /\ auto' = auto
      BY <1>10 DEF ReadForWrite, spineView
    <2>3. \A q \in Request : AboutToAllow(q)' => AboutToAllow(q)
      BY <1>0, <1>a, <2>1, <2>2
    <2>4. CASE base' = base
      BY <1>b, <2>2, <2>3, <2>4
    <2>5. CASE base' # base
      <3>1. PICK value : /\ base' = [base EXCEPT ![o] = [Parsed EXCEPT ![command[o].key] = value]]
                         /\ value = "allow-always" => command[o].key \in word'
        <4>1. /\ base' = [base EXCEPT ![o] = [Parsed EXCEPT ![command[o].key] =
                              IF command[o].decision = "remove" THEN None ELSE command[o].decision]]
              /\ word' = IF command[o].decision = "allow-always" THEN word \cup {command[o].key} ELSE word
          BY <1>10, <2>5 DEF ReadForWrite
        <4>2. "allow-always" # None
          BY ActorsAssumption DEF Decision
        <4> QED
          BY <4>1, <4>2
      <3>2. Parsed \in [Key -> Standing \cup {None}]
        BY <1>0 DEF TypeOK, Policies, Parsed, NoPolicy
      <3>3. \A k \in Key : Parsed[k] = "allow-always" => Licensed(k)'
        BY <1>0, ActorsAssumption DEF Parsed, NoPolicy, Lineage, Sound, Decision
      <3>4. value = "allow-always" => Licensed(command[o].key)'
        BY <3>1 DEF Licensed, Covers
      <3>5. \A k \in Key : [Parsed EXCEPT ![command[o].key] = value][k] = "allow-always" => Licensed(k)'
        BY <3>2, <3>3, <3>4
      <3>6. \A p \in Command, k \in Key : base'[p][k] = "allow-always" => Licensed(k)'
        BY <1>0, <3>1, <3>5 DEF Lineage, Sound
      <3>7. \A p \in Command : Sound(base[p])'
        BY <3>6 DEF Sound
      <3> QED
        BY <2>2, <2>3, <3>7, LineageParts DEF Lineage
    <2> QED
      BY <2>4, <2>5
  <1>11. ASSUME NEW o \in Command, Truncate(o) \/ Write(o) PROVE Lineage'
    <2>1. PICK s \in {"done", "write"} : pc' = [pc EXCEPT ![o] = s]
      BY <1>11 DEF Truncate, Write, Goto
    <2>2. UNCHANGED <<ledger, policies, stated, matched>> /\ auto' = auto /\ base' = base
      BY <1>11 DEF Truncate, Write, spineView, memory
    <2>3. \A q \in Request : AboutToAllow(q)' => AboutToAllow(q)
      BY <1>0, <1>a, <2>1, <2>2
    <2>4. file'.has = NoPolicy \/ file'.has = base[o]
      BY <1>11 DEF Truncate, Write
    <2>5. \A k \in Key : file'.has[k] = "allow-always" => Licensed(k)'
      <3>1. \A k \in Key : NoPolicy[k] # "allow-always"
        BY ActorsAssumption DEF NoPolicy, Decision
      <3>2. \A k \in Key : base[o][k] = "allow-always" => Licensed(k)'
        BY <1>0 DEF Lineage, Sound
      <3> QED
        BY <2>4, <3>1, <3>2
    <2>6. Sound(file.has)'
      BY <2>5 DEF Sound
    <2> QED
      BY <2>2, <2>3, <2>6, LineageParts DEF Lineage
  <1>12. ASSUME NEW a \in Actor,
                \/ a \in Request /\ (Answer(a) \/ Poll(a) \/ TimeOut(a) \/ PromoteStep(a))
                \/ a \in Command /\ (LookOpen(a) \/ MigrateLook(a) \/ StageStep(a))
                \/ Die(a)
         PROVE  Lineage'
    <2>1. UNCHANGED <<ledger, policies, stated, file, base, matched>> /\ auto' = auto
      BY <1>12 DEF Answer, Poll, TimeOut, Told, PromoteStep, CheckStage, Propose, Await, ApproveNow,
                   LookOpen, MigrateLook, StageStep, ConfirmLook, Confirm, ReleaseLook, Release,
                   RollbackLook, Rollback, Die, spineView, machine, memory
    <2>2. PICK s : s # "decide" /\ pc' = [pc EXCEPT ![a] = s]
      <3>1. CASE a \in Request /\ PromoteStep(a)
        <4>1. PICK s \in {"ask", "approve", "await", "done"} : pc' = [pc EXCEPT ![a] = s]
          BY <3>1 DEF PromoteStep, CheckStage, Propose, Await, ApproveNow, Goto
        <4> QED
          BY <4>1
      <3>2. CASE a \in Command /\ (LookOpen(a) \/ MigrateLook(a))
        <4>1. PICK s \in {"answer", "backfill", "done"} : pc' = [pc EXCEPT ![a] = s]
          BY <3>2 DEF LookOpen, MigrateLook, Goto
        <4> QED
          BY <4>1
      <3>3. CASE a \in Command /\ StageStep(a)
        <4>1. PICK s \in {"approve", "publish", "revert", "done"} : pc' = [pc EXCEPT ![a] = s]
          BY <3>3 DEF StageStep, ConfirmLook, Confirm, ReleaseLook, Release, RollbackLook, Rollback, Goto
        <4> QED
          BY <4>1
      <3>4. CASE Die(a) \/ (a \in Request /\ (Answer(a) \/ Poll(a) \/ TimeOut(a)))
        BY <3>4 DEF Die, Answer, Poll, TimeOut, Told, Goto
      <3> QED
        BY <1>12, <3>1, <3>2, <3>3, <3>4
    <2> QED
      BY <1>a, <1>b, <2>1, <2>2
  <1>13. CASE UNCHANGED vars
    <2>1. UNCHANGED <<ledger, policies, stated, file, base, matched>> /\ auto' = auto /\ pc' = pc
      BY <1>13 DEF vars, approvalVars, spineView, machine, memory
    <2> QED
      BY <1>b, <2>1 DEF AboutToAllow
  <1> QED
    BY <1>0, <1>1, <1>3, <1>4, <1>6, <1>7, <1>8, <1>9, <1>10, <1>11, <1>12, <1>13, StepCases
       DEF RequestStep, CommandStep

\* What a policy allows without being asked goes back to an operator's word on that tool
\* and lane, unless a second allow-always widened a policy to all lanes of its tool.
THEOREM AllowTracesAlways == Spec => []AllowTraces
  <1>1. Init => Lineage
    <2> SUFFICES ASSUME Init PROVE Lineage
      OBVIOUS
    <2>1. Base
      BY BaseInit
    <2>2. /\ ledger = <<>> /\ stated = policies
          /\ word = {k \in Key : policies[k] = "allow-always" \/ file.has[k] = "allow-always"}
          /\ matched = [r \in Request |-> None] /\ auto = [r \in Request |-> None]
          /\ base = [o \in Command |-> NoPolicy]
          /\ \A r \in Request : pc[r] \in {"start", "ask", "absent"}
      BY ActorsAssumption DEF Init, FirstStep, Actor
    <2>3. \A k \in Key : Covers(k, k)
      BY DEF Covers
    <2>4. Sound(policies) /\ Sound(stated) /\ Sound(file.has)
      BY <2>2, <2>3 DEF Sound, Licensed
    <2>5. \A o \in Command : Sound(base[o])
      BY <2>2, ActorsAssumption DEF Sound, NoPolicy, Decision
    <2>6. \A r \in Request : matched[r] # "allow-always" /\ ~ AboutToAllow(r)
      BY <2>2, ActorsAssumption DEF AboutToAllow, Decision
    <2>7. AllowTraces
      BY <2>2 DEF AllowTraces
    <2> QED
      BY <2>4, <2>5, <2>6, <2>7 DEF Lineage
  <1>2. Lineage => AllowTraces
    BY DEF Lineage
  <1> QED
    BY <1>1, <1>2, BaseAlways, LineageStep, PTL DEF Spec
=============================================================================
