----------------------------- MODULE MCApprovals -----------------------------
(* Small instances of Promotion for TLC. *)
EXTENDS Promotion, TLC

Asks(kind, tool, lane) == [kind |-> kind, tool |-> tool, lane |-> lane]
\* The tool of a promotion names its step, as its request does.
Promoting(from, to, waits) ==
    [kind |-> "promote", tool |-> from, lane |-> Wild, from |-> from, to |-> to, waits |-> waits]

Asking ==
    "g1" :> Asks("gate", "t", "a") @@
    "g2" :> Asks("gate", "t", "b") @@
    "q1" :> Asks("once", "t", "a") @@
    "p1" :> Promoting("experiment", "candidate", FALSE) @@
    "p2" :> Promoting("experiment", "candidate", TRUE) @@
    "p3" :> Promoting("candidate", "canary", TRUE) @@
    "p4" :> Promoting("candidate", "canary", FALSE) @@
    "p5" :> Promoting("canary", "released", TRUE)

Answering(r, decision) == [kind |-> "respond", of |-> r, decision |-> decision]
Setting(kind, tool, lane, decision) == [kind |-> kind, key |-> <<tool, lane>>, decision |-> decision]

Commands ==
    "deny1"    :> Answering("g1", "deny") @@
    "always1"  :> Answering("g1", "allow-always") @@
    "once2"    :> Answering("g2", "allow-once") @@
    "never2"   :> Answering("g2", "deny-always") @@
    "allowA"   :> Setting("policy", "t", "a", "allow-always") @@
    "denyAll"  :> Setting("policy", Wild, Wild, "deny") @@
    "clearA"   :> Setting("policy", "t", "a", "clear") @@
    "saveT"    :> Setting("global", "t", Wild, "allow-always") @@
    "saveB"    :> Setting("global", Wild, "b", "deny") @@
    "removeT"  :> Setting("global", "t", Wild, "remove") @@
    "migrate"  :> [kind |-> "migrate"] @@
    "no2"      :> Answering("p2", "deny") @@
    "yes3"     :> Answering("p3", "allow-once") @@
    "yes4"     :> Answering("p4", "allow-once") @@
    "yes5"     :> Answering("p5", "allow-once") @@
    "confirm4" :> [kind |-> "confirm", of |-> "p4"] @@
    "release"  :> [kind |-> "release"] @@
    "rollback" :> [kind |-> "rollback", to |-> "experiment"]

Pol(keys, decision) == [k \in Key |-> IF k \in keys THEN decision ELSE None]

Scene(actors, pols, globs, st, rel) ==
    [actors |-> actors, policies |-> pols, globals |-> globs, stage |-> st, released |-> rel]

\* Two gates of one tool on two lanes, answered while policies come and go.
GateScenes ==
    {Scene({"g1", "g2"} \cup ops, pols, NoPolicy, "experiment", FALSE) :
        pols \in {NoPolicy, Pol({<<"t", "a">>}, "allow-always")},
        ops \in {{"deny1", "always1", "clearA"}, {"once2", "never2", "allowA"}, {"always1", "migrate", "denyAll"}}}

\* The machine's policies, written by three commands, while gates read them.
MachineScenes ==
    {Scene({"g1", "g2", "saveT", "saveB", "removeT"}, NoPolicy, Pol({<<Wild, "a">>}, "deny"), "experiment", FALSE),
     Scene({"q1", "g2", "saveT", "clearA"}, Pol({<<"t", "a">>}, "allow-always"), NoPolicy, "experiment", FALSE)}

\* Promotions of one checkpoint: proposed together and rolled back, confirmed or
\* migrated, and released.
PromotionScenes ==
    {Scene({"p1", "p2", "p3", "no2", "yes3", "rollback"}, Pol({<<"experiment", Wild>>}, "allow-always"), NoPolicy, "experiment", TRUE),
     Scene({"p3", "p4", "yes3", "yes4", "confirm4", "migrate"}, Pol({<<Wild, Wild>>}, "allow-always"), NoPolicy, "candidate", FALSE),
     Scene({"p5", "yes5", "migrate", "release", "rollback"}, Pol({<<"canary", Wild>>}, "allow-always"), NoPolicy, "canary", FALSE)}

AllScenes == GateScenes \cup MachineScenes \cup PromotionScenes
=============================================================================
