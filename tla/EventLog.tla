------------------------------- MODULE EventLog -------------------------------
(***************************************************************************)
(* What the spine promises its callers: one log of events that only grows   *)
(* at its end, where every event occurs once, and an append() that has      *)
(* returned is in it for good.  Streams, segments, locks, migration and     *)
(* crashes do not occur here.                                               *)
(***************************************************************************)
EXTENDS Sequences, Integers

CONSTANT Event

VARIABLES log, acked

Logged == {log[i] : i \in DOMAIN log}

Init ==
    /\ log \in Seq(Event)
    /\ \A i, j \in DOMAIN log : log[i] = log[j] => i = j
    /\ acked = {}

Store(e) ==
    /\ e \notin Logged
    /\ log' = Append(log, e)
    /\ UNCHANGED acked

Acknowledge(e) ==
    /\ e \in Logged \ acked
    /\ acked' = acked \cup {e}
    /\ UNCHANGED log

Next == \E e \in Event : Store(e) \/ Acknowledge(e)

Spec == Init /\ [][Next]_<<log, acked>>
=============================================================================
