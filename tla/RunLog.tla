------------------------------- MODULE RunLog -------------------------------
(***************************************************************************)
(* What the execution store promises of a run (the contract at the head of  *)
(* runtime/execution/store.mjs): a log that only grows, by one event at a   *)
(* time, that begins with its one RUN_STARTED, holds one event of a type    *)
(* for an operation, and ends with a terminal event.                        *)
(***************************************************************************)
EXTENDS Integers, Sequences, SequencesExt

CONSTANTS
    Start,      \* the type of a run's first event
    Terminal,   \* the types of its last
    Keyed       \* the types that carry an operation

VARIABLE log

Admits(e) ==
    /\ (log = <<>>) <=> (e.type = Start)
    /\ \A i \in DOMAIN log : log[i].type \notin Terminal
    /\ e.type \in Keyed =>
          \A i \in DOMAIN log : log[i].type = e.type => log[i].of # e.of

Grows ==
    /\ Len(log') = Len(log) + 1
    /\ IsPrefix(log, log')
    /\ Admits(Last(log'))

Spec == [][Grows]_log
=============================================================================
