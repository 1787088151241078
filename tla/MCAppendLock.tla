----------------------------- MODULE MCAppendLock -----------------------------
(* Small instances of AppendLock for TLC. *)
EXTENDS AppendLock

\* Every call in a process of its own.
OneEach == [c \in Call |-> c]
TwoHosts == [p \in Process |-> IF p = 1 THEN 1 ELSE 0]
=============================================================================
