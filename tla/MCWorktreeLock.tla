---------------------------- MODULE MCWorktreeLock ----------------------------
(* Small instances of WorktreeLock for TLC. *)
EXTENDS WorktreeLock

\* Every call in a process of its own.
OneEach == [c \in Call |-> c]
SameHost == [p \in Process |-> 0]
=============================================================================
