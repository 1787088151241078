------------------------------- MODULE MCSpine -------------------------------
(* Small instances of Spine for TLC. *)
EXTENDS Spine

OldLine(e, prev, s) == [id |-> e, prev |-> prev, seg |-> s, dir |-> "flat", end |-> "whole"]

\* An empty spine, and one of two segments.
EmptyLog == <<>>
TwoSegs  == <<OldLine("old1", NoLine, 1), OldLine("old2", "old1", 2)>>

EmptyOrTwo == {EmptyLog, TwoSegs}
OnlyTwo    == {TwoSegs}

\* Who is absent.  Two inits, of which one may die, beside two appends, or beside a stamp; one
\* init, which may die, beside a writer that may die and another writer, a stamp or a reader; an
\* init that may die and one that may fail to write the marker, beside a reader or a third init.
OneScene    == {{}}
SevenScenes == {{"w3", "i3", "s1", "r1"}, {"w1", "w2", "w3", "i3", "r1"},
                {"w1", "i2", "i3", "s1", "r1"}, {"w1", "w2", "i2", "i3", "r1"},
                {"w1", "w2", "i2", "i3", "s1"}, {"w1", "w2", "w3", "i2", "s1"},
                {"w1", "w2", "w3", "s1", "r1"}}

\* For liveness: three inits, of which two may die; two of them beside an append; one beside two
\* appends, of which one may die.
ThreeScenes == {{"w1", "w2"}, {"w1", "i3"}, {"i1", "i3"}}
=============================================================================
