-------------------------- MODULE MCFixedMemoryTree --------------------------
(* Small instances of FixedMemoryTree for TLC. *)
EXTENDS FixedMemoryTree

CONSTANTS c1, c2, p1, p2

\* A node that carries values or watches, with two nodes below it.
MCPath == {<<"a">>, <<"a", "b">>, <<"a", "c">>}
MCWatchPath == {<<"a">>}

\* Two publishers of one client and one of another.
MCOwner == {[data1 |-> c1, data2 |-> p1], [data1 |-> c1, data2 |-> p2],
            [data1 |-> c2, data2 |-> p1]}
MCWatcher == {[data1 |-> c1, data2 |-> p1], [data1 |-> c2, data2 |-> p1]}
==============================================================================
