---- MODULE MCSyncPush ----
(* Two rows, two devices (nodes 1 and 2), D1 batches of one statement. *)
EXTENDS SyncPush

CONSTANTS r1, r2, absent, omitted

MCRows == {r1, r2}

LOCAL At(sec, wall, counter, node, val, del) ==
    [ua |-> [day |-> 0, iso |-> 0, sec |-> sec],
     hlc |-> [wall |-> wall, counter |-> counter, node |-> node],
     val |-> val, del |-> del]
LOCAL Pair(x, y) == [k \in MCRows |-> IF k = r1 THEN x ELSE y]

\* Clocks that differ in the wall part, in the counter and in the node only;
\* a tombstone between two edits; a batch that loses on one row and wins on
\* the other; a low clock on a row written late.
MCOffered == {
    Pair(At(1, 1, 0, 1, "a", FALSE), At(1, 1, 1, 1, "a", FALSE)),
    Pair(At(2, 2, 0, 2, "b", FALSE), omitted),
    Pair(At(3, 2, 0, 1, "a", TRUE),  At(1, 1, 0, 2, "b", FALSE)),
    Pair(At(9, 1, 0, 2, "b", FALSE), omitted),
    Pair(omitted, At(2, 3, 0, 2, "b", TRUE)),
    Pair(At(3, 2, 1, 1, "a", FALSE), At(3, 2, 2, 1, "a", FALSE)) }

\* Rows written before protocol 2: an old one and one from the future.
MCLegacyRows == {
    [ua |-> [day |-> 0, iso |-> 0, sec |-> n], hlc |-> NoHlc, val |-> "a", del |-> FALSE] : n \in {1, 7}}
====
