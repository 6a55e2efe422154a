---- MODULE HybridClock ----
(***************************************************************************)
(* The hybrid logical clock of services/sync_hlc/funcs.py and its Worker   *)
(* twin sync_push/hlc.ts.  A clock is (wall, counter, node); node ids are  *)
(* naturals, 0 standing for the empty node of the legacy synthesis.        *)
(***************************************************************************)
LOCAL INSTANCE Naturals

Hlc == [wall : Nat, counter : Nat, node : Nat]

\* parse_hlc(...) = None: an absent or unreadable clock. It sorts below
\* every clock a device stamps, exactly as "no stored clock" does.
NoHlc == [wall |-> 0, counter |-> 0, node |-> 0]

\* compareHlc(a, b) < 0, and the tuple comparison of the desktop.
HlcLess(a, b) ==
    \/ a.wall < b.wall
    \/ a.wall = b.wall /\ a.counter < b.counter
    \/ a.wall = b.wall /\ a.counter = b.counter /\ a.node < b.node

HlcLeq(a, b) == a = b \/ HlcLess(a, b)

\* Mutant of Stamp: the persisted clock is ignored.
StampWallOnly(last, wall, node, i) == [wall |-> wall, counter |-> i - 1, node |-> node]

\* Mutant of Stamp: a default node id.
StampNoNode(last, wall, node, i) ==
    IF wall > last.wall
    THEN [wall |-> wall, counter |-> i - 1, node |-> 0]
    ELSE [wall |-> last.wall, counter |-> last.counter + i, node |-> 0]

\* hlc_now called i times in a row against the persisted clock `last`: the
\* first call takes the wall clock if it is ahead, every other call counts.
Stamp(last, wall, node, i) ==
    IF wall > last.wall
    THEN [wall |-> wall, counter |-> i - 1, node |-> node]
    ELSE [wall |-> last.wall, counter |-> last.counter + i, node |-> node]
====
