---- MODULE HybridClock_proofs ----
(***************************************************************************)
(* What the merge relies on: clocks are totally ordered, a stamp is above  *)
(* everything the device has seen, and no two stamps of a device agree.    *)
(***************************************************************************)
EXTENDS HybridClock, Integers, TLAPS

\* "Compare: tuple (wall_ms, counter, node) -- total order, no ties ever".
THEOREM HlcTotal ==
    ASSUME NEW a \in Hlc, NEW b \in Hlc
    PROVE  HlcLess(a, b) \/ a = b \/ HlcLess(b, a)
BY DEF Hlc, HlcLess

THEOREM HlcIrreflexive ==
    ASSUME NEW a \in Hlc
    PROVE  ~ HlcLess(a, a)
BY DEF Hlc, HlcLess

THEOREM HlcTransitive ==
    ASSUME NEW a \in Hlc, NEW b \in Hlc, NEW c \in Hlc, HlcLess(a, b), HlcLess(b, c)
    PROVE  HlcLess(a, c)
BY DEF Hlc, HlcLess

\* The mixed form in which the invariants use it.
LEMMA HlcLeqLess ==
    ASSUME NEW a \in Hlc, NEW b \in Hlc, NEW c \in Hlc, HlcLeq(a, b), HlcLess(b, c)
    PROVE  HlcLess(a, c) /\ a # c
BY DEF Hlc, HlcLess, HlcLeq

LEMMA HlcLeqTransitive ==
    ASSUME NEW a \in Hlc, NEW b \in Hlc, NEW c \in Hlc, HlcLeq(a, b), HlcLeq(b, c)
    PROVE  HlcLeq(a, c)
BY DEF Hlc, HlcLess, HlcLeq

LEMMA NoHlcLowest ==
    ASSUME NEW a \in Hlc
    PROVE  HlcLeq(NoHlc, a) /\ NoHlc \in Hlc
BY DEF Hlc, HlcLess, HlcLeq, NoHlc

\* hlc_now: every stamp is a clock of this device above the persisted one,
\* also when the wall clock is behind.
THEOREM StampAboveLast ==
    ASSUME NEW last \in Hlc, NEW wall \in Nat, NEW node \in Nat, NEW i \in Nat \ {0}
    PROVE  /\ Stamp(last, wall, node, i) \in Hlc
           /\ Stamp(last, wall, node, i).node = node
           /\ HlcLess(last, Stamp(last, wall, node, i))
BY DEF Hlc, HlcLess, Stamp

\* Successive stamps of one collect are strictly increasing.
THEOREM StampIncreasing ==
    ASSUME NEW last \in Hlc, NEW wall \in Nat, NEW node \in Nat,
           NEW i \in Nat \ {0}, NEW j \in Nat \ {0}, i < j
    PROVE  HlcLess(Stamp(last, wall, node, i), Stamp(last, wall, node, j))
BY DEF Hlc, HlcLess, Stamp
====
