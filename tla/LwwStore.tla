---- MODULE LwwStore ----
(***************************************************************************)
(* What docs/CRDT_DESIGN.md (section 2) promises of the org's cloud copy:  *)
(* "higher HLC wins, whether it is an update or a tombstone".  A stored    *)
(* row is only ever replaced by one with a higher clock, and a change is   *)
(* acknowledged only when the store already holds it or a higher one.      *)
(***************************************************************************)
EXTENDS HybridClock

CONSTANTS Rows, NoRow

VARIABLES store,   \* [Rows -> stored row or NoRow]
          acked    \* <<row, change>> pairs a device was told are stored

Covered(s, a) == s # NoRow /\ HlcLeq(a.hlc, s.hlc)

Improves(old, new) == new # NoRow /\ (old = NoRow \/ HlcLess(old.hlc, new.hlc))

\* The store may start with unclocked rows of protocol 1.
Init == acked = {} /\ \A k \in Rows : store[k] = NoRow \/ store[k].hlc = NoHlc

Next ==
    /\ \A k \in Rows : store'[k] = store[k] \/ Improves(store[k], store'[k])
    /\ acked \subseteq acked'
    /\ \A a \in acked' \ acked : Covered(store'[a[1]], a[2])

Spec == Init /\ [][Next]_<<store, acked>>

\* Nothing a device was told is stored is ever behind that change.
AckedCovered == \A a \in acked : Covered(store[a[1]], a[2])
====
