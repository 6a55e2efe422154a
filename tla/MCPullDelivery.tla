---- MODULE MCPullDelivery ----
(* Two devices, the first with a fast clock; it creates both rows. *)
EXTENDS PullDelivery, TLC

CONSTANTS r1, r2, va, vb, s1, s2

MCOwner == [k \in Rows |-> 1]
FastFirst == [d \in Devices |-> IF d = 1 THEN 1 ELSE 0]
Alike == Permutations(Values) \cup Permutations(Slots)
====
