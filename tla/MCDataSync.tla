---- MODULE MCDataSync ----
(* Two devices; device 1 creates r1, device 2 creates r2. *)
EXTENDS DataSyncClaims, TLC

CONSTANTS r1, r2, va, vb

MCOwner == [k \in Rows |-> IF k = r1 THEN 1 ELSE 2]
NoSkew == [d \in Devices |-> 0]
FastFirst == [d \in Devices |-> IF d = 1 THEN 1 ELSE 0]
ValueSym == Permutations(Values)
====
