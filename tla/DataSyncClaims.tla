---- MODULE DataSyncClaims ----
(***************************************************************************)
(* What docs/CRDT_DESIGN.md says of data sync where the code does          *)
(* something else.  Each is checked alone, by a run that expects TLC to    *)
(* refute it.                                                              *)
(***************************************************************************)
EXTENDS DataSync

AppliedOn(d, k) == PullApply(d) /\ sess[d].page[k] # NoRow

\* "Higher HLC wins, whether it is an update or a tombstone": a stored row
\* is never replaced by one with a lower clock, whoever pushes.
HigherClockWins ==
    [][\A k \in Rows : server[k] # NoRow => HlcLeq(server[k].hlc, server'[k].hlc)]_vars

\* "Late delete wins; early delete loses to a later edit": a pulled
\* tombstone does not delete a row that the user has written since.
EarlyDeleteLoses ==
    [][\A d \in Devices, k \in Rows :
        AppliedOn(d, k) /\ Live(d, k) /\ ~ rows[d][k].del /\ rows'[d][k].del
            => Epoch(rows[d][k].ua) <= Epoch(sess[d].page[k].ua)]_vars

\* "Deterministic convergence": a row the Worker holds and an idle device
\* does not is still ahead of that device's pull cursor, so a later pull
\* returns it.
Known(d, k) ==
    /\ Live(d, k)
    /\ \/ HlcLeq(server[k].hlc, LocalClock(rows[d][k]))
       \/ rows[d][k] = [server[k] EXCEPT !.hlc = rows[d][k].hlc]
MissingAheadOfCursor ==
    \A d \in Devices, k \in Rows :
        sess[d].pc = "idle" /\ server[k] # NoRow /\ ~ server[k].del
            => Known(d, k) \/ TextLess(lastPull[d], server[k].ua)
====
