---- MODULE PullDelivery ----
(***************************************************************************)
(* What the pull cursor promises.  DataSync with a history of what the     *)
(* Worker owes each desktop: changes of other desktops, stored past its    *)
(* pull cursor while none of its pulls had read a page.  Changes stored    *)
(* beside a pull, or behind the cursor (a writer's late push, the text of  *)
(* the Worker's clock against that of a row), are not owed: they may be    *)
(* skipped, as MissingAheadOfCursor of DataSyncClaims shows.               *)
(***************************************************************************)
EXTENDS DataSync

VARIABLE owed    \* owed[d]: the rows whose stored change is owed to d
deliveryVars == <<vars, owed>>

DeliveryInit == Init /\ owed = [d \in Devices |-> {}]

\* A session of d has asked for its first page.
Reading(d) ==
    /\ sess[d].pc # "idle" /\ sess[d].mode # "push"
    /\ ~ (sess[d].pc = "pull" /\ sess[d].pages = 0)

Written == {k \in Rows : server'[k] # server[k]}

BecomesOwed(d, k) ==
    /\ server'[k].hlc.node # d
    /\ ~ Reading(d)
    /\ TextLess(lastPull[d], server'[k].ua)

WorkerWrites(s) ==
    /\ Worker(s)
    /\ owed' = [d \in Devices |-> (owed[d] \ Written) \cup {k \in Written : BecomesOwed(d, k)}]

\* What a page settles for d: the changes on it; those that share the time
\* of its last row, which the next page, read from after that time, leaves
\* out; and at the page limit all that is left.
Settled(d) ==
    LET page == sess[d].page
    IN {k \in Rows :
          \/ page[k] = server[k]
          \/ server[k] # NoRow /\ server[k].ua \in LastOf(page, OnPage(page))
          \/ Cardinality(OnPage(page)) = PullPageSize /\ sess[d].pages = MaxPages}

PageArrives(d) ==
    /\ PullApply(d)
    /\ owed' = [owed EXCEPT ![d] = @ \ Settled(d)]

OtherSessionStep(d) ==
    \/ Start(d) \/ Abort(d) \/ PullRead(d)
    \/ NothingToPush(d) \/ PushCollect(d) \/ PushRetry(d) \/ PushAnswer(d)
    \/ Finish(d) \/ GiveUp(d)

OtherStep ==
    /\ \/ Tick \/ UserStep
       \/ \E d \in Devices : OtherSessionStep(d)
       \/ \E s \in Slots : Drop(s)
    /\ UNCHANGED owed

DeliveryNext ==
    \/ OtherStep
    \/ \E d \in Devices : PageArrives(d)
    \/ \E s \in Slots : WorkerWrites(s)

DeliverySpec == DeliveryInit /\ [][DeliveryNext]_deliveryVars

----------------------------------------------------------------------------
\* A change that is owed to a desktop stays ahead of its pull cursor until a
\* page brings it: whichever sessions push, fail, stop half-way or end at a
\* short page, none moves the cursor past what it has not pulled.
OwedStaysAhead ==
    \A d \in Devices : \A k \in owed[d] : TextLess(lastPull[d], server[k].ua)
====
