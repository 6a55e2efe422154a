---- MODULE Licensing_proofs ----
(***************************************************************************)
(* What holds of activation codes for any machines, packages, activations  *)
(* at once and bounds: a purge loses no license and keeps the row and the  *)
(* burn of one that a machine runs on, a re-signed key is burned, a local  *)
(* burn is a burn of the Worker or of an archived license, and a code is   *)
(* claimed again only for a reason.                                        *)
(***************************************************************************)
EXTENDS Licensing, TLAPS

\* A purge deletes what it has archived, and prunes the burns of what it has
\* deleted.
PurgeOrder ==
    /\ purge.chosen \subseteq 1..last
    /\ purge.pc \in {"rows", "burns"} => purge.chosen \subseteq archived
    /\ purge.pc = "burns" => \A r \in rows : r.id \notin purge.chosen

RowsIssued == \A r \in rows : r.id <= last

\* A handler looks at the row of its code.
OwnRow ==
    \A s \in Slots : req[s] # NoRequest =>
        \A o \in req[s].row : RowNonce(o) = Nonce(req[s].text)

\* Whoever is told that the claim stands has a code that is burned.
AnsweredBurned ==
    \A s \in Slots : req[s].pc \in {"replied", "mark"} =>
        Nonce(req[s].text) \in used \/ req[s].text.id \in archived

IInv == /\ TypeOK /\ PurgeOrder /\ RowsIssued /\ OwnRow /\ AnsweredBurned
        /\ ResignedIsBurned /\ NothingLost /\ LocalBurns

USE LicensingAssumption

LEMMA RequestType ==
    ASSUME TypeOK, NEW s \in Slots, req[s] # NoRequest
    PROVE  req[s] \in Requests
BY DEF TypeOK

LEMMA NoRequestIdle == NoRequest.pc = "idle" /\ \A q \in Requests : q # NoRequest /\ q.pc \in Steps
BY DEF NoRequest, Requests, Steps

LEMMA ResignedType ==
    ASSUME NEW r \in Rows, NEW d \in Nat, now \in Nat
    PROVE  Resigned(r, d) \in Texts
BY DEF Resigned, Rows, Texts, Expiries

\* The batch of a claim re-signs keys and leaves the rows otherwise alone.
LEMMA RowsKept ==
    ASSUME TypeOK, NEW s \in Slots, req[s] # NoRequest
    PROVE  /\ RowsResigned(s) \subseteq Rows
           /\ \A r \in RowsResigned(s) : \E q \in rows :
                 /\ q.id = r.id /\ q.days = r.days /\ q.issued = r.issued
                 /\ r = q \/ \E o \in req[s].row : o.id = r.id
           /\ \A q \in rows : \E r \in RowsResigned(s) : r.id = q.id
<1> DEFINE d == req[s].existing
           hit(r) == \E o \in req[s].row : o.id = r.id /\ o.days # 0
           new(r) == IF hit(r) THEN [r EXCEPT !.key = Resigned(r, d)] ELSE r
<1>1. d \in Nat /\ now \in Nat
  BY RequestType DEF TypeOK, Requests
<1>2. ASSUME NEW r \in rows
      PROVE  /\ new(r) \in Rows /\ new(r).id = r.id /\ new(r).days = r.days
             /\ new(r).issued = r.issued /\ (new(r) = r \/ hit(r))
  <2>1. r \in Rows
    BY DEF TypeOK
  <2>2. Resigned(r, d) \in Texts
    BY <1>1, <2>1, ResignedType
  <2> QED BY <2>1, <2>2 DEF Rows
<1>3. RowsResigned(s) = {new(r) : r \in rows}
  BY DEF RowsResigned
<1> HIDE DEF new, d
<1> QED BY <1>2, <1>3

LEMMA InitIInv == Init => IInv
BY DEF Init, IInv, TypeOK, PurgeOrder, RowsIssued, OwnRow, AnsweredBurned, ResignedIsBurned,
       NothingLost, LocalBurns, NoPurge, NoRequest, Ids

LEMMA StepTypeOK == TypeOK /\ [Next]_vars => TypeOK'
<1> SUFFICES ASSUME TypeOK, [Next]_vars PROVE TypeOK'
  OBVIOUS
<1> USE DEF tables, history, desktop, Activating
<1>1. ASSUME NEW m \in Machines, NEW d \in Packages, Generate(m, d) PROVE TypeOK'
  <2> DEFINE code(k) == [id |-> last + 1, kind |-> k, mid |-> m, exp |-> Deadline(d, now)]
  <2>1. last + 1 \in Ids /\ last' \in 0..MaxIssues /\ Deadline(d, now) \in Expiries /\ now \in Nat
    BY <1>1 DEF Generate, TypeOK, Ids, Deadline, Expiries, Window
  <2>2. \A k \in Kinds : code(k) \in Texts
    BY <2>1 DEF Texts
  <2>3. rows' \subseteq Rows
    BY <1>1, <2>1, <2>2 DEF Generate, TypeOK, Rows, Kinds
  <2>4. texts' \subseteq Texts
    BY <1>1, <2>2 DEF Generate, TypeOK
  <2> QED BY <1>1, <2>1, <2>3, <2>4 DEF Generate, TypeOK
<1>2. ASSUME NEW m \in Machines, Ban(m) \/ Unban(m) PROVE TypeOK'
  BY <1>2 DEF Ban, Unban, Owner, TypeOK
<1>3. ASSUME NEW n \in Issued, Revoke(n) \/ Unrevoke(n) \/ MarkUsed(n) \/ RevokePc(n) PROVE TypeOK'
  BY <1>3 DEF Revoke, Unrevoke, MarkUsed, RevokePc, Owner, Issued, TypeOK
<1>4. ASSUME NEW a \in PurgeAges, PurgeSelect(a) PROVE TypeOK'
  <2>1. {r.id : r \in {r \in rows : Candidate(r, a)}} \subseteq Ids
    BY DEF TypeOK, Rows
  <2> QED BY <1>4, <2>1 DEF PurgeSelect, TypeOK
<1>5. CASE PurgeArchive \/ PurgeRows \/ PurgeFails
  BY <1>5 DEF PurgeArchive, PurgeRows, PurgeFails, Purging, NoPurge, TypeOK
<1>6. CASE PurgeBurns
  <2>1. {<<i, "license">> : i \in purge.chosen} \subseteq Nonces
    BY DEF TypeOK, Nonces, Kinds
  <2> QED BY <1>6, <2>1 DEF PurgeBurns, Purging, NoPurge, TypeOK
<1>7. CASE Tick
  BY <1>7 DEF Tick, TypeOK
<1>8. ASSUME NEW s \in Slots, NEW m \in Machines, NEW t \in texts \cup saved[m], Send(s, m, t)
      PROVE  TypeOK'
  <2>1. PICK d \in (IF Remaining(m) = {} THEN {0} ELSE Remaining(m)) :
             req' = [req EXCEPT ![s] =
                      [pc |-> "check", text |-> t, waiting |-> TRUE,
                       existing |-> d, repair |-> t \in saved[m],
                       row |-> {}, reply |-> "none", key |-> {}]]
    BY <1>8 DEF Send
  <2>2. t \in Texts
    BY DEF TypeOK
  <2>3. d \in Nat
    BY DEF Remaining, TypeOK, Texts, Expiries
  <2>4. [pc |-> "check", text |-> t, waiting |-> TRUE, existing |-> d, repair |-> t \in saved[m],
         row |-> {}, reply |-> "none", key |-> {}] \in Requests
    BY <2>2, <2>3 DEF Requests, Steps, Replies
  <2>5. req' \in [Slots -> Requests \cup {NoRequest}]
    BY <2>1, <2>4 DEF TypeOK
  <2>6. burned' \in [Machines -> SUBSET Nonces]
    BY <1>8 DEF Send, TypeOK
  <2> QED BY <1>8, <2>5, <2>6 DEF Send, TypeOK
<1>9. ASSUME NEW s \in Slots, req[s] # NoRequest,
             req' = [req EXCEPT ![s] = NoRequest]
      PROVE  req' \in [Slots -> Requests \cup {NoRequest}]
  BY <1>9 DEF TypeOK
<1>10. ASSUME NEW s \in Slots, req[s] # NoRequest, NEW answer \in Replies, NEW key \in SUBSET Texts,
              Reply(s, answer, key) \/ ReplyError(s)
       PROVE  req' \in [Slots -> Requests \cup {NoRequest}]
  <2>1. req[s] \in Requests
    BY <1>10, RequestType
  <2>2. [req[s] EXCEPT !.pc = "replied", !.row = {}, !.existing = 0, !.reply = answer, !.key = key,
                       !.repair = req[s].repair /\ answer = "used"] \in Requests
    BY <2>1 DEF Requests, Steps
  <2>3. CASE ReplyError(s)
    BY <2>3 DEF ReplyError, TypeOK
  <2> DEFINE answered == [req[s] EXCEPT !.pc = "replied", !.row = {}, !.existing = 0,
                             !.reply = answer, !.key = key,
                             !.repair = req[s].repair /\ answer = "used"]
  <2>4. CASE Reply(s, answer, key)
    <3>1. req' = [req EXCEPT ![s] = IF req[s].waiting THEN answered ELSE NoRequest]
      BY <2>4 DEF Reply
    <3> HIDE DEF answered
    <3> QED BY <3>1, <2>2 DEF answered, TypeOK
  <2> QED BY <1>10, <2>3, <2>4
<1>11. ASSUME NEW s \in Slots, Check(s) PROVE TypeOK'
  <2>1. req[s] # NoRequest
    BY <1>11, NoRequestIdle DEF Check
  <2>2. [req[s] EXCEPT !.pc = "row"] \in Requests
    BY <2>1, RequestType DEF Requests, Steps
  <2>3. req' \in [Slots -> Requests \cup {NoRequest}]
    BY <1>11, <1>9, <2>1, <2>2 DEF Check, ReplyError, TypeOK
  <2> QED BY <1>11, <2>3 DEF Check, TypeOK
<1>12. ASSUME NEW s \in Slots, ReadRow(s) PROVE TypeOK'
  <2>1. req[s] \in Requests
    BY <1>12, NoRequestIdle, RequestType DEF ReadRow
  <2>2. [req[s] EXCEPT !.pc = "used", !.row = {r \in rows : RowNonce(r) = Nonce(req[s].text)}]
           \in Requests
    BY <2>1 DEF Requests, Steps, TypeOK
  <2>3. req' \in [Slots -> Requests \cup {NoRequest}]
    BY <1>12, <2>2 DEF ReadRow, TypeOK
  <2> QED BY <1>12, <2>3 DEF ReadRow, TypeOK
<1>13. ASSUME NEW s \in Slots, ReadUsed(s) PROVE TypeOK'
  <2>1. req[s] # NoRequest /\ req[s] \in Requests
    BY <1>13, NoRequestIdle, RequestType DEF ReadUsed
  <2>2. [req[s] EXCEPT !.pc = "apply"] \in Requests
    BY <2>1 DEF Requests, Steps
  <2>3. req' \in [Slots -> Requests \cup {NoRequest}]
    BY <1>13, <1>10, <2>1, <2>2 DEF ReadUsed, TypeOK, Replies
  <2>4. Nonce(req[s].text) \in Nonces
    BY <2>1 DEF Nonce, Nonces, Requests, Texts
  <2> QED BY <1>13, <2>3, <2>4 DEF ReadUsed, TypeOK
<1>14. ASSUME NEW s \in Slots, Apply(s) PROVE TypeOK'
  <2>1. req[s] # NoRequest /\ req[s] \in Requests
    BY <1>14, NoRequestIdle, RequestType DEF Apply
  <2>2. {Resigned(o, req[s].existing) : o \in req[s].row} \subseteq Texts
    BY <2>1, ResignedType DEF Requests, TypeOK
  <2>3. req' \in [Slots -> Requests \cup {NoRequest}]
    BY <1>14, <1>10, <2>1, <2>2 DEF Apply, Replies
  <2>4. Nonce(req[s].text) \in Nonces
    BY <2>1 DEF Nonce, Nonces, Requests, Texts
  <2>5. rows' \subseteq Rows
    BY <1>14, <2>1, RowsKept DEF Apply
  <2> QED BY <1>14, <2>3, <2>4, <2>5 DEF Apply, TypeOK
<1>15. ASSUME NEW s \in Slots, HandlerFails(s) PROVE TypeOK'
  BY <1>15 DEF HandlerFails, ReplyError, TypeOK
<1>16. ASSUME NEW s \in Slots, Receive(s) PROVE TypeOK'
  <2>1. req[s] \in Requests
    BY <1>16, NoRequestIdle, RequestType DEF Receive
  <2>2. [req[s] EXCEPT !.pc = "mark", !.repair = FALSE, !.reply = "none", !.key = {}] \in Requests
    BY <2>1 DEF Requests, Steps, Replies
  <2>3. ToSave(req[s]) \in SUBSET Texts
    BY <2>1 DEF ToSave, Requests
  <2>4. req' \in [Slots -> Requests \cup {NoRequest}]
    BY <1>16, <2>2 DEF Receive, TypeOK
  <2>5. saved' \in [Machines -> SUBSET Texts]
    BY <1>16, <2>3 DEF Receive, TypeOK
  <2> QED BY <1>16, <2>4, <2>5 DEF Receive, TypeOK
<1>17. ASSUME NEW s \in Slots, Mark(s) PROVE TypeOK'
  <2>1. req[s] \in Requests
    BY <1>17, NoRequestIdle, RequestType DEF Mark
  <2>2. Nonce(req[s].text) \in Nonces
    BY <2>1 DEF Nonce, Nonces, Requests, Texts
  <2> QED BY <1>17, <2>2 DEF Mark, TypeOK
<1>18. ASSUME NEW s \in Slots, GiveUp(s) PROVE TypeOK'
  <2>1. req[s] \in Requests
    BY <1>18, NoRequestIdle, RequestType DEF GiveUp, Steps
  <2>2. [req[s] EXCEPT !.waiting = FALSE, !.repair = FALSE] \in Requests
    BY <2>1 DEF Requests
  <2>3. req' \in [Slots -> Requests \cup {NoRequest}]
    BY <1>18, <2>2 DEF GiveUp, TypeOK
  <2> QED BY <1>18, <2>3 DEF GiveUp, TypeOK
<1>19. CASE UNCHANGED vars
  BY <1>19 DEF vars, TypeOK
<1> QED
  BY <1>1, <1>2, <1>3, <1>4, <1>5, <1>6, <1>7, <1>8, <1>11, <1>12, <1>13, <1>14, <1>15, <1>16,
     <1>17, <1>18, <1>19 DEF Next, OwnerNext, ClaimNext

\* Every reachable state is well-typed, for any constants.
THEOREM LicensingTypeOK == Spec => []TypeOK
<1>1. Init => TypeOK
  BY InitIInv DEF IInv
<1> QED BY <1>1, StepTypeOK, PTL DEF Spec

\* The steps that leave the licenses and the purge alone.
QuietStep ==
    \/ \E m \in Machines : Ban(m) \/ Unban(m)
    \/ \E n \in Issued : Revoke(n) \/ Unrevoke(n) \/ MarkUsed(n) \/ RevokePc(n)
    \/ Tick
    \/ \E s \in Slots :
          \/ \E m \in Machines : \E t \in texts \cup saved[m] : Send(s, m, t)
          \/ Check(s) \/ ReadRow(s) \/ ReadUsed(s) \/ HandlerFails(s)
          \/ Receive(s) \/ Mark(s) \/ GiveUp(s)
    \/ UNCHANGED vars

LEMMA StepKinds ==
    ASSUME [Next]_vars
    PROVE  \/ \E m \in Machines, d \in Packages : Generate(m, d)
           \/ \E a \in PurgeAges : PurgeSelect(a)
           \/ PurgeArchive \/ PurgeRows \/ PurgeBurns \/ PurgeFails
           \/ \E s \in Slots : Apply(s)
           \/ QuietStep
BY DEF Next, OwnerNext, ClaimNext, QuietStep

LEMMA QuietChanges ==
    ASSUME QuietStep
    PROVE  /\ UNCHANGED <<last, rows, archived, purge>>
           /\ used \subseteq used'
BY DEF QuietStep, Ban, Unban, Revoke, Unrevoke, MarkUsed, RevokePc, Owner, Tick, Send, Check,
       ReadRow, ReadUsed, HandlerFails, Receive, Mark, GiveUp, vars, tables, history, desktop,
       Activating

LEMMA StepPurgeOrder ==
    ASSUME TypeOK, PurgeOrder, RowsIssued, [Next]_vars
    PROVE  PurgeOrder' /\ RowsIssued'
<1> USE DEF PurgeOrder, RowsIssued
<1>1. ASSUME NEW m \in Machines, NEW d \in Packages, Generate(m, d)
      PROVE  PurgeOrder' /\ RowsIssued'
  <2>1. last \in Nat /\ last' = last + 1 /\ purge.chosen \subseteq 1..last
    BY <1>1 DEF Generate, TypeOK
  <2>2. UNCHANGED <<purge, archived>>
    BY <1>1 DEF Generate
  <2>3. \A r \in rows' : r \in rows \/ r.id = last + 1
    BY <1>1 DEF Generate
  <2>4. \A r \in rows : r.id \in Nat
    BY DEF TypeOK, Rows, Ids
  <2> QED BY <2>1, <2>2, <2>3, <2>4
<1>2. ASSUME NEW a \in PurgeAges, PurgeSelect(a) PROVE PurgeOrder' /\ RowsIssued'
  <2>1. purge'.pc = "archive" /\ purge'.chosen \subseteq {r.id : r \in rows}
    BY <1>2 DEF PurgeSelect
  <2>2. UNCHANGED <<last, rows>>
    BY <1>2 DEF PurgeSelect, tables
  <2>3. \A r \in rows : r.id \in 1..last
    BY DEF TypeOK, Rows, Ids
  <2> QED BY <2>1, <2>2, <2>3
<1>3. CASE PurgeArchive
  BY <1>3 DEF PurgeArchive, Purging, TypeOK
<1>4. CASE PurgeRows
  BY <1>4 DEF PurgeRows, Purging, TypeOK
<1>5. CASE PurgeBurns \/ PurgeFails
  BY <1>5 DEF PurgeBurns, PurgeFails, Purging, NoPurge, tables
<1>6. ASSUME NEW s \in Slots, Apply(s) PROVE PurgeOrder' /\ RowsIssued'
  <2>1. rows' = RowsResigned(s) /\ UNCHANGED <<last, purge, archived>>
    BY <1>6 DEF Apply
  <2>2. req[s] # NoRequest
    BY <1>6, NoRequestIdle DEF Apply
  <2>3. \A r \in rows' : \E q \in rows : q.id = r.id
    BY <2>1, <2>2, RowsKept
  <2> QED BY <2>1, <2>3
<1>7. CASE QuietStep
  BY <1>7, QuietChanges
<1> QED BY <1>1, <1>2, <1>3, <1>4, <1>5, <1>6, <1>7, StepKinds

\* A purge that stops anywhere has archived what it has deleted.
LEMMA StepNothingLost ==
    ASSUME TypeOK, PurgeOrder, NothingLost, [Next]_vars
    PROVE  NothingLost'
<1> USE DEF NothingLost
<1>1. ASSUME NEW m \in Machines, NEW d \in Packages, Generate(m, d) PROVE NothingLost'
  <2>1. last' = last + 1 /\ last \in Nat /\ archived' = archived
    BY <1>1 DEF Generate, TypeOK
  <2> DEFINE new == [id |-> last + 1, mid |-> m, days |-> d, issued |-> now,
                     key |-> [id |-> last + 1, kind |-> "license", mid |-> m,
                              exp |-> Deadline(d, now)]]
  <2>2. new \in rows' /\ new.id = last + 1
    BY <1>1 DEF Generate
  <2>3. rows \subseteq rows'
    BY <1>1 DEF Generate
  <2> HIDE DEF new
  <2>4. \A i \in Ids : i <= last + 1 => i <= last \/ i = last + 1
    BY <2>1 DEF Ids
  <2> QED BY <2>1, <2>2, <2>3, <2>4
<1>2. CASE (\E a \in PurgeAges : PurgeSelect(a)) \/ PurgeFails
  BY <1>2 DEF PurgeSelect, PurgeFails, tables
<1>3. CASE PurgeArchive \/ PurgeBurns
  BY <1>3 DEF PurgeArchive, PurgeBurns, Purging
<1>4. CASE PurgeRows
  BY <1>4 DEF PurgeRows, Purging, PurgeOrder
<1>5. ASSUME NEW s \in Slots, Apply(s) PROVE NothingLost'
  <2>1. rows' = RowsResigned(s) /\ UNCHANGED <<last, archived>>
    BY <1>5 DEF Apply
  <2>2. req[s] # NoRequest
    BY <1>5, NoRequestIdle DEF Apply
  <2> QED BY <2>1, <2>2, RowsKept
<1>6. CASE QuietStep
  BY <1>6, QuietChanges
<1> QED BY <1>1, <1>2, <1>3, <1>4, <1>5, <1>6, StepKinds

\* How a step changes one activation.
LEMMA RequestChanges ==
    ASSUME TypeOK, [Next]_vars, NEW z \in Slots
    PROVE  \/ req'[z] \in {req[z], NoRequest}
           \/ req'[z].row = {} /\ req'[z].pc = "check"
           \/ /\ req[z] # NoRequest
              /\ req'[z].text = req[z].text
              /\ \A o \in req'[z].row : o \in req[z].row \/ RowNonce(o) = Nonce(req[z].text)
              /\ req'[z].pc \in {"replied", "mark"} =>
                    req[z].pc = "replied" \/ Nonce(req[z].text) \in used'
<1> DEFINE Goal ==
       \/ req'[z] \in {req[z], NoRequest}
       \/ req'[z].row = {} /\ req'[z].pc = "check"
       \/ /\ req[z] # NoRequest
          /\ req'[z].text = req[z].text
          /\ \A o \in req'[z].row : o \in req[z].row \/ RowNonce(o) = Nonce(req[z].text)
          /\ req'[z].pc \in {"replied", "mark"} =>
                req[z].pc = "replied" \/ Nonce(req[z].text) \in used'
<1>1. CASE UNCHANGED req
  BY <1>1
<1>2. ASSUME NEW s \in Slots, NEW m \in Machines, NEW t \in texts \cup saved[m], Send(s, m, t)
      PROVE  Goal
  BY <1>2 DEF Send, TypeOK
<1>3. ASSUME NEW s \in Slots, req' = [req EXCEPT ![s] = NoRequest]
      PROVE  Goal
  BY <1>3 DEF TypeOK
<1>4. ASSUME NEW s \in Slots, req[s] # NoRequest, NEW answer, NEW key, Reply(s, answer, key),
             Nonce(req[s].text) \in used'
      PROVE  Goal
  <2>1. req[s] \in Requests
    BY <1>4, RequestType
  <2> DEFINE q == [req[s] EXCEPT !.pc = "replied", !.row = {}, !.existing = 0, !.reply = answer,
                                 !.key = key, !.repair = req[s].repair /\ answer = "used"]
  <2>2. q.text = req[s].text /\ q.row = {}
    BY <2>1 DEF Requests
  <2>3. req' = [req EXCEPT ![s] = IF req[s].waiting THEN q ELSE NoRequest]
    BY <1>4 DEF Reply
  <2> HIDE DEF q
  <2> QED BY <1>4, <2>2, <2>3 DEF TypeOK
<1>5. ASSUME NEW s \in Slots, req[s] # NoRequest, NEW q,
             req' = [req EXCEPT ![s] = q], q.text = req[s].text,
             \A o \in q.row : o \in req[s].row \/ RowNonce(o) = Nonce(req[s].text),
             q.pc \in {"replied", "mark"} => req[s].pc = "replied"
      PROVE  Goal
  BY <1>5 DEF TypeOK
<1>6. ASSUME NEW s \in Slots, Check(s) PROVE Goal
  <2>1. req[s] # NoRequest /\ req[s] \in Requests
    BY <1>6, NoRequestIdle, RequestType DEF Check
  <2>2. CASE ReplyError(s)
    BY <2>2, <1>3 DEF ReplyError
  <2>3. CASE req' = [req EXCEPT ![s].pc = "row"]
    BY <2>1, <2>3 DEF TypeOK, Requests
  <2> QED BY <1>6, <2>2, <2>3 DEF Check
<1>7. ASSUME NEW s \in Slots, ReadRow(s) PROVE Goal
  <2>1. req[s] # NoRequest /\ req[s] \in Requests
    BY <1>7, NoRequestIdle, RequestType DEF ReadRow
  <2> DEFINE q == [req[s] EXCEPT !.pc = "used",
                                 !.row = {r \in rows : RowNonce(r) = Nonce(req[s].text)}]
  <2>2. /\ q.text = req[s].text /\ q.pc = "used"
        /\ \A o \in q.row : RowNonce(o) = Nonce(req[s].text)
    BY <2>1 DEF Requests
  <2>3. req' = [req EXCEPT ![s] = q]
    BY <1>7 DEF ReadRow, TypeOK
  <2> HIDE DEF q
  <2> QED BY <1>5, <2>1, <2>2, <2>3
<1>8. ASSUME NEW s \in Slots, ReadUsed(s) PROVE Goal
  <2>1. req[s] # NoRequest /\ req[s] \in Requests
    BY <1>8, NoRequestIdle, RequestType DEF ReadUsed
  <2>2. CASE req' = [req EXCEPT ![s].pc = "apply"]
    BY <2>1, <2>2 DEF TypeOK, Requests
  <2>3. CASE Nonce(req[s].text) \in used /\ Reply(s, "used", {})
    BY <1>4, <1>8, <2>1, <2>3 DEF ReadUsed, Activating, tables
  <2> QED BY <1>8, <2>2, <2>3 DEF ReadUsed
<1>9. ASSUME NEW s \in Slots, Apply(s) PROVE Goal
  <2>1. req[s] # NoRequest
    BY <1>9, NoRequestIdle DEF Apply
  <2> QED BY <1>3, <1>4, <1>9, <2>1 DEF Apply, ReplyError
<1>10. ASSUME NEW s \in Slots, HandlerFails(s) \/ Mark(s) PROVE Goal
  BY <1>3, <1>10 DEF HandlerFails, Mark, ReplyError
<1>11. ASSUME NEW s \in Slots, Receive(s) PROVE Goal
  <2>1. req[s] # NoRequest /\ req[s] \in Requests /\ req[s].pc = "replied"
    BY <1>11, NoRequestIdle, RequestType DEF Receive
  <2> DEFINE q == [req[s] EXCEPT !.pc = "mark", !.repair = FALSE, !.reply = "none", !.key = {}]
  <2>2. q.text = req[s].text /\ q.row = req[s].row
    BY <2>1 DEF Requests
  <2>3. req' = [req EXCEPT ![s] = q] \/ req' = [req EXCEPT ![s] = NoRequest]
    BY <1>11 DEF Receive, TypeOK
  <2> HIDE DEF q
  <2> QED BY <1>3, <1>5, <2>1, <2>2, <2>3
<1>12. ASSUME NEW s \in Slots, GiveUp(s) PROVE Goal
  <2> DEFINE q == [req[s] EXCEPT !.waiting = FALSE, !.repair = FALSE]
  <2>1. req[s] # NoRequest /\ req[s] \in Requests
    BY <1>12, NoRequestIdle, RequestType DEF GiveUp, Steps
  <2>2. q.text = req[s].text /\ q.row = req[s].row /\ q.pc = req[s].pc
    BY <2>1 DEF Requests
  <2>3. \/ req[s].pc \in Handling /\ req' = [req EXCEPT ![s] = q]
        \/ req' = [req EXCEPT ![s] = NoRequest]
    BY <1>12 DEF GiveUp
  <2> HIDE DEF q
  <2> QED BY <1>3, <1>5, <2>1, <2>2, <2>3 DEF Handling
<1>13. CASE \/ QuietStep /\ UNCHANGED req
            \/ \E m \in Machines, d \in Packages : Generate(m, d)
            \/ \E a \in PurgeAges : PurgeSelect(a)
            \/ PurgeArchive \/ PurgeRows \/ PurgeBurns \/ PurgeFails
  BY <1>1, <1>13 DEF Generate, PurgeSelect, PurgeArchive, PurgeRows, PurgeBurns, PurgeFails, Purging
<1>14. CASE QuietStep
  BY <1>1, <1>2, <1>6, <1>7, <1>8, <1>10, <1>11, <1>12, <1>14 DEF QuietStep, Ban, Unban, Revoke,
     Unrevoke, MarkUsed, RevokePc, Owner, Tick, vars
<1> QED BY <1>9, <1>13, <1>14, StepKinds

LEMMA StepOwnRow ==
    ASSUME TypeOK, OwnRow, [Next]_vars
    PROVE  OwnRow'
<1> SUFFICES ASSUME NEW z \in Slots, req'[z] # NoRequest
             PROVE  \A o \in req'[z].row : RowNonce(o) = Nonce(req'[z].text)
  BY DEF OwnRow
<1> QED BY RequestChanges DEF OwnRow

\* A burn goes only with the row of its license, and that row is archived.
LEMMA BurnsKept ==
    ASSUME TypeOK, PurgeOrder, [Next]_vars
    PROVE  /\ archived \subseteq archived'
           /\ \A n \in used : n \in used' \/ n[1] \in archived'
<1>1. CASE \/ \E m \in Machines, d \in Packages : Generate(m, d)
           \/ \E a \in PurgeAges : PurgeSelect(a)
           \/ PurgeArchive \/ PurgeRows \/ PurgeFails
  BY <1>1 DEF Generate, PurgeSelect, PurgeArchive, PurgeRows, PurgeFails, Purging, tables
<1>2. CASE PurgeBurns
  BY <1>2 DEF PurgeBurns, Purging, PurgeOrder
<1>3. CASE \E s \in Slots : Apply(s)
  BY <1>3 DEF Apply
<1>4. CASE QuietStep
  BY <1>4, QuietChanges
<1> QED BY <1>1, <1>2, <1>3, <1>4, StepKinds

LEMMA StepAnsweredBurned ==
    ASSUME TypeOK, PurgeOrder, AnsweredBurned, [Next]_vars
    PROVE  AnsweredBurned'
<1> SUFFICES ASSUME NEW z \in Slots, req'[z].pc \in {"replied", "mark"}
             PROVE  Nonce(req'[z].text) \in used' \/ req'[z].text.id \in archived'
  BY DEF AnsweredBurned
<1>1. req'[z] # NoRequest
  BY DEF NoRequest
<1>2. \A x : Nonce(x)[1] = x.id
  BY DEF Nonce
<1>3. CASE req'[z] = req[z]
  BY <1>2, <1>3, BurnsKept DEF AnsweredBurned
<1>4. CASE /\ req'[z].text = req[z].text
           /\ req[z].pc = "replied" \/ Nonce(req[z].text) \in used'
  BY <1>2, <1>4, BurnsKept DEF AnsweredBurned
<1> QED BY <1>1, <1>3, <1>4, RequestChanges

\* A machine burns what the control list or an accepted answer names.
LEMMA StepLocalBurns ==
    ASSUME TypeOK, PurgeOrder, AnsweredBurned, LocalBurns, [Next]_vars
    PROVE  LocalBurns'
<1> SUFFICES ASSUME NEW m \in Machines, NEW n \in burned'[m]
             PROVE  n \in used' \/ n[1] \in archived'
  BY DEF LocalBurns
<1>1. CASE n \in burned[m]
  BY <1>1, BurnsKept DEF LocalBurns
<1>2. ASSUME NEW s \in Slots, NEW k \in Machines, NEW t \in texts \cup saved[k], Send(s, k, t)
      PROVE  n \in burned[m] \/ n \in used'
  BY <1>2 DEF Send, Activating, tables, TypeOK
<1>3. ASSUME NEW s \in Slots, Mark(s)
      PROVE  n \in burned[m] \/ n \in used' \/ n[1] \in archived'
  <2>1. n \in burned[m] \/ n = Nonce(req[s].text)
    BY <1>3 DEF Mark, TypeOK
  <2>2. UNCHANGED <<used, archived>>
    BY <1>3 DEF Mark, Activating, tables
  <2> QED BY <1>3, <2>1, <2>2 DEF Mark, AnsweredBurned, Nonce
<1>4. CASE UNCHANGED burned
  BY <1>1, <1>4
<1>5. CASE QuietStep
  BY <1>1, <1>2, <1>3, <1>4, <1>5 DEF QuietStep, Ban, Unban, Revoke, Unrevoke, MarkUsed, RevokePc,
     Owner, Tick, Check, ReadRow, ReadUsed, HandlerFails, Receive, GiveUp, desktop, vars
<1>6. CASE \/ \E k \in Machines, d \in Packages : Generate(k, d)
           \/ \E a \in PurgeAges : PurgeSelect(a)
           \/ PurgeArchive \/ PurgeRows \/ PurgeBurns \/ PurgeFails
           \/ \E s \in Slots : Apply(s)
  BY <1>4, <1>6 DEF Generate, PurgeSelect, PurgeArchive, PurgeRows, PurgeBurns, PurgeFails, Purging,
     Apply, desktop
<1> QED BY <1>5, <1>6, StepKinds

\* A re-signed key is written with its burn, and goes before it.
LEMMA StepResignedIsBurned ==
    ASSUME TypeOK, PurgeOrder, OwnRow, ResignedIsBurned, [Next]_vars
    PROVE  ResignedIsBurned'
<1> SUFFICES ASSUME NEW r \in rows', r.key.exp # Deadline(r.days, r.issued)
             PROVE  RowNonce(r) \in used'
  BY DEF ResignedIsBurned
<1>1. ASSUME NEW m \in Machines, NEW d \in Packages, Generate(m, d) PROVE RowNonce(r) \in used'
  <2>1. r \in rows /\ used' = used
    BY <1>1 DEF Generate
  <2> QED BY <2>1 DEF ResignedIsBurned
<1>2. CASE (\E a \in PurgeAges : PurgeSelect(a)) \/ PurgeArchive \/ PurgeRows \/ PurgeFails
  BY <1>2 DEF PurgeSelect, PurgeArchive, PurgeRows, PurgeFails, Purging, tables, ResignedIsBurned
<1>3. CASE PurgeBurns
  <2>1. r \in rows /\ r.id \notin purge.chosen
    BY <1>3 DEF PurgeBurns, Purging, PurgeOrder
  <2> QED BY <1>3, <2>1 DEF PurgeBurns, ResignedIsBurned, RowNonce
<1>4. ASSUME NEW s \in Slots, Apply(s) PROVE RowNonce(r) \in used'
  <2>1. rows' = RowsResigned(s) /\ used' = used \cup {Nonce(req[s].text)} /\ req[s] # NoRequest
    BY <1>4, NoRequestIdle DEF Apply
  <2>2. PICK q \in rows : /\ q.id = r.id /\ q.days = r.days /\ q.issued = r.issued
                          /\ r = q \/ \E o \in req[s].row : o.id = r.id
    BY <2>1, RowsKept
  <2>3. CASE r = q
    BY <2>1, <2>3 DEF ResignedIsBurned
  <2>4. CASE \E o \in req[s].row : o.id = r.id
    BY <2>1, <2>4 DEF OwnRow, RowNonce
  <2> QED BY <2>2, <2>3, <2>4
<1>5. CASE QuietStep
  BY <1>5, QuietChanges DEF ResignedIsBurned
<1> QED BY <1>1, <1>2, <1>3, <1>4, <1>5, StepKinds

----------------------------------------------------------------------------
(* What a purge spares, and what can be claimed again.                     *)

Active == {s \in Slots : req[s] # NoRequest}

\* The texts that somebody has: customers, machines, and activations.
InHand ==
    texts \cup (UNION {saved[m] : m \in Machines})
          \cup {req[s].text : s \in Active} \cup (UNION {req[s].key : s \in Active})

\* Nothing happened to the code n that excuses anything.
Plain(n) == n \notin revoked \cup unrevoked \cup raced

\* No text of the code n can be claimed any more.
Dead(n) == \A t \in InHand : Nonce(t) = n => ~ MayBeLive(t.exp)

\* The handler of a claim of n is past its check.
PastCheck(s, n) == req[s].pc \in {"row", "used", "apply"} /\ Nonce(req[s].text) = n

KeyOwn(r) == Nonce(r.key) = RowNonce(r) /\ (r.days = 0 => r.key.exp = Never)

NoLater(e, f) == f = Never \/ (e # Never /\ e <= f)

\* Issues are numbered: a row has the only number like it, and its own key.
Numbered ==
    /\ archived \subseteq 1..last
    /\ \A t \in InHand : t.id <= last
    /\ \A r, q \in rows : r.id = q.id => r = q
    /\ \A r \in rows : r.issued <= now /\ KeyOwn(r)

\* What a handler has read of its row is still the row, but for its key.
Snapshots ==
    \A s \in Active : \A o \in req[s].row :
        KeyOwn(o) /\ \A r \in rows : r.id = o.id => r.days = o.days /\ r.issued = o.issued

AnswersOwn == \A s \in Active : \A t \in req[s].key : Nonce(t) = Nonce(req[s].text)

\* Before the first claim of a license every text of it ends with its window.
UnclaimedKeepWindow ==
    \A r \in rows : \A t \in InHand :
        Nonce(t) = RowNonce(r) => t.exp = Deadline(r.days, r.issued) \/ Nonce(t) \in claims

ClaimsBurned == \A n \in claims : n \in used \/ n[1] \in archived

\* The row has the text that lasts longest.
RowLastsLongest ==
    \A r \in rows : \A t \in InHand :
        Nonce(t) = RowNonce(r) /\ Plain(RowNonce(r)) => NoLater(t.exp, r.key.exp)

\* No activation is under way at midnight.
HandledLive ==
    \A s \in Slots : req[s].pc \in {"row", "used", "apply"} => MayBeLive(req[s].text.exp)

\* What is to be purged, or was archived, cannot be claimed any more.
PurgedDead ==
    \A i \in purge.chosen \cup archived : Plain(<<i, "license">>) => Dead(<<i, "license">>)

SavedBurned ==
    \A m \in Machines : \A t \in saved[m] : Nonce(t) \in used \/ t.id \in archived

\* Two handlers about to claim one code have raced.
RivalsRaced ==
    \A s, z \in Slots :
        s # z /\ req[s].pc = "apply" /\ req[z].pc = "apply" /\ Nonce(req[s].text) = Nonce(req[z].text)
            => Nonce(req[s].text) \in raced

\* A code whose burn is gone is stopped by the eligibility gates.
PrunedBlocked ==
    \A n \in claims :
        \/ n \in used \cup raced \cup unrevoked
        \/ /\ n \in revoked \/ Dead(n)
           /\ \A s \in Slots : ~ PastCheck(s, n)

PInv == /\ Numbered /\ Snapshots /\ AnswersOwn /\ UnclaimedKeepWindow /\ ClaimsBurned
        /\ RowLastsLongest /\ HandledLive /\ PurgedDead /\ SavedBurned /\ RivalsRaced
        /\ PrunedBlocked /\ ReclaimNeedsCause

LEMMA HandIff ==
    ASSUME NEW t
    PROVE  /\ t \in InHand <=> \/ t \in texts \/ \E m \in Machines : t \in saved[m]
                               \/ \E s \in Active : t = req[s].text \/ t \in req[s].key
           /\ t \in InHand' <=> \/ t \in texts' \/ \E m \in Machines : t \in saved'[m]
                                \/ \E s \in Active' : t = req'[s].text \/ t \in req'[s].key
BY DEF InHand

LEMMA ActiveType ==
    ASSUME TypeOK
    PROVE  /\ \A s \in Active : s \in Slots /\ req[s] \in Requests
           /\ \A s \in Slots : req[s].pc \in Steps => s \in Active
BY NoRequestIdle DEF TypeOK, Active, Steps

\* The activation at z moves on, or begins.
Moves(z) ==
    /\ z \in Active /\ req'[z].text = req[z].text
    /\ \/ Check(z) /\ Stands(req[z].text) /\ MayBeLive(req[z].text.exp)
          /\ req'[z].pc = "row" /\ req'[z].key = req[z].key /\ req'[z].row = req[z].row
       \/ ReadRow(z) /\ req[z].pc = "row" /\ req'[z].pc = "used" /\ req'[z].key = req[z].key
          /\ req'[z].row = {r \in rows : RowNonce(r) = Nonce(req[z].text)}
       \/ ReadUsed(z) /\ req[z].pc = "used" /\ req'[z].pc = "apply" /\ Nonce(req[z].text) \notin used
          /\ req'[z].key = req[z].key /\ req'[z].row = req[z].row
       \/ ReadUsed(z) /\ req'[z].pc = "replied" /\ req'[z].key = {} /\ req'[z].row = {}
       \/ Apply(z) /\ req'[z].pc = "replied" /\ req'[z].row = {}
          /\ req'[z].key = {Resigned(o, req[z].existing) : o \in req[z].row}
       \/ Receive(z) /\ req'[z].pc = "mark" /\ req'[z].key = {} /\ req'[z].row = req[z].row
       \/ GiveUp(z) /\ req'[z].pc = req[z].pc /\ req'[z].key = req[z].key /\ req'[z].row = req[z].row

Begins(z) ==
    /\ req'[z].pc = "check" /\ req'[z].key = {} /\ req'[z].row = {}
    /\ \E m \in Machines : req'[z].text \in texts \cup saved[m] /\ Send(z, m, req'[z].text)

LEMMA RequestMoves ==
    ASSUME TypeOK, [Next]_vars, NEW z \in Active'
    PROVE  z \in Slots /\ (req'[z] = req[z] \/ Moves(z) \/ Begins(z))
<1> DEFINE Goal == req'[z] = req[z] \/ Moves(z) \/ Begins(z)
<1>1. z \in Slots /\ req'[z] # NoRequest
  BY DEF Active
<1> SUFFICES Goal
  BY <1>1
<1>2. CASE UNCHANGED req
  BY <1>2
<1>3. ASSUME NEW s \in Slots, s # z, NEW q, req' = [req EXCEPT ![s] = q] PROVE Goal
  BY <1>1, <1>3 DEF TypeOK
<1>4. ASSUME NEW s \in Slots, req' = [req EXCEPT ![s] = NoRequest] PROVE Goal
  BY <1>1, <1>4 DEF TypeOK
<1>5. ASSUME NEW s \in Slots, NEW m \in Machines, NEW t \in texts \cup saved[m], Send(s, m, t)
      PROVE  Goal
  <2>1. PICK d \in (IF Remaining(m) = {} THEN {0} ELSE Remaining(m)) :
             req' = [req EXCEPT ![s] =
                      [pc |-> "check", text |-> t, waiting |-> TRUE,
                       existing |-> d, repair |-> t \in saved[m],
                       row |-> {}, reply |-> "none", key |-> {}]]
    BY <1>5 DEF Send
  <2>2. CASE s = z
    BY <1>1, <1>5, <2>1, <2>2 DEF Begins, TypeOK
  <2> QED BY <1>3, <2>1, <2>2
<1>6. ASSUME NEW s \in Slots, Check(s) PROVE Goal
  <2>1. req[s] # NoRequest /\ req[s] \in Requests
    BY <1>6, NoRequestIdle, RequestType DEF Check
  <2>2. CASE ReplyError(s)
    BY <2>2, <1>4 DEF ReplyError
  <2>3. ASSUME req' = [req EXCEPT ![s].pc = "row"], Stands(req[s].text), MayBeLive(req[s].text.exp)
        PROVE  Goal
    BY <1>1, <1>6, <2>1, <2>3 DEF TypeOK, Requests, Moves, Active
  <2> QED BY <1>6, <2>2, <2>3 DEF Check
<1>7. ASSUME NEW s \in Slots, ReadRow(s) PROVE Goal
  <2>1. req[s] # NoRequest /\ req[s] \in Requests /\ req[s].pc = "row"
    BY <1>7, NoRequestIdle, RequestType DEF ReadRow
  <2> DEFINE q == [req[s] EXCEPT !.pc = "used",
                                 !.row = {r \in rows : RowNonce(r) = Nonce(req[s].text)}]
  <2>2. /\ q.text = req[s].text /\ q.pc = "used" /\ q.key = req[s].key
        /\ q.row = {r \in rows : RowNonce(r) = Nonce(req[s].text)}
    BY <2>1 DEF Requests
  <2>3. req' = [req EXCEPT ![s] = q]
    BY <1>7 DEF ReadRow, TypeOK
  <2> HIDE DEF q
  <2>4. CASE s = z
    BY <1>1, <1>7, <2>1, <2>2, <2>3, <2>4 DEF Moves, Active, TypeOK
  <2> QED BY <1>3, <2>3, <2>4
<1>8. ASSUME NEW s \in Slots, req[s] # NoRequest, NEW answer, NEW key, Reply(s, answer, key)
      PROVE  \/ Goal
             \/ /\ s = z /\ z \in Active /\ req'[z].text = req[z].text /\ req'[z].pc = "replied"
                /\ req'[z].key = key /\ req'[z].row = {}
  <2>1. req[s] \in Requests
    BY <1>8, RequestType
  <2> DEFINE q == [req[s] EXCEPT !.pc = "replied", !.row = {}, !.existing = 0, !.reply = answer,
                                 !.key = key, !.repair = req[s].repair /\ answer = "used"]
  <2>2. q.text = req[s].text /\ q.row = {} /\ q.key = key /\ q.pc = "replied"
    BY <2>1 DEF Requests
  <2>3. req' = [req EXCEPT ![s] = IF req[s].waiting THEN q ELSE NoRequest]
    BY <1>8 DEF Reply
  <2> HIDE DEF q
  <2>4. CASE s = z
    BY <1>1, <1>8, <2>2, <2>3, <2>4 DEF TypeOK, Active
  <2> QED BY <1>3, <2>3, <2>4
<1>9. ASSUME NEW s \in Slots, ReadUsed(s) PROVE Goal
  <2>1. req[s] # NoRequest /\ req[s] \in Requests /\ req[s].pc = "used"
    BY <1>9, NoRequestIdle, RequestType DEF ReadUsed
  <2>2. ASSUME Nonce(req[s].text) \notin used, req' = [req EXCEPT ![s].pc = "apply"]
        PROVE  Goal
    BY <1>1, <1>9, <2>1, <2>2 DEF TypeOK, Requests, Moves, Active
  <2>3. CASE Reply(s, "used", {})
    BY <1>8, <1>9, <2>1, <2>3 DEF Moves
  <2> QED BY <1>9, <2>2, <2>3 DEF ReadUsed
<1>10. ASSUME NEW s \in Slots, Apply(s) PROVE Goal
  <2>1. req[s] # NoRequest
    BY <1>10, NoRequestIdle DEF Apply
  <2>2. CASE Reply(s, "ok", {Resigned(o, req[s].existing) : o \in req[s].row})
    BY <1>8, <1>10, <2>1, <2>2 DEF Moves
  <2> QED BY <1>4, <1>10, <2>2 DEF Apply, ReplyError
<1>11. ASSUME NEW s \in Slots, HandlerFails(s) \/ Mark(s) PROVE Goal
  BY <1>4, <1>11 DEF HandlerFails, Mark, ReplyError
<1>12. ASSUME NEW s \in Slots, Receive(s) PROVE Goal
  <2>1. req[s] # NoRequest /\ req[s] \in Requests /\ req[s].pc = "replied"
    BY <1>12, NoRequestIdle, RequestType DEF Receive
  <2> DEFINE q == [req[s] EXCEPT !.pc = "mark", !.repair = FALSE, !.reply = "none", !.key = {}]
  <2>2. q.text = req[s].text /\ q.row = req[s].row /\ q.key = {} /\ q.pc = "mark"
    BY <2>1 DEF Requests
  <2>3. req' = [req EXCEPT ![s] = q] \/ req' = [req EXCEPT ![s] = NoRequest]
    BY <1>12 DEF Receive, TypeOK
  <2> HIDE DEF q
  <2>4. CASE s = z
    BY <1>1, <1>12, <2>1, <2>2, <2>3, <2>4 DEF Moves, Active, TypeOK
  <2> QED BY <1>3, <2>3, <2>4
<1>13. ASSUME NEW s \in Slots, GiveUp(s) PROVE Goal
  <2> DEFINE q == [req[s] EXCEPT !.waiting = FALSE, !.repair = FALSE]
  <2>1. req[s] # NoRequest /\ req[s] \in Requests
    BY <1>13, NoRequestIdle, RequestType DEF GiveUp, Steps
  <2>2. q.text = req[s].text /\ q.row = req[s].row /\ q.pc = req[s].pc /\ q.key = req[s].key
    BY <2>1 DEF Requests
  <2>3. req' = [req EXCEPT ![s] = q] \/ req' = [req EXCEPT ![s] = NoRequest]
    BY <1>13 DEF GiveUp
  <2> HIDE DEF q
  <2>4. CASE s = z
    BY <1>1, <1>13, <2>1, <2>2, <2>3, <2>4 DEF Moves, Active, TypeOK
  <2> QED BY <1>3, <2>3, <2>4
<1>14. CASE \/ \E m \in Machines, d \in Packages : Generate(m, d)
            \/ \E a \in PurgeAges : PurgeSelect(a)
            \/ PurgeArchive \/ PurgeRows \/ PurgeBurns \/ PurgeFails
  BY <1>2, <1>14 DEF Generate, PurgeSelect, PurgeArchive, PurgeRows, PurgeBurns, PurgeFails, Purging
<1>15. CASE QuietStep
  BY <1>2, <1>5, <1>6, <1>7, <1>9, <1>11, <1>12, <1>13, <1>15 DEF QuietStep, Ban, Unban, Revoke,
     Unrevoke, MarkUsed, RevokePc, Owner, Tick, vars
<1> QED BY <1>1, <1>10, <1>14, <1>15, StepKinds

\* The issue that Generate(m, d) makes.
IssuedText(m, d, k) == [id |-> last + 1, kind |-> k, mid |-> m, exp |-> Deadline(d, now)]
IssuedRow(m, d) == [id |-> last + 1, mid |-> m, days |-> d, issued |-> now,
                    key |-> IssuedText(m, d, "license")]

\* Where a text comes from that nobody had before.
LEMMA TextsChange ==
    ASSUME TypeOK, [Next]_vars, NEW t \in InHand'
    PROVE  \/ t \in InHand
           \/ \E m \in Machines, d \in Packages, k \in Kinds :
                 Generate(m, d) /\ t = IssuedText(m, d, k)
           \/ \E s \in Active : Apply(s) /\ \E o \in req[s].row : t = Resigned(o, req[s].existing)
<1>1. CASE t \in texts'
  <2>1. texts' = texts \/ \E m \in Machines, d \in Packages : Generate(m, d)
    BY StepKinds DEF PurgeSelect, PurgeArchive, PurgeRows, PurgeBurns, PurgeFails, Purging, Apply,
       QuietStep, Ban, Unban, Revoke, Unrevoke, MarkUsed, RevokePc, Owner, Tick, Send, Check,
       ReadRow, ReadUsed, HandlerFails, Receive, Mark, GiveUp, vars, Activating
  <2>2. ASSUME NEW m \in Machines, NEW d \in Packages, Generate(m, d)
        PROVE  t \in texts \/ \E k \in Kinds : t = IssuedText(m, d, k)
    BY <1>1, <2>2 DEF Generate, IssuedText
  <2> QED BY <1>1, <2>1, <2>2, HandIff
<1>2. ASSUME NEW m \in Machines, t \in saved'[m] PROVE t \in InHand
  <2>1. saved' = saved \/ \E s \in Slots : Receive(s)
    BY StepKinds DEF Generate, PurgeSelect, PurgeArchive, PurgeRows, PurgeBurns, PurgeFails, Purging,
       Apply, QuietStep, Ban, Unban, Revoke, Unrevoke, MarkUsed, RevokePc, Owner, Tick, Send, Check,
       ReadRow, ReadUsed, HandlerFails, Mark, GiveUp, vars, desktop
  <2>2. ASSUME NEW s \in Slots, Receive(s) PROVE t \in InHand
    <3>1. s \in Active
      BY <2>2, ActiveType DEF Receive, Steps
    <3>2. t \in saved[m] \/ t \in req[s].key \/ t = req[s].text
      BY <1>2, <2>2 DEF Receive, ToSave, TypeOK
    <3> QED BY <3>1, <3>2, HandIff
  <2> QED BY <1>2, <2>1, <2>2, HandIff
<1>3. ASSUME NEW z \in Active', t = req'[z].text \/ t \in req'[z].key
      PROVE  \/ t \in InHand
             \/ \E s \in Active : Apply(s) /\ \E o \in req[s].row : t = Resigned(o, req[s].existing)
  <2>1. CASE req'[z] = req[z]
    BY <1>3, <2>1, HandIff DEF Active
  <2>2. CASE Moves(z)
    <3>1. z \in Active /\ req'[z].text = req[z].text
      BY <2>2 DEF Moves
    <3>2. CASE req'[z].key \in {req[z].key, {}}
      BY <1>3, <3>1, <3>2, HandIff
    <3>3. CASE Apply(z) /\ req'[z].key = {Resigned(o, req[z].existing) : o \in req[z].row}
      BY <1>3, <3>1, <3>3, HandIff
    <3> QED BY <2>2, <3>2, <3>3 DEF Moves
  <2>3. CASE Begins(z)
    BY <1>3, <2>3, HandIff DEF Begins
  <2> QED BY <2>1, <2>2, <2>3, RequestMoves
<1> QED BY <1>1, <1>2, <1>3, HandIff

\* Where the rows come from.
LEMMA RowsChange ==
    ASSUME TypeOK, [Next]_vars, NEW r \in rows'
    PROVE  \/ r \in rows
           \/ \E m \in Machines, d \in Packages : Generate(m, d) /\ r = IssuedRow(m, d)
           \/ \E s \in Active : Apply(s) /\ \E q \in rows, o \in req[s].row :
                 o.id = q.id /\ o.days # 0 /\ r = [q EXCEPT !.key = Resigned(q, req[s].existing)]
<1>1. ASSUME NEW m \in Machines, NEW d \in Packages, Generate(m, d)
      PROVE  r \in rows \/ r = IssuedRow(m, d)
  BY <1>1 DEF Generate, IssuedRow, IssuedText
<1>2. ASSUME NEW s \in Slots, Apply(s)
      PROVE  s \in Active /\ (r \in rows \/ \E q \in rows, o \in req[s].row :
                o.id = q.id /\ o.days # 0 /\ r = [q EXCEPT !.key = Resigned(q, req[s].existing)])
  <2>1. s \in Active
    BY <1>2, ActiveType DEF Apply, Steps
  <2>2. rows' = RowsResigned(s)
    BY <1>2 DEF Apply
  <2> QED BY <2>1, <2>2 DEF RowsResigned
<1>3. CASE \/ \E a \in PurgeAges : PurgeSelect(a)
           \/ PurgeArchive \/ PurgeRows \/ PurgeBurns \/ PurgeFails
  BY <1>3 DEF PurgeSelect, PurgeArchive, PurgeRows, PurgeBurns, PurgeFails, Purging, tables
<1>4. CASE QuietStep
  BY <1>4, QuietChanges
<1> QED BY <1>1, <1>2, <1>3, <1>4, StepKinds

\* What only grows, and what a step leaves alone.
LEMMA Grows ==
    ASSUME TypeOK, [Next]_vars
    PROVE  /\ last <= last' /\ claims \subseteq claims' /\ raced \subseteq raced'
           /\ revoked \cup unrevoked \subseteq revoked' \cup unrevoked'
           /\ unrevoked \subseteq unrevoked'
           /\ now <= now' /\ (now' # now => Active' = {})
           /\ claims' = claims \/ \E s \in Active : Apply(s) /\ claims' = claims \cup {Nonce(req[s].text)}
           /\ last' = last \/ \E m \in Machines, d \in Packages : Generate(m, d)
<1> USE DEF tables, history, desktop, Activating
<1> last \in Int /\ now \in Int
  BY DEF TypeOK
<1>1. CASE \/ \E m \in Machines, d \in Packages : Generate(m, d)
           \/ \E a \in PurgeAges : PurgeSelect(a)
           \/ PurgeArchive \/ PurgeRows \/ PurgeBurns \/ PurgeFails
  BY <1>1 DEF Generate, PurgeSelect, PurgeArchive, PurgeRows, PurgeBurns, PurgeFails, Purging
<1>2. ASSUME NEW s \in Slots, Apply(s)
      PROVE  s \in Active /\ UNCHANGED <<last, raced, revoked, unrevoked, now>>
             /\ claims' = claims \cup {Nonce(req[s].text)}
  BY <1>2, ActiveType DEF Apply, Steps
<1>3. CASE QuietStep
  <2>1. UNCHANGED <<last, claims>> /\ raced \subseteq raced'
        /\ revoked \cup unrevoked \subseteq revoked' \cup unrevoked' /\ unrevoked \subseteq unrevoked'
    BY <1>3 DEF QuietStep, Ban, Unban, Revoke, Unrevoke, MarkUsed, RevokePc, Owner, Tick, Send, Check,
       ReadRow, ReadUsed, HandlerFails, Receive, Mark, GiveUp, vars
  <2>2. now' = now \/ Tick
    BY <1>3 DEF QuietStep, Ban, Unban, Revoke, Unrevoke, MarkUsed, RevokePc, Owner, Tick, Send, Check,
       ReadRow, ReadUsed, HandlerFails, Receive, Mark, GiveUp, vars
  <2>3. Tick => now' = now + 1 /\ Active' = {}
    BY DEF Tick, Active
  <2> QED BY <2>1, <2>2, <2>3
<1> QED BY <1>1, <1>2, <1>3, StepKinds

\* The text and the row of an activation belong to an issued license.
LEMMA HandTypes ==
    ASSUME TypeOK
    PROVE  /\ \A t \in InHand : t \in Texts
           /\ \A s \in Active : req[s].text \in InHand /\ req[s].existing \in Nat /\ req[s].row \subseteq Rows
<1>1. \A s \in Active : req[s].text \in InHand /\ req[s].existing \in Nat /\ req[s].row \subseteq Rows
                        /\ req[s].text \in Texts /\ req[s].key \subseteq Texts
  BY ActiveType, HandIff DEF Requests
<1> QED BY <1>1, HandIff DEF TypeOK

\* A re-signed key is a text of the code that was claimed.
LEMMA ResignedOwn ==
    ASSUME TypeOK, OwnRow, Snapshots, NEW s \in Active, NEW o \in req[s].row, NEW d \in Nat
    PROVE  /\ Nonce(Resigned(o, d)) = Nonce(req[s].text) /\ Resigned(o, d).id = req[s].text.id
           /\ Nonce(req[s].text) = RowNonce(o) /\ o.id = req[s].text.id
<1>1. o \in Rows /\ KeyOwn(o) /\ RowNonce(o) = Nonce(req[s].text)
  BY HandTypes DEF Snapshots, OwnRow, Active
<1>2. Nonce(Resigned(o, d)) = Nonce(o.key)
  BY <1>1 DEF Resigned, Nonce, Rows, Texts
<1> QED BY <1>1, <1>2 DEF KeyOwn, Nonce, RowNonce

LEMMA StepNumbered ==
    ASSUME TypeOK, PurgeOrder, RowsIssued, OwnRow, Numbered, Snapshots, [Next]_vars
    PROVE  Numbered'
<1> last \in Nat /\ now \in Nat /\ last <= last' /\ now <= now' /\ last' \in Nat /\ now' \in Nat
  BY Grows, StepTypeOK DEF TypeOK
<1>1. archived' \subseteq 1..last'
  <2>1. archived' \subseteq archived \cup purge.chosen
    BY StepKinds, QuietChanges DEF Generate, PurgeSelect, PurgeArchive, PurgeRows, PurgeBurns,
       PurgeFails, Purging, Apply, tables
  <2> QED BY <2>1 DEF Numbered, PurgeOrder
<1>2. ASSUME NEW t \in InHand' PROVE t.id <= last'
  <2>1. CASE t \in InHand
    BY <2>1, HandTypes DEF Numbered, Texts, Ids
  <2>2. ASSUME NEW m \in Machines, NEW d \in Packages, NEW k \in Kinds, Generate(m, d),
               t = IssuedText(m, d, k)
        PROVE  t.id <= last'
    BY <2>2 DEF Generate, IssuedText
  <2>3. ASSUME NEW s \in Active, NEW o \in req[s].row, t = Resigned(o, req[s].existing)
        PROVE  t.id <= last'
    <3>1. req[s].text \in InHand /\ t.id = req[s].text.id
      BY <2>3, HandTypes, ResignedOwn
    <3> QED BY <3>1, HandTypes DEF Numbered, Texts, Ids
  <2> QED BY <2>1, <2>2, <2>3, TextsChange
<1>3. ASSUME NEW r \in rows'
      PROVE  \/ r.id = last + 1 /\ \E m \in Machines, d \in Packages : Generate(m, d) /\ r = IssuedRow(m, d)
             \/ \E q \in rows : q.id = r.id /\ q.issued = r.issued /\ q.days = r.days
                                /\ Nonce(r.key) = Nonce(q.key) /\ (q.days = 0 => r.key = q.key)
  <2>1. ASSUME NEW s \in Active, NEW q \in rows, r = [q EXCEPT !.key = Resigned(q, req[s].existing)]
        PROVE  q.id = r.id /\ q.issued = r.issued /\ q.days = r.days
               /\ Nonce(r.key) = Nonce(q.key) /\ (q.days = 0 => r.key = q.key)
    BY <2>1 DEF TypeOK, Rows, Texts, Nonce, Resigned
  <2> QED BY <2>1, RowsChange DEF IssuedRow
<1>4. ASSUME NEW r \in rows' PROVE r.issued <= now' /\ KeyOwn(r)
  <2>1. ASSUME NEW m \in Machines, NEW d \in Packages, Generate(m, d), r = IssuedRow(m, d)
        PROVE  r.issued <= now' /\ KeyOwn(r)
    BY <2>1 DEF IssuedRow, IssuedText, KeyOwn, Nonce, RowNonce, Generate, Deadline
  <2>2. ASSUME NEW q \in rows, q.id = r.id, q.issued = r.issued, q.days = r.days,
               Nonce(r.key) = Nonce(q.key), q.days = 0 => r.key = q.key
        PROVE  r.issued <= now' /\ KeyOwn(r)
    BY <2>2 DEF Numbered, KeyOwn, RowNonce, TypeOK, Rows
  <2> QED BY <1>3, <2>1, <2>2
<1>5. ASSUME NEW r \in rows', NEW p \in rows', r.id = p.id PROVE r = p
  <2>1. \A q \in rows : q.id # last + 1
    BY DEF RowsIssued, TypeOK, Rows, Ids
  <2>2. ASSUME NEW m \in Machines, NEW d \in Packages, Generate(m, d) PROVE r = p
    <3>1. rows' = rows \cup {IssuedRow(m, d)} /\ IssuedRow(m, d).id = last + 1
      BY <2>2 DEF Generate, IssuedRow, IssuedText
    <3> QED BY <1>5, <2>1, <3>1 DEF Numbered
  <2>3. ASSUME NEW s \in Slots, Apply(s) PROVE r = p
    <3> DEFINE hit(q) == \E o \in req[s].row : o.id = q.id /\ o.days # 0
               new(q) == IF hit(q) THEN [q EXCEPT !.key = Resigned(q, req[s].existing)] ELSE q
    <3>1. rows' = {new(q) : q \in rows}
      BY <2>3 DEF Apply, RowsResigned
    <3>2. \A q \in rows : new(q).id = q.id
      BY DEF TypeOK, Rows
    <3> HIDE DEF new
    <3> QED BY <1>5, <3>1, <3>2 DEF Numbered
  <2>4. CASE \/ \E a \in PurgeAges : PurgeSelect(a)
             \/ PurgeArchive \/ PurgeRows \/ PurgeBurns \/ PurgeFails
             \/ QuietStep
    <3>1. rows' \subseteq rows
      BY <2>4, QuietChanges DEF PurgeSelect, PurgeArchive, PurgeRows, PurgeBurns, PurgeFails, Purging,
         tables
    <3> QED BY <1>5, <3>1 DEF Numbered
  <2> QED BY <2>2, <2>3, <2>4, StepKinds
<1> QED BY <1>1, <1>2, <1>4, <1>5 DEF Numbered, KeyOwn, RowNonce, Nonce

\* Old and new rows of the same id.
LEMMA SameRow ==
    ASSUME TypeOK, RowsIssued, [Next]_vars, NEW r \in rows', r.id <= last
    PROVE  \E q \in rows : q.id = r.id /\ q.days = r.days /\ q.issued = r.issued
<1>1. last \in Nat
  BY DEF TypeOK
<1>2. ASSUME NEW s \in Active, NEW q \in rows, r = [q EXCEPT !.key = Resigned(q, req[s].existing)]
      PROVE  q.id = r.id /\ q.days = r.days /\ q.issued = r.issued
  BY <1>2 DEF TypeOK, Rows
<1> QED BY <1>1, <1>2, RowsChange DEF IssuedRow

LEMMA StepSnapshots ==
    ASSUME TypeOK, RowsIssued, OwnRow, Numbered, Snapshots, [Next]_vars
    PROVE  Snapshots'
<1> SUFFICES ASSUME NEW z \in Active', NEW o \in req'[z].row
             PROVE  KeyOwn(o) /\ \A r \in rows' : r.id = o.id => r.days = o.days /\ r.issued = o.issued
  BY DEF Snapshots, KeyOwn, RowNonce, Nonce
<1>1. CASE z \in Active /\ o \in req[z].row
  <2>1. o.id = req[z].text.id /\ req[z].text \in InHand
    BY <1>1, ResignedOwn, HandTypes
  <2>2. o.id <= last
    BY <2>1 DEF Numbered
  <2> QED BY <1>1, <2>2, SameRow DEF Snapshots
<1>2. CASE ReadRow(z) /\ o \in rows
  <2>1. rows' = rows
    BY <1>2 DEF ReadRow, Activating, tables
  <2> QED BY <1>2, <2>1 DEF Numbered
<1> QED BY <1>1, <1>2, RequestMoves DEF Moves, Begins, Active

LEMMA StepAnswersOwn ==
    ASSUME TypeOK, OwnRow, Snapshots, AnswersOwn, [Next]_vars
    PROVE  AnswersOwn'
<1> SUFFICES ASSUME NEW z \in Active', NEW t \in req'[z].key PROVE Nonce(t) = Nonce(req'[z].text)
  BY DEF AnswersOwn, Nonce
<1>1. CASE z \in Active /\ req'[z].text = req[z].text /\ t \in req[z].key
  BY <1>1 DEF AnswersOwn
<1>2. CASE z \in Active /\ req'[z].text = req[z].text
           /\ \E o \in req[z].row : t = Resigned(o, req[z].existing)
  BY <1>2, ResignedOwn, HandTypes
<1> QED BY <1>1, <1>2, RequestMoves DEF Moves, Begins, Active

LEMMA StepUnclaimedKeepWindow ==
    ASSUME TypeOK, RowsIssued, OwnRow, Numbered, Snapshots, UnclaimedKeepWindow, [Next]_vars
    PROVE  UnclaimedKeepWindow'
<1> SUFFICES ASSUME NEW r \in rows', NEW t \in InHand', Nonce(t) = RowNonce(r)
             PROVE  t.exp = Deadline(r.days, r.issued) \/ Nonce(t) \in claims'
  BY DEF UnclaimedKeepWindow, Nonce, RowNonce, Deadline
<1>1. t.id = r.id /\ last \in Nat
  BY DEF Nonce, RowNonce, TypeOK
<1>2. CASE t \in InHand
  <2>1. t.id <= last
    BY <1>2 DEF Numbered
  <2>2. PICK q \in rows : q.id = r.id /\ q.days = r.days /\ q.issued = r.issued
    BY <1>1, <2>1, SameRow
  <2> QED BY <1>2, <2>2, Grows DEF UnclaimedKeepWindow, RowNonce
<1>3. ASSUME NEW m \in Machines, NEW d \in Packages, NEW k \in Kinds, Generate(m, d),
             t = IssuedText(m, d, k)
      PROVE  t.exp = Deadline(r.days, r.issued)
  <2>1. rows' = rows \cup {IssuedRow(m, d)} /\ t.id = last + 1 /\ t.exp = Deadline(d, now)
    BY <1>3 DEF Generate, IssuedRow, IssuedText
  <2>2. r.id = last + 1
    BY <1>1, <2>1
  <2>3. r \notin rows
    BY <1>1, <2>2 DEF RowsIssued
  <2> QED BY <2>1, <2>3 DEF IssuedRow
<1>4. ASSUME NEW s \in Active, Apply(s), NEW o \in req[s].row, t = Resigned(o, req[s].existing)
      PROVE  Nonce(t) \in claims'
  BY <1>4, ResignedOwn, HandTypes DEF Apply
<1> QED BY <1>2, <1>3, <1>4, TextsChange

LEMMA StepClaimsBurned ==
    ASSUME TypeOK, PurgeOrder, ClaimsBurned, [Next]_vars
    PROVE  ClaimsBurned'
<1> SUFFICES ASSUME NEW n \in claims' PROVE n \in used' \/ n[1] \in archived'
  BY DEF ClaimsBurned
<1>1. CASE n \in claims
  BY <1>1, BurnsKept DEF ClaimsBurned
<1>2. ASSUME NEW s \in Active, Apply(s), n = Nonce(req[s].text) PROVE n \in used'
  BY <1>2 DEF Apply
<1> QED BY <1>1, <1>2, Grows

LEMMA StepHandledLive ==
    ASSUME TypeOK, HandledLive, [Next]_vars
    PROVE  HandledLive'
<1> SUFFICES ASSUME NEW z \in Slots, req'[z].pc \in {"row", "used", "apply"}
             PROVE  req'[z].text.exp = Never \/ req'[z].text.exp >= now'
  BY DEF HandledLive, MayBeLive
<1>1. z \in Active'
  BY NoRequestIdle DEF Active
<1>2. now' = now
  BY <1>1, Grows
<1>3. req'[z] = req[z] \/ Moves(z)
  BY <1>1, RequestMoves DEF Begins
<1>4. MayBeLive(req'[z].text.exp)
  <2>1. CASE req'[z].text = req[z].text /\ req[z].pc \in {"row", "used", "apply"}
    BY <2>1 DEF HandledLive
  <2>2. CASE req'[z].text = req[z].text /\ MayBeLive(req[z].text.exp)
    BY <2>2
  <2> QED BY <1>3, <2>1, <2>2 DEF Moves
<1> QED BY <1>2, <1>4 DEF MayBeLive

\* A package that nobody claimed is over before it begins.
LEMMA StepRowLastsLongest ==
    ASSUME TypeOK, RowsIssued, OwnRow, Numbered, Snapshots, UnclaimedKeepWindow, RowLastsLongest,
           ReclaimNeedsCause, [Next]_vars
    PROVE  RowLastsLongest'
<1> SUFFICES ASSUME NEW r \in rows', NEW t \in InHand', Nonce(t) = RowNonce(r), Plain(RowNonce(r))'
             PROVE  NoLater(t.exp, r.key.exp)
  BY DEF RowLastsLongest, Nonce, RowNonce, NoLater
<1>1. Plain(RowNonce(r)) /\ t.id = r.id /\ last \in Nat /\ now \in Nat
  BY Grows DEF Plain, Nonce, RowNonce, TypeOK
<1>2. CASE t \in InHand /\ r \in rows
  BY <1>1, <1>2 DEF RowLastsLongest
<1>3. ASSUME NEW m \in Machines, NEW d \in Packages, Generate(m, d) PROVE NoLater(t.exp, r.key.exp)
  <2>1. rows' = rows \cup {IssuedRow(m, d)} /\ IssuedRow(m, d).id = last + 1
    BY <1>3 DEF Generate, IssuedRow, IssuedText
  <2>7. \A s \in Active : ~ Apply(s)
    BY <1>1, <1>3 DEF Generate, Apply
  <2>2. t \in InHand => t.id <= last
    BY DEF Numbered
  <2>3. \A q \in rows : q.id <= last
    BY DEF RowsIssued
  <2>8. ASSUME t \notin InHand
        PROVE  \E a \in Machines, b \in Packages, k \in Kinds :
                  Generate(a, b) /\ t = IssuedText(a, b, k)
    BY <2>7, <2>8, TextsChange
  <2>9. t \in InHand \/ t.id = last + 1
    BY <2>8 DEF IssuedText
  <2>4. \/ r = IssuedRow(m, d)
        \/ t \in InHand /\ r \in rows
    BY <1>1, <2>1, <2>3, <2>9
  <2>5. Deadline(d, now) \in Expiries
    BY <1>1 DEF Deadline, Expiries, Window
  <2>6. ASSUME r = IssuedRow(m, d), t \notin InHand PROVE t.exp = Deadline(d, now)
    <3>1. PICK a \in Machines, b \in Packages, k \in Kinds : Generate(a, b) /\ t = IssuedText(a, b, k)
      BY <2>6, <2>8
    <3>2. IssuedRow(a, b) \in rows'
      BY <3>1 DEF Generate, IssuedRow, IssuedText
    <3>3. IssuedRow(a, b).id = last + 1 /\ IssuedRow(a, b).key.exp = t.exp
      BY <3>1 DEF IssuedRow, IssuedText
    <3>4. IssuedRow(a, b) = IssuedRow(m, d)
      <4>1. IssuedRow(a, b) \notin rows
        BY <1>1, <2>3, <3>3
      <4> QED BY <2>1, <3>2, <4>1
    <3> QED BY <3>3, <3>4 DEF IssuedRow, IssuedText
  <2>10. r = IssuedRow(m, d) => r.key.exp = Deadline(d, now) /\ r.id = last + 1
    BY DEF IssuedRow, IssuedText
  <2> QED BY <1>1, <1>2, <2>2, <2>4, <2>5, <2>6, <2>10 DEF NoLater, Expiries, Never
<1>4. ASSUME NEW s \in Active, Apply(s) PROVE NoLater(t.exp, r.key.exp)
  <2> DEFINE x == IF req[s].existing < MaxStack THEN req[s].existing ELSE MaxStack
             n == Nonce(req[s].text)
  <2>1. x \in Nat /\ req[s].existing \in Nat
    BY HandTypes
  <2>2. rows' = RowsResigned(s) /\ claims' = claims \cup {n} /\ now' = now /\ req[s].pc = "apply"
    BY <1>4 DEF Apply
  <2>3. t \in InHand \/ \E o \in req[s].row : t = Resigned(o, req[s].existing)
    <3>1. ~ \E m \in Machines, d \in Packages : Generate(m, d)
      BY <1>1, <1>4 DEF Generate, Apply
    <3>2. ASSUME NEW z \in Active, Apply(z), NEW o \in req[z].row, t = Resigned(o, req[z].existing)
          PROVE  z = s
      <4>1. req[z].pc = "apply" /\ req'[z] # req[z]
        <5>1. z \in Slots /\ req[z] \in Requests /\ req[z].pc = "apply" /\ req[z] # NoRequest
          BY <3>2, ActiveType DEF Apply, Active
        <5>2. CASE ReplyError(z)
          BY <5>1, <5>2 DEF ReplyError, TypeOK
        <5>3. ASSUME NEW a, NEW k, Reply(z, a, k) PROVE req'[z] # req[z]
          BY <5>1, <5>3 DEF Reply, TypeOK, Requests
        <5> QED BY <3>2, <5>1, <5>2, <5>3 DEF Apply
      <4>2. z # s => req'[z] = req[z]
        BY <1>4 DEF Apply, Reply, ReplyError, TypeOK, Active
      <4> QED BY <4>1, <4>2
    <3> QED BY <3>1, <3>2, TextsChange
  <2>4. ASSUME NEW q \in rows, NEW o \in req[s].row, o.id = q.id, o.days # 0,
               r = [q EXCEPT !.key = Resigned(q, req[s].existing)]
        PROVE  NoLater(t.exp, r.key.exp)
    <3>1. q \in Rows /\ q.days = o.days /\ q.issued = o.issued /\ q.issued <= now
      BY <2>4 DEF Snapshots, Numbered, TypeOK
    <3>2. r.key.exp = now + q.days + x /\ RowNonce(r) = RowNonce(q)
      BY <2>4, <3>1 DEF Resigned, Rows, Texts, RowNonce
    <3>3. RowNonce(q) = n
      BY <2>1, <2>4, ResignedOwn DEF RowNonce, Nonce
    <3>4. CASE t \in InHand
      <4>1. n \notin claims
        BY <1>1, <2>2, <3>2, <3>3 DEF ReclaimNeedsCause, Plain, Active
      <4>2. t.exp = Deadline(q.days, q.issued)
        BY <3>2, <3>3, <3>4, <4>1 DEF UnclaimedKeepWindow
      <4>3. q.days \in Nat \ {0} /\ q.issued \in Nat
        BY <2>4, <3>1 DEF Rows
      <4> QED BY <1>1, <2>1, <3>1, <3>2, <4>2, <4>3 DEF NoLater, Deadline, Window, Never
    <3>5. ASSUME NEW p \in req[s].row, t = Resigned(p, req[s].existing)
          PROVE  NoLater(t.exp, r.key.exp)
      <4>1. p.id = q.id /\ p \in Rows
        BY <2>1, <2>4, <3>5, ResignedOwn, HandTypes
      <4>2. p.days = q.days
        BY <4>1 DEF Snapshots
      <4>3. t.exp = now + q.days + x
        BY <2>4, <3>1, <3>5, <4>1, <4>2 DEF Resigned, Rows, Texts
      <4>4. q.days \in Nat
        BY <3>1 DEF Rows
      <4> QED BY <1>1, <2>1, <3>2, <4>3, <4>4 DEF NoLater, Never
    <3> QED BY <2>3, <3>4, <3>5
  <2>5. ASSUME r \in rows, ~ \E o \in req[s].row : o.id = r.id /\ o.days # 0,
               NEW o \in req[s].row, t = Resigned(o, req[s].existing)
        PROVE  NoLater(t.exp, r.key.exp)
    <3>1. o.id = r.id
      BY <1>1, <2>1, <2>5, ResignedOwn
    <3>2. r.days = 0
      BY <2>5, <3>1 DEF Snapshots
    <3> QED BY <2>5, <3>2 DEF Numbered, KeyOwn, NoLater
  <2>6. \/ r \in rows /\ ~ \E o \in req[s].row : o.id = r.id /\ o.days # 0
        \/ \E q \in rows, o \in req[s].row :
              o.id = q.id /\ o.days # 0 /\ r = [q EXCEPT !.key = Resigned(q, req[s].existing)]
    BY <2>2 DEF RowsResigned
  <2> QED BY <1>2, <2>3, <2>4, <2>5, <2>6
<1> QED BY <1>2, <1>3, <1>4, TextsChange, RowsChange

LEMMA HandTypesNext ==
    ASSUME TypeOK, [Next]_vars
    PROVE  \A t \in InHand' : t \in Texts
<1>1. TypeOK'
  BY StepTypeOK
<1>2. \A s \in Active' : s \in Slots /\ req'[s] \in Requests
  BY <1>1 DEF TypeOK, Active
<1> QED BY <1>1, <1>2, HandIff DEF TypeOK, Requests

\* What a purge deletes or archives it has selected.
LEMMA PurgeSelects ==
    ASSUME TypeOK, [Next]_vars, NEW i \in purge'.chosen \cup archived', i \notin purge.chosen \cup archived
    PROVE  \E a \in PurgeAges : PurgeSelect(a) /\ \E r \in rows : i = r.id /\ Candidate(r, a)
<1>1. ASSUME NEW a \in PurgeAges, PurgeSelect(a)
      PROVE  \E r \in rows : i = r.id /\ Candidate(r, a)
  <2>1. archived' = archived /\ purge'.chosen = {r.id : r \in {r \in rows : Candidate(r, a)}}
    BY <1>1 DEF PurgeSelect, tables
  <2> QED BY <2>1
<1>2. CASE PurgeArchive \/ PurgeRows \/ PurgeBurns \/ PurgeFails
  <2>1. archived' \subseteq archived \cup purge.chosen
    BY <1>2 DEF PurgeArchive, PurgeRows, PurgeBurns, PurgeFails, Purging, tables
  <2>2. purge'.chosen \subseteq purge.chosen
    BY <1>2 DEF PurgeArchive, PurgeRows, PurgeBurns, PurgeFails, Purging, NoPurge, TypeOK
  <2> QED BY <2>1, <2>2
<1>3. CASE \E m \in Machines, d \in Packages : Generate(m, d)
  BY <1>3 DEF Generate
<1>4. CASE \E s \in Slots : Apply(s)
  BY <1>4 DEF Apply
<1>5. CASE QuietStep
  BY <1>5, QuietChanges
<1>6. \E a \in PurgeAges : PurgeSelect(a)
  BY <1>2, <1>3, <1>4, <1>5, StepKinds
<1> QED BY <1>1, <1>6

\* A step that archives or selects leaves the texts as they are.
LEMMA StepPurgedDead ==
    ASSUME TypeOK, PurgeOrder, OwnRow, Numbered, Snapshots, UnclaimedKeepWindow, ClaimsBurned,
           RowLastsLongest, HandledLive, PurgedDead, [Next]_vars
    PROVE  PurgedDead'
<1> SUFFICES ASSUME NEW i \in purge'.chosen \cup archived', Plain(<<i, "license">>)',
                    NEW t \in InHand', Nonce(t) = <<i, "license">>
             PROVE  t.exp # Never /\ t.exp < now'
  <2>1. now' \in Nat /\ \A t \in InHand' : t.exp \in Expiries
    BY StepTypeOK, HandTypesNext DEF TypeOK, Texts
  <2>2. \A t \in InHand' : t.exp # Never /\ t.exp < now' => ~ (t.exp = Never \/ t.exp >= now')
    BY <2>1 DEF Expiries, Never
  <2> QED BY <2>2 DEF PurgedDead, Dead, MayBeLive, Nonce
<1> DEFINE n == <<i, "license">>
<1>1. Plain(n) /\ t.id = i /\ now \in Nat /\ now' \in Nat /\ now <= now' /\ last \in Nat
  BY Grows, StepTypeOK DEF Plain, Nonce, TypeOK
<1>2. CASE i \in purge.chosen \cup archived
  <2>1. Dead(n) /\ i \in 1..last
    BY <1>1, <1>2 DEF PurgedDead, Numbered, PurgeOrder
  <2>2. CASE t \in InHand
    <3>1. t.exp \in Expiries
      BY <2>2, HandTypes DEF Texts
    <3> QED BY <1>1, <2>1, <2>2, <3>1 DEF Dead, MayBeLive, Expiries, Never
  <2>3. ASSUME NEW s \in Active, Apply(s), NEW o \in req[s].row, t = Resigned(o, req[s].existing)
        PROVE  FALSE
    <3>1. Nonce(req[s].text) = n /\ req[s].text \in InHand
      BY <2>3, ResignedOwn, HandTypes
    <3>2. MayBeLive(req[s].text.exp)
      BY <2>3 DEF HandledLive, Apply, Active
    <3> QED BY <2>1, <3>1, <3>2 DEF Dead
  <2>4. ASSUME NEW m \in Machines, NEW d \in Packages, NEW k \in Kinds, t = IssuedText(m, d, k)
        PROVE  FALSE
    BY <1>1, <2>1, <2>4 DEF IssuedText
  <2> QED BY <2>2, <2>3, <2>4, TextsChange
<1>3. ASSUME NEW a \in PurgeAges, PurgeSelect(a), NEW r \in rows, i = r.id, Candidate(r, a)
      PROVE  t.exp # Never /\ t.exp < now'
  <2>1. now' = now /\ t \in InHand /\ a \in Nat \ {0}
    <3>1. UNCHANGED <<now, last, texts, req, saved>>
      BY <1>3 DEF PurgeSelect, desktop
    <3>2. Active' = Active
      BY <3>1 DEF Active
    <3> QED BY <3>1, <3>2 DEF InHand
  <2>2. RowNonce(r) = n /\ n \notin revoked
    BY <1>1, <1>3 DEF RowNonce, Plain
  <2>3. t.exp \in Expiries /\ r.key.exp \in Expiries /\ r.issued \in Nat
    BY <2>1, HandTypes DEF TypeOK, Rows, Texts
  <2>4. CASE r.key.exp # Never /\ r.key.exp < now - a
    <3>1. NoLater(t.exp, r.key.exp)
      BY <1>1, <2>1, <2>2 DEF RowLastsLongest
    <3> QED BY <1>1, <2>1, <2>3, <2>4, <3>1 DEF NoLater, Expiries
  <2>5. CASE n \notin used /\ r.days # 0 /\ r.issued < now - a /\ i \notin archived
    <3>1. n \notin claims
      BY <2>5 DEF ClaimsBurned
    <3>2. t.exp = r.issued + 1
      BY <2>1, <2>2, <2>5, <3>1 DEF UnclaimedKeepWindow, Deadline, Window
    <3> QED BY <1>1, <2>1, <2>3, <2>5, <3>2 DEF Never
  <2> QED BY <1>2, <1>3, <2>2, <2>4, <2>5 DEF Candidate
<1> QED BY <1>2, <1>3, PurgeSelects

LEMMA StepSavedBurned ==
    ASSUME TypeOK, PurgeOrder, AnsweredBurned, AnswersOwn, SavedBurned, [Next]_vars
    PROVE  SavedBurned'
<1> SUFFICES ASSUME NEW m \in Machines, NEW t \in saved'[m]
             PROVE  Nonce(t) \in used' \/ t.id \in archived'
  BY DEF SavedBurned, Nonce
<1>1. CASE t \in saved[m]
  BY <1>1, BurnsKept DEF SavedBurned, Nonce
<1>2. ASSUME NEW s \in Slots, Receive(s) PROVE t \in saved[m] \/ Nonce(t) \in used' \/ t.id \in archived'
  <2>1. s \in Active /\ req[s].pc = "replied" /\ UNCHANGED <<used, archived>>
    BY <1>2, ActiveType DEF Receive, Steps, Activating, tables
  <2>2. t \in saved[m] \/ t \in req[s].key \/ t = req[s].text
    BY <1>2 DEF Receive, ToSave, TypeOK
  <2>3. \A u : Nonce(u) = Nonce(req[s].text) => Nonce(u) \in used \/ u.id \in archived
    BY <2>1 DEF AnsweredBurned, Nonce, Active
  <2> QED BY <2>1, <2>2, <2>3 DEF AnswersOwn
<1>3. saved' = saved \/ \E s \in Slots : Receive(s)
  BY StepKinds DEF Generate, PurgeSelect, PurgeArchive, PurgeRows, PurgeBurns, PurgeFails, Purging,
     Apply, QuietStep, Ban, Unban, Revoke, Unrevoke, MarkUsed, RevokePc, Owner, Tick, Send, Check,
     ReadRow, ReadUsed, HandlerFails, Mark, GiveUp, vars, desktop
<1> QED BY <1>1, <1>2, <1>3

LEMMA StepRivalsRaced ==
    ASSUME TypeOK, RivalsRaced, [Next]_vars
    PROVE  RivalsRaced'
<1> SUFFICES ASSUME NEW s \in Slots, NEW z \in Slots, s # z, req'[s].pc = "apply",
                    req'[z].pc = "apply", Nonce(req'[s].text) = Nonce(req'[z].text)
             PROVE  Nonce(req'[s].text) \in raced'
  BY DEF RivalsRaced, Nonce
<1>1. raced \subseteq raced'
  BY Grows
<1>2. ASSUME NEW x \in Slots, req'[x].pc = "apply"
      PROVE  \/ req[x].pc = "apply" /\ req'[x].text = req[x].text
             \/ ReadUsed(x) /\ Nonce(req[x].text) \notin used /\ req'[x].text = req[x].text
  <2>1. x \in Active'
    BY <1>2 DEF Active, NoRequest
  <2> QED BY <1>2, <2>1, RequestMoves DEF Moves, Begins
<1>3. ASSUME NEW x \in Slots, NEW y \in Slots, x # y, ReadUsed(x), Nonce(req[x].text) \notin used,
             Nonce(req'[x].text) = Nonce(req'[y].text), req'[x].text = req[x].text,
             req'[y].pc = "apply"
      PROVE  Nonce(req'[x].text) \in raced'
  <2>1. req'[y] = req[y]
    BY <1>3 DEF ReadUsed, Reply, TypeOK
  <2>2. raced' = IF Nonce(req[x].text) \notin used /\ (\E v \in Slots \ {x} :
                        req[v].pc = "apply" /\ Nonce(req[v].text) = Nonce(req[x].text))
                 THEN raced \cup {Nonce(req[x].text)} ELSE raced
    BY <1>3 DEF ReadUsed
  <2> QED BY <1>3, <2>1, <2>2
<1>4. CASE req[s].pc = "apply" /\ req'[s].text = req[s].text
           /\ req[z].pc = "apply" /\ req'[z].text = req[z].text
  BY <1>1, <1>4 DEF RivalsRaced
<1> QED BY <1>2, <1>3, <1>4

LEMMA StepReclaimNeedsCause ==
    ASSUME TypeOK, RivalsRaced, PrunedBlocked, ReclaimNeedsCause, [Next]_vars
    PROVE  ReclaimNeedsCause'
<1> SUFFICES ASSUME NEW z \in Slots, req'[z].pc = "apply", Nonce(req'[z].text) \in claims'
             PROVE  Nonce(req'[z].text) \in raced' \cup unrevoked'
  BY DEF ReclaimNeedsCause, Nonce
<1> DEFINE n == Nonce(req[z].text)
<1>1. z \in Active'
  BY DEF Active, NoRequest
<1>2. raced \subseteq raced' /\ unrevoked \subseteq unrevoked'
  BY Grows
<1>3. \/ req[z].pc = "apply" /\ req'[z].text = req[z].text
      \/ ReadUsed(z) /\ req[z].pc = "used" /\ n \notin used /\ req'[z].text = req[z].text
  BY <1>1, RequestMoves DEF Moves, Begins
<1>4. CASE req[z].pc = "apply" /\ req'[z].text = req[z].text
  <2>1. CASE n \in claims
    BY <1>2, <1>4, <2>1 DEF ReclaimNeedsCause
  <2>2. ASSUME NEW s \in Active, Apply(s), Nonce(req[s].text) = n
        PROVE  n \in raced
    <3>1. s \in Slots /\ req[s].pc = "apply" /\ req'[s].pc # "apply"
      <4>1. /\ s \in Slots /\ req[s] \in Requests /\ req[s].pc = "apply"
            /\ \/ ReplyError(s)
               \/ Reply(s, "ok", {Resigned(o, req[s].existing) : o \in req[s].row})
        BY <2>2, ActiveType DEF Apply
      <4>2. CASE ReplyError(s)
        BY <4>1, <4>2 DEF ReplyError, TypeOK, NoRequest
      <4>3. CASE Reply(s, "ok", {Resigned(o, req[s].existing) : o \in req[s].row})
        BY <4>1, <4>3 DEF Reply, TypeOK, Requests, NoRequest
      <4> QED BY <4>1, <4>2, <4>3
    <3> QED BY <1>4, <2>2, <3>1 DEF RivalsRaced
  <2> QED BY <1>2, <1>4, <2>1, <2>2, Grows
<1>5. CASE ReadUsed(z) /\ req[z].pc = "used" /\ n \notin used /\ req'[z].text = req[z].text
  <2>1. n \in claims
    BY <1>5 DEF ReadUsed
  <2> QED BY <1>2, <1>5, <2>1 DEF PrunedBlocked, PastCheck
<1> QED BY <1>3, <1>4, <1>5

\* The gates that stop a code whose burn was pruned.
LEMMA StepPrunedBlocked ==
    ASSUME TypeOK, PurgeOrder, OwnRow, Numbered, Snapshots, ClaimsBurned, PurgedDead, PrunedBlocked,
           [Next]_vars
    PROVE  PrunedBlocked'
<1> SUFFICES ASSUME NEW n \in claims', n \notin used' \cup raced' \cup unrevoked'
             PROVE  /\ \/ n \in revoked'
                       \/ \A t \in InHand' : Nonce(t) = n => t.exp # Never /\ t.exp < now'
                    /\ \A z \in Slots : ~ (req'[z].pc \in {"row", "used", "apply"} /\ Nonce(req'[z].text) = n)
  <2>1. now' \in Nat /\ \A t \in InHand' : t.exp \in Expiries
    BY StepTypeOK, HandTypesNext DEF TypeOK, Texts
  <2>2. \A t \in InHand' : t.exp # Never /\ t.exp < now' => ~ (t.exp = Never \/ t.exp >= now')
    BY <2>1 DEF Expiries, Never
  <2> QED BY <2>2 DEF PrunedBlocked, Dead, MayBeLive, PastCheck, Nonce
<1>1. n \in claims /\ n \notin raced \cup unrevoked
  BY Grows DEF Apply
<1>2. n \in revoked => n \in revoked'
  BY Grows
<1>3. now \in Nat /\ now' \in Nat /\ now <= now' /\ last \in Nat
  BY Grows, StepTypeOK DEF TypeOK
<1>4. CASE n \notin used
  <2>1. n \in revoked \/ Dead(n)
    BY <1>1, <1>4 DEF PrunedBlocked
  <2>2. \A s \in Slots : ~ PastCheck(s, n)
    BY <1>1, <1>4 DEF PrunedBlocked
  <2>3. ASSUME Dead(n), NEW t \in InHand', Nonce(t) = n PROVE t.exp # Never /\ t.exp < now'
    <3>1. CASE t \in InHand
      <4>1. t.exp \in Expiries
        BY <3>1, HandTypes DEF Texts
      <4> QED BY <1>3, <2>3, <3>1, <4>1 DEF Dead, MayBeLive, Expiries, Never
    <3>2. ASSUME NEW s \in Active, Apply(s), NEW o \in req[s].row, t = Resigned(o, req[s].existing)
          PROVE  FALSE
      BY <2>2, <2>3, <3>2, ResignedOwn, HandTypes DEF PastCheck, Apply, Active
    <3>3. ASSUME NEW m \in Machines, NEW d \in Packages, NEW k \in Kinds, t = IssuedText(m, d, k)
          PROVE  FALSE
      <4>1. n[1] \in 1..last
        BY <1>1, <1>4 DEF ClaimsBurned, Numbered
      <4>2. n[1] = last + 1
        BY <2>3, <3>3 DEF Nonce, IssuedText
      <4> QED BY <1>3, <4>1, <4>2
    <3> QED BY <3>1, <3>2, <3>3, TextsChange
  <2>4. ASSUME NEW z \in Slots, req'[z].pc \in {"row", "used", "apply"}, Nonce(req'[z].text) = n
        PROVE  FALSE
    <3>1. z \in Active'
      BY <2>4 DEF Active, NoRequest
    <3>2. CASE req[z].pc \in {"row", "used", "apply"} /\ req'[z].text = req[z].text
      BY <2>2, <2>4, <3>2 DEF PastCheck
    <3>3. CASE z \in Active /\ req'[z].text = req[z].text /\ Stands(req[z].text)
               /\ MayBeLive(req[z].text.exp)
      BY <2>1, <2>4, <3>3, HandTypes DEF Stands, Dead
    <3> QED BY <2>4, <3>1, <3>2, <3>3, RequestMoves DEF Moves, Begins
  <2> QED BY <1>2, <2>1, <2>3, <2>4
<1>5. CASE n \in used
  <2>1. PurgeBurns /\ n \in {<<i, "license">> : i \in purge.chosen} /\ ~ \E s \in Slots : Claiming(s, n)
    <3>1. PurgeBurns
      <4>1. CASE \/ \E m \in Machines, d \in Packages : Generate(m, d)
                 \/ \E a \in PurgeAges : PurgeSelect(a)
                 \/ PurgeArchive \/ PurgeRows \/ PurgeFails
        BY <1>5, <4>1 DEF Generate, PurgeSelect, PurgeArchive, PurgeRows, PurgeFails, Purging, tables
      <4>2. CASE \E s \in Slots : Apply(s)
        BY <1>5, <4>2 DEF Apply
      <4>3. CASE QuietStep
        BY <1>5, <4>3, QuietChanges
      <4> QED BY <4>1, <4>2, <4>3, StepKinds
    <3> QED BY <1>5, <3>1 DEF PurgeBurns
  <2>2. UNCHANGED <<now, texts, req, saved, revoked>>
    BY <2>1 DEF PurgeBurns, Purging, desktop
  <2>3. InHand' = InHand
    BY <2>2 DEF InHand, Active
  <2>4. n \in revoked \/ Dead(n)
    BY <1>1, <2>1 DEF PurgedDead, Plain
  <2>5. \A t \in InHand : t.exp \in Expiries
    BY HandTypes DEF Texts
  <2>6. Dead(n) => \A t \in InHand' : Nonce(t) = n => t.exp # Never /\ t.exp < now'
    BY <1>3, <2>2, <2>3, <2>5 DEF Dead, MayBeLive, Expiries, Never
  <2> QED BY <2>1, <2>2, <2>4, <2>6 DEF Claiming, Handling
<1> QED BY <1>4, <1>5

LEMMA InitPInv == Init => PInv
BY DEF Init, PInv, Numbered, Snapshots, AnswersOwn, UnclaimedKeepWindow, ClaimsBurned,
       RowLastsLongest, HandledLive, PurgedDead, SavedBurned, RivalsRaced, PrunedBlocked,
       ReclaimNeedsCause, NoPurge, NoRequest, Active, InHand

LEMMA StepPInv == IInv /\ PInv /\ [Next]_vars => PInv'
<1> SUFFICES ASSUME IInv, PInv, [Next]_vars PROVE PInv'
  OBVIOUS
<1> QED
  BY StepNumbered, StepSnapshots, StepAnswersOwn, StepUnclaimedKeepWindow, StepClaimsBurned,
     StepRowLastsLongest, StepHandledLive, StepPurgedDead, StepSavedBurned, StepRivalsRaced,
     StepPrunedBlocked, StepReclaimNeedsCause DEF IInv, PInv

LEMMA StepIInv == IInv /\ [Next]_vars => IInv'
<1> SUFFICES ASSUME IInv, [Next]_vars PROVE IInv'
  OBVIOUS
<1> QED BY StepTypeOK, StepPurgeOrder, StepOwnRow, StepAnsweredBurned, StepResignedIsBurned,
           StepNothingLost, StepLocalBurns DEF IInv

LEMMA Invariance == Spec => []IInv
BY InitIInv, StepIInv, PTL DEF Spec

\* However a purge fails and whatever is claimed meanwhile, every license that
\* was issued is in issued_licenses or in archived_licenses.
THEOREM LicensingNothingLost == Spec => []NothingLost
<1>1. IInv => NothingLost
  BY DEF IInv
<1> QED BY <1>1, Invariance, PTL

\* A key that was re-signed for its full period has its burn as long as it is
\* in issued_licenses.
THEOREM LicensingResignedIsBurned == Spec => []ResignedIsBurned
<1>1. IInv => ResignedIsBurned
  BY DEF IInv
<1> QED BY <1>1, Invariance, PTL

\* A code that a machine has burned is burned on the Worker, or its license
\* was archived.
THEOREM LicensingLocalBurns == Spec => []LocalBurns
<1>1. IInv => LocalBurns
  BY DEF IInv
<1> QED BY <1>1, Invariance, PTL

LEMMA PurgeInvariance == Spec => []PInv
BY InitPInv, StepPInv, Invariance, PTL DEF Spec

\* While a machine runs on a license that nobody revoked and that two claims
\* did not race for, the Worker keeps its row and its burn, whatever is purged
\* and however the purge interleaves with claims.
THEOREM LicensingPurgeKeepsRunning == Spec => []PurgeKeepsRunning
<1>1. TypeOK /\ NothingLost /\ Numbered /\ SavedBurned /\ PurgedDead => PurgeKeepsRunning
  <2> SUFFICES ASSUME TypeOK, NothingLost, Numbered, SavedBurned, PurgedDead,
                      NEW m \in Machines, NEW t \in saved[m], Running(m, t)
               PROVE  Nonce(t) \in used /\ \E r \in rows : RowNonce(r) = Nonce(t)
    BY DEF PurgeKeepsRunning
  <2>1. t \in InHand /\ t.id \in Ids /\ t.id <= last
    BY HandIff, HandTypes DEF Numbered, Texts
  <2>2. Nonce(t) = <<t.id, "license">> /\ Plain(Nonce(t)) /\ MayBeLive(t.exp)
    BY DEF Running, Nonce, Plain
  <2>3. t.id \notin archived
    BY <2>1, <2>2 DEF PurgedDead, Dead
  <2>4. PICK r \in rows : r.id = t.id
    BY <2>1, <2>3 DEF NothingLost
  <2> QED BY <2>2, <2>3, <2>4 DEF SavedBurned, RowNonce
<1>2. IInv /\ PInv => PurgeKeepsRunning
  BY <1>1 DEF IInv, PInv
<1> QED BY <1>2, Invariance, PurgeInvariance, PTL

\* A handler is about to claim a code that was claimed before only if another
\* claim or a purge of the code ran into it, or the code was un-revoked.
THEOREM LicensingReclaimNeedsCause == Spec => []ReclaimNeedsCause
<1>1. PInv => ReclaimNeedsCause
  BY DEF PInv
<1> QED BY <1>1, PurgeInvariance, PTL
====
