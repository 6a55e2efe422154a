---- MODULE Org_proofs ----
(***************************************************************************)
(* What the machines of an org share: its seats, for any number of         *)
(* machines, orgs and handlers, the links between its rows, for any number *)
(* of desktops, rows and names, and the cloud copy of its rows, for any    *)
(* number of push handlers at once and for two sessions of one desktop.    *)
(*                                                                         *)
(* Seats.  A handler compares before an await and inserts after it.  What  *)
(* it has compared still holds at the insert unless another insert has     *)
(* disturbed it (CountedBelow): every other step lets the counted seats    *)
(* alone or only takes some away.  A row, once there, stays, so a handler  *)
(* that has found one writes to one (FoundStays).                          *)
(*                                                                         *)
(* Links.  The invariant of the tables (RefsInv) is about steps of users   *)
(* and sessions, and a page of changes is one such step.  What the page    *)
(* has done so far is an invariant of its own (PageInv), of the changes of *)
(* the page one after the other: deletes come before upserts and a row     *)
(* after the one it refers to, and no name in use is given twice.          *)
(*                                                                         *)
(* Sessions.  The clock a session stores is above the one it has read, so  *)
(* as long as nobody stores in between, the stored clock is at or past all *)
(* the clocks of the row, and these follow its edits (StampsFollowEdits).  *)
(* The Worker then never goes back to an earlier edit, and what a session  *)
(* has passed over or sent is covered by what the Worker holds (PassedBy). *)
(*                                                                         *)
(* Pushes.  A handler decides on its batch from rows it has read before an *)
(* await.  The invariant of a row (RowInv) says that what is decided is    *)
(* still newer than what is stored, and that what need not be written any  *)
(* more is covered.  Every step keeps it but a write into the window of    *)
(* another handler, so each row behaves as a last-writer-wins store as     *)
(* long as no two handlers are in each other's window on it.               *)
(***************************************************************************)
EXTENDS SyncPush, SyncSeats, SyncRefs, DeviceSessions, HybridClock_proofs, SequenceTheorems,
        WellFoundedInduction, FiniteSetTheorems, TLAPS

----------------------------------------------------------------------------
(* Seats.                                                                  *)

Kept(o) == ActiveIn(o) \ loose

RequestOK(s) ==
    /\ register[s].pc # "none" => register[s].mid \in Machines /\ register[s].token \in 1..tokens
    /\ register[s].pc \notin {"none", "org"} => register[s].org \in Orgs

Known == \A s \in Requests : RequestOK(s)

FoundStays ==
    /\ \A m \in auth : Registered(m)
    /\ \A s \in Requests : register[s].pc = "find" => Registered(register[s].mid)

CountedBelow ==
    \A s \in Requests :
        Counted(s) /\ ~ register[s].disturbed => Cardinality(Kept(register[s].org)) < Cap

\* A request that is alone is its desktop's only one, and once it has written
\* the row nobody else has.
AloneOK ==
    \A s \in alone :
        /\ register[s].pc # "none"
        /\ \A r \in Requests \ {s} : register[r].pc # "none" => register[r].mid # register[s].mid
        /\ register[s].pc = "answer" => seats[register[s].mid].token = register[s].token

\* The inductive invariant.
SeatsInv ==
    /\ SeatsTypeOK /\ Known /\ FoundStays /\ CountedBelow /\ CapNeedsCause
    /\ AloneOK /\ TokenKnown

----------------------------------------------------------------------------
\* The types, by names the provers need not look into.
Points == {"none", "org", "known", "count", "find", "find new", "update", "insert", "answer"}
Handlers == [pc : Points, mid : Machines \cup {"none"}, org : Orgs \cup {"none"}, token : Nat,
             disturbed : BOOLEAN]
Seat == [token : 1..tokens, exp : Nat, org : Orgs] \cup {NoSeat}

LEMMA Numbers == SeatsTypeOK => today \in Nat /\ tokens \in Nat
BY DEF SeatsTypeOK

LEMMA TypedHandlers == SeatsTypeOK => register \in [Requests -> Handlers]
BY DEF SeatsTypeOK, Handlers, Points

LEMMA NoRequestIs == NoRequest \in Handlers /\ NoRequest.pc = "none" /\ ~ NoRequest.disturbed
BY DEF NoRequest, Handlers, Points

LEMMA NoSeatIs == NoSeat.token = 0 /\ NoSeat \notin [token : 1..tokens, exp : Nat, org : Orgs]
BY DEF NoSeat

\* A row of a seat has a token, so it is not the absent row.
LEMMA RegisteredIs ==
  ASSUME SeatsTypeOK, NEW m \in Machines
  PROVE  /\ Registered(m) <=> seats[m].token # 0
         /\ Registered(m) => seats[m] \in [token : 1..tokens, exp : Nat, org : Orgs]
<1>1. seats[m] \in [token : 1..tokens, exp : Nat, org : Orgs] \cup {NoSeat} /\ tokens \in Nat
  BY DEF SeatsTypeOK
<1>2. QED
  BY <1>1, NoSeatIs DEF Registered

\* What a handler writes is a row.
LEMMA GrantedIs ==
  ASSUME SeatsTypeOK, Known, NEW s \in Requests, register[s].pc \in {"update", "insert"}
  PROVE  /\ Granted(s) \in [token : 1..tokens, exp : Nat, org : Orgs]
         /\ Granted(s) # NoSeat /\ Granted(s).token = register[s].token
         /\ Granted(s).exp = today + Ttl /\ Granted(s).org = register[s].org
         /\ register[s].mid \in Machines /\ register[s].org \in Orgs
<1>1. register[s].token \in 1..tokens /\ register[s].org \in Orgs /\ register[s].mid \in Machines
  BY DEF Known, RequestOK
<1>2. today + Ttl \in Nat
  BY SeatsAssumption, Numbers
<1>3. QED
  BY <1>1, <1>2, NoSeatIs DEF Granted

LEMMA GoesIs ==
  ASSUME SeatsTypeOK, NEW s \in Requests, NEW pc \in Points, Goes(s, pc)
  PROVE  /\ register' \in [Requests -> Handlers]
         /\ register'[s] = [register[s] EXCEPT !.pc = pc]
         /\ \A r \in Requests : r # s => register'[r] = register[r]
<1>1. register \in [Requests -> Handlers] /\ register[s] \in Handlers
  BY TypedHandlers
<1>2. [register[s] EXCEPT !.pc = pc] \in Handlers
  BY <1>1 DEF Handlers
<1>3. register' = [register EXCEPT ![s] = [register[s] EXCEPT !.pc = pc]]
  BY <1>1 DEF Goes
<1>4. QED
  BY <1>1, <1>2, <1>3

LEMMA EndsIs ==
  ASSUME SeatsTypeOK, NEW s \in Requests, register' = [register EXCEPT ![s] = NoRequest]
  PROVE  /\ register' \in [Requests -> Handlers]
         /\ register'[s] = NoRequest
         /\ \A r \in Requests : r # s => register'[r] = register[r]
BY TypedHandlers, NoRequestIs

LEMMA AskIs ==
  ASSUME SeatsTypeOK, NEW s \in Requests, NEW m \in Machines, Ask(s, m)
  PROVE  /\ register' \in [Requests -> Handlers]
         /\ tokens' = tokens + 1 /\ tokens' \in Nat
         /\ register'[s].pc = "org" /\ register'[s].mid = m /\ register'[s].token = tokens'
         /\ ~ register'[s].disturbed
         /\ \A r \in Requests : r # s => register'[r] = register[r]
<1> DEFINE new == [NoRequest EXCEPT !.pc = "org", !.mid = m, !.token = tokens']
<1>1. tokens' = tokens + 1 /\ tokens' \in Nat
  BY Numbers DEF Ask
<1>2. new \in Handlers /\ new.pc = "org" /\ new.mid = m /\ new.token = tokens' /\ ~ new.disturbed
  BY <1>1 DEF NoRequest, Handlers, Points
<1>3. register' = [register EXCEPT ![s] = new]
  BY DEF Ask
<1> HIDE DEF new
<1>4. QED
  BY <1>1, <1>2, <1>3, TypedHandlers

LEMMA ReadOrgIs ==
  ASSUME SeatsTypeOK, Known, NEW s \in Requests, ReadOrg(s)
  PROVE  /\ register' \in [Requests -> Handlers]
         /\ register'[s].pc = "known" /\ register'[s].org \in Orgs
         /\ register'[s].mid = register[s].mid /\ register'[s].token = register[s].token
         /\ \A r \in Requests : r # s => register'[r] = register[r]
<1> DEFINE new == [register[s] EXCEPT !.pc = "known", !.org = firm[register[s].mid]]
<1>1. register[s] \in Handlers /\ firm[register[s].mid] \in Orgs
  BY TypedHandlers DEF ReadOrg, Known, RequestOK, SeatsTypeOK
<1>2. /\ new \in Handlers /\ new.pc = "known" /\ new.org \in Orgs
      /\ new.mid = register[s].mid /\ new.token = register[s].token
  BY <1>1 DEF Handlers, Points
<1>3. register' = [register EXCEPT ![s] = new]
  BY TypedHandlers DEF ReadOrg
<1> HIDE DEF new
<1>4. QED
  BY <1>2, <1>3, TypedHandlers

LEMMA InsertIs ==
  ASSUME SeatsTypeOK, NEW s \in Requests, InsertSeat(s)
  PROVE  /\ register' \in [Requests -> Handlers]
         /\ register'[s] = [register[s] EXCEPT !.pc = "answer"]
         /\ \A r \in Requests : r # s =>
              \/ register'[r] = register[r] /\ ~ (Counted(r) /\ register[r].org = register[s].org)
              \/ register'[r] = [register[r] EXCEPT !.disturbed = TRUE]
<1>1. \A r \in Requests : register[r] \in Handlers
  BY TypedHandlers
<1>2. \A r \in Requests : [register[r] EXCEPT !.pc = "answer"] \in Handlers
  BY <1>1 DEF Handlers, Points
<1>3. \A r \in Requests : [register[r] EXCEPT !.disturbed = TRUE] \in Handlers
  BY <1>1 DEF Handlers
<1>4. QED
  BY <1>1, <1>2, <1>3 DEF InsertSeat

----------------------------------------------------------------------------
\* Every step, for proofs by cases.
LEMMA Steps ==
  ASSUME [SeatsNext]_seatVars
  PROVE  \/ UNCHANGED seatVars
         \/ MidnightPasses
         \/ \E m \in Machines : MoveMachine(m) \/ LoseFile(m) \/ Authorize(m) \/ Refresh(m)
         \/ \E s \in Requests :
              \/ \E m \in Machines : Ask(s, m)
              \/ ReadOrg(s) \/ KnownMachine(s) \/ CountSeats(s) \/ RefuseSeat(s)
              \/ FindSeat(s) \/ UpdateSeat(s) \/ InsertSeat(s)
              \/ StoreToken(s) \/ LoseAnswer(s)
BY DEF SeatsNext, Register

\* The handlers stay handlers, and know their machine, token and org.
LEMMA HandlersStep ==
  ASSUME SeatsTypeOK, Known, [SeatsNext]_seatVars
  PROVE  register' \in [Requests -> Handlers] /\ Known' /\ tokens' \in Nat /\ tokens <= tokens'
<1>1. tokens \in Nat /\ \A s \in Requests : register[s] \in Handlers /\ RequestOK(s)
  BY Numbers, TypedHandlers DEF Known
<1>2. ASSUME tokens' = tokens, register' \in [Requests -> Handlers], NEW s \in Requests,
             \A r \in Requests : r # s => register'[r] = register[r], RequestOK(s)'
      PROVE  register' \in [Requests -> Handlers] /\ Known' /\ tokens' \in Nat /\ tokens <= tokens'
  BY <1>1, <1>2 DEF Known, RequestOK
<1>3. ASSUME UNCHANGED <<register, tokens>>
      PROVE  register' \in [Requests -> Handlers] /\ Known' /\ tokens' \in Nat /\ tokens <= tokens'
  BY <1>1, <1>3, TypedHandlers DEF Known, RequestOK
<1>4. ASSUME NEW s \in Requests, NEW pc \in Points \ {"none", "org"}, tokens' = tokens,
             register[s].pc \notin {"none", "org"}, Goes(s, pc)
      PROVE  register' \in [Requests -> Handlers] /\ Known' /\ tokens' \in Nat /\ tokens <= tokens'
  <2>1. register'[s] = [register[s] EXCEPT !.pc = pc]
    BY <1>4, GoesIs
  <2>2. RequestOK(s)'
    BY <1>1, <1>4, <2>1 DEF RequestOK, Handlers
  <2>3. QED
    BY <1>2, <1>4, <2>2, GoesIs
<1>5. ASSUME NEW s \in Requests, tokens' = tokens, register' = [register EXCEPT ![s] = NoRequest]
      PROVE  register' \in [Requests -> Handlers] /\ Known' /\ tokens' \in Nat /\ tokens <= tokens'
  <2>1. RequestOK(s)'
    BY <1>5, EndsIs, NoRequestIs DEF RequestOK
  <2>2. QED
    BY <1>2, <1>5, <2>1, EndsIs
<1>6. CASE UNCHANGED seatVars
  BY <1>3, <1>6 DEF seatVars
<1>7. CASE MidnightPasses
  BY <1>3, <1>7 DEF MidnightPasses
<1>8. ASSUME NEW m \in Machines, MoveMachine(m) \/ LoseFile(m) \/ Authorize(m) \/ Refresh(m)
      PROVE  register' \in [Requests -> Handlers] /\ Known' /\ tokens' \in Nat /\ tokens <= tokens'
  BY <1>3, <1>8 DEF MoveMachine, LoseFile, Authorize, Refresh
<1>9. ASSUME NEW s \in Requests, NEW m \in Machines, Ask(s, m)
      PROVE  register' \in [Requests -> Handlers] /\ Known' /\ tokens' \in Nat /\ tokens <= tokens'
  <2>1. /\ register'[s].pc = "org" /\ register'[s].mid = m /\ register'[s].token = tokens'
        /\ \A r \in Requests : r # s => register'[r] = register[r]
        /\ tokens' = tokens + 1 /\ register' \in [Requests -> Handlers]
    BY <1>9, AskIs
  <2>2. \A r \in Requests : RequestOK(r)'
    BY <1>1, <2>1 DEF RequestOK, Handlers
  <2>3. QED
    BY <1>1, <2>1, <2>2 DEF Known
<1>10. ASSUME NEW s \in Requests, ReadOrg(s)
       PROVE  register' \in [Requests -> Handlers] /\ Known' /\ tokens' \in Nat /\ tokens <= tokens'
  <2>1. register[s].pc = "org" /\ tokens' = tokens
    BY <1>10 DEF ReadOrg
  <2>2. RequestOK(s)'
    BY <1>1, <1>10, <2>1, ReadOrgIs DEF RequestOK
  <2>3. QED
    BY <1>2, <1>10, <2>1, <2>2, ReadOrgIs
<1>11. ASSUME NEW s \in Requests,
              KnownMachine(s) \/ CountSeats(s) \/ FindSeat(s) \/ UpdateSeat(s)
       PROVE  register' \in [Requests -> Handlers] /\ Known' /\ tokens' \in Nat /\ tokens <= tokens'
  BY <1>4, <1>11 DEF KnownMachine, CountSeats, FindSeat, UpdateSeat, Points
<1>12. ASSUME NEW s \in Requests, RefuseSeat(s) \/ StoreToken(s) \/ LoseAnswer(s)
       PROVE  register' \in [Requests -> Handlers] /\ Known' /\ tokens' \in Nat /\ tokens <= tokens'
  BY <1>5, <1>12 DEF RefuseSeat, RequestOver, StoreToken, AnswerComes, LoseAnswer
<1>13. ASSUME NEW s \in Requests, InsertSeat(s)
       PROVE  register' \in [Requests -> Handlers] /\ Known' /\ tokens' \in Nat /\ tokens <= tokens'
  <2>1. register[s].pc = "insert" /\ tokens' = tokens
    BY <1>13 DEF InsertSeat
  <2>2. \A r \in Requests :
           /\ register'[r].mid = register[r].mid /\ register'[r].org = register[r].org
           /\ register'[r].token = register[r].token
           /\ register'[r].pc = register[r].pc \/ r = s
    <3>1. ASSUME NEW r \in Requests, register'[r] = [register[r] EXCEPT !.disturbed = TRUE]
          PROVE  /\ register'[r].mid = register[r].mid /\ register'[r].org = register[r].org
                 /\ register'[r].token = register[r].token /\ register'[r].pc = register[r].pc
      BY <1>1, <3>1 DEF Handlers
    <3>2. /\ register'[s].mid = register[s].mid /\ register'[s].org = register[s].org
          /\ register'[s].token = register[s].token
      BY <1>1, <1>13, InsertIs DEF Handlers
    <3>3. QED
      BY <1>13, <3>1, <3>2, InsertIs
  <2>3. \A r \in Requests : RequestOK(r)'
    BY <1>1, <2>1, <2>2 DEF RequestOK
  <2>4. Known'
    BY <2>3 DEF Known
  <2>5. register' \in [Requests -> Handlers]
    BY <1>13, InsertIs
  <2>6. QED
    BY <1>1, <2>1, <2>4, <2>5
<1>14. QED
  BY Steps, <1>6, <1>7, <1>8, <1>9, <1>10, <1>11, <1>12, <1>13

\* What a step writes to the seats are rows, and no row goes away.
RowsStay ==
    /\ seats' \in [Machines -> [token : 1..tokens', exp : Nat, org : Orgs] \cup {NoSeat}]
    /\ \A m \in Machines : seats[m] # NoSeat => seats'[m] # NoSeat

LEMMA SeatsStep ==
  ASSUME SeatsTypeOK, Known, FoundStays, [SeatsNext]_seatVars
  PROVE  RowsStay
<1> DEFINE SeatRow == [token : 1..tokens, exp : Nat, org : Orgs]
<1>1. seats \in [Machines -> SeatRow \cup {NoSeat}] /\ tokens \in Nat /\ today \in Nat
  BY DEF SeatsTypeOK
<1>2. SeatRow \subseteq [token : 1..tokens', exp : Nat, org : Orgs] /\ NoSeat \notin SeatRow
  BY <1>1, HandlersStep, NoSeatIs
<1>3. ASSUME UNCHANGED seats PROVE RowsStay
  BY <1>1, <1>2, <1>3 DEF RowsStay
<1>4. ASSUME NEW m \in Machines, NEW v \in SeatRow, seats' = [seats EXCEPT ![m] = v] PROVE RowsStay
  BY <1>1, <1>2, <1>4 DEF RowsStay
<1>5. ASSUME NEW m \in Machines, Refresh(m) PROVE RowsStay
  <2>1. seats[m] \in SeatRow
    BY <1>5, RegisteredIs DEF Refresh, FoundStays
  <2>2. today + Ttl \in Nat
    BY <1>1, SeatsAssumption
  <2>3. [seats[m] EXCEPT !.exp = today + Ttl] \in SeatRow
    BY <2>1, <2>2
  <2>4. seats' = [seats EXCEPT ![m] = [seats[m] EXCEPT !.exp = today + Ttl]]
    BY <1>1, <1>5 DEF Refresh
  <2>5. QED
    BY <1>4, <2>3, <2>4
<1>6. ASSUME NEW s \in Requests, UpdateSeat(s) \/ InsertSeat(s) PROVE RowsStay
  <2>1. register[s].pc \in {"update", "insert"}
        /\ seats' = [seats EXCEPT ![register[s].mid] = Granted(s)]
    BY <1>6 DEF UpdateSeat, InsertSeat
  <2>2. QED
    BY <1>4, <2>1, GrantedIs
<1>7. ASSUME NEW m \in Machines, MoveMachine(m) \/ LoseFile(m) \/ Authorize(m) PROVE RowsStay
  BY <1>3, <1>7 DEF MoveMachine, LoseFile, Authorize
<1>8. ASSUME NEW s \in Requests,
             \/ \E m \in Machines : Ask(s, m)
             \/ ReadOrg(s) \/ KnownMachine(s) \/ CountSeats(s) \/ RefuseSeat(s)
             \/ FindSeat(s) \/ StoreToken(s) \/ LoseAnswer(s)
      PROVE  RowsStay
  BY <1>3, <1>8
     DEF Ask, ReadOrg, KnownMachine, CountSeats, RefuseSeat, RequestOver, FindSeat, StoreToken, AnswerComes, LoseAnswer
<1>9. CASE UNCHANGED seatVars \/ MidnightPasses
  BY <1>3, <1>9 DEF seatVars, MidnightPasses
<1>10. QED
  BY Steps, <1>5, <1>6, <1>7, <1>8, <1>9

LEMMA TypeStep ==
  ASSUME SeatsTypeOK, Known, FoundStays, [SeatsNext]_seatVars
  PROVE  SeatsTypeOK'
<1> DEFINE Rest == /\ today' \in Nat /\ firm' \in [Machines -> Orgs]
                   /\ auth' \subseteq Machines /\ token' \in [Machines -> Nat]
                   /\ loose' \subseteq Machines /\ crossed' \subseteq Machines
                   /\ alone' \subseteq Requests
<1>1. /\ today \in Nat /\ firm \in [Machines -> Orgs] /\ auth \subseteq Machines
      /\ token \in [Machines -> Nat] /\ loose \subseteq Machines /\ crossed \subseteq Machines
      /\ alone \subseteq Requests
  BY DEF SeatsTypeOK
<1>2. \A s \in Requests : register[s].pc # "none" =>
         register[s].mid \in Machines /\ register[s].token \in Nat
  BY TypedHandlers DEF Known, RequestOK, Handlers
<1>3. Rest
  <2>1. CASE UNCHANGED seatVars
    BY <1>1, <2>1 DEF seatVars
  <2>2. CASE MidnightPasses
    BY <1>1, <2>2 DEF MidnightPasses
  <2>3. ASSUME NEW m \in Machines, MoveMachine(m) \/ LoseFile(m) PROVE Rest
    BY <1>1, <2>3 DEF MoveMachine, LoseFile
  <2>4. ASSUME NEW m \in Machines, Authorize(m) \/ Refresh(m) PROVE Rest
    BY <1>1, <2>4 DEF Authorize, Refresh
  <2>5. ASSUME NEW s \in Requests,
               \/ \E m \in Machines : Ask(s, m)
               \/ ReadOrg(s) \/ KnownMachine(s) \/ CountSeats(s) \/ RefuseSeat(s) \/ FindSeat(s)
        PROVE  Rest
    BY <1>1, <2>5 DEF Ask, ReadOrg, KnownMachine, CountSeats, RefuseSeat, RequestOver, FindSeat
  <2>6. ASSUME NEW s \in Requests, UpdateSeat(s) \/ InsertSeat(s) PROVE Rest
    BY <1>1, <1>2, <2>6 DEF UpdateSeat, InsertSeat
  <2>7. ASSUME NEW s \in Requests, StoreToken(s) \/ LoseAnswer(s) PROVE Rest
    BY <1>1, <1>2, <2>7 DEF StoreToken, RequestOver, AnswerComes, LoseAnswer
  <2>8. QED
    BY Steps, <2>1, <2>2, <2>3, <2>4, <2>5, <2>6, <2>7
<1>4. RowsStay /\ register' \in [Requests -> Handlers] /\ tokens' \in Nat
  BY SeatsStep, HandlersStep
<1>5. QED
  BY <1>3, <1>4 DEF SeatsTypeOK, RowsStay, Handlers, Points

----------------------------------------------------------------------------

\* The steps of a handler, and of the others that change its request.
SameRequest(s) ==
    /\ register'[s].pc = register[s].pc /\ register'[s].mid = register[s].mid
    /\ register'[s].org = register[s].org
    /\ ~ register'[s].disturbed => ~ register[s].disturbed

Advanced(s) ==
    \/ SameRequest(s)
    \/ register'[s].pc \in {"none", "org", "known", "count", "update", "answer"}
    \/ /\ register'[s].pc = "find" /\ register'[s].mid = register[s].mid
       /\ register[s].pc = "known" /\ Registered(register[s].mid)
    \/ /\ register'[s].pc = "find new" /\ register'[s].org = register[s].org
       /\ register[s].pc = "count" /\ Cardinality(ActiveIn(register[s].org)) < Cap
    \/ /\ register'[s].pc = "insert" /\ register'[s].org = register[s].org
       /\ register[s].pc = "find new"
       /\ ~ register'[s].disturbed => ~ register[s].disturbed

LEMMA AllAdvance ==
  ASSUME SeatsTypeOK, Known, FoundStays, [SeatsNext]_seatVars
  PROVE  \A r \in Requests : Advanced(r)
<1>1. ASSUME UNCHANGED register PROVE \A r \in Requests : Advanced(r)
  BY <1>1 DEF Advanced, SameRequest
<1>2. ASSUME NEW s \in Requests, \A r \in Requests : r # s => register'[r] = register[r], Advanced(s)
      PROVE  \A r \in Requests : Advanced(r)
  BY <1>2 DEF Advanced, SameRequest
<1>3. CASE UNCHANGED seatVars \/ MidnightPasses
  BY <1>1, <1>3 DEF seatVars, MidnightPasses
<1>4. ASSUME NEW m \in Machines, MoveMachine(m) \/ LoseFile(m) \/ Authorize(m) \/ Refresh(m)
      PROVE  \A r \in Requests : Advanced(r)
  BY <1>1, <1>4 DEF MoveMachine, LoseFile, Authorize, Refresh
<1>5. ASSUME NEW s \in Requests, NEW m \in Machines, Ask(s, m)
      PROVE  \A r \in Requests : Advanced(r)
  <2>1. Advanced(s)
    BY <1>5, AskIs DEF Advanced
  <2>2. QED
    BY <1>2, <1>5, <2>1, AskIs
<1>6. ASSUME NEW s \in Requests, ReadOrg(s) PROVE \A r \in Requests : Advanced(r)
  <2>1. Advanced(s)
    BY <1>6, ReadOrgIs DEF Advanced
  <2>2. QED
    BY <1>2, <1>6, <2>1, ReadOrgIs
<1>7. ASSUME NEW s \in Requests, RefuseSeat(s) \/ StoreToken(s) \/ LoseAnswer(s)
      PROVE  \A r \in Requests : Advanced(r)
  <2>1. register' = [register EXCEPT ![s] = NoRequest]
    BY <1>7 DEF RefuseSeat, RequestOver, StoreToken, AnswerComes, LoseAnswer
  <2>2. Advanced(s)
    BY <2>1, EndsIs, NoRequestIs DEF Advanced
  <2>3. QED
    BY <1>2, <2>1, <2>2, EndsIs
<1>8. ASSUME NEW s \in Requests, NEW pc \in Points, Goes(s, pc)
      PROVE  /\ register'[s].pc = pc /\ register'[s].mid = register[s].mid
             /\ register'[s].org = register[s].org /\ register'[s].disturbed = register[s].disturbed
             /\ \A r \in Requests : r # s => register'[r] = register[r]
  <2>1. register[s] \in Handlers
    BY TypedHandlers
  <2>2. /\ register'[s] = [register[s] EXCEPT !.pc = pc]
        /\ \A r \in Requests : r # s => register'[r] = register[r]
    BY <1>8, GoesIs
  <2>3. QED
    BY <2>1, <2>2 DEF Handlers
<1>9. ASSUME NEW s \in Requests, KnownMachine(s) PROVE \A r \in Requests : Advanced(r)
  <2>1. CASE Registered(register[s].mid)
    <3>1. Goes(s, "find") /\ register[s].pc = "known" /\ "find" \in Points
      BY <1>9, <2>1 DEF KnownMachine, Points
    <3>2. QED
      BY <1>2, <1>8, <2>1, <3>1 DEF Advanced
  <2>2. CASE ~ Registered(register[s].mid)
    <3>1. Goes(s, "count") /\ "count" \in Points
      BY <1>9, <2>2 DEF KnownMachine, Points
    <3>2. QED
      BY <1>2, <1>8, <3>1 DEF Advanced
  <2>3. QED
    BY <2>1, <2>2
<1>10. ASSUME NEW s \in Requests, CountSeats(s) PROVE \A r \in Requests : Advanced(r)
  <2>1. Goes(s, "find new") /\ register[s].pc = "count" /\ "find new" \in Points
        /\ Cardinality(ActiveIn(register[s].org)) < Cap
    BY <1>10 DEF CountSeats, Points
  <2>2. QED
    BY <1>2, <1>8, <2>1 DEF Advanced
<1>11. ASSUME NEW s \in Requests, FindSeat(s) PROVE \A r \in Requests : Advanced(r)
  <2>1. CASE Registered(register[s].mid)
    <3>1. Goes(s, "update") /\ "update" \in Points
      BY <1>11, <2>1 DEF FindSeat, Points
    <3>2. QED
      BY <1>2, <1>8, <3>1 DEF Advanced
  <2>2. CASE ~ Registered(register[s].mid)
    <3>1. Goes(s, "insert") /\ register[s].pc = "find new" /\ "insert" \in Points
      BY <1>11, <2>2 DEF FindSeat, FoundStays, Points
    <3>2. QED
      BY <1>2, <1>8, <3>1 DEF Advanced
  <2>3. QED
    BY <2>1, <2>2
<1>12. ASSUME NEW s \in Requests, UpdateSeat(s) PROVE \A r \in Requests : Advanced(r)
  <2>1. Goes(s, "answer") /\ "answer" \in Points
    BY <1>12 DEF UpdateSeat, Points
  <2>2. QED
    BY <1>2, <1>8, <2>1 DEF Advanced
<1>13. ASSUME NEW s \in Requests, InsertSeat(s) PROVE \A r \in Requests : Advanced(r)
  <2>1. \A r \in Requests : register[r] \in Handlers
    BY TypedHandlers
  <2>2. register'[s].pc = "answer"
    BY <1>13, <2>1, InsertIs DEF Handlers
  <2>3. ASSUME NEW r \in Requests, register'[r] = [register[r] EXCEPT !.disturbed = TRUE]
        PROVE  SameRequest(r)
    BY <2>1, <2>3 DEF Handlers, SameRequest
  <2>4. ASSUME NEW r \in Requests, register'[r] = register[r] PROVE SameRequest(r)
    BY <2>4 DEF SameRequest
  <2>5. QED
    BY <1>13, <2>2, <2>3, <2>4, InsertIs DEF Advanced
<1>14. QED
  BY Steps, <1>3, <1>4, <1>5, <1>6, <1>7, <1>9, <1>10, <1>11, <1>12, <1>13

\* A handler that found a row will find it, and a token that was accepted
\* belongs to a row.
LEMMA FoundStep ==
  ASSUME SeatsTypeOK, Known, FoundStays, [SeatsNext]_seatVars
  PROVE  FoundStays'
<1>1. \A m \in Machines : Registered(m) => Registered(m)'
  BY SeatsStep DEF RowsStay, Registered
<1>2. \A m \in auth' : Registered(m)'
  <2>1. \A m \in auth' : m \in auth \/ \E n \in Machines : m = n /\ Authorize(n)
    BY Steps DEF seatVars, MidnightPasses, MoveMachine, LoseFile, Authorize, Refresh, Ask, ReadOrg,
       KnownMachine, CountSeats, RefuseSeat, FindSeat, UpdateSeat, InsertSeat, StoreToken, AnswerComes,
       RequestOver, LoseAnswer
  <2>2. ASSUME NEW m \in Machines, Authorize(m) PROVE Registered(m)
    BY <2>2, RegisteredIs DEF Authorize
  <2>3. auth \subseteq Machines
    BY DEF SeatsTypeOK
  <2>4. QED
    BY <1>1, <2>1, <2>2, <2>3 DEF FoundStays
<1>3. ASSUME NEW s \in Requests, register'[s].pc = "find" PROVE Registered(register[s].mid)'
  <2>1. /\ register'[s].mid = register[s].mid /\ Registered(register[s].mid)
        /\ register[s].pc # "none"
    BY <1>3, AllAdvance DEF Advanced, SameRequest, FoundStays
  <2>2. register[s].mid \in Machines
    BY <2>1 DEF Known, RequestOK
  <2>3. QED
    BY <1>1, <2>1, <2>2 DEF Registered
<1>4. QED
  BY <1>2, <1>3 DEF FoundStays

----------------------------------------------------------------------------
\* A request, seen from its desktop, stays what it is.
SameDesk(r) ==
    /\ register'[r].mid = register[r].mid /\ register'[r].token = register[r].token
    /\ register'[r].pc = "none" <=> register[r].pc = "none"

\* Steps in which no row gets a token and no answer is on its way or comes.
LEMMA QuietDesk ==
  ASSUME AloneOK, TokenKnown, SeatsTypeOK, Known, UNCHANGED alone,
         \A m \in Machines : m \notin crossed' => m \notin crossed /\ token'[m] = token[m],
         \A m \in Machines : seats'[m].token = seats[m].token,
         \A r \in Requests : SameDesk(r) /\ (register'[r].pc = "answer" <=> register[r].pc = "answer")
  PROVE  AloneOK' /\ TokenKnown'
<1>1. alone \subseteq Requests /\ \A s \in alone : register[s].mid \in Machines
  BY DEF AloneOK, SeatsTypeOK, Known, RequestOK
<1>2. AloneOK'
  BY <1>1 DEF AloneOK, SameDesk
<1>3. ASSUME NEW m \in Machines \ crossed', token'[m] # seats'[m].token
      PROVE  \E s \in Asking(m)' : register'[s].pc = "answer"
  <2>1. PICK s \in Asking(m) : register[s].pc = "answer"
    BY <1>3 DEF TokenKnown
  <2>2. s \in Asking(m)' /\ register'[s].pc = "answer"
    BY <2>1 DEF Asking, SameDesk
  <2> QED BY <2>2
<1> QED BY <1>2, <1>3 DEF TokenKnown

LEMMA GoesOnDesk ==
  ASSUME SeatsTypeOK, NEW s \in Requests, NEW pc \in Points \ {"none"}, Goes(s, pc), register[s].pc # "none"
  PROVE  /\ \A r \in Requests : SameDesk(r)
         /\ register'[s].pc = pc /\ \A r \in Requests : r # s => register'[r].pc = register[r].pc
<1>1. register[s] \in Handlers
  BY TypedHandlers
<1>2. /\ register'[s] = [register[s] EXCEPT !.pc = pc]
      /\ \A r \in Requests : r # s => register'[r] = register[r]
  BY GoesIs
<1>3. register'[s].pc = pc /\ SameDesk(s)
  BY <1>1, <1>2 DEF Handlers, SameDesk
<1> QED BY <1>2, <1>3 DEF SameDesk

\* A row that is written has the token of the answer that is now to come; it
\* is nobody's row but the machine's.
LEMMA WrittenDesk ==
  ASSUME SeatsTypeOK, Known, AloneOK, TokenKnown, NEW s \in Requests, UpdateSeat(s) \/ InsertSeat(s)
  PROVE  AloneOK' /\ TokenKnown'
<1> DEFINE m == register[s].mid
<1>1. /\ register[s].pc \in {"update", "insert"} /\ UNCHANGED <<token, crossed, alone>>
      /\ seats' = [seats EXCEPT ![m] = Granted(s)]
  BY DEF UpdateSeat, InsertSeat
<1>2. m \in Machines /\ Granted(s).token = register[s].token
  BY <1>1, GrantedIs
<1>3. /\ seats'[m].token = register[s].token
      /\ \A n \in Machines : n # m => seats'[n].token = seats[n].token
  <2>1. seats \in [Machines -> Seat]
    BY DEF SeatsTypeOK, Seat
  <2> HIDE DEF m
  <2> QED BY <1>1, <1>2, <2>1
<1>4. /\ register'[s].pc = "answer" /\ \A r \in Requests : SameDesk(r)
      /\ \A r \in Requests : r # s => register'[r].pc = register[r].pc
  <2>1. \A r \in Requests : register[r] \in Handlers
    BY TypedHandlers
  <2>2. CASE UpdateSeat(s)
    <3>1. Goes(s, "answer") /\ "answer" \in Points \ {"none"} /\ register[s].pc # "none"
      BY <1>1, <2>2 DEF UpdateSeat, Points
    <3> QED BY <3>1, GoesOnDesk
  <2>3. CASE InsertSeat(s)
    <3>1. register'[s] = [register[s] EXCEPT !.pc = "answer"]
      BY <2>3, InsertIs
    <3>2. register'[s].pc = "answer" /\ SameDesk(s)
      BY <1>1, <2>1, <3>1 DEF Handlers, SameDesk
    <3>3. ASSUME NEW r \in Requests, register'[r] = [register[r] EXCEPT !.disturbed = TRUE]
          PROVE  register'[r].pc = register[r].pc /\ SameDesk(r)
      BY <2>1, <3>3 DEF Handlers, SameDesk
    <3>4. ASSUME NEW r \in Requests, r # s PROVE register'[r].pc = register[r].pc /\ SameDesk(r)
      BY <2>3, <3>3, <3>4, InsertIs DEF SameDesk
    <3> QED BY <3>2, <3>4
  <2> QED BY <2>2, <2>3
<1>5. AloneOK'
  <2> SUFFICES ASSUME NEW r \in alone'
               PROVE  /\ register'[r].pc # "none"
                      /\ \A q \in Requests \ {r} : register'[q].pc # "none" => register'[q].mid # register'[r].mid
                      /\ register'[r].pc = "answer" => seats'[register'[r].mid].token = register'[r].token
    BY DEF AloneOK
  <2>1. r \in alone /\ r \in Requests /\ register[r].pc # "none" /\ register[r].mid \in Machines
    BY <1>1 DEF AloneOK, SeatsTypeOK, Known, RequestOK
  <2>2. /\ register'[r].pc # "none"
        /\ \A q \in Requests \ {r} : register'[q].pc # "none" => register'[q].mid # register'[r].mid
    BY <1>4, <2>1 DEF AloneOK, SameDesk
  <2>3. CASE r = s
    BY <1>3, <1>4, <2>2, <2>3 DEF SameDesk
  <2>4. CASE r # s
    <3>1. register[s].pc # "none"
      BY <1>1
    <3>2. register[r].mid # m
      BY <2>1, <2>4, <3>1 DEF AloneOK
    <3>3. register[r].pc = "answer" => seats[register[r].mid].token = register[r].token
      BY <2>1 DEF AloneOK
    <3> QED BY <1>3, <1>4, <2>1, <2>2, <2>4, <3>2, <3>3 DEF SameDesk
  <2> QED BY <2>3, <2>4
<1>6. ASSUME NEW n \in Machines \ crossed', token'[n] # seats'[n].token
      PROVE  \E r \in Asking(n)' : register'[r].pc = "answer"
  <2>1. CASE n = m
    <3>1. s \in Asking(n)'
      BY <1>1, <1>4, <2>1 DEF Asking, SameDesk
    <3> QED BY <1>4, <3>1
  <2>2. CASE n # m
    <3>1. PICK r \in Asking(n) : register[r].pc = "answer"
      BY <1>1, <1>3, <1>6, <2>2 DEF TokenKnown
    <3>2. r \in Asking(n)' /\ register'[r].pc = "answer"
      BY <1>1, <1>4, <3>1 DEF Asking, SameDesk
    <3> QED BY <3>2
  <2> QED BY <2>1, <2>2
<1> QED BY <1>5, <1>6 DEF TokenKnown

\* A request that is over.
LEMMA OverDesk ==
  ASSUME SeatsTypeOK, Known, AloneOK, TokenKnown, NEW s \in Requests, RequestOver(s), UNCHANGED seats,
         register[s].pc # "none",
         \A n \in Machines : n # register[s].mid =>
            token'[n] = token[n] /\ (n \in crossed => n \in crossed'),
         register[s].pc = "answer" \/ UNCHANGED <<token, crossed>>,
         register[s].pc = "answer" =>
            register[s].mid \in crossed' \/ token'[register[s].mid] = seats[register[s].mid].token
  PROVE  AloneOK' /\ TokenKnown'
<1>1. /\ register'[s] = NoRequest /\ \A r \in Requests : r # s => register'[r] = register[r]
      /\ alone' = alone \ {s}
  BY EndsIs DEF RequestOver
<1>2. alone \subseteq Requests
  BY DEF SeatsTypeOK
<1>3. AloneOK'
  BY <1>1, <1>2, NoRequestIs DEF AloneOK
<1>4. ASSUME NEW n \in Machines \ crossed', token'[n] # seats'[n].token
      PROVE  \E r \in Asking(n)' : register'[r].pc = "answer"
  <2>1. ~ (register[s].pc = "answer" /\ n = register[s].mid)
    BY <1>4
  <2>2. n \notin crossed /\ token[n] # seats[n].token
    BY <1>4, <2>1
  <2>3. PICK r \in Asking(n) : register[r].pc = "answer"
    BY <2>2 DEF TokenKnown
  <2>4. r # s
    BY <2>1, <2>3 DEF Asking
  <2>5. r \in Asking(n)' /\ register'[r].pc = "answer"
    BY <1>1, <2>3, <2>4 DEF Asking
  <2> QED BY <2>5
<1> QED BY <1>3, <1>4 DEF TokenKnown

LEMMA AskDesk ==
  ASSUME SeatsTypeOK, Known, AloneOK, TokenKnown, NEW s \in Requests, NEW m \in Machines, Ask(s, m)
  PROVE  AloneOK' /\ TokenKnown'
<1>1. /\ register'[s].pc = "org" /\ register'[s].mid = m
      /\ \A r \in Requests : r # s => register'[r] = register[r]
  BY AskIs
<1>2. /\ register[s].pc = "none" /\ UNCHANGED <<token, crossed, seats>>
      /\ alone' = IF Asking(m) = {} THEN alone \cup {s} ELSE alone \ Asking(m)
      /\ alone \subseteq Requests
  BY DEF Ask, SeatsTypeOK
<1>3. s \notin alone
  BY <1>2 DEF AloneOK
<1>4. \A r \in alone' : r = s \/ (r \in alone /\ r # s /\ register[r].mid # m)
  <2> SUFFICES ASSUME NEW r \in alone', r # s PROVE r \in alone /\ register[r].mid # m
    BY <1>2, <1>3
  <2>1. r \in alone /\ r \notin Asking(m)
    BY <1>2
  <2> QED BY <1>2, <2>1 DEF Asking, AloneOK
<1>5. s \in alone' => Asking(m) = {}
  BY <1>2, <1>3
<1>6. AloneOK'
  <2> SUFFICES ASSUME NEW r \in alone'
               PROVE  /\ register'[r].pc # "none"
                      /\ \A q \in Requests \ {r} : register'[q].pc # "none" => register'[q].mid # register'[r].mid
                      /\ register'[r].pc = "answer" => seats'[register'[r].mid].token = register'[r].token
    BY DEF AloneOK
  <2>1. CASE r = s
    <3>1. \A q \in Requests \ {r} : register'[q].pc # "none" => register'[q].mid # m
      BY <1>1, <1>5, <2>1 DEF Asking
    <3> QED BY <1>1, <2>1, <3>1
  <2>2. CASE r # s
    <3>1. r \in alone /\ r \in Requests /\ register[r].mid # m /\ register'[r] = register[r]
      BY <1>1, <1>2, <1>4, <2>2
    <3>2. \A q \in Requests \ {r} : register'[q].pc # "none" => register'[q].mid # register'[r].mid
      BY <1>1, <3>1 DEF AloneOK
    <3> QED BY <1>2, <3>1, <3>2 DEF AloneOK
  <2> QED BY <2>1, <2>2
<1>7. ASSUME NEW n \in Machines \ crossed', token'[n] # seats'[n].token
      PROVE  \E r \in Asking(n)' : register'[r].pc = "answer"
  <2>1. PICK r \in Asking(n) : register[r].pc = "answer"
    BY <1>2, <1>7 DEF TokenKnown
  <2>2. r \in Asking(n)' /\ register'[r].pc = "answer"
    BY <1>1, <1>2, <2>1 DEF Asking
  <2> QED BY <2>2
<1> QED BY <1>6, <1>7 DEF TokenKnown

\* A desktop that is not crossed holds what the Worker knows.
LEMMA TokenStep ==
  ASSUME SeatsTypeOK, Known, FoundStays, AloneOK, TokenKnown, [SeatsNext]_seatVars
  PROVE  AloneOK' /\ TokenKnown'
<1>1. /\ token \in [Machines -> Nat] /\ crossed \subseteq Machines /\ seats \in [Machines -> Seat]
      /\ \A s \in Requests : register[s] \in Handlers /\ RequestOK(s)
  BY TypedHandlers DEF SeatsTypeOK, Seat, Known
<1>2. ASSUME UNCHANGED <<register, alone>>,
             \A m \in Machines : seats'[m].token = seats[m].token,
             \A m \in Machines : m \notin crossed' => m \notin crossed /\ token'[m] = token[m]
      PROVE  AloneOK' /\ TokenKnown'
  BY <1>2, QuietDesk DEF SameDesk
<1>3. CASE UNCHANGED seatVars \/ MidnightPasses
  BY <1>2, <1>3 DEF seatVars, MidnightPasses
<1>4. ASSUME NEW m \in Machines, MoveMachine(m) \/ Authorize(m) PROVE AloneOK' /\ TokenKnown'
  BY <1>2, <1>4 DEF MoveMachine, Authorize
<1>5. ASSUME NEW m \in Machines, LoseFile(m) PROVE AloneOK' /\ TokenKnown'
  <2>1. \A n \in Machines : n \notin crossed' => n \notin crossed /\ token'[n] = token[n]
    BY <1>1, <1>5 DEF LoseFile
  <2> QED BY <1>2, <1>5, <2>1 DEF LoseFile
<1>6. ASSUME NEW m \in Machines, Refresh(m) PROVE AloneOK' /\ TokenKnown'
  <2>1. seats[m] \in [token : 1..tokens, exp : Nat, org : Orgs]
    BY <1>6, RegisteredIs DEF Refresh, FoundStays
  <2>2. seats' = [seats EXCEPT ![m] = [seats[m] EXCEPT !.exp = today + Ttl]]
    BY <1>1, <1>6 DEF Refresh
  <2>3. \A n \in Machines : seats'[n].token = seats[n].token
    BY <1>1, <2>1, <2>2
  <2> QED BY <1>2, <1>6, <2>3 DEF Refresh
<1>7. ASSUME NEW s \in Requests, ReadOrg(s) PROVE AloneOK' /\ TokenKnown'
  <2>1. /\ register'[s].pc = "known" /\ register[s].pc = "org"
        /\ register'[s].mid = register[s].mid /\ register'[s].token = register[s].token
        /\ \A r \in Requests : r # s => register'[r] = register[r]
    BY <1>7, ReadOrgIs DEF ReadOrg
  <2>2. \A r \in Requests : SameDesk(r) /\ (register'[r].pc = "answer" <=> register[r].pc = "answer")
    BY <2>1 DEF SameDesk
  <2> QED BY <1>7, <2>2, QuietDesk DEF ReadOrg
<1>8. ASSUME NEW s \in Requests, KnownMachine(s) \/ CountSeats(s) \/ FindSeat(s)
      PROVE  AloneOK' /\ TokenKnown'
  <2>1. PICK pc \in Points \ {"none", "answer"} : Goes(s, pc)
    BY <1>8 DEF KnownMachine, CountSeats, FindSeat, Points
  <2>2. register[s].pc \notin {"none", "answer"} /\ UNCHANGED <<token, crossed, seats, alone>>
    BY <1>8 DEF KnownMachine, CountSeats, FindSeat
  <2>3. \A r \in Requests : SameDesk(r) /\ (register'[r].pc = "answer" <=> register[r].pc = "answer")
    BY <2>1, <2>2, GoesOnDesk
  <2> QED BY <2>2, <2>3, QuietDesk
<1>9. ASSUME NEW s \in Requests, RefuseSeat(s) PROVE AloneOK' /\ TokenKnown'
  BY <1>9, OverDesk DEF RefuseSeat
<1>10. ASSUME NEW s \in Requests, StoreToken(s) PROVE AloneOK' /\ TokenKnown'
  <2> DEFINE m == register[s].mid
  <2>1. /\ register[s].pc = "answer" /\ RequestOver(s) /\ UNCHANGED seats
        /\ crossed' = IF s \in alone THEN crossed \ {m} ELSE crossed \cup {m}
        /\ token' = [token EXCEPT ![m] = register[s].token]
    BY <1>10 DEF StoreToken, AnswerComes
  <2>2. m \in Machines
    BY <1>1, <2>1 DEF RequestOK
  <2>3. m \in crossed' \/ token'[m] = seats[m].token
    BY <1>1, <2>1, <2>2 DEF AloneOK
  <2>4. \A n \in Machines : n # m => token'[n] = token[n] /\ (n \in crossed => n \in crossed')
    BY <1>1, <2>1
  <2> QED BY <2>1, <2>3, <2>4, OverDesk
<1>11. ASSUME NEW s \in Requests, LoseAnswer(s) PROVE AloneOK' /\ TokenKnown'
  BY <1>11, OverDesk DEF LoseAnswer
<1>12. QED
  BY Steps, AskDesk, WrittenDesk, <1>3, <1>4, <1>5, <1>6, <1>7, <1>8, <1>9, <1>10, <1>11

----------------------------------------------------------------------------
LEMMA Sizes ==
  ASSUME NEW o
  PROVE  /\ IsFiniteSet(ActiveIn(o)) /\ IsFiniteSet(Kept(o))
         /\ Cardinality(Kept(o)) \in Nat /\ Cardinality(ActiveIn(o)) \in Nat
         /\ Cardinality(Kept(o)) <= Cardinality(ActiveIn(o))
<1>1. IsFiniteSet(Machines) /\ ActiveIn(o) \subseteq Machines /\ Kept(o) \subseteq ActiveIn(o)
  BY SeatsAssumption DEF ActiveIn, Kept
<1>2. IsFiniteSet(ActiveIn(o))
  BY <1>1, FS_Subset
<1>3. QED
  BY <1>1, <1>2, FS_Subset, FS_CardinalityType

\* A set of seats that gives some up and takes one.
LEMMA OneMore ==
  ASSUME NEW A, NEW B, NEW m, IsFiniteSet(A), B \subseteq A \cup {m}
  PROVE  Cardinality(B) <= Cardinality(A) + 1
<1>1. Cardinality(A) \in Nat
  BY FS_CardinalityType
<1>2. CASE m \in A
  <2>1. B \subseteq A
    BY <1>2
  <2>2. Cardinality(B) <= Cardinality(A) /\ Cardinality(B) \in Nat
    BY <2>1, FS_Subset, FS_CardinalityType
  <2>3. QED
    BY <1>1, <2>2
<1>3. CASE m \notin A
  <2>1. IsFiniteSet(A \cup {m}) /\ Cardinality(A \cup {m}) = Cardinality(A) + 1
    BY <1>3, FS_AddElement
  <2>2. Cardinality(B) <= Cardinality(A \cup {m})
    BY <2>1, FS_Subset
  <2>3. QED
    BY <2>1, <2>2
<1>4. QED
  BY <1>2, <1>3

\* What a row that is written can do to the counted seats.
LEMMA KeptAfterWrite ==
  ASSUME SeatsTypeOK, NEW m \in Machines, NEW v, seats' = [seats EXCEPT ![m] = v],
         UNCHANGED today, NEW o \in Orgs, loose \ {m} \subseteq loose'
  PROVE  /\ Kept(o)' \subseteq Kept(o) \cup {m}
         /\ m \in loose' \/ v.org # o => Kept(o)' \subseteq Kept(o)
<1>1. seats \in [Machines -> Seat]
  BY DEF SeatsTypeOK, Seat
<1>2. \A n \in Machines : n # m => seats'[n] = seats[n]
  BY <1>1
<1>3. seats'[m] = v
  BY <1>1
<1>4. \A n \in Machines : n # m /\ n \in Kept(o)' => n \in Kept(o)
  BY <1>2 DEF Kept, ActiveIn, Active, Registered
<1>5. Kept(o)' \subseteq Machines /\ (m \in loose' \/ v.org # o => m \notin Kept(o)')
  BY <1>3 DEF Kept, ActiveIn
<1>6. QED
  BY <1>4, <1>5

\* A row that was counted as this org's stays counted when it is extended.
LEMMA KeptAfterExtension ==
  ASSUME SeatsTypeOK, NEW m \in Machines, NEW v, seats' = [seats EXCEPT ![m] = v],
         UNCHANGED <<today, loose>>, Active(m), v.org = seats[m].org, NEW o \in Orgs
  PROVE  Kept(o)' \subseteq Kept(o)
<1>1. seats \in [Machines -> Seat]
  BY DEF SeatsTypeOK, Seat
<1>2. \A n \in Machines : n # m => seats'[n] = seats[n]
  BY <1>1
<1>3. seats'[m].org = seats[m].org
  BY <1>1
<1>4. \A n \in Machines : n # m /\ n \in Kept(o)' => n \in Kept(o)
  BY <1>2 DEF Kept, ActiveIn, Active, Registered
<1>5. m \in Kept(o)' => m \in Kept(o)
  BY <1>3 DEF Kept, ActiveIn
<1>6. QED
  BY <1>4, <1>5 DEF Kept, ActiveIn

\* Only an insert after an undisturbed count adds a counted seat.
LEMMA KeptStep ==
  ASSUME SeatsTypeOK, Known, FoundStays, [SeatsNext]_seatVars, NEW o \in Orgs
  PROVE  \/ Kept(o)' \subseteq Kept(o)
         \/ \E s \in Requests :
              /\ InsertSeat(s) /\ ~ register[s].disturbed /\ register[s].org = o
              /\ Kept(o)' \subseteq Kept(o) \cup {register[s].mid}
<1>1. ASSUME UNCHANGED <<today, seats, loose>> PROVE Kept(o)' \subseteq Kept(o)
  BY <1>1 DEF Kept, ActiveIn, Active, Registered
<1>2. CASE MidnightPasses
  <2>1. today \in Nat /\ today' = today + 1 /\ UNCHANGED <<seats, loose>>
    BY <1>2, Numbers DEF MidnightPasses
  <2>2. ASSUME NEW m \in Machines, Active(m)' PROVE Active(m)
    <3>1. seats[m] \in [token : 1..tokens, exp : Nat, org : Orgs]
      BY <2>1, <2>2, RegisteredIs DEF Active, Registered
    <3>2. seats[m].exp \in Nat
      BY <3>1
    <3>3. QED
      BY <2>1, <2>2, <3>2 DEF Active, Registered
  <2>3. QED
    BY <2>1, <2>2 DEF Kept, ActiveIn
<1>3. ASSUME NEW m \in Machines, MoveMachine(m) \/ LoseFile(m) \/ Authorize(m) PROVE Kept(o)' \subseteq Kept(o)
  BY <1>1, <1>3 DEF MoveMachine, LoseFile, Authorize
<1>4. ASSUME NEW m \in Machines, Refresh(m) PROVE Kept(o)' \subseteq Kept(o)
  <2> DEFINE v == [seats[m] EXCEPT !.exp = today + Ttl]
  <2>1. seats[m] \in [token : 1..tokens, exp : Nat, org : Orgs] /\ seats \in [Machines -> Seat]
    BY <1>4, RegisteredIs DEF Refresh, FoundStays, SeatsTypeOK, Seat
  <2>2. seats' = [seats EXCEPT ![m] = v] /\ UNCHANGED today
        /\ loose' = IF Active(m) THEN loose ELSE loose \cup {m}
    BY <1>4, <2>1 DEF Refresh
  <2>3. v.org = seats[m].org
    BY <2>1
  <2> HIDE DEF v
  <2>4. QED
    BY <2>2, <2>3, KeptAfterWrite, KeptAfterExtension
<1>5. ASSUME NEW s \in Requests,
             \/ \E m \in Machines : Ask(s, m)
             \/ ReadOrg(s) \/ KnownMachine(s) \/ CountSeats(s) \/ RefuseSeat(s)
             \/ FindSeat(s) \/ StoreToken(s) \/ LoseAnswer(s)
      PROVE  Kept(o)' \subseteq Kept(o)
  BY <1>1, <1>5
     DEF Ask, ReadOrg, KnownMachine, CountSeats, RefuseSeat, RequestOver, FindSeat, StoreToken, AnswerComes, LoseAnswer
<1>6. ASSUME NEW s \in Requests, UpdateSeat(s) PROVE Kept(o)' \subseteq Kept(o)
  <2> DEFINE m == register[s].mid
  <2>1. register[s].pc = "update" /\ seats' = [seats EXCEPT ![m] = Granted(s)] /\ UNCHANGED today
        /\ loose' = IF Active(m) /\ seats[m].org = register[s].org THEN loose ELSE loose \cup {m}
    BY <1>6 DEF UpdateSeat
  <2>2. m \in Machines /\ Granted(s).org = register[s].org
    BY <2>1, GrantedIs
  <2> HIDE DEF m
  <2>3. QED
    BY <2>1, <2>2, KeptAfterWrite, KeptAfterExtension
<1>7. ASSUME NEW s \in Requests, InsertSeat(s)
      PROVE  \/ Kept(o)' \subseteq Kept(o)
             \/ /\ InsertSeat(s) /\ ~ register[s].disturbed /\ register[s].org = o
                /\ Kept(o)' \subseteq Kept(o) \cup {register[s].mid}
  <2> DEFINE m == register[s].mid
  <2>1. register[s].pc = "insert" /\ seats' = [seats EXCEPT ![m] = Granted(s)] /\ UNCHANGED today
        /\ loose' = IF register[s].disturbed THEN loose \cup {m} ELSE loose \ {m}
    BY <1>7 DEF InsertSeat
  <2>2. m \in Machines /\ Granted(s).org = register[s].org
    BY <2>1, GrantedIs
  <2>3. /\ Kept(o)' \subseteq Kept(o) \cup {m}
        /\ m \in loose' \/ register[s].org # o => Kept(o)' \subseteq Kept(o)
    BY <2>1, <2>2, KeptAfterWrite
  <2>4. QED
    BY <1>7, <2>1, <2>3
<1>8. CASE UNCHANGED seatVars
  BY <1>1, <1>8 DEF seatVars
<1>9. QED
  BY Steps, <1>2, <1>3, <1>4, <1>5, <1>6, <1>7, <1>8

LEMMA CapStep ==
  ASSUME SeatsInv, [SeatsNext]_seatVars
  PROVE  CountedBelow' /\ CapNeedsCause'
<1>1. SeatsTypeOK /\ Known /\ FoundStays
  BY DEF SeatsInv
<1>2. /\ \A o \in Orgs : Cardinality(Kept(o)) <= Cap
      /\ \A s \in Requests :
           Counted(s) /\ ~ register[s].disturbed => Cardinality(Kept(register[s].org)) < Cap
      /\ Cap \in Nat
  BY SeatsAssumption DEF SeatsInv, CapNeedsCause, CountedBelow, Kept
<1>3. \A o : Cardinality(Kept(o)) \in Nat /\ Cardinality(ActiveIn(o)) \in Nat /\ IsFiniteSet(Kept(o))
             /\ Cardinality(Kept(o)) <= Cardinality(ActiveIn(o))
  BY Sizes
<1>4. ASSUME NEW o, Kept(o)' \subseteq Kept(o)
      PROVE  Cardinality(Kept(o)') <= Cardinality(Kept(o)) /\ Cardinality(Kept(o)') \in Nat
  BY <1>3, <1>4, FS_Subset, FS_CardinalityType
<1>5. ASSUME NEW o \in Orgs, NEW s \in Requests,
             InsertSeat(s), ~ register[s].disturbed, register[s].org = o,
             Kept(o)' \subseteq Kept(o) \cup {register[s].mid}
      PROVE  Cardinality(Kept(o)') <= Cap
  <2>1. Cardinality(Kept(o)) < Cap
    BY <1>2, <1>5 DEF InsertSeat, Counted
  <2>2. Cardinality(Kept(o)') <= Cardinality(Kept(o)) + 1
    BY <1>3, <1>5, OneMore
  <2>3. IsFiniteSet(Kept(o)')
    <3>1. Kept(o)' \subseteq Machines
      BY DEF Kept, ActiveIn
    <3>2. QED
      BY <3>1, SeatsAssumption, FS_Subset
  <2>4. Cardinality(Kept(o)') \in Nat
    BY <2>3, FS_CardinalityType
  <2>5. QED
    BY <1>2, <1>3, <2>1, <2>2, <2>4
<1>6. CapNeedsCause'
  <2>1. ASSUME NEW o \in Orgs PROVE Cardinality(Kept(o)') <= Cap
    <3>1. CASE Kept(o)' \subseteq Kept(o)
      BY <1>2, <1>3, <1>4, <3>1
    <3>2. CASE ~ (Kept(o)' \subseteq Kept(o))
      BY <1>1, <1>5, <3>2, KeptStep
    <3>3. QED
      BY <3>1, <3>2
  <2>2. QED
    BY <2>1 DEF CapNeedsCause, Kept
<1>7. ASSUME NEW s \in Requests, Counted(s)', ~ register'[s].disturbed
      PROVE  Cardinality(Kept(register[s].org)') < Cap /\ register'[s].org = register[s].org
  <2> DEFINE o == register[s].org
  <2>1. /\ register'[s].org = o /\ o \in Orgs /\ Cardinality(Kept(o)) < Cap
    <3>1. Advanced(s)
      BY <1>1, AllAdvance
    <3>2. \/ Counted(s) /\ ~ register[s].disturbed
          \/ register[s].pc = "count" /\ Cardinality(ActiveIn(o)) < Cap
      BY <1>7, <3>1 DEF Advanced, SameRequest, Counted
    <3>3. register'[s].org = o
      BY <1>7, <3>1 DEF Advanced, SameRequest, Counted
    <3>4. o \in Orgs
      BY <1>1, <3>2 DEF Counted, Known, RequestOK
    <3>5. Cardinality(Kept(o)) < Cap
      BY <1>2, <1>3, <3>2
    <3>6. QED
      BY <3>3, <3>4, <3>5
  <2>2. Kept(o)' \subseteq Kept(o)
    <3>1. ASSUME NEW r \in Requests, InsertSeat(r), register[r].org = o PROVE FALSE
      <4>1. \A q \in Requests : register[q] \in Handlers
        BY <1>1, TypedHandlers
      <4>2. CASE s = r
        BY <1>1, <1>7, <3>1, <4>1, <4>2, InsertIs DEF Counted, Handlers
      <4>3. CASE s # r /\ register'[s] = [register[s] EXCEPT !.disturbed = TRUE]
        BY <1>7, <4>1, <4>3 DEF Handlers
      <4>4. CASE s # r /\ register'[s] = register[s] /\ ~ (Counted(s) /\ o = register[r].org)
        BY <1>7, <3>1, <4>4 DEF Counted
      <4>5. QED
        BY <1>1, <3>1, <4>2, <4>3, <4>4, InsertIs
    <3>2. QED
      BY <1>1, <2>1, <3>1, KeptStep
  <2>3. QED
    BY <1>2, <1>3, <1>4, <2>1, <2>2
<1>8. CountedBelow'
  BY <1>7 DEF CountedBelow
<1>9. QED
  BY <1>6, <1>8

----------------------------------------------------------------------------
LEMMA InvInit == SeatsInit => SeatsInv
<1> SUFFICES ASSUME SeatsInit PROVE SeatsInv
  OBVIOUS
<1>1. /\ today = 0 /\ tokens = 0 /\ firm \in [Machines -> Orgs] /\ auth = {}
      /\ seats = [m \in Machines |-> NoSeat] /\ register = [s \in Requests |-> NoRequest]
      /\ token = [m \in Machines |-> 0] /\ loose = {} /\ alone = {} /\ crossed = {}
  BY DEF SeatsInit
<1>2. SeatsTypeOK
  BY <1>1, NoRequestIs DEF SeatsTypeOK, Handlers, Points
<1>3. \A s \in Requests : register[s].pc = "none"
  BY <1>1, NoRequestIs
<1>4. Known /\ FoundStays /\ CountedBelow
  BY <1>1, <1>3 DEF Known, RequestOK, FoundStays, CountedBelow, Counted
<1>5. AloneOK /\ TokenKnown
  BY <1>1, NoSeatIs DEF AloneOK, TokenKnown
<1>6. ASSUME NEW o \in Orgs PROVE Cardinality(ActiveIn(o) \ loose) <= Cap
  <2>1. ActiveIn(o) \ loose = {}
    BY <1>1 DEF ActiveIn, Active, Registered
  <2>2. QED
    BY <2>1, FS_EmptySet, SeatsAssumption
<1>7. QED
  BY <1>2, <1>4, <1>5, <1>6 DEF SeatsInv, CapNeedsCause

LEMMA InvStep == SeatsInv /\ [SeatsNext]_seatVars => SeatsInv'
BY TypeStep, HandlersStep, FoundStep, TokenStep, CapStep DEF SeatsInv

\* A handler's count still stands when it inserts, unless another insert came
\* between; whoever found a row has one; what a request that is alone wrote is
\* there when its answer comes; and the two properties below.
THEOREM SeatsInvariant == SeatsSpec => []SeatsInv
<1>1. QED
  BY InvInit, InvStep, PTL DEF SeatsSpec

\* Rows, handlers and tokens keep their types; in particular a row of
\* sync_devices has a token that was issued, an expiry and an org.
THEOREM SeatsTypes == SeatsSpec => []SeatsTypeOK
<1>1. SeatsInv => SeatsTypeOK
  BY DEF SeatsInv
<1>2. QED
  BY <1>1, SeatsInvariant, PTL

\* For any number of machines, handlers and days: an org has more active
\* tokens than max_devices only through seats taken beside the count.
THEOREM SeatsCap == SeatsSpec => []CapNeedsCause
<1>1. SeatsInv => CapNeedsCause
  BY DEF SeatsInv
<1>2. QED
  BY <1>1, SeatsInvariant, PTL

\* A desktop holds the token the Worker compares, unless it has lost an answer
\* or the file, or asked twice at once, and has not asked alone since.
THEOREM SeatsToken == SeatsSpec => []TokenKnown
<1>1. SeatsInv => TokenKnown
  BY DEF SeatsInv
<1>2. QED
  BY <1>1, SeatsInvariant, PTL

----------------------------------------------------------------------------
(* The links between the rows of an org.                                   *)

Parts == Labels \cup ({"short", "long"} \X GroupIds) \cup {<<"star">>}

\* What a pull adds to the name of a group tells whose name it is.
OwnName(name, g) ==
    Len(name) > 0 /\ \A i \in 2..Len(name) : name[i] \in {<<"short", g>>, <<"long", g>>, <<"star">>}

\* What a row refers to.
RefsOf(k) ==
    {NoRef} \cup (IF k \in ClientIds THEN GroupIds ELSE IF k \in TaskIds THEN ClientIds ELSE {})

RowsOK(T) ==
    /\ T \in [Gids -> RefRow]
    /\ \A k \in Gids : T[k].ref \in RefsOf(k) /\ (T[k].gone => Exists(T[k]))
TableOK(T) == RowsOK(T) /\ \A g \in GroupIds : Exists(T[g]) => OwnName(T[g].name, g)
CloudOK == RowsOK(cloud) /\ \A g \in GroupIds : IsLive(cloud[g]) => OwnName(cloud[g].name, g)

LinksOK(T, excused) ==
    \A c \in ClientIds : IsLive(T[c]) /\ T[c].ref # NoRef => T[c].ref \in LiveGroups(T) \/ c \in excused

RefTypes ==
    /\ clock \in Nat /\ pushes \in 0..MaxPushes /\ clock - pushes \in 0..MaxWrites
    /\ tables \in [Desktops -> [Gids -> RefRow]] /\ cloud \in [Gids -> RefRow]
    /\ pulledTo \in [Desktops -> Nat] /\ pushedTo \in [Desktops -> Nat]
    /\ session \in [Desktops -> [pc : {"idle", "pull", "push"}, since : Nat, stime : Nat]]
    /\ listed \in [Desktops -> SUBSET GroupIds]
    /\ armed \in [Desktops -> SUBSET OldFields] /\ update \in [Desktops -> NewFields]
    /\ late \in [Desktops -> SUBSET ClientIds]

RefsInv ==
    /\ RefTypes
    /\ CloudOK /\ \A k \in Gids : cloud[k].ua <= clock
    /\ \A d \in Desktops :
        TableOK(tables[d]) /\ LinksOK(tables[d], late[d]) /\ \A k \in Gids : tables[d][k].ua <= clock

\* A page that is being applied.
Jammed(d, page, k) ==
    \E h \in {g \in GroupIds \ {k} : Exists(tables[d][g])} :
        /\ tables[d][h].gone \/ (h \in page /\ cloud[h].gone)
        /\ \/ Head(tables[d][h].name) = Head(cloud[k].name)
           \/ h \in page /\ ~ cloud[h].gone /\ Head(cloud[h].name) = Head(cloud[k].name)

SameBut(old, new) == new.name = old.name /\ new.gone = old.gone /\ new.ua = old.ua /\ new.hlc = old.hlc

\* Where the rows of the table come from.
From(d, page, T) ==
    /\ \A k \in Gids :
        /\ Exists(tables[d][k]) => Exists(T[k])
        /\ Exists(T[k]) => Exists(tables[d][k]) \/ (k \in page /\ ~ cloud[k].gone)
        /\ T[k].gone => tables[d][k].gone \/ (k \in page /\ cloud[k].gone)
    /\ \A g \in GroupIds : Exists(T[g]) =>
        \/ Exists(tables[d][g]) /\ Head(T[g].name) = Head(tables[d][g].name)
        \/ g \in page /\ ~ cloud[g].gone /\ Head(T[g].name) = Head(cloud[g].name)

PageInv(d, page, w) ==
    /\ w \in [left : SUBSET page, table : [Gids -> RefRow], failed : Gids \cup {NoRef}]
    /\ TableOK(w.table) /\ LinksOK(w.table, late[d]) /\ From(d, page, w.table)
    /\ \A k \in Gids : w.table[k].ua <= clock
    /\ \A k \in (Gids \ page) \cup w.left : SameBut(tables[d][k], w.table[k])
    /\ \A i \in page \ w.left, j \in w.left : ~ Before(j, i)
    /\ w.failed = NoRef => \A k \in page \ w.left : ~ cloud[k].gone =>
        /\ Exists(w.table[k])
        /\ ~ Older(tables[d], k) => LinkKept(d, page, k, w.table[k].ref)
    /\ w.failed \in GroupIds => Jammed(d, page, w.failed)

\* A set of numbers has a least one.
LEMMA LeastNumber ==
    ASSUME NEW T, T \subseteq Nat, T # {}
    PROVE  \E n \in T : \A m \in T : n <= m
<1> DEFINE R == OpToRel(<, Nat)
<1>1. IsWellFoundedOn(R, Nat)
  BY NatLessThanWellFounded
<1>2. \A m \in Nat, n \in Nat : m < n => <<m, n>> \in R
  BY DEF OpToRel
<1> HIDE DEF R
<1>3. \E n \in T : \A m \in T : ~ (<<m, n>> \in R)
  BY <1>1, WFMin
<1>4. PICK n \in T : \A m \in T : ~ (<<m, n>> \in R)
  BY <1>3
<1>5. \A m \in T : ~ (m < n)
  BY <1>2, <1>4
<1>6. \A m \in T : n <= m
  BY <1>5
<1> QED BY <1>6

LEMMA IdsApart ==
    /\ \A k \in Gids : k \in GroupIds \/ k \in ClientIds \/ k \in TaskIds
    /\ \A k \in GroupIds : k \in Gids /\ k \notin ClientIds /\ k \notin TaskIds
    /\ \A k \in ClientIds : k \in Gids /\ k \notin GroupIds /\ k \notin TaskIds
    /\ \A k \in TaskIds : k \in Gids /\ k \notin GroupIds /\ k \notin ClientIds
    /\ NoRef \notin Gids
BY RefsAssumption DEF Gids

LEMMA LevelIs ==
    /\ \A k \in GroupIds : Level(k) = 1
    /\ \A k \in ClientIds : Level(k) = 2
    /\ \A k \in TaskIds : Level(k) = 3
BY IdsApart DEF Level

LEMMA RankIs ==
    ASSUME NEW k \in Gids
    PROVE  /\ Rank(k) \in 1..6 /\ Level(k) \in 1..3
           /\ cloud[k].gone => Rank(k) = 4 - Level(k) /\ Rank(k) <= 3
           /\ ~ cloud[k].gone => Rank(k) = 3 + Level(k) /\ Rank(k) >= 4
<1>1. Level(k) \in 1..3
  BY LevelIs, IdsApart
<1> QED BY <1>1 DEF Rank

\* The first change of what is left: there is one, and none comes before it.
LEMMA FirstIs ==
    ASSUME RowsOK(cloud), NEW s \in SUBSET Gids, s # {}
    PROVE  First(s) \in s /\ \A j \in s : ~ Before(j, First(s))
<1>1. ASSUME NEW k \in s PROVE Rank(k) \in Nat /\ cloud[k].ua \in Nat
  <2>1. k \in Gids /\ cloud[k] \in RefRow
    BY DEF RowsOK
  <2>2. cloud[k].ua \in Nat
    BY <2>1 DEF RefRow, Texts
  <2>3. Rank(k) \in 1..6
    BY <2>1, RankIs
  <2> QED BY <2>2, <2>3
<1>2. PICK r \in {Rank(k) : k \in s} : \A q \in {Rank(k) : k \in s} : r <= q
  <2> DEFINE T == {Rank(k) : k \in s}
  <2>1. T \subseteq Nat /\ T # {}
    BY <1>1
  <2> HIDE DEF T
  <2>2. \E r \in T : \A q \in T : r <= q
    BY <2>1, LeastNumber
  <2> QED BY <2>2 DEF T
<1> DEFINE level == {k \in s : Rank(k) = r}
<1>3. PICK u \in {cloud[k].ua : k \in level} : \A q \in {cloud[k].ua : k \in level} : u <= q
  <2> DEFINE T == {cloud[k].ua : k \in level}
  <2>1. T \subseteq Nat /\ T # {}
    BY <1>1, <1>2
  <2> HIDE DEF T
  <2>2. \E x \in T : \A q \in T : x <= q
    BY <2>1, LeastNumber
  <2> QED BY <2>2 DEF T
<1>4. PICK i \in level : cloud[i].ua = u
  BY <1>3
<1>5. \A j \in s : ~ Before(j, i)
  <2> SUFFICES ASSUME NEW j \in s, Before(j, i) PROVE FALSE
    OBVIOUS
  <2>1. Rank(i) = r /\ Rank(i) <= Rank(j)
    BY <1>2, <1>4
  <2>2. Rank(j) = Rank(i) /\ cloud[j].ua < cloud[i].ua
    BY <1>1, <1>4, <2>1 DEF Before
  <2>3. j \in level
    BY <2>1, <2>2
  <2>4. cloud[i].ua <= cloud[j].ua
    BY <1>3, <1>4, <2>3
  <2> QED BY <1>1, <1>4, <2>2, <2>4
<1>6. \E k \in s : \A j \in s : ~ Before(j, k)
  BY <1>4, <1>5
<1> QED BY <1>6 DEF First

LEMMA TagsApart ==
    ASSUME NEW g \in GroupIds, NEW h \in GroupIds, g # h
    PROVE  <<"long", g>> \notin {<<"short", h>>, <<"long", h>>, <<"star">>}
<1>1. <<"long", g>> # <<"star">>
  <2>1. Len(<<"long", g>>) = 2 /\ Len(<<"star">>) = 1
    OBVIOUS
  <2> QED BY <2>1
<1> QED BY <1>1

LEMMA LongerName ==
    ASSUME NEW g \in GroupIds, NEW name \in Seq(Parts), OwnName(name, g),
           NEW x \in {<<"short", g>>, <<"long", g>>, <<"star">>}
    PROVE  /\ Append(name, x) \in Seq(Parts) /\ OwnName(Append(name, x), g)
           /\ Head(Append(name, x)) = Head(name)
           /\ Len(Append(name, x)) > 1 /\ Append(name, x)[Len(Append(name, x))] = x
<1> DEFINE n == Len(name)
           new == Append(name, x)
<1>1. n \in Nat /\ n > 0
  BY LenProperties DEF OwnName
<1>2. x \in Parts
  BY DEF Parts
<1>3. /\ new \in Seq(Parts) /\ Len(new) = n + 1 /\ new[n + 1] = x
      /\ \A i \in 1..n : new[i] = name[i]
  BY <1>2, AppendProperties
<1>4. \A i \in 2..n : name[i] \in {<<"short", g>>, <<"long", g>>, <<"star">>}
  BY DEF OwnName
<1> HIDE DEF n, new
<1>5. \A i \in 2..n + 1 : new[i] \in {<<"short", g>>, <<"long", g>>, <<"star">>}
  <2> SUFFICES ASSUME NEW i \in 2..n + 1 PROVE new[i] \in {<<"short", g>>, <<"long", g>>, <<"star">>}
    OBVIOUS
  <2>1. CASE i = n + 1
    BY <1>3, <2>1
  <2>2. CASE i # n + 1
    <3>1. i \in 2..n /\ i \in 1..n
      BY <1>1, <2>2
    <3> QED BY <1>3, <1>4, <3>1
  <2> QED BY <2>1, <2>2
<1>6. OwnName(new, g)
  BY <1>1, <1>3, <1>5 DEF OwnName
<1>7. Head(new) = Head(name)
  <2>1. new[1] = name[1] /\ new # <<>> /\ name # <<>>
    BY <1>1, <1>3 DEF n
  <2> QED BY <1>3, <2>1
<1>8. Len(new) > 1 /\ new[Len(new)] = x
  BY <1>1, <1>3
<1> QED BY <1>3, <1>6, <1>7, <1>8 DEF new

\* Among the live groups the name is unique: no other row is named after this.
LEMMA UniqueNameIs ==
    ASSUME NEW T, TableOK(T), NEW g \in GroupIds, NEW name \in Seq(Parts), OwnName(name, g),
           NEW u, u = UniqueName(T, name, g)
    PROVE  /\ u \in Seq(Parts) /\ OwnName(u, g) /\ Head(u) = Head(name)
           /\ \A h \in LiveGroups(T) \ {g} : T[h].name # u
<1> DEFINE shared(n) == \E h \in LiveGroups(T) \ {g} : T[h].name = n
           short == Append(name, <<"short", g>>)
           long == Append(name, <<"long", g>>)
<1>1. u = IF ~ shared(name) THEN name ELSE IF ~ shared(short) THEN short ELSE long
  BY DEF UniqueName
<1>2. /\ short \in Seq(Parts) /\ OwnName(short, g) /\ Head(short) = Head(name)
      /\ long \in Seq(Parts) /\ OwnName(long, g) /\ Head(long) = Head(name)
      /\ Len(long) > 1 /\ long[Len(long)] = <<"long", g>>
  BY LongerName
<1>3. ~ shared(long)
  <2> SUFFICES ASSUME NEW h \in LiveGroups(T) \ {g}, T[h].name = long PROVE FALSE
    OBVIOUS
  <2>1. h \in GroupIds /\ Exists(T[h])
    BY DEF LiveGroups, IsLive
  <2>2. OwnName(long, h)
    BY <2>1 DEF TableOK
  <2>3. Len(long) \in 2..Len(long)
    BY <1>2, LenProperties
  <2> HIDE DEF long
  <2>4. long[Len(long)] \in {<<"short", h>>, <<"long", h>>, <<"star">>}
    BY <2>2, <2>3 DEF OwnName
  <2> QED BY <1>2, <2>1, <2>4, TagsApart
<1> HIDE DEF short, long
<1>4. \A h \in LiveGroups(T) \ {g} : T[h].name # u
  BY <1>1, <1>3
<1> QED BY <1>1, <1>2, <1>4

----------------------------------------------------------------------------
(* One change of a page.                                                   *)

LEMMA RowIs ==
    ASSUME NEW T, RowsOK(T), NEW k \in Gids
    PROVE  /\ T[k] \in RefRow
           /\ T[k].name \in Seq(Parts) /\ T[k].ref \in RefsOf(k) /\ T[k].ref \in Gids \cup {NoRef}
           /\ T[k].gone \in BOOLEAN /\ T[k].ua \in Nat /\ T[k].hlc \in Nat
           /\ T[k].gone => Exists(T[k])
<1>1. T[k] \in RefRow /\ T[k].ref \in RefsOf(k) /\ (T[k].gone => Exists(T[k]))
  BY DEF RowsOK
<1> QED BY <1>1 DEF RefRow, Texts, Parts

LEMMA LeaveIs ==
    ASSUME NEW T, RowsOK(T), NEW g \in Gids
    PROVE  /\ RowsOK(Leave(T, g))
           /\ \A k \in Gids : /\ SameBut(T[k], Leave(T, g)[k])
                              /\ Leave(T, g)[k].ref \in {T[k].ref, NoRef}
                              /\ T[k].ref # g => Leave(T, g)[k] = T[k]
           /\ \A c \in ClientIds : Leave(T, g)[c].ref # g
<1> DEFINE L == Leave(T, g)
<1>1. \A k \in Gids : L[k] = IF k \in ClientIds /\ T[k].ref = g THEN [T[k] EXCEPT !.ref = NoRef] ELSE T[k]
  BY DEF Leave
<1>2. L = [k \in Gids |-> L[k]]
  BY DEF Leave
<1>3. ASSUME NEW k \in Gids
      PROVE  /\ L[k] \in RefRow /\ SameBut(T[k], L[k]) /\ L[k].ref \in {T[k].ref, NoRef}
             /\ T[k].ref # g => L[k] = T[k]
             /\ L[k].ref \in RefsOf(k) /\ (L[k].gone => Exists(L[k]))
             /\ k \in ClientIds => L[k].ref # g
  <2>1. T[k] \in RefRow /\ T[k].ref \in RefsOf(k) /\ (T[k].gone => Exists(T[k]))
    BY RowIs
  <2>2. CASE k \in ClientIds /\ T[k].ref = g
    <3>1. L[k] = [T[k] EXCEPT !.ref = NoRef]
      BY <1>1, <2>2
    <3>2. L[k] \in RefRow /\ SameBut(T[k], L[k]) /\ L[k].ref = NoRef
      BY <2>1, <3>1 DEF RefRow, Texts, SameBut
    <3> QED BY <2>1, <2>2, <3>2, IdsApart DEF RefsOf, SameBut, Exists
  <2>3. CASE ~ (k \in ClientIds /\ T[k].ref = g)
    <3>1. L[k] = T[k]
      BY <1>1, <2>3
    <3> QED BY <2>1, <2>3, <3>1 DEF SameBut
  <2> QED BY <2>2, <2>3
<1> HIDE DEF L
<1>4. L \in [Gids -> RefRow]
  BY <1>2, <1>3
<1>5. RowsOK(L)
  BY <1>3, <1>4 DEF RowsOK
<1>6. \A c \in ClientIds : L[c].ref # g
  BY <1>3, IdsApart
<1> QED BY <1>3, <1>5, <1>6 DEF L

LEMMA RemoteDeleteIs ==
    ASSUME RowsOK(cloud), NEW T, TableOK(T), NEW k \in Gids, cloud[k].ua # 0, Exists(T[k]),
           NEW D, D = RemoteDelete(T, k)
    PROVE  /\ TableOK(D)
           /\ \A j \in Gids \ {k} : SameBut(T[j], D[j]) /\ D[j].ref \in {T[j].ref, NoRef}
           /\ D[k].gone /\ D[k].name = T[k].name /\ D[k].ua = cloud[k].ua
           /\ \A c \in ClientIds \ {k} : D[c].ref # k
<1> DEFINE L == Leave(T, k)
<1>0. RowsOK(T)
  BY DEF TableOK
<1>1. /\ RowsOK(L)
      /\ \A j \in Gids : SameBut(T[j], L[j]) /\ L[j].ref \in {T[j].ref, NoRef}
      /\ \A c \in ClientIds : L[c].ref # k
  BY <1>0, LeaveIs
<1>2. D = [L EXCEPT ![k].gone = TRUE, ![k].ua = cloud[k].ua, ![k].hlc = cloud[k].hlc]
  BY DEF RemoteDelete
<1> HIDE DEF L
<1>3. L \in [Gids -> RefRow] /\ cloud[k].ua \in Nat /\ cloud[k].hlc \in Nat
  BY <1>1, RowIs DEF RowsOK
<1>4. /\ D \in [Gids -> RefRow] /\ \A j \in Gids \ {k} : D[j] = L[j]
      /\ D[k].gone /\ D[k].ua = cloud[k].ua /\ D[k].name = L[k].name /\ D[k].ref = L[k].ref
  <2>1. D = [L EXCEPT ![k] = [L[k] EXCEPT !.gone = TRUE, !.ua = cloud[k].ua, !.hlc = cloud[k].hlc]]
    BY <1>2, <1>3 DEF RefRow, Texts
  <2>2. L[k] \in RefRow
    BY <1>3
  <2> DEFINE row == [L[k] EXCEPT !.gone = TRUE, !.ua = cloud[k].ua, !.hlc = cloud[k].hlc]
  <2>3. row \in RefRow /\ row.gone /\ row.ua = cloud[k].ua /\ row.name = L[k].name /\ row.ref = L[k].ref
    BY <1>3, <2>2 DEF RefRow, Texts
  <2>4. D = [L EXCEPT ![k] = row]
    BY <2>1
  <2> HIDE DEF row
  <2>5. D[k] = row /\ \A j \in Gids \ {k} : D[j] = L[j]
    BY <1>3, <2>4
  <2>6. D \in [Gids -> RefRow]
    BY <1>3, <2>3, <2>4
  <2> QED BY <2>3, <2>5, <2>6
<1>5. RowsOK(D)
  BY <1>1, <1>4 DEF RowsOK, Exists
<1>6. \A g \in GroupIds : Exists(D[g]) => OwnName(D[g].name, g)
  <2> SUFFICES ASSUME NEW g \in GroupIds, Exists(D[g]) PROVE OwnName(D[g].name, g)
    OBVIOUS
  <2>1. g \in Gids /\ D[g].name = T[g].name /\ Exists(T[g])
    BY <1>1, <1>4, IdsApart DEF SameBut, Exists
  <2> QED BY <2>1 DEF TableOK
<1>7. \A j \in Gids \ {k} : SameBut(T[j], D[j]) /\ D[j].ref \in {T[j].ref, NoRef}
  BY <1>1, <1>4
<1>8. D[k].name = T[k].name
  BY <1>1, <1>4 DEF SameBut
<1>9. \A c \in ClientIds \ {k} : D[c].ref # k
  BY <1>1, <1>4, IdsApart
<1> QED BY <1>4, <1>5, <1>6, <1>7, <1>8, <1>9 DEF TableOK

LEMMA LocalRefIs ==
    ASSUME RowsOK(cloud), NEW T, RowsOK(T), NEW k \in Gids
    PROVE  /\ LocalRef(T, k) \in RefsOf(k)
           /\ k \in ClientIds => LocalRef(T, k) \in LiveGroups(T) \cup {NoRef}
           /\ \/ LocalRef(T, k) = cloud[k].ref
              \/ k \in ClientIds /\ cloud[k].ref \in GroupIds \ LiveGroups(T)
              \/ k \in TaskIds /\ cloud[k].ref \in ClientIds /\ ~ Exists(T[cloud[k].ref])
<1>1. cloud[k].ref \in RefsOf(k)
  BY RowIs
<1> DEFINE r == cloud[k].ref
<1>2. CASE k \in GroupIds
  BY <1>1, <1>2, IdsApart DEF LocalRef, RefsOf
<1>3. CASE k \in ClientIds
  <2>1. k \notin GroupIds /\ k \notin TaskIds
    BY <1>3, IdsApart
  <2>2. LocalRef(T, k) = IF r \in LiveGroups(T) THEN r ELSE NoRef
    BY <1>3, <2>1 DEF LocalRef
  <2>3. r \in GroupIds \cup {NoRef} /\ LiveGroups(T) \subseteq GroupIds /\ RefsOf(k) = GroupIds \cup {NoRef}
    BY <1>1, <1>3, <2>1 DEF RefsOf, LiveGroups
  <2> QED BY <1>3, <2>1, <2>2, <2>3
<1>4. CASE k \in TaskIds
  <2>1. k \notin GroupIds /\ k \notin ClientIds
    BY <1>4, IdsApart
  <2>2. LocalRef(T, k) = IF r \in {c \in ClientIds : Exists(T[c])} THEN r ELSE NoRef
    BY <1>4, <2>1 DEF LocalRef
  <2>3. r \in ClientIds \cup {NoRef} /\ RefsOf(k) = ClientIds \cup {NoRef}
    BY <1>1, <1>4, <2>1 DEF RefsOf
  <2> QED BY <1>4, <2>1, <2>2, <2>3
<1> QED BY <1>2, <1>3, <1>4, IdsApart

\* The names an upsert tries are its own ones, and no live group has them.
LEMMA NamesTriedAre ==
    ASSUME CloudOK, NEW T, TableOK(T), NEW k \in Gids, cloud[k].ua # 0, ~ cloud[k].gone
    PROVE  /\ 1 \in DOMAIN NamesTried(T, k)
           /\ DOMAIN NamesTried(T, k) \subseteq 1..2
           /\ \A i \in DOMAIN NamesTried(T, k) :
                /\ NamesTried(T, k)[i] \in Seq(Parts)
                /\ k \in GroupIds =>
                     /\ OwnName(NamesTried(T, k)[i], k)
                     /\ Head(NamesTried(T, k)[i]) = Head(cloud[k].name)
                     /\ \A h \in LiveGroups(T) \ {k} : T[h].name # NamesTried(T, k)[i]
<1>1. cloud[k].name \in Seq(Parts)
  BY RowIs DEF CloudOK
<1>2. CASE k \notin GroupIds
  <2>1. NamesTried(T, k) = <<cloud[k].name>>
    BY <1>2 DEF NamesTried
  <2> QED BY <1>1, <1>2, <2>1
<1>3. CASE k \in GroupIds
  <2>1. OwnName(cloud[k].name, k)
    BY <1>3 DEF CloudOK, IsLive, Exists
  <2> DEFINE first == UniqueName(T, cloud[k].name, k)
             star == Append(first, <<"star">>)
             second == UniqueName(T, star, k)
  <2>2. /\ first \in Seq(Parts) /\ OwnName(first, k) /\ Head(first) = Head(cloud[k].name)
        /\ \A h \in LiveGroups(T) \ {k} : T[h].name # first
    BY <1>1, <1>3, <2>1, UniqueNameIs
  <2>3. star \in Seq(Parts) /\ OwnName(star, k) /\ Head(star) = Head(first)
    <3> HIDE DEF first
    <3> QED BY <1>3, <2>2, LongerName
  <2>4. /\ second \in Seq(Parts) /\ OwnName(second, k) /\ Head(second) = Head(star)
        /\ \A h \in LiveGroups(T) \ {k} : T[h].name # second
    <3> HIDE DEF star
    <3> QED BY <1>3, <2>3, UniqueNameIs
  <2>5. NamesTried(T, k) = IF Exists(T[k]) THEN <<first>> ELSE <<first, second>>
    BY <1>3 DEF NamesTried
  <2> HIDE DEF first, star, second
  <2>6. CASE Exists(T[k])
    <3>1. NamesTried(T, k) = <<first>>
      BY <2>5, <2>6
    <3> QED BY <2>2, <3>1
  <2>7. CASE ~ Exists(T[k])
    <3>1. NamesTried(T, k) = <<first, second>>
      BY <2>5, <2>7
    <3>2. DOMAIN NamesTried(T, k) = 1..2 /\ NamesTried(T, k)[1] = first /\ NamesTried(T, k)[2] = second
      BY <3>1
    <3>3. Head(second) = Head(cloud[k].name)
      BY <2>2, <2>3, <2>4
    <3>4. \A i \in DOMAIN NamesTried(T, k) : i = 1 \/ i = 2
      BY <3>2
    <3> QED BY <2>2, <2>4, <3>2, <3>3, <3>4
  <2> QED BY <2>6, <2>7
<1> QED BY <1>2, <1>3

\* An upsert writes the row it has, or fails where a group that is deleted
\* has its name.
LEMMA RemoteUpsertIs ==
    ASSUME CloudOK, NEW T, TableOK(T), NEW k \in Gids, cloud[k].ua # 0, ~ cloud[k].gone,
           NEW w, w \in [left : SUBSET Gids, table : [Gids -> RefRow], failed : Gids \cup {NoRef}],
           w.table = T, w.failed = NoRef,
           NEW U, U = RemoteUpsert(w, k)
    PROVE  /\ U \in [left : SUBSET Gids, table : [Gids -> RefRow], failed : Gids \cup {NoRef}]
           /\ U.left = w.left
           /\ \/ /\ U.failed = k /\ U.table = T
                 /\ k \in GroupIds => \E h \in GroupIds \ {k} :
                      T[h].gone /\ Exists(T[h]) /\ Head(T[h].name) = Head(cloud[k].name)
              \/ /\ U.failed = NoRef /\ TableOK(U.table)
                 /\ \A j \in Gids \ {k} : U.table[j] = T[j]
                 /\ U.table[k].ua = cloud[k].ua /\ U.table[k].gone = T[k].gone
                 /\ U.table[k].ref = LocalRef(T, k)
                 /\ k \in GroupIds => Head(U.table[k].name) = Head(cloud[k].name)
<1> DEFINE names == NamesTried(T, k)
           free == {i \in DOMAIN names : ~ Taken(T, k, names[i])}
           name == names[CHOOSE i \in free : \A j \in free : i <= j]
           row == [name |-> name, ref |-> LocalRef(T, k), gone |-> T[k].gone,
                   ua |-> cloud[k].ua, hlc |-> cloud[k].hlc]
<1>1. U = IF free = {} THEN [w EXCEPT !.failed = k] ELSE [w EXCEPT !.table[k] = row]
  BY DEF RemoteUpsert
<1>2. /\ 1 \in DOMAIN names /\ DOMAIN names \subseteq 1..2
      /\ \A i \in DOMAIN names :
           /\ names[i] \in Seq(Parts)
           /\ k \in GroupIds =>
                /\ OwnName(names[i], k) /\ Head(names[i]) = Head(cloud[k].name)
                /\ \A h \in LiveGroups(T) \ {k} : T[h].name # names[i]
  BY NamesTriedAre
<1>3. RowsOK(T) /\ RowsOK(cloud)
  BY DEF TableOK, CloudOK
<1> HIDE DEF names
<1>4. CASE free = {}
  <2>1. U = [w EXCEPT !.failed = k]
    BY <1>1, <1>4
  <2>2. U.failed = k /\ U.table = T /\ U.left = w.left
    BY <2>1
  <2>3. U \in [left : SUBSET Gids, table : [Gids -> RefRow], failed : Gids \cup {NoRef}]
    BY <2>1
  <2>4. ASSUME k \in GroupIds
        PROVE  \E h \in GroupIds \ {k} :
                 T[h].gone /\ Exists(T[h]) /\ Head(T[h].name) = Head(cloud[k].name)
    <3>1. Taken(T, k, names[1])
      BY <1>2, <1>4
    <3>2. PICK h \in SameTable(k) \ {k} : Exists(T[h]) /\ T[h].name = names[1]
      BY <3>1 DEF Taken
    <3>3. h \in GroupIds \ {k}
      BY <2>4, <3>2, IdsApart DEF SameTable
    <3>4. h \notin LiveGroups(T)
      BY <1>2, <2>4, <3>2, <3>3
    <3>5. T[h].gone
      BY <3>2, <3>3, <3>4 DEF LiveGroups, IsLive
    <3>6. Head(T[h].name) = Head(cloud[k].name)
      BY <1>2, <2>4, <3>2
    <3> QED BY <3>2, <3>3, <3>5, <3>6
  <2> QED BY <2>2, <2>3, <2>4
<1>5. CASE free # {}
  <2>1. U = [w EXCEPT !.table[k] = row]
    BY <1>1, <1>5
  <2>2. PICK i \in free : \A j \in free : i <= j
    <3>1. free \subseteq Nat
      BY <1>2
    <3> QED BY <1>5, <3>1, LeastNumber
  <2>3. (CHOOSE n \in free : \A j \in free : n <= j) \in free
    BY <2>2
  <2>4. PICK n \in DOMAIN names : name = names[n]
    BY <2>3
  <2> HIDE DEF name
  <2>5. name \in Seq(Parts) /\ (k \in GroupIds => OwnName(name, k) /\ Head(name) = Head(cloud[k].name))
    BY <1>2, <2>4
  <2>6. LocalRef(T, k) \in RefsOf(k) /\ LocalRef(T, k) \in Gids \cup {NoRef}
    BY <1>3, LocalRefIs, IdsApart DEF RefsOf
  <2>7. T[k].gone \in BOOLEAN /\ cloud[k].ua \in Nat /\ cloud[k].hlc \in Nat
    BY <1>3, RowIs
  <2>8. row \in RefRow /\ row.ref = LocalRef(T, k) /\ row.ua = cloud[k].ua /\ row.gone = T[k].gone /\ row.name = name
    BY <2>5, <2>6, <2>7 DEF RefRow, Texts, Parts
  <2> HIDE DEF row
  <2>9. U.table = [T EXCEPT ![k] = row] /\ U.left = w.left /\ U.failed = NoRef
    BY <2>1
  <2>10. T \in [Gids -> RefRow]
    BY <1>3 DEF RowsOK
  <2>11. /\ U.table \in [Gids -> RefRow] /\ U.table[k] = row
         /\ \A j \in Gids \ {k} : U.table[j] = T[j]
    BY <2>8, <2>9, <2>10
  <2>12. U \in [left : SUBSET Gids, table : [Gids -> RefRow], failed : Gids \cup {NoRef}]
    <3> DEFINE NewT == [T EXCEPT ![k] = row]
    <3>1. NewT \in [Gids -> RefRow]
      BY <2>9, <2>11
    <3>2. U = [w EXCEPT !.table = NewT]
      BY <2>1
    <3> HIDE DEF NewT
    <3> QED BY <3>1, <3>2
  <2>13. RowsOK(U.table)
    <3>1. ASSUME NEW j \in Gids
          PROVE  U.table[j].ref \in RefsOf(j) /\ (U.table[j].gone => Exists(U.table[j]))
      <4>1. CASE j = k
        BY <2>6, <2>8, <2>11, <4>1 DEF Exists
      <4>2. CASE j # k
        BY <1>3, <2>11, <4>2 DEF RowsOK
      <4> QED BY <4>1, <4>2
    <3> QED BY <2>11, <3>1 DEF RowsOK
  <2>14. \A g \in GroupIds : Exists(U.table[g]) => OwnName(U.table[g].name, g)
    <3> SUFFICES ASSUME NEW g \in GroupIds, Exists(U.table[g]) PROVE OwnName(U.table[g].name, g)
      OBVIOUS
    <3>1. CASE g = k
      BY <2>5, <2>8, <2>11, <3>1
    <3>2. CASE g # k
      BY <2>11, <3>2, IdsApart DEF TableOK
    <3> QED BY <3>1, <3>2
  <2>15. TableOK(U.table)
    BY <2>13, <2>14 DEF TableOK
  <2>16. U.table[k].ua = cloud[k].ua /\ U.table[k].gone = T[k].gone /\ U.table[k].ref = LocalRef(T, k)
    BY <2>8, <2>11
  <2>17. k \in GroupIds => Head(U.table[k].name) = Head(cloud[k].name)
    BY <2>5, <2>8, <2>11
  <2> QED BY <2>9, <2>11, <2>12, <2>15, <2>16, <2>17
<1> QED BY <1>4, <1>5

\* A page of a session.
LEMMA PageIs ==
    ASSUME RefsInv, NEW d \in Desktops, NEW page \in PullPagesOf(d)
    PROVE  /\ page \in SUBSET Gids /\ Since(d) \in Nat
           /\ \A k \in page : cloud[k].ua > Since(d) /\ cloud[k].ua # 0
           /\ \A i \in page, j \in Gids \ page : cloud[j].ua <= Since(d) \/ cloud[i].ua <= cloud[j].ua
<1>1. Since(d) \in Nat
  BY DEF Since, RefsInv, RefTypes
<1>2. \A k \in Gids : cloud[k].ua \in Nat
  BY RowIs DEF RefsInv, CloudOK
<1> QED BY <1>1, <1>2 DEF PullPagesOf

\* While deletes are left, no upsert has been made.
LEMMA DeletesFirst ==
    ASSUME NEW i \in Gids, NEW k \in Gids, ~ Before(k, i), cloud[k].gone
    PROVE  cloud[i].gone
BY RankIs DEF Before

LEMMA PageDelete ==
    ASSUME RefsInv, NEW d \in Desktops, NEW page \in PullPagesOf(d), NEW w, PageInv(d, page, w),
           w.failed = NoRef, NEW k \in w.left, First(w.left) = k, cloud[k].gone, Exists(w.table[k]),
           NEW D, D = RemoteDelete(w.table, k)
    PROVE  /\ TableOK(D) /\ LinksOK(D, late[d]) /\ From(d, page, D)
           /\ \A j \in Gids : D[j].ua <= clock
           /\ \A j \in Gids \ {k} : SameBut(w.table[j], D[j])
<1> DEFINE T == w.table
<1>1. /\ TableOK(T) /\ LinksOK(T, late[d]) /\ From(d, page, T) /\ k \in page /\ k \in Gids
      /\ \A j \in Gids : T[j].ua <= clock
  BY PageIs DEF PageInv
<1>2. RowsOK(cloud) /\ cloud[k].ua # 0 /\ cloud[k].ua <= clock
  BY <1>1, PageIs DEF RefsInv, CloudOK
<1>3. /\ TableOK(D)
      /\ \A j \in Gids \ {k} : SameBut(T[j], D[j]) /\ D[j].ref \in {T[j].ref, NoRef}
      /\ D[k].gone /\ D[k].name = T[k].name /\ D[k].ua = cloud[k].ua
      /\ \A c \in ClientIds \ {k} : D[c].ref # k
  BY <1>1, <1>2, RemoteDeleteIs
<1>4. Exists(T[k])
  OBVIOUS
<1> HIDE DEF T
<1>5. \A j \in Gids : D[j].ua <= clock
  BY <1>1, <1>2, <1>3 DEF SameBut
<1>6. LinksOK(D, late[d])
  <2> SUFFICES ASSUME NEW c \in ClientIds, IsLive(D[c]), D[c].ref # NoRef
               PROVE  D[c].ref \in LiveGroups(D) \/ c \in late[d]
    BY DEF LinksOK
  <2>1. c # k /\ c \in Gids
    BY <1>3, IdsApart DEF IsLive
  <2>2. IsLive(T[c]) /\ D[c].ref = T[c].ref /\ T[c].ref # k
    BY <1>3, <2>1 DEF SameBut, IsLive, Exists
  <2>3. T[c].ref \in LiveGroups(T) \/ c \in late[d]
    BY <1>1, <2>2 DEF LinksOK
  <2>4. ASSUME T[c].ref \in LiveGroups(T) PROVE T[c].ref \in LiveGroups(D)
    BY <1>3, <2>2, <2>4, IdsApart DEF LiveGroups, IsLive, Exists, SameBut
  <2> QED BY <2>2, <2>3, <2>4
<1>7. From(d, page, D)
  <2>1. ASSUME NEW j \in Gids
        PROVE  /\ Exists(tables[d][j]) => Exists(D[j])
               /\ Exists(D[j]) => Exists(tables[d][j]) \/ (j \in page /\ ~ cloud[j].gone)
               /\ D[j].gone => tables[d][j].gone \/ (j \in page /\ cloud[j].gone)
    <3>1. CASE j = k
      BY <1>1, <1>2, <1>3, <1>4, <3>1 DEF From, Exists
    <3>2. CASE j # k
      <4>1. SameBut(T[j], D[j])
        BY <1>3, <3>2
      <4> QED BY <1>1, <4>1 DEF From, Exists, SameBut
    <3> QED BY <3>1, <3>2
  <2>2. ASSUME NEW g \in GroupIds, Exists(D[g])
        PROVE  \/ Exists(tables[d][g]) /\ Head(D[g].name) = Head(tables[d][g].name)
               \/ g \in page /\ ~ cloud[g].gone /\ Head(D[g].name) = Head(cloud[g].name)
    <3>1. g \in Gids /\ D[g].name = T[g].name /\ Exists(T[g])
      BY <1>3, <1>4, <2>2, IdsApart DEF SameBut, Exists
    <3> QED BY <1>1, <3>1 DEF From
  <2> QED BY <2>1, <2>2 DEF From
<1>8. \A j \in Gids \ {k} : SameBut(T[j], D[j])
  BY <1>3
<1> QED BY <1>3, <1>5, <1>6, <1>7, <1>8 DEF T

LEMMA PageUpsert ==
    ASSUME RefsInv, NEW d \in Desktops, NEW page \in PullPagesOf(d), NEW w, PageInv(d, page, w),
           w.failed = NoRef, NEW k \in w.left, First(w.left) = k, ~ cloud[k].gone,
           NEW U, U = RemoteUpsert(w, k), U.failed = NoRef
    PROVE  /\ TableOK(U.table) /\ LinksOK(U.table, late[d]) /\ From(d, page, U.table)
           /\ \A j \in Gids : U.table[j].ua <= clock
           /\ \A j \in Gids \ {k} : U.table[j] = w.table[j]
           /\ Exists(U.table[k]) /\ LinkKept(d, page, k, U.table[k].ref)
<1> DEFINE T == w.table
           New == U.table
           r == cloud[k].ref
<1>1. /\ TableOK(T) /\ LinksOK(T, late[d]) /\ From(d, page, T) /\ k \in page /\ k \in Gids
      /\ \A j \in Gids : T[j].ua <= clock
      /\ w \in [left : SUBSET Gids, table : [Gids -> RefRow], failed : Gids \cup {NoRef}]
      /\ \A j \in w.left : ~ Before(j, k)
      /\ w.left \subseteq page
  <2>1. /\ TableOK(T) /\ LinksOK(T, late[d]) /\ From(d, page, T) /\ k \in page /\ k \in Gids
        /\ \A j \in Gids : T[j].ua <= clock
        /\ w \in [left : SUBSET Gids, table : [Gids -> RefRow], failed : Gids \cup {NoRef}]
        /\ w.left \in SUBSET Gids /\ w.left \subseteq page
    BY PageIs DEF PageInv
  <2>2. \A j \in w.left : ~ Before(j, k)
    BY <2>1, FirstIs DEF RefsInv, CloudOK
  <2> QED BY <2>1, <2>2
<1>2. CloudOK /\ cloud[k].ua # 0 /\ cloud[k].ua <= clock
  BY <1>1, PageIs DEF RefsInv
<1>3. NoRef # k
  BY <1>1, IdsApart
<1>4. /\ TableOK(New)
      /\ \A j \in Gids \ {k} : New[j] = T[j]
      /\ New[k].ua = cloud[k].ua /\ New[k].gone = T[k].gone /\ New[k].ref = LocalRef(T, k)
      /\ k \in GroupIds => Head(New[k].name) = Head(cloud[k].name)
  BY <1>1, <1>2, <1>3, RemoteUpsertIs
<1>5. RowsOK(T) /\ RowsOK(cloud)
  BY <1>1, <1>2 DEF TableOK, CloudOK
<1>6. /\ LocalRef(T, k) \in RefsOf(k)
      /\ k \in ClientIds => LocalRef(T, k) \in LiveGroups(T) \cup {NoRef}
      /\ \/ LocalRef(T, k) = cloud[k].ref
         \/ k \in ClientIds /\ cloud[k].ref \in GroupIds \ LiveGroups(T)
         \/ k \in TaskIds /\ cloud[k].ref \in ClientIds /\ ~ Exists(T[cloud[k].ref])
  BY <1>1, <1>5, LocalRefIs
<1>7. \A j \in page \ w.left : ~ cloud[j].gone => Exists(T[j])
  BY DEF PageInv
<1> HIDE DEF T, New
<1>8. \A j \in Gids : New[j].ua <= clock
  BY <1>1, <1>2, <1>4
<1>9. LiveGroups(T) \subseteq LiveGroups(New)
  <2> SUFFICES ASSUME NEW g \in LiveGroups(T) PROVE g \in LiveGroups(New)
    OBVIOUS
  <2>1. g \in GroupIds /\ g \in Gids /\ IsLive(T[g])
    BY IdsApart DEF LiveGroups
  <2>2. IsLive(New[g])
    BY <1>2, <1>4, <2>1 DEF IsLive, Exists
  <2> QED BY <2>1, <2>2 DEF LiveGroups
<1>10. LinksOK(New, late[d])
  <2> SUFFICES ASSUME NEW c \in ClientIds, IsLive(New[c]), New[c].ref # NoRef
               PROVE  New[c].ref \in LiveGroups(New) \/ c \in late[d]
    BY DEF LinksOK
  <2>1. CASE c = k
    BY <1>4, <1>6, <1>9, <2>1
  <2>2. CASE c # k
    <3>1. New[c] = T[c]
      BY <1>4, <2>2, IdsApart
    <3> QED BY <1>1, <1>9, <3>1 DEF LinksOK
  <2> QED BY <2>1, <2>2
<1>11. From(d, page, New)
  <2>1. ASSUME NEW j \in Gids
        PROVE  /\ Exists(tables[d][j]) => Exists(New[j])
               /\ Exists(New[j]) => Exists(tables[d][j]) \/ (j \in page /\ ~ cloud[j].gone)
               /\ New[j].gone => tables[d][j].gone \/ (j \in page /\ cloud[j].gone)
    <3>1. CASE j = k
      BY <1>1, <1>2, <1>4, <3>1 DEF From, Exists
    <3>2. CASE j # k
      BY <1>1, <1>4, <3>2 DEF From
    <3> QED BY <3>1, <3>2
  <2>2. ASSUME NEW g \in GroupIds, Exists(New[g])
        PROVE  \/ Exists(tables[d][g]) /\ Head(New[g].name) = Head(tables[d][g].name)
               \/ g \in page /\ ~ cloud[g].gone /\ Head(New[g].name) = Head(cloud[g].name)
    <3>1. CASE g = k
      BY <1>1, <1>4, <3>1
    <3>2. CASE g # k
      <4>1. New[g] = T[g]
        BY <1>4, <3>2, IdsApart
      <4> QED BY <1>1, <2>2, <4>1 DEF From
    <3> QED BY <3>1, <3>2
  <2> QED BY <2>1, <2>2 DEF From
<1>12. Exists(New[k])
  BY <1>2, <1>4 DEF Exists
<1>13. LinkKept(d, page, k, New[k].ref)
  <2>1. CASE New[k].ref = r
    BY <2>1 DEF LinkKept
  <2>2. CASE /\ New[k].ref # r
             /\ \/ k \in ClientIds /\ r \in GroupIds
                \/ k \in TaskIds /\ r \in ClientIds
             /\ ~ IsLive(T[r]) /\ (k \in TaskIds => ~ Exists(T[r]))
    <3>1. r \in Gids /\ Level(r) < Level(k) /\ r # k
      <4>1. \/ Level(r) = 1 /\ Level(k) = 2
            \/ Level(r) = 2 /\ Level(k) = 3
        BY <2>2, LevelIs
      <4>2. r \in Gids
        BY <2>2, IdsApart
      <4> QED BY <4>1, <4>2
    <3>2. ~ Exists(T[r]) \/ T[r].gone
      BY <2>2 DEF IsLive
    <3>3. CASE T[r].gone
      <4>1. tables[d][r].gone \/ (r \in page /\ cloud[r].gone)
        BY <1>1, <3>1, <3>3 DEF From
      <4> QED BY <4>1 DEF LinkKept
    <3>4. CASE ~ Exists(T[r])
      <4>1. ~ Exists(tables[d][r])
        BY <1>1, <3>1, <3>4 DEF From
      <4>2. CASE r \in page
        <5>1. CASE cloud[r].gone
          BY <5>1 DEF LinkKept
        <5>2. CASE ~ cloud[r].gone
          <6>1. Rank(r) < Rank(k)
            BY <1>1, <3>1, <5>2, RankIs
          <6>2. r \notin w.left
            BY <1>1, <6>1 DEF Before
          <6> QED BY <1>7, <3>4, <4>2, <5>2, <6>2
        <5> QED BY <5>1, <5>2
      <4>3. CASE r \notin page
        <5>1. cloud[r].ua <= Since(d) \/ cloud[k].ua <= cloud[r].ua
          BY <1>1, <3>1, <4>3, PageIs
        <5>2. cloud[r].ua \in Nat /\ cloud[k].ua \in Nat
          BY <1>1, <1>5, <3>1, RowIs
        <5>3. cloud[r].ua <= Since(d) \/ cloud[r].ua >= cloud[k].ua
          BY <5>1, <5>2
        <5> QED BY <4>1, <4>3, <5>3 DEF LinkKept
      <4> QED BY <4>2, <4>3
    <3> QED BY <3>2, <3>3, <3>4
  <2>3. \/ New[k].ref = r
        \/ k \in ClientIds /\ r \in GroupIds \ LiveGroups(T)
        \/ k \in TaskIds /\ r \in ClientIds /\ ~ Exists(T[r])
    BY <1>4, <1>6
  <2>4. ASSUME k \in ClientIds, r \in GroupIds \ LiveGroups(T)
        PROVE  ~ IsLive(T[r]) /\ k \notin TaskIds
    BY <2>4, IdsApart DEF LiveGroups
  <2>5. ~ Exists(T[r]) => ~ IsLive(T[r])
    BY DEF IsLive
  <2> QED BY <2>1, <2>2, <2>3, <2>4, <2>5
<1> QED BY <1>4, <1>8, <1>10, <1>11, <1>12, <1>13 DEF T, New

\* A step of a page keeps what the page has done so far.
LEMMA PageStep ==
    ASSUME RefsInv, NEW d \in Desktops, NEW page \in PullPagesOf(d), NEW w, PageInv(d, page, w),
           w.left # {}, NEW v, v = ApplyFirst(w)
    PROVE  PageInv(d, page, v) /\ \E k \in w.left : v.left = w.left \ {k}
<1> DEFINE k == First(w.left)
           a == ApplyChange(w, k)
           T == w.table
<1>1. /\ w \in [left : SUBSET page, table : [Gids -> RefRow], failed : Gids \cup {NoRef}]
      /\ TableOK(T) /\ LinksOK(T, late[d]) /\ From(d, page, T)
      /\ \A j \in Gids : T[j].ua <= clock
      /\ \A j \in (Gids \ page) \cup w.left : SameBut(tables[d][j], T[j])
      /\ \A i \in page \ w.left, j \in w.left : ~ Before(j, i)
      /\ w.failed = NoRef => \A j \in page \ w.left : ~ cloud[j].gone =>
           /\ Exists(T[j])
           /\ ~ Older(tables[d], j) => LinkKept(d, page, j, T[j].ref)
      /\ w.failed \in GroupIds => Jammed(d, page, w.failed)
  BY DEF PageInv
<1>2. page \in SUBSET Gids /\ w.left \in SUBSET Gids /\ w.left \subseteq page /\ CloudOK /\ RowsOK(cloud)
  BY <1>1, PageIs DEF RefsInv, CloudOK
<1>3. k \in w.left /\ k \in page /\ k \in Gids /\ \A j \in w.left : ~ Before(j, k)
  BY <1>2, FirstIs
<1>4. v = [a EXCEPT !.left = @ \ {k}]
  BY DEF ApplyFirst
<1>5. a = IF w.failed # NoRef \/ Older(T, k) THEN w
          ELSE IF cloud[k].gone THEN [w EXCEPT !.table = RemoteDelete(@, k)]
          ELSE RemoteUpsert(w, k)
  BY DEF ApplyChange
<1>6. k # NoRef
  BY <1>3, IdsApart
<1> HIDE DEF k, a, T
<1>11. SUFFICES PageInv(d, page, v) /\ v.left = w.left \ {k}
  BY <1>3
\* It is enough to say what becomes of the table and of the row.
<1>7. ASSUME a.left = w.left, a.failed \in Gids \cup {NoRef},
             a \in [left : SUBSET page, table : [Gids -> RefRow], failed : Gids \cup {NoRef}],
             TableOK(a.table), LinksOK(a.table, late[d]), From(d, page, a.table),
             \A j \in Gids : a.table[j].ua <= clock,
             \A j \in Gids \ {k} : SameBut(T[j], a.table[j]),
             a.failed = NoRef => \A j \in page \ (w.left \ {k}) : ~ cloud[j].gone =>
               /\ Exists(a.table[j])
               /\ ~ Older(tables[d], j) => LinkKept(d, page, j, a.table[j].ref),
             a.failed \in GroupIds => Jammed(d, page, a.failed)
      PROVE  PageInv(d, page, v) /\ v.left = w.left \ {k}
  <2>1. v.left = w.left \ {k} /\ v.table = a.table /\ v.failed = a.failed
    BY <1>4, <1>7
  <2>2. v \in [left : SUBSET page, table : [Gids -> RefRow], failed : Gids \cup {NoRef}]
    BY <1>4, <1>7
  <2>3. \A j \in (Gids \ page) \cup v.left : SameBut(tables[d][j], v.table[j])
    <3> SUFFICES ASSUME NEW j \in (Gids \ page) \cup v.left PROVE SameBut(tables[d][j], v.table[j])
      OBVIOUS
    <3>1. j \in (Gids \ page) \cup w.left /\ j \in Gids \ {k}
      BY <1>2, <1>3, <2>1
    <3>2. SameBut(tables[d][j], T[j]) /\ SameBut(T[j], v.table[j])
      BY <1>1, <1>7, <2>1, <3>1
    <3> QED BY <3>2 DEF SameBut
  <2>4. \A i \in page \ v.left, j \in v.left : ~ Before(j, i)
    <3> SUFFICES ASSUME NEW i \in page \ v.left, NEW j \in v.left PROVE ~ Before(j, i)
      OBVIOUS
    <3>1. j \in w.left /\ (i = k \/ i \in page \ w.left)
      BY <2>1
    <3> QED BY <1>1, <1>3, <3>1
  <2> QED BY <1>7, <2>1, <2>2, <2>3, <2>4 DEF PageInv
<1>8. CASE w.failed # NoRef \/ Older(T, k)
  <2>1. a = w
    BY <1>5, <1>8
  <2>2. \A j \in Gids \ {k} : SameBut(T[j], a.table[j])
    BY <2>1 DEF SameBut, T
  <2>3. a.failed = NoRef => \A j \in page \ (w.left \ {k}) : ~ cloud[j].gone =>
           /\ Exists(a.table[j])
           /\ ~ Older(tables[d], j) => LinkKept(d, page, j, a.table[j].ref)
    <3> SUFFICES ASSUME w.failed = NoRef, NEW j \in page \ (w.left \ {k}), ~ cloud[j].gone
                 PROVE  /\ Exists(T[j])
                        /\ ~ Older(tables[d], j) => LinkKept(d, page, j, T[j].ref)
      BY <2>1 DEF T
    <3>1. CASE j = k
      <4>1. Older(T, k)
        BY <1>8
      <4>2. SameBut(tables[d][k], T[k])
        BY <1>1, <1>3
      <4>3. Older(tables[d], k) /\ Exists(T[k])
        BY <4>1, <4>2 DEF Older, SameBut, Exists, KnownAs
      <4> QED BY <3>1, <4>3
    <3>2. CASE j # k
      BY <1>1, <3>2
    <3> QED BY <3>1, <3>2
  <2> QED BY <1>1, <1>3, <1>7, <2>1, <2>2, <2>3 DEF T
<1>9. CASE w.failed = NoRef /\ ~ Older(T, k) /\ cloud[k].gone
  <2>1. a = [w EXCEPT !.table = RemoteDelete(@, k)]
    BY <1>5, <1>9
  <2>2. a.left = w.left /\ a.failed = NoRef /\ a.table = RemoteDelete(T, k)
    BY <1>1, <1>9, <2>1 DEF T
  <2>3. \A j \in page \ (w.left \ {k}) : cloud[j].gone
    BY <1>1, <1>2, <1>3, <1>9, DeletesFirst
  <2>4. CASE Exists(T[k])
    <3>1. /\ TableOK(a.table) /\ LinksOK(a.table, late[d]) /\ From(d, page, a.table)
          /\ \A j \in Gids : a.table[j].ua <= clock
          /\ \A j \in Gids \ {k} : SameBut(T[j], a.table[j])
      BY <1>3, <1>9, <2>2, <2>4, PageDelete DEF T, k
    <3>2. a.table \in [Gids -> RefRow]
      BY <3>1 DEF TableOK, RowsOK
    <3>3. a \in [left : SUBSET page, table : [Gids -> RefRow], failed : Gids \cup {NoRef}]
      <4>1. a = [w EXCEPT !.table = a.table]
        BY <1>1, <2>1
      <4> QED BY <1>1, <3>2, <4>1
    <3>4. a.failed \notin GroupIds
      BY <2>2, IdsApart
    <3> QED BY <1>3, <1>7, <2>2, <2>3, <3>1, <3>3, <3>4
  <2>5. CASE ~ Exists(T[k])
    <3>1. a.table = T
      BY <2>2, <2>5 DEF RemoteDelete
    <3>2. a = w
      <4>1. a = [w EXCEPT !.table = a.table]
        BY <1>1, <2>1
      <4> QED BY <1>1, <3>1, <4>1 DEF T
    <3>3. \A j \in Gids \ {k} : SameBut(T[j], a.table[j])
      BY <3>1 DEF SameBut
    <3> QED BY <1>1, <1>3, <1>7, <2>3, <3>1, <3>2, <3>3 DEF T
  <2> QED BY <2>4, <2>5
<1>10. CASE w.failed = NoRef /\ ~ Older(T, k) /\ ~ cloud[k].gone
  <2>1. a = RemoteUpsert(w, k)
    BY <1>5, <1>10
  <2>2. cloud[k].ua # 0
    BY <1>3, PageIs
  <2>3. w \in [left : SUBSET Gids, table : [Gids -> RefRow], failed : Gids \cup {NoRef}]
    BY <1>1, <1>2
  <2>4. /\ a \in [left : SUBSET Gids, table : [Gids -> RefRow], failed : Gids \cup {NoRef}]
        /\ a.left = w.left
        /\ \/ /\ a.failed = k /\ a.table = T
              /\ k \in GroupIds => \E h \in GroupIds \ {k} :
                   T[h].gone /\ Exists(T[h]) /\ Head(T[h].name) = Head(cloud[k].name)
           \/ a.failed = NoRef /\ \A j \in Gids \ {k} : a.table[j] = T[j]
    BY <1>1, <1>2, <1>3, <1>10, <2>1, <2>2, <2>3, RemoteUpsertIs DEF T
  <2>5. a \in [left : SUBSET page, table : [Gids -> RefRow], failed : Gids \cup {NoRef}]
    BY <1>2, <2>4
  <2>6. CASE a.failed = k
    <3>1. /\ a.table = T
          /\ k \in GroupIds => \E h \in GroupIds \ {k} :
               T[h].gone /\ Exists(T[h]) /\ Head(T[h].name) = Head(cloud[k].name)
      BY <1>6, <2>4, <2>6
    <3>2. a.failed \in GroupIds => Jammed(d, page, a.failed)
      <4> SUFFICES ASSUME k \in GroupIds PROVE Jammed(d, page, k)
        BY <2>6
      <4>1. PICK h \in GroupIds \ {k} :
               T[h].gone /\ Exists(T[h]) /\ Head(T[h].name) = Head(cloud[k].name)
        BY <3>1
      <4>2. h \in Gids
        BY <4>1, IdsApart
      <4>3. tables[d][h].gone \/ (h \in page /\ cloud[h].gone)
        BY <1>1, <4>1, <4>2 DEF From
      <4>4. \/ Exists(tables[d][h]) /\ Head(T[h].name) = Head(tables[d][h].name)
            \/ h \in page /\ ~ cloud[h].gone /\ Head(T[h].name) = Head(cloud[h].name)
        BY <1>1, <4>1 DEF From
      <4>5. RowsOK(tables[d])
        BY DEF RefsInv, TableOK
      <4>6. Exists(tables[d][h])
        <5>1. tables[d][h].gone => Exists(tables[d][h])
          BY <4>2, <4>5, RowIs
        <5> QED BY <1>1, <4>1, <4>2, <4>3, <5>1 DEF From
      <4> QED BY <4>1, <4>3, <4>4, <4>6 DEF Jammed
    <3>3. \A j \in Gids \ {k} : SameBut(T[j], a.table[j])
      BY <3>1 DEF SameBut
    <3> QED BY <1>1, <1>6, <1>7, <2>4, <2>5, <2>6, <3>1, <3>2, <3>3
  <2>7. CASE a.failed = NoRef
    <3>1. /\ TableOK(a.table) /\ LinksOK(a.table, late[d]) /\ From(d, page, a.table)
          /\ \A j \in Gids : a.table[j].ua <= clock
          /\ \A j \in Gids \ {k} : a.table[j] = T[j]
          /\ Exists(a.table[k]) /\ LinkKept(d, page, k, a.table[k].ref)
      BY <1>3, <1>10, <2>1, <2>7, PageUpsert DEF T, k
    <3>2. \A j \in Gids \ {k} : SameBut(T[j], a.table[j])
      BY <3>1 DEF SameBut
    <3>3. \A j \in page \ (w.left \ {k}) : ~ cloud[j].gone =>
               /\ Exists(a.table[j])
               /\ ~ Older(tables[d], j) => LinkKept(d, page, j, a.table[j].ref)
      <4> SUFFICES ASSUME NEW j \in page \ (w.left \ {k}), ~ cloud[j].gone
                   PROVE  /\ Exists(a.table[j])
                          /\ ~ Older(tables[d], j) => LinkKept(d, page, j, a.table[j].ref)
        OBVIOUS
      <4>1. CASE j = k
        BY <3>1, <4>1
      <4>2. CASE j # k
        <5>1. j \in page \ w.left /\ a.table[j] = T[j]
          BY <1>2, <3>1, <4>2
        <5> QED BY <1>1, <1>10, <5>1
      <4> QED BY <4>1, <4>2
    <3>4. a.failed \notin GroupIds
      BY <2>7, IdsApart
    <3> QED BY <1>7, <2>4, <2>5, <3>1, <3>2, <3>3, <3>4
  <2> QED BY <2>4, <2>6, <2>7
<1> QED BY <1>8, <1>9, <1>10

\* A page starts with the rows of the desktop.
LEMMA PageStart ==
    ASSUME RefsInv, NEW d \in Desktops, NEW page \in PullPagesOf(d)
    PROVE  PageInv(d, page, [left |-> page, table |-> tables[d], failed |-> NoRef])
<1> DEFINE w == [left |-> page, table |-> tables[d], failed |-> NoRef]
<1>1. /\ TableOK(tables[d]) /\ LinksOK(tables[d], late[d])
      /\ \A k \in Gids : tables[d][k].ua <= clock
      /\ tables[d] \in [Gids -> RefRow]
  BY DEF RefsInv, RefTypes
<1>2. From(d, page, tables[d])
  BY DEF From
<1>3. \A k \in Gids : SameBut(tables[d][k], tables[d][k])
  BY DEF SameBut
<1>4. w \in [left : SUBSET page, table : [Gids -> RefRow], failed : Gids \cup {NoRef}]
  BY <1>1
<1>5. w.left = page /\ w.table = tables[d] /\ w.failed = NoRef
  OBVIOUS
<1>6. page \subseteq Gids /\ NoRef \notin GroupIds
  BY PageIs, IdsApart
<1> HIDE DEF w
<1>7. PageInv(d, page, w)
  BY <1>1, <1>2, <1>3, <1>4, <1>5, <1>6 DEF PageInv
<1> QED BY <1>7 DEF w

----------------------------------------------------------------------------
(* All the changes of a page, one after the other.  The definition of the  *)
(* sequence of steps has a solution, and what holds of its start and is    *)
(* kept by a step holds of its end: otherwise there would be a least       *)
(* number where it fails.                                                  *)

PageBegin(d, page) == [left |-> page, table |-> tables[d], failed |-> NoRef]

Sequel(N, w0, g) == g = [n \in 0..N |-> IF n = 0 THEN w0 ELSE ApplyFirst(g[n - 1])]

LEMMA StepsExist ==
    ASSUME NEW N \in Nat, NEW w0
    PROVE  \E g : Sequel(N, w0, g)
<1> DEFINE Solved(m) == \E g : Sequel(m, w0, g)
           Fails == {m \in Nat : ~ Solved(m)}
<1>1. Solved(0)
  <2> DEFINE g == [n \in 0..0 |-> w0]
  <2>1. Sequel(0, w0, g)
    BY DEF Sequel
  <2> HIDE DEF g
  <2> QED BY <2>1
<1>2. ASSUME NEW m \in Nat, m # 0, Solved(m - 1) PROVE Solved(m)
  <2>1. PICK g : g = [n \in 0..m - 1 |-> IF n = 0 THEN w0 ELSE ApplyFirst(g[n - 1])]
    BY <1>2 DEF Sequel
  <2> DEFINE h == [n \in 0..m |-> IF n = m THEN ApplyFirst(g[m - 1]) ELSE g[n]]
  <2>2. ASSUME NEW n \in 0..m
        PROVE  h[n] = IF n = 0 THEN w0 ELSE ApplyFirst(h[n - 1])
    <3>1. CASE n = m
      <4>1. h[n] = ApplyFirst(g[m - 1]) /\ m - 1 \in 0..m /\ m - 1 # m
        BY <1>2, <3>1
      <4>2. h[m - 1] = g[m - 1]
        BY <4>1
      <4> QED BY <1>2, <3>1, <4>1, <4>2
    <3>2. CASE n # m /\ n # 0
      <4>1. n \in 0..m - 1 /\ n - 1 \in 0..m /\ n - 1 # m
        BY <3>2
      <4>2. h[n] = g[n] /\ h[n - 1] = g[n - 1]
        BY <3>2, <4>1
      <4>3. g[n] = ApplyFirst(g[n - 1])
        BY <2>1, <3>2, <4>1
      <4> QED BY <3>2, <4>2, <4>3
    <3>3. CASE n # m /\ n = 0
      <4>1. 0 \in 0..m - 1
        BY <1>2
      <4>2. g[0] = w0 /\ h[0] = g[0]
        BY <2>1, <3>3, <4>1
      <4> QED BY <3>3, <4>2
    <3> QED BY <3>1, <3>2, <3>3
  <2>3. h = [n \in 0..m |-> h[n]]
    OBVIOUS
  <2> HIDE DEF h
  <2>4. Sequel(m, w0, h)
    BY <2>2, <2>3 DEF Sequel
  <2> QED BY <2>4
<1> HIDE DEF Solved
<1>3. Fails = {}
  <2> SUFFICES ASSUME Fails # {} PROVE FALSE
    OBVIOUS
  <2>1. Fails \subseteq Nat
    OBVIOUS
  <2> HIDE DEF Fails
  <2>2. PICK m \in Fails : \A n \in Fails : m <= n
    BY <2>1, LeastNumber
  <2>3. m \in Nat /\ ~ Solved(m)
    BY <2>2 DEF Fails
  <2>4. m # 0
    BY <1>1, <2>3
  <2>5. m - 1 \in Nat /\ m - 1 \notin Fails
    BY <2>2, <2>3, <2>4
  <2>6. Solved(m - 1)
    BY <2>5 DEF Fails
  <2> QED BY <1>2, <2>3, <2>4, <2>6
<1>4. Solved(N)
  BY <1>3
<1> QED BY <1>4 DEF Solved

LEMMA ApplyingIs ==
    ASSUME NEW d \in Desktops, NEW page, IsFiniteSet(page)
    PROVE  /\ Applying(d, page)[0] = PageBegin(d, page)
           /\ \A n \in 1..Cardinality(page) : Applying(d, page)[n] = ApplyFirst(Applying(d, page)[n - 1])
<1> DEFINE N == Cardinality(page)
           w0 == PageBegin(d, page)
           f == Applying(d, page)
<1>1. N \in Nat
  BY FS_CardinalityType
<1>2. f = CHOOSE g : Sequel(N, w0, g)
  BY DEF Applying, PageBegin, Sequel
<1> HIDE DEF N, w0, f
<1>3. \E g : Sequel(N, w0, g)
  BY <1>1, StepsExist
<1>4. Sequel(N, w0, f)
  BY <1>2, <1>3
<1>5. f[0] = w0
  BY <1>1, <1>4 DEF Sequel
<1>6. ASSUME NEW n \in 1..N PROVE f[n] = ApplyFirst(f[n - 1])
  <2>1. n \in 0..N /\ n # 0
    BY <1>1
  <2> QED BY <1>4, <2>1 DEF Sequel
<1> QED BY <1>5, <1>6 DEF N, w0, f

\* After as many steps as the page has rows, none is left.
LEMMA PageEnd ==
    ASSUME RefsInv, NEW d \in Desktops, NEW page \in PullPagesOf(d)
    PROVE  PageInv(d, page, Applied(d, page)) /\ Applied(d, page).left = {}
<1> DEFINE N == Cardinality(page)
           f == Applying(d, page)
           Good(n) == PageInv(d, page, f[n]) /\ Cardinality(f[n].left) = N - n
           Fails == {n \in 0..N : ~ Good(n)}
<1>1. IsFiniteSet(page) /\ N \in Nat
  <2>1. IsFiniteSet(TaskIds)
    <3> DEFINE F == [c \in ClientIds |-> TaskOf(c)]
    <3>1. F \in Surjection(ClientIds, TaskIds)
      BY DEF Surjection, TaskIds
    <3> HIDE DEF F
    <3> QED BY <3>1, RefsAssumption, FS_Surjection
  <2>2. IsFiniteSet(Gids)
    BY <2>1, RefsAssumption, FS_Union DEF Gids
  <2> QED BY <2>2, PageIs, FS_Subset, FS_CardinalityType
<1>2. f[0] = PageBegin(d, page) /\ \A n \in 1..N : f[n] = ApplyFirst(f[n - 1])
  BY <1>1, ApplyingIs
<1> HIDE DEF N, f
<1>3. Good(0)
  <2>1. PageInv(d, page, f[0]) /\ f[0].left = page
    BY <1>2, PageStart DEF PageBegin
  <2> QED BY <1>1, <2>1 DEF N
<1>4. ASSUME NEW n \in 1..N, Good(n - 1) PROVE Good(n)
  <2>1. f[n - 1].left \in SUBSET page
    BY <1>4 DEF PageInv
  <2>2. IsFiniteSet(f[n - 1].left) /\ Cardinality(f[n - 1].left) = N - (n - 1)
    BY <1>1, <1>4, <2>1, FS_Subset
  <2>3. f[n - 1].left # {}
    <3>1. N - (n - 1) # 0
      BY <1>1
    <3> QED BY <2>2, <3>1, FS_EmptySet
  <2>4. PICK k \in f[n - 1].left : f[n].left = f[n - 1].left \ {k}
    BY <1>2, <1>4, <2>3, PageStep
  <2>5. PageInv(d, page, f[n])
    BY <1>2, <1>4, <2>3, PageStep
  <2>6. Cardinality(f[n].left) = N - (n - 1) - 1
    BY <2>2, <2>4, FS_RemoveElement
  <2>7. N - (n - 1) - 1 = N - n
    BY <1>1
  <2> QED BY <2>5, <2>6, <2>7
<1> HIDE DEF Good
<1>5. Fails = {}
  <2> SUFFICES ASSUME Fails # {} PROVE FALSE
    OBVIOUS
  <2>1. Fails \subseteq Nat
    BY <1>1
  <2> HIDE DEF Fails
  <2>2. PICK m \in Fails : \A n \in Fails : m <= n
    BY <2>1, LeastNumber
  <2>3. m \in 0..N /\ ~ Good(m)
    BY <2>2 DEF Fails
  <2>4. m # 0
    BY <1>3, <2>3
  <2>5. m \in 1..N /\ m - 1 \in 0..N /\ ~ (m <= m - 1)
    BY <1>1, <2>3, <2>4
  <2>6. m - 1 \notin Fails
    BY <2>2, <2>5
  <2>7. Good(m - 1)
    BY <2>5, <2>6 DEF Fails
  <2> QED BY <1>4, <2>3, <2>5, <2>7
<1>6. Good(N)
  BY <1>1, <1>5
<1>7. PageInv(d, page, f[N]) /\ f[N].left = {}
  <2>1. PageInv(d, page, f[N]) /\ Cardinality(f[N].left) = 0
    BY <1>1, <1>6 DEF Good
  <2>2. IsFiniteSet(f[N].left)
    BY <1>1, <2>1, FS_Subset DEF PageInv
  <2> QED BY <2>1, <2>2, FS_EmptySet
<1>8. Applied(d, page) = f[N]
  BY DEF Applied, f, N
<1> QED BY <1>7, <1>8

----------------------------------------------------------------------------
(* The user.                                                               *)

\* To write a row.
LEMMA SetRow ==
    ASSUME NEW T, TableOK(T), NEW k \in Gids, NEW row \in RefRow, row.ref \in RefsOf(k),
           row.gone => Exists(row), k \in GroupIds /\ Exists(row) => OwnName(row.name, k),
           NEW U, U = [T EXCEPT ![k] = row]
    PROVE  TableOK(U)
<1>1. RowsOK(T)
  BY DEF TableOK
<1>2. U \in [Gids -> RefRow] /\ U[k] = row /\ \A j \in Gids \ {k} : U[j] = T[j]
  BY <1>1 DEF RowsOK
<1>3. ASSUME NEW j \in Gids
      PROVE  U[j].ref \in RefsOf(j) /\ (U[j].gone => Exists(U[j]))
  <2>1. CASE j = k
    BY <1>2, <2>1
  <2>2. CASE j # k
    BY <1>1, <1>2, <2>2 DEF RowsOK
  <2> QED BY <2>1, <2>2
<1>4. ASSUME NEW g \in GroupIds, Exists(U[g]) PROVE OwnName(U[g].name, g)
  <2>1. CASE g = k
    BY <1>2, <1>4, <2>1
  <2>2. CASE g # k
    BY <1>2, <1>4, <2>2, IdsApart DEF TableOK
  <2> QED BY <2>1, <2>2
<1> QED BY <1>2, <1>3, <1>4 DEF TableOK, RowsOK

\* What a user typed is a name.
LEMMA TypedName ==
    ASSUME NEW label \in Labels
    PROVE  <<label>> \in Seq(Parts) /\ \A g : OwnName(<<label>>, g)
<1>1. label \in Parts
  BY DEF Parts
<1>2. <<label>> \in Seq(Parts) /\ Len(<<label>>) = 1
  BY <1>1
<1>3. \A g : OwnName(<<label>>, g)
  BY <1>2 DEF OwnName
<1> QED BY <1>2, <1>3

\* While the groups stay and no client gets a link, the links stay good.
LEMMA LinksStay ==
    ASSUME NEW T, NEW U, NEW excused, LinksOK(T, excused), LiveGroups(T) \subseteq LiveGroups(U),
           \A c \in ClientIds : IsLive(U[c]) => IsLive(T[c]) /\ U[c].ref = T[c].ref
    PROVE  LinksOK(U, excused)
BY DEF LinksOK

\* What a write of the user must show.
LEMMA UserWriteKeeps ==
    ASSUME RefsInv, NEW d \in Desktops, NEW T, UserWrites(d, T), TableOK(T), LinksOK(T, late'[d]),
           \A k \in Gids : T[k].ua <= clock + 1,
           armed' \in [Desktops -> SUBSET OldFields], update' \in [Desktops -> NewFields],
           late' \in [Desktops -> SUBSET ClientIds], \A e \in Desktops \ {d} : late'[e] = late[e]
    PROVE  RefsInv'
<1>1. /\ clock \in Nat /\ pushes \in 0..MaxPushes /\ clock - pushes \in 0..MaxWrites
      /\ clock - pushes < MaxWrites /\ clock' = clock + 1
      /\ tables' = [tables EXCEPT ![d] = T] /\ listed' = [listed EXCEPT ![d] = LiveGroups(T)]
      /\ pushes' = pushes /\ cloud' = cloud /\ pulledTo' = pulledTo /\ pushedTo' = pushedTo /\ session' = session
      /\ tables \in [Desktops -> [Gids -> RefRow]] /\ listed \in [Desktops -> SUBSET GroupIds]
  BY DEF UserWrites, RefsInv, RefTypes, cursors
<1>2. MaxWrites \in Nat /\ MaxPushes \in Nat
  BY RefsAssumption
<1>3. T \in [Gids -> RefRow] /\ LiveGroups(T) \subseteq GroupIds
  BY DEF TableOK, RowsOK, LiveGroups
<1>4. RefTypes'
  <2>1. clock' \in Nat /\ clock' - pushes' \in 0..MaxWrites
    BY <1>1, <1>2
  <2>2. tables' \in [Desktops -> [Gids -> RefRow]] /\ listed' \in [Desktops -> SUBSET GroupIds]
    BY <1>1, <1>3
  <2> QED BY <1>1, <2>1, <2>2 DEF RefsInv, RefTypes
<1>5. \A k \in Gids : cloud[k].ua \in Nat /\ cloud[k].ua <= clock
  BY RowIs DEF RefsInv, CloudOK
<1>6. CloudOK' /\ \A k \in Gids : cloud'[k].ua <= clock'
  <2>1. CloudOK'
    BY <1>1 DEF RefsInv, CloudOK
  <2>2. \A k \in Gids : cloud'[k].ua <= clock'
    BY <1>1, <1>5
  <2> QED BY <2>1, <2>2
<1>7. ASSUME NEW e \in Desktops
      PROVE  TableOK(tables'[e]) /\ LinksOK(tables'[e], late'[e]) /\ \A k \in Gids : tables'[e][k].ua <= clock'
  <2>1. CASE e = d
    <3>1. tables'[e] = T
      BY <1>1, <2>1
    <3> QED BY <1>1, <2>1, <3>1
  <2>2. CASE e # d
    <3>1. tables'[e] = tables[e] /\ late'[e] = late[e]
      BY <1>1, <2>2
    <3>2. TableOK(tables[e]) /\ LinksOK(tables[e], late[e]) /\ \A k \in Gids : tables[e][k].ua <= clock
      BY DEF RefsInv
    <3>3. \A k \in Gids : tables[e][k].ua \in Nat
      BY <3>2, RowIs DEF TableOK
    <3> QED BY <1>1, <3>1, <3>2, <3>3
  <2> QED BY <2>1, <2>2
<1> QED BY <1>4, <1>6, <1>7 DEF RefsInv

\* Who is late after clients were saved.
LEMMA SavedLateIs ==
    ASSUME RefsInv, NEW d \in Desktops, NEW saved \in SUBSET ClientIds, NEW g, SavedLate(d, saved, g)
    PROVE  /\ late' \in [Desktops -> SUBSET ClientIds]
           /\ \A e \in Desktops \ {d} : late'[e] = late[e]
           /\ late[d] \ saved \subseteq late'[d]
           /\ g \notin LiveGroups(tables[d]) \cup {NoRef} => saved \subseteq late'[d]
<1>1. late \in [Desktops -> SUBSET ClientIds]
  BY DEF RefsInv, RefTypes
<1>2. CASE g \in LiveGroups(tables[d]) \cup {NoRef}
  <2>1. late' = [late EXCEPT ![d] = @ \ saved]
    BY <1>2 DEF SavedLate
  <2> QED BY <1>1, <1>2, <2>1
<1>3. CASE g \notin LiveGroups(tables[d]) \cup {NoRef}
  <2>1. late' = [late EXCEPT ![d] = @ \cup saved]
    BY <1>3 DEF SavedLate
  <2> QED BY <1>1, <1>3, <2>1
<1> QED BY <1>2, <1>3

\* What a command has noted for its undo.
LEMMA ArmsIs ==
    ASSUME RefsInv, NEW d \in Desktops, NEW before \in SUBSET OldFields, Arms(d, before)
    PROVE  armed' \in [Desktops -> SUBSET OldFields] /\ update' \in [Desktops -> NewFields]
BY DEF Arms, RefsInv, RefTypes

LEMMA PanelStays ==
    ASSUME RefsInv, UNCHANGED panel
    PROVE  armed' \in [Desktops -> SUBSET OldFields] /\ update' \in [Desktops -> NewFields]
BY DEF panel, RefsInv, RefTypes

\* The rows of a desktop.
LEMMA DesktopRows ==
    ASSUME RefsInv, NEW d \in Desktops
    PROVE  /\ TableOK(tables[d]) /\ RowsOK(tables[d]) /\ LinksOK(tables[d], late[d])
           /\ tables[d] \in [Gids -> RefRow]
           /\ clock \in Nat /\ late \in [Desktops -> SUBSET ClientIds]
           /\ \A k \in Gids : tables[d][k].ua <= clock /\ tables[d][k].ua \in Nat /\ tables[d][k].ua <= clock + 1
<1>1. /\ TableOK(tables[d]) /\ RowsOK(tables[d]) /\ LinksOK(tables[d], late[d])
      /\ tables[d] \in [Gids -> RefRow]
      /\ clock \in Nat /\ late \in [Desktops -> SUBSET ClientIds]
      /\ \A k \in Gids : tables[d][k].ua <= clock
  BY DEF RefsInv, RefTypes, TableOK
<1>2. \A k \in Gids : tables[d][k].ua \in Nat
  BY <1>1, RowIs
<1> QED BY <1>1, <1>2

LEMMA RowIsRow ==
    ASSUME clock \in Nat, NEW name \in Seq(Parts), NEW ref \in Gids \cup {NoRef}
    PROVE  /\ Row(name, ref) \in RefRow /\ Exists(Row(name, ref)) /\ ~ Row(name, ref).gone
           /\ Row(name, ref).ref = ref /\ Row(name, ref).name = name /\ Row(name, ref).ua = clock + 1
<1>1. clock + 1 \in Nat /\ clock + 1 # 0
  OBVIOUS
<1> QED BY <1>1 DEF Row, RefRow, Texts, Exists, Parts

LEMMA AddGroupKeeps ==
    ASSUME RefsInv, NEW d \in Desktops, NEW g \in GroupIds, NEW label \in Labels, AddGroup(d, g, label)
    PROVE  RefsInv'
<1> DEFINE row == Row(<<label>>, NoRef)
           T == [tables[d] EXCEPT ![g] = row]
<1>1. g \in Gids /\ NoRef \in RefsOf(g)
  BY IdsApart DEF RefsOf
<1>2. row \in RefRow /\ Exists(row) /\ ~ row.gone /\ row.ref = NoRef /\ row.name = <<label>> /\ row.ua = clock + 1
  <2>1. <<label>> \in Seq(Parts) /\ clock \in Nat /\ NoRef \in Gids \cup {NoRef}
    BY DesktopRows, TypedName
  <2> QED BY <2>1, RowIsRow
<1>3. UserWrites(d, T) /\ late' = late /\ UNCHANGED panel
  BY DEF AddGroup
<1> HIDE DEF row
<1>4. TableOK(T) /\ T[g] = row /\ \A j \in Gids \ {g} : T[j] = tables[d][j]
  <2>1. OwnName(row.name, g) /\ row.ref \in RefsOf(g) /\ (row.gone => Exists(row))
    BY <1>1, <1>2, TypedName
  <2>2. TableOK(tables[d]) /\ tables[d] \in [Gids -> RefRow]
    BY DesktopRows
  <2>3. TableOK(T)
    BY <1>1, <1>2, <2>1, <2>2, SetRow
  <2> QED BY <1>1, <1>2, <2>2, <2>3
<1> HIDE DEF T
<1>5. LiveGroups(tables[d]) \subseteq LiveGroups(T)
  BY <1>2, <1>4, IdsApart DEF LiveGroups, IsLive
<1>6. \A c \in ClientIds : T[c] = tables[d][c]
  BY <1>4, IdsApart
<1>7. LinksOK(T, late[d])
  BY <1>5, <1>6, DesktopRows, LinksStay
<1>8. \A k \in Gids : T[k].ua <= clock + 1
  BY <1>2, <1>4, DesktopRows
<1> QED BY <1>3, <1>4, <1>7, <1>8, DesktopRows, PanelStays, UserWriteKeeps

LEMMA RenameGroupKeeps ==
    ASSUME RefsInv, NEW d \in Desktops, NEW g \in GroupIds, NEW label \in Labels, RenameGroup(d, g, label)
    PROVE  RefsInv'
<1> DEFINE row == [tables[d][g] EXCEPT !.name = <<label>>, !.ua = clock + 1]
           T == [tables[d] EXCEPT ![g] = row]
<1>1. g \in Gids /\ tables[d][g] \in RefRow /\ tables[d][g].ref \in RefsOf(g) /\ IsLive(tables[d][g])
  BY DesktopRows, IdsApart DEF RowsOK, RenameGroup
<1>2. row \in RefRow /\ Exists(row) /\ ~ row.gone /\ row.ref = tables[d][g].ref /\ row.name = <<label>> /\ row.ua = clock + 1
  <2>1. clock + 1 \in Nat /\ clock + 1 # 0
    BY DesktopRows
  <2>2. <<label>> \in Seq(Parts)
    BY TypedName
  <2> QED BY <1>1, <2>1, <2>2 DEF RefRow, Texts, Exists, IsLive, Parts
<1>3. UserWrites(d, T) /\ late' = late /\ UNCHANGED panel
  <2>1. [tables[d] EXCEPT ![g].name = <<label>>, ![g].ua = clock + 1] = T
    BY <1>1, DesktopRows DEF RefRow, Texts
  <2> HIDE DEF T
  <2> QED BY <2>1 DEF RenameGroup
<1> HIDE DEF row
<1>4. TableOK(T) /\ T[g] = row /\ \A j \in Gids \ {g} : T[j] = tables[d][j]
  <2>1. OwnName(row.name, g) /\ row.ref \in RefsOf(g) /\ (row.gone => Exists(row))
    BY <1>1, <1>2, TypedName
  <2>2. TableOK(tables[d]) /\ tables[d] \in [Gids -> RefRow]
    BY DesktopRows
  <2>3. TableOK(T)
    BY <1>1, <1>2, <2>1, <2>2, SetRow
  <2> QED BY <1>1, <1>2, <2>2, <2>3
<1> HIDE DEF T
<1>5. LiveGroups(tables[d]) \subseteq LiveGroups(T)
  BY <1>2, <1>4, IdsApart DEF LiveGroups, IsLive
<1>6. \A c \in ClientIds : T[c] = tables[d][c]
  BY <1>4, IdsApart
<1>7. LinksOK(T, late[d])
  BY <1>5, <1>6, DesktopRows, LinksStay
<1>8. \A k \in Gids : T[k].ua <= clock + 1
  BY <1>2, <1>4, DesktopRows
<1> QED BY <1>3, <1>4, <1>7, <1>8, DesktopRows, PanelStays, UserWriteKeeps

LEMMA DeleteGroupKeeps ==
    ASSUME RefsInv, NEW d \in Desktops, NEW g \in GroupIds, DeleteGroup(d, g)
    PROVE  RefsInv'
<1> DEFINE L == Leave(tables[d], g)
           row == [L[g] EXCEPT !.gone = TRUE, !.ua = clock + 1]
           T == [L EXCEPT ![g] = row]
<1>1. g \in Gids /\ g \notin ClientIds /\ g # NoRef
  BY IdsApart
<1>2. /\ RowsOK(L)
      /\ \A k \in Gids : SameBut(tables[d][k], L[k]) /\ L[k].ref \in {tables[d][k].ref, NoRef}
      /\ \A c \in ClientIds : L[c].ref # g
  BY <1>1, DesktopRows, LeaveIs
<1> HIDE DEF L
<1>3. TableOK(L) /\ L \in [Gids -> RefRow] /\ L[g] \in RefRow /\ L[g].ref \in RefsOf(g)
  <2>1. \A h \in GroupIds : Exists(L[h]) => OwnName(L[h].name, h)
    BY <1>2, DesktopRows, IdsApart DEF TableOK, SameBut, Exists
  <2> QED BY <1>1, <1>2, <2>1 DEF TableOK, RowsOK
<1>4. row \in RefRow /\ Exists(row) /\ row.gone /\ row.ref = L[g].ref /\ row.name = L[g].name /\ row.ua = clock + 1
  <2>1. clock + 1 \in Nat /\ clock + 1 # 0
    BY DesktopRows
  <2> QED BY <1>3, <2>1 DEF RefRow, Texts, Exists
<1>5. UserWrites(d, T) /\ late' = late /\ UNCHANGED panel
  <2>1. [L EXCEPT ![g].gone = TRUE, ![g].ua = clock + 1] = T
    BY <1>1, <1>3 DEF RefRow, Texts
  <2> HIDE DEF T
  <2> QED BY <2>1 DEF DeleteGroup, L
<1>6. OwnName(L[g].name, g)
  <2>1. Exists(tables[d][g])
    BY DEF DeleteGroup, IsLive
  <2> QED BY <1>1, <1>2, <1>3, <2>1 DEF TableOK, SameBut, Exists
<1> HIDE DEF row
<1>7. TableOK(T) /\ T[g] = row /\ \A j \in Gids \ {g} : T[j] = L[j]
  <2>1. TableOK(T)
    BY <1>1, <1>3, <1>4, <1>6, SetRow
  <2> QED BY <1>1, <1>3, <1>4, <2>1
<1> HIDE DEF T
<1>8. LinksOK(T, late[d])
  <2> SUFFICES ASSUME NEW c \in ClientIds, IsLive(T[c]), T[c].ref # NoRef
               PROVE  T[c].ref \in LiveGroups(T) \/ c \in late[d]
    BY DEF LinksOK
  <2>1. c \in Gids /\ c # g /\ T[c] = L[c]
    BY <1>1, <1>7, IdsApart
  <2>2. IsLive(tables[d][c]) /\ T[c].ref = tables[d][c].ref /\ T[c].ref # g
    BY <1>2, <2>1 DEF SameBut, IsLive, Exists
  <2>3. T[c].ref \in LiveGroups(tables[d]) \/ c \in late[d]
    BY <2>2, DesktopRows DEF LinksOK
  <2>4. ASSUME NEW h \in LiveGroups(tables[d]), h # g PROVE h \in LiveGroups(T)
    <3>1. h \in GroupIds /\ h \in Gids /\ SameBut(tables[d][h], T[h])
      BY <1>2, <1>7, <2>4, IdsApart DEF LiveGroups
    <3> QED BY <3>1 DEF LiveGroups, IsLive, SameBut, Exists
  <2> QED BY <2>2, <2>3, <2>4
<1>9. \A k \in Gids : T[k].ua <= clock + 1
  BY <1>2, <1>4, <1>7, DesktopRows DEF SameBut
<1> QED BY <1>5, <1>7, <1>8, <1>9, DesktopRows, PanelStays, UserWriteKeeps

\* To save clients with a link: it is good, or they are late.
LEMMA SavedLinks ==
    ASSUME RefsInv, NEW d \in Desktops, NEW saved \in SUBSET ClientIds, NEW g, SavedLate(d, saved, g),
           NEW T, \A c \in saved : T[c].ref = g, LiveGroups(T) = LiveGroups(tables[d]),
           \A j \in ClientIds \ saved : T[j] = tables[d][j]
    PROVE  LinksOK(T, late'[d])
<1> SUFFICES ASSUME NEW j \in ClientIds, IsLive(T[j]), T[j].ref # NoRef
             PROVE  T[j].ref \in LiveGroups(T) \/ j \in late'[d]
  BY DEF LinksOK
<1>1. CASE j \in saved
  <2>1. g \in LiveGroups(tables[d]) \cup {NoRef} \/ saved \subseteq late'[d]
    BY SavedLateIs
  <2> QED BY <1>1, <2>1
<1>2. CASE j \notin saved
  <2>1. T[j] = tables[d][j]
    BY <1>2
  <2>2. T[j].ref \in LiveGroups(tables[d]) \/ j \in late[d]
    BY <2>1, DesktopRows DEF LinksOK
  <2>3. late[d] \ saved \subseteq late'[d]
    BY SavedLateIs
  <2> QED BY <1>2, <2>2, <2>3
<1> QED BY <1>1, <1>2

\* What a write of the group of clients must show.
LEMMA ClientsSaved ==
    ASSUME RefsInv, NEW d \in Desktops, NEW saved \in SUBSET ClientIds, NEW g \in GroupIds \cup {NoRef},
           NEW T, UserWrites(d, T), SavedLate(d, saved, g), T \in [Gids -> RefRow],
           \A k \in Gids \ saved : T[k] = tables[d][k],
           \A c \in saved : T[c].ref = g /\ T[c].ua = clock + 1,
           armed' \in [Desktops -> SUBSET OldFields], update' \in [Desktops -> NewFields]
    PROVE  RefsInv'
<1>1. /\ TableOK(tables[d]) /\ RowsOK(tables[d]) /\ clock + 1 # 0
      /\ \A k \in Gids : tables[d][k].ua <= clock + 1
      /\ \A g1 \in GroupIds : g1 \in Gids \ saved
  BY DesktopRows, IdsApart
<1>2. ASSUME NEW k \in Gids
      PROVE  T[k].ref \in RefsOf(k) /\ (T[k].gone => Exists(T[k])) /\ T[k].ua <= clock + 1
  <2>1. CASE k \in saved
    <3>1. k \in ClientIds /\ T[k].ref = g /\ T[k].ua = clock + 1
      BY <2>1
    <3>2. T[k].ua <= clock + 1
      BY <3>1, DesktopRows
    <3> QED BY <1>1, <3>1, <3>2 DEF RefsOf, Exists
  <2>2. CASE k \notin saved
    <3>1. T[k] = tables[d][k]
      BY <2>2
    <3> QED BY <1>1, <3>1, RowIs
  <2> QED BY <2>1, <2>2
<1>3. \A h \in GroupIds : T[h] = tables[d][h]
  BY <1>1
<1>4. TableOK(T)
  <2>1. RowsOK(T)
    BY <1>2 DEF RowsOK
  <2>2. \A h \in GroupIds : Exists(T[h]) => OwnName(T[h].name, h)
    BY <1>1, <1>3 DEF TableOK
  <2> QED BY <2>1, <2>2 DEF TableOK
<1>5. LinksOK(T, late'[d])
  <2>1. LiveGroups(T) = LiveGroups(tables[d])
    BY <1>3 DEF LiveGroups
  <2>2. \A j \in ClientIds \ saved : T[j] = tables[d][j]
    BY IdsApart
  <2> QED BY <2>1, <2>2, SavedLinks
<1>6. /\ late' \in [Desktops -> SUBSET ClientIds]
      /\ \A e \in Desktops \ {d} : late'[e] = late[e]
  BY SavedLateIs
<1> QED BY <1>2, <1>4, <1>5, <1>6, UserWriteKeeps

\* What a command notes of a client.
LEMMA ClientNoted ==
    ASSUME RefsInv, NEW d \in Desktops, NEW c \in ClientIds
    PROVE  /\ tables[d][c] \in RefRow /\ tables[d][c].name \in Texts /\ tables[d][c].ref \in GroupIds \cup {NoRef}
           /\ <<>> \in Texts
<1>1. c \in Gids /\ RowsOK(tables[d])
  BY DesktopRows, IdsApart
<1>2. tables[d][c] \in RefRow /\ tables[d][c].ref \in RefsOf(c)
  BY <1>1, RowIs
<1>3. tables[d][c].name \in Texts
  BY <1>2 DEF RefRow, Texts
<1>4. <<>> \in Texts
  BY DEF Texts
<1> QED BY <1>2, <1>3, <1>4, IdsApart DEF RefsOf

LEMMA OffersAre ==
    ASSUME RefsInv, NEW d \in Desktops
    PROVE  Offers(d) \subseteq GroupIds \cup {NoRef}
BY DEF Offers, RefsInv, RefTypes

LEMMA AddClientKeeps ==
    ASSUME RefsInv, NEW d \in Desktops, NEW c \in ClientIds, NEW label \in Labels, NEW g \in Offers(d),
           AddClient(d, c, label, g)
    PROVE  RefsInv'
<1> DEFINE t == TaskOf(c)
           row == Row(<<label>>, g)
           first == Row(<<>>, c)
           U == [tables[d] EXCEPT ![c] = row]
           T == [U EXCEPT ![t] = first]
<1>1. /\ c \in Gids /\ c \notin GroupIds /\ t \in TaskIds /\ t \in Gids /\ t \notin GroupIds /\ t \notin ClientIds
      /\ g \in GroupIds \cup {NoRef} /\ g \in Gids \cup {NoRef}
  <2>1. t \in TaskIds
    BY DEF TaskIds
  <2>2. g \in GroupIds \cup {NoRef}
    BY OffersAre
  <2> HIDE DEF t
  <2> QED BY <2>1, <2>2, IdsApart
<1>2. g \in RefsOf(c) /\ c \in RefsOf(t)
  <2> HIDE DEF t
  <2> QED BY <1>1, IdsApart DEF RefsOf
<1>3. UserWrites(d, T) /\ SavedLate(d, {c}, g) /\ Arms(d, {})
  BY DEF AddClient
<1>4. row \in RefRow /\ Exists(row) /\ ~ row.gone /\ row.ref = g /\ row.ua = clock + 1
  <2>1. <<label>> \in Seq(Parts) /\ clock \in Nat
    BY DesktopRows, TypedName
  <2> QED BY <1>1, <2>1, RowIsRow
<1>5. first \in RefRow /\ Exists(first) /\ ~ first.gone /\ first.ref = c /\ first.ua = clock + 1
  <2>1. <<>> \in Seq(Parts) /\ clock \in Nat /\ c \in Gids \cup {NoRef}
    BY <1>1, DesktopRows
  <2> QED BY <1>1, <2>1, RowIsRow
<1> HIDE DEF t, row, first
<1>6. TableOK(U) /\ U \in [Gids -> RefRow] /\ U[c] = row /\ \A j \in Gids \ {c} : U[j] = tables[d][j]
  <2>1. row.ref \in RefsOf(c) /\ (row.gone => Exists(row)) /\ (c \in GroupIds => OwnName(row.name, c))
    BY <1>1, <1>2, <1>4
  <2>2. TableOK(tables[d]) /\ tables[d] \in [Gids -> RefRow]
    BY DesktopRows
  <2>3. TableOK(U)
    BY <1>1, <1>4, <2>1, <2>2, SetRow
  <2> QED BY <1>1, <1>4, <2>2, <2>3
<1> HIDE DEF U
<1>7. TableOK(T) /\ T[t] = first /\ \A j \in Gids \ {t} : T[j] = U[j]
  <2>1. first.ref \in RefsOf(t) /\ (first.gone => Exists(first)) /\ (t \in GroupIds => OwnName(first.name, t))
    BY <1>1, <1>2, <1>5
  <2>2. TableOK(T)
    BY <1>1, <1>5, <1>6, <2>1, SetRow
  <2> QED BY <1>1, <1>5, <1>6, <2>2
<1> HIDE DEF T
<1>8. T[c].ref = g /\ \A j \in ClientIds \ {c} : T[j] = tables[d][j]
  <2>1. T[c] = row
    BY <1>1, <1>6, <1>7
  <2>2. \A j \in ClientIds \ {c} : j \in Gids /\ j # t
    BY <1>1, IdsApart
  <2> QED BY <1>4, <1>6, <1>7, <2>1, <2>2
<1>9. LiveGroups(T) = LiveGroups(tables[d])
  <2>1. \A h \in GroupIds : T[h] = tables[d][h]
    BY <1>1, <1>6, <1>7, IdsApart
  <2> QED BY <2>1 DEF LiveGroups
<1>10. LinksOK(T, late'[d])
  <2>1. \A j \in {c} : T[j].ref = g
    BY <1>8
  <2>2. {c} \in SUBSET ClientIds /\ SavedLate(d, {c}, g)
    BY <1>3
  <2> QED BY <1>8, <1>9, <2>1, <2>2, SavedLinks
<1>11. \A k \in Gids : T[k].ua <= clock + 1
  BY <1>4, <1>5, <1>6, <1>7, DesktopRows
<1>12. /\ late' \in [Desktops -> SUBSET ClientIds]
       /\ \A e \in Desktops \ {d} : late'[e] = late[e]
  <2>1. {c} \in SUBSET ClientIds /\ SavedLate(d, {c}, g)
    BY <1>3
  <2> QED BY <2>1, SavedLateIs
<1>13. armed' \in [Desktops -> SUBSET OldFields] /\ update' \in [Desktops -> NewFields]
  BY <1>3, ArmsIs
<1> QED BY <1>3, <1>7, <1>10, <1>11, <1>12, <1>13, UserWriteKeeps

LEMMA EditClientKeeps ==
    ASSUME RefsInv, NEW d \in Desktops, NEW c \in ClientIds, NEW label \in Labels, NEW g \in Offers(d),
           EditClient(d, c, label, g)
    PROVE  RefsInv'
<1> DEFINE row == [tables[d][c] EXCEPT !.name = <<label>>, !.ref = g, !.ua = clock + 1]
           T == [tables[d] EXCEPT ![c] = row]
<1>1. /\ c \in Gids /\ c \notin GroupIds /\ tables[d][c] \in RefRow /\ IsLive(tables[d][c])
      /\ g \in GroupIds \cup {NoRef} /\ g \in Gids \cup {NoRef} /\ g \in RefsOf(c)
  <2>1. g \in GroupIds \cup {NoRef}
    BY OffersAre
  <2>2. c \in Gids /\ c \notin GroupIds /\ g \in Gids \cup {NoRef}
    BY <2>1, IdsApart
  <2>3. tables[d][c] \in RefRow /\ IsLive(tables[d][c])
    BY <2>2, DesktopRows DEF EditClient
  <2> QED BY <2>1, <2>2, <2>3 DEF RefsOf
<1>2. row \in RefRow /\ Exists(row) /\ ~ row.gone /\ row.ref = g /\ row.ua = clock + 1
  <2>1. clock + 1 \in Nat /\ clock + 1 # 0
    BY DesktopRows
  <2>2. <<label>> \in Seq(Parts)
    BY TypedName
  <2> QED BY <1>1, <2>1, <2>2 DEF RefRow, Texts, Exists, IsLive, Parts
<1>3. /\ UserWrites(d, T) /\ SavedLate(d, {c}, g)
      /\ Arms(d, {[client |-> c, name |-> tables[d][c].name, ref |-> tables[d][c].ref]})
  <2>1. [tables[d] EXCEPT ![c].name = <<label>>, ![c].ref = g, ![c].ua = clock + 1] = T
    BY <1>1, DesktopRows DEF RefRow, Texts
  <2> HIDE DEF T
  <2> QED BY <2>1 DEF EditClient
<1> HIDE DEF row
<1>4. T \in [Gids -> RefRow] /\ T[c] = row /\ \A j \in Gids \ {c} : T[j] = tables[d][j]
  BY <1>1, <1>2, DesktopRows
<1> HIDE DEF T
<1>5. armed' \in [Desktops -> SUBSET OldFields] /\ update' \in [Desktops -> NewFields]
  <2>1. {[client |-> c, name |-> tables[d][c].name, ref |-> tables[d][c].ref]} \in SUBSET OldFields
    BY ClientNoted DEF OldFields
  <2> QED BY <1>3, <2>1, ArmsIs
<1>6. \A j \in {c} : T[j].ref = g /\ T[j].ua = clock + 1
  BY <1>2, <1>4
<1>7. {c} \in SUBSET ClientIds /\ UserWrites(d, T) /\ SavedLate(d, {c}, g)
  BY <1>3
<1> QED BY <1>1, <1>4, <1>5, <1>6, <1>7, ClientsSaved

LEMMA AssignGroupKeeps ==
    ASSUME RefsInv, NEW d \in Desktops, NEW chosen \in SUBSET ClientIds, NEW g \in Offers(d),
           AssignGroup(d, chosen, g)
    PROVE  RefsInv'
<1> DEFINE T == [k \in Gids |-> IF k \in chosen THEN [tables[d][k] EXCEPT !.ref = g, !.ua = clock + 1]
                                ELSE tables[d][k]]
           noted == {[client |-> c, name |-> <<>>, ref |-> tables[d][c].ref] : c \in chosen}
<1>1. UserWrites(d, T) /\ SavedLate(d, chosen, g) /\ Arms(d, noted)
  BY DEF AssignGroup
<1>2. g \in GroupIds \cup {NoRef} /\ g \in Gids \cup {NoRef} /\ clock + 1 \in Nat
  BY OffersAre, IdsApart, DesktopRows
<1>3. noted \in SUBSET OldFields
  BY ClientNoted DEF OldFields
<1> HIDE DEF noted
<1>4. armed' \in [Desktops -> SUBSET OldFields] /\ update' \in [Desktops -> NewFields]
  BY <1>1, <1>3, ArmsIs
<1>5. ASSUME NEW k \in Gids
      PROVE  /\ T[k] \in RefRow /\ (k \notin chosen => T[k] = tables[d][k])
             /\ k \in chosen => T[k].ref = g /\ T[k].ua = clock + 1
  <2>1. tables[d][k] \in RefRow
    BY DesktopRows
  <2>2. CASE k \in chosen
    <3>1. T[k] = [tables[d][k] EXCEPT !.ref = g, !.ua = clock + 1]
      BY <2>2
    <3> HIDE DEF T
    <3>2. T[k] \in RefRow /\ T[k].ref = g /\ T[k].ua = clock + 1
      BY <1>2, <2>1, <3>1 DEF RefRow, Texts
    <3> QED BY <2>2, <3>2
  <2>3. CASE k \notin chosen
    <3>1. T[k] = tables[d][k]
      BY <2>3
    <3> QED BY <2>1, <2>3, <3>1
  <2> QED BY <2>2, <2>3
<1>6. T \in [Gids -> RefRow]
  <2>1. T = [k \in Gids |-> T[k]]
    OBVIOUS
  <2> HIDE DEF T
  <2> QED BY <1>5, <2>1
<1> HIDE DEF T
<1>7. /\ \A k \in Gids \ chosen : T[k] = tables[d][k]
      /\ \A c \in chosen : T[c].ref = g /\ T[c].ua = clock + 1
  BY <1>5, IdsApart
<1> QED BY <1>1, <1>2, <1>4, <1>6, <1>7, ClientsSaved

\* What does not touch the rows of the desktops and of the Worker.
LEMMA SessionKeeps ==
    ASSUME RefsInv, UNCHANGED <<clock, pushes, tables, cloud, late, listed, pushedTo>>,
           pulledTo' \in [Desktops -> Nat],
           session' \in [Desktops -> [pc : {"idle", "pull", "push"}, since : Nat, stime : Nat]],
           armed' \in [Desktops -> SUBSET OldFields], update' \in [Desktops -> NewFields]
    PROVE  RefsInv'
<1>1. RefTypes'
  BY DEF RefsInv, RefTypes
<1>2. CloudOK' /\ \A k \in Gids : cloud'[k].ua <= clock'
  BY DEF RefsInv, CloudOK
<1>3. \A e \in Desktops : /\ TableOK(tables'[e]) /\ LinksOK(tables'[e], late'[e])
                          /\ \A k \in Gids : tables'[e][k].ua <= clock'
  BY DEF RefsInv
<1> QED BY <1>1, <1>2, <1>3 DEF RefsInv

\* To begin an update_client.
LEMMA UpdateBegins ==
    ASSUME RefsInv, NEW d \in Desktops, NEW new \in NewFields, update' = [update EXCEPT ![d] = new],
           UNCHANGED <<clock, pushes, tables, cloud, cursors, session, listed, armed, late>>
    PROVE  RefsInv'
<1>1. /\ pulledTo' \in [Desktops -> Nat]
      /\ session' \in [Desktops -> [pc : {"idle", "pull", "push"}, since : Nat, stime : Nat]]
      /\ armed' \in [Desktops -> SUBSET OldFields] /\ update' \in [Desktops -> NewFields]
      /\ UNCHANGED <<clock, pushes, tables, cloud, late, listed, pushedTo>>
  BY DEF RefsInv, RefTypes, cursors
<1> QED BY <1>1, SessionKeeps

LEMMA SaveInfoKeeps ==
    ASSUME RefsInv, NEW d \in Desktops, NEW c \in ClientIds, SaveInfo(d, c)
    PROVE  RefsInv'
<1> DEFINE new == [client |-> c, name |-> tables[d][c].name, ref |-> tables[d][c].ref, undo |-> FALSE]
<1>1. new \in NewFields
  BY ClientNoted DEF NewFields
<1>2. update' = [update EXCEPT ![d] = new]
  BY DEF SaveInfo
<1> HIDE DEF new
<1> QED BY <1>1, <1>2, UpdateBegins DEF SaveInfo

LEMMA UndoClientKeeps ==
    ASSUME RefsInv, NEW d \in Desktops, NEW old \in armed[d], UndoClient(d, old)
    PROVE  RefsInv'
<1> DEFINE name == IF old.name = <<>> THEN tables[d][old.client].name ELSE old.name
           new == [client |-> old.client, ref |-> old.ref, undo |-> TRUE, name |-> name]
<1>1. old.client \in ClientIds /\ old.name \in Texts /\ old.ref \in GroupIds \cup {NoRef}
  <2>1. old \in OldFields
    BY DEF RefsInv, RefTypes
  <2> QED BY <2>1 DEF OldFields
<1>2. update' = [update EXCEPT ![d] = new]
  BY DEF UndoClient
<1>3. name \in Texts
  BY <1>1, ClientNoted
<1> HIDE DEF name
<1>4. new \in NewFields
  BY <1>1, <1>3 DEF NewFields
<1> HIDE DEF new
<1> QED BY <1>2, <1>4, UpdateBegins DEF UndoClient

LEMMA WriteClientKeeps ==
    ASSUME RefsInv, NEW d \in Desktops, WriteClient(d)
    PROVE  RefsInv'
<1> DEFINE new == update[d]
           c == new.client
           row == [tables[d][c] EXCEPT !.name = new.name, !.ref = new.ref, !.ua = clock + 1]
           T == [tables[d] EXCEPT ![c] = row]
           done == new.undo /\ \A old \in armed[d] : IsLive(tables[d][old.client]) \/ old.client = c
           left == IF done THEN {old \in armed[d] : old.client # c} ELSE armed[d]
<1>1. c \in ClientIds /\ new.name \in Texts /\ new.ref \in GroupIds \cup {NoRef} /\ NoUpdate \in NewFields
  <2>1. new \in NewFields /\ new # NoUpdate
    BY DEF WriteClient, Ready, RefsInv, RefTypes
  <2> HIDE DEF new
  <2> QED BY <2>1 DEF NewFields
<1>2. /\ armed \in [Desktops -> SUBSET OldFields] /\ update \in [Desktops -> NewFields]
      /\ update' = [update EXCEPT ![d] = NoUpdate]
  BY DEF WriteClient, RefsInv, RefTypes
<1>3. update' \in [Desktops -> NewFields]
  BY <1>1, <1>2
<1>4. CASE Taken(tables[d], c, new.name)
  <2>1. UNCHANGED <<clock, pushes, tables, cloud, cursors, session, listed, armed, late>>
    BY <1>4 DEF WriteClient
  <2> HIDE DEF new
  <2> QED BY <1>1, <1>2, <2>1, UpdateBegins
<1>5. CASE ~ Taken(tables[d], c, new.name)
  <2>1. /\ UserWrites(d, [tables[d] EXCEPT ![c].name = new.name, ![c].ref = new.ref, ![c].ua = clock + 1])
        /\ SavedLate(d, {c}, new.ref) /\ armed' = [armed EXCEPT ![d] = left]
    BY <1>5 DEF WriteClient
  <2>2. left \in SUBSET OldFields
    BY <1>2
  <2> HIDE DEF left, new, done
  <2>3. armed' \in [Desktops -> SUBSET OldFields]
    BY <1>2, <2>1, <2>2
  <2>4. c \in Gids /\ tables[d] \in [Gids -> RefRow] /\ tables[d][c] \in RefRow /\ clock + 1 \in Nat
    BY <1>1, DesktopRows, IdsApart
  <2>5. new.ref \in Gids \cup {NoRef}
    BY <1>1, IdsApart
  <2>6. row \in RefRow /\ row.ref = new.ref /\ row.ua = clock + 1
    BY <1>1, <2>4, <2>5 DEF RefRow, Texts
  <2>7. [tables[d] EXCEPT ![c].name = new.name, ![c].ref = new.ref, ![c].ua = clock + 1] = T
    BY <2>4 DEF RefRow, Texts
  <2> HIDE DEF row
  <2>8. T \in [Gids -> RefRow] /\ T[c] = row /\ \A j \in Gids \ {c} : T[j] = tables[d][j]
    BY <2>4, <2>6
  <2> HIDE DEF T, c
  <2>9. UserWrites(d, T) /\ SavedLate(d, {c}, new.ref) /\ {c} \in SUBSET ClientIds
    BY <1>1, <2>1, <2>7
  <2>10. \A j \in {c} : T[j].ref = new.ref /\ T[j].ua = clock + 1
    BY <2>6, <2>8
  <2> QED BY <1>1, <1>3, <2>3, <2>8, <2>9, <2>10, ClientsSaved
<1> QED BY <1>4, <1>5

LEMMA DeleteClientKeeps ==
    ASSUME RefsInv, NEW d \in Desktops, NEW c \in ClientIds, DeleteClient(d, c)
    PROVE  RefsInv'
<1> DEFINE S == tables[d]
           T == [k \in Gids |-> IF k \in {c} \cup TasksOf(d, c) /\ IsLive(S[k])
                                THEN [S[k] EXCEPT !.gone = TRUE, !.ua = clock + 1]
                                ELSE S[k]]
<1>1. UserWrites(d, T) /\ late' = late /\ Arms(d, {})
  BY DEF DeleteClient
<1>2. /\ TableOK(S) /\ RowsOK(S) /\ LinksOK(S, late[d]) /\ clock + 1 \in Nat /\ clock + 1 # 0
      /\ \A k \in Gids : S[k] \in RefRow /\ S[k].ua <= clock + 1
  BY DesktopRows
<1>3. ASSUME NEW k \in Gids
      PROVE  /\ T[k] \in RefRow /\ T[k].ref = S[k].ref /\ T[k].name = S[k].name /\ T[k].ua <= clock + 1
             /\ T[k].gone => Exists(T[k])
             /\ IsLive(T[k]) => T[k] = S[k]
             /\ k \in GroupIds => T[k] = S[k]
             /\ Exists(T[k]) => Exists(S[k])
  <2>1. CASE k \in {c} \cup TasksOf(d, c) /\ IsLive(S[k])
    <3>1. T[k] = [S[k] EXCEPT !.gone = TRUE, !.ua = clock + 1]
      BY <2>1
    <3>2. k \notin GroupIds
      BY <2>1, IdsApart DEF TasksOf
    <3>3. S[k] \in RefRow
      BY <1>2
    <3> HIDE DEF S, T
    <3>4. /\ T[k] \in RefRow /\ T[k].ref = S[k].ref /\ T[k].name = S[k].name
          /\ T[k].ua = clock + 1 /\ T[k].gone = TRUE
      BY <1>2, <3>1, <3>3 DEF RefRow, Texts
    <3> QED BY <1>2, <2>1, <3>2, <3>4 DEF IsLive, Exists
  <2>2. CASE ~ (k \in {c} \cup TasksOf(d, c) /\ IsLive(S[k]))
    <3>1. T[k] = S[k]
      BY <2>2
    <3> QED BY <1>2, <3>1, RowIs
  <2> QED BY <2>1, <2>2
<1>4. T \in [Gids -> RefRow]
  <2>1. T = [k \in Gids |-> T[k]]
    OBVIOUS
  <2> HIDE DEF T
  <2> QED BY <1>3, <2>1
<1> HIDE DEF S, T
<1>5. TableOK(T)
  <2>1. RowsOK(T)
    BY <1>2, <1>3, <1>4 DEF RowsOK
  <2>2. \A g \in GroupIds : Exists(T[g]) => OwnName(T[g].name, g)
    BY <1>2, <1>3, IdsApart DEF TableOK
  <2> QED BY <2>1, <2>2 DEF TableOK
<1>6. LinksOK(T, late[d])
  <2>1. \A h \in GroupIds : T[h] = S[h]
    BY <1>3, IdsApart
  <2>2. LiveGroups(S) \subseteq LiveGroups(T)
    BY <2>1 DEF LiveGroups
  <2>3. \A j \in ClientIds : IsLive(T[j]) => IsLive(S[j]) /\ T[j].ref = S[j].ref
    BY <1>3, IdsApart
  <2> QED BY <1>2, <2>2, <2>3, LinksStay
<1>7. \A k \in Gids : T[k].ua <= clock + 1
  BY <1>3
<1> QED BY <1>1, <1>5, <1>6, <1>7, DesktopRows, ArmsIs, UserWriteKeeps

LEMMA LinkTaskKeeps ==
    ASSUME RefsInv, NEW d \in Desktops, NEW t \in TaskIds, NEW c \in ClientIds \cup {NoRef}, LinkTask(d, t, c)
    PROVE  RefsInv'
<1> DEFINE row == [tables[d][t] EXCEPT !.ref = c, !.ua = clock + 1]
           T == [tables[d] EXCEPT ![t] = row]
<1>1. /\ t \in Gids /\ t \notin GroupIds /\ t \notin ClientIds /\ tables[d][t] \in RefRow /\ IsLive(tables[d][t])
      /\ c \in Gids \cup {NoRef} /\ c \in RefsOf(t)
  <2>1. t \in Gids /\ t \notin GroupIds /\ t \notin ClientIds /\ c \in Gids \cup {NoRef}
    BY IdsApart
  <2>2. tables[d][t] \in RefRow /\ IsLive(tables[d][t])
    BY <2>1, DesktopRows DEF LinkTask
  <2> QED BY <2>1, <2>2 DEF RefsOf
<1>2. row \in RefRow /\ Exists(row) /\ ~ row.gone /\ row.ref = c /\ row.ua = clock + 1
  <2>1. clock + 1 \in Nat /\ clock + 1 # 0
    BY DesktopRows
  <2> QED BY <1>1, <2>1 DEF RefRow, Texts, Exists, IsLive
<1>3. UserWrites(d, T) /\ late' = late /\ UNCHANGED panel
  <2>1. [tables[d] EXCEPT ![t].ref = c, ![t].ua = clock + 1] = T
    BY <1>1, DesktopRows DEF RefRow, Texts
  <2> HIDE DEF T
  <2> QED BY <2>1 DEF LinkTask
<1> HIDE DEF row
<1>4. TableOK(T) /\ T[t] = row /\ \A j \in Gids \ {t} : T[j] = tables[d][j]
  <2>1. row.ref \in RefsOf(t) /\ (row.gone => Exists(row)) /\ (t \in GroupIds => OwnName(row.name, t))
    BY <1>1, <1>2
  <2>2. TableOK(tables[d]) /\ tables[d] \in [Gids -> RefRow]
    BY DesktopRows
  <2>3. TableOK(T)
    BY <1>1, <1>2, <2>1, <2>2, SetRow
  <2> QED BY <1>1, <1>2, <2>2, <2>3
<1> HIDE DEF T
<1>5. LinksOK(T, late[d])
  <2>1. \A h \in GroupIds : T[h] = tables[d][h]
    BY <1>1, <1>4, IdsApart
  <2>2. LiveGroups(tables[d]) \subseteq LiveGroups(T)
    BY <2>1 DEF LiveGroups
  <2>3. \A j \in ClientIds : T[j] = tables[d][j]
    BY <1>1, <1>4, IdsApart
  <2> QED BY <2>2, <2>3, DesktopRows, LinksStay
<1>6. \A k \in Gids : T[k].ua <= clock + 1
  BY <1>2, <1>4, DesktopRows
<1> QED BY <1>3, <1>4, <1>5, <1>6, DesktopRows, PanelStays, UserWriteKeeps

LEMMA RefsUserKeeps ==
    ASSUME RefsInv, NEW d \in Desktops, RefsUser(d)
    PROVE  RefsInv'
<1>1. ASSUME NEW g \in GroupIds, DeleteGroup(d, g) PROVE RefsInv'
  BY <1>1, DeleteGroupKeeps
<1>2. ASSUME NEW g \in GroupIds, NEW l \in Labels, AddGroup(d, g, l) PROVE RefsInv'
  BY <1>2, AddGroupKeeps
<1>3. ASSUME NEW g \in GroupIds, NEW l \in Labels, RenameGroup(d, g, l) PROVE RefsInv'
  BY <1>3, RenameGroupKeeps
<1>4. ASSUME NEW c \in ClientIds, NEW l \in Labels, NEW g \in Offers(d), AddClient(d, c, l, g) PROVE RefsInv'
  BY <1>4, AddClientKeeps
<1>5. ASSUME NEW c \in ClientIds, NEW l \in Labels, NEW g \in Offers(d), EditClient(d, c, l, g) PROVE RefsInv'
  BY <1>5, EditClientKeeps
<1>6. ASSUME NEW c \in ClientIds, DeleteClient(d, c) PROVE RefsInv'
  BY <1>6, DeleteClientKeeps
<1>7. ASSUME NEW t \in TaskIds, NEW c \in ClientIds \cup {NoRef}, LinkTask(d, t, c) PROVE RefsInv'
  BY <1>7, LinkTaskKeeps
<1>8. ASSUME NEW chosen \in SUBSET ClientIds, NEW g \in Offers(d), AssignGroup(d, chosen, g) PROVE RefsInv'
  BY <1>8, AssignGroupKeeps
<1>9. ASSUME NEW c \in ClientIds, SaveInfo(d, c) PROVE RefsInv'
  BY <1>9, SaveInfoKeeps
<1>10. ASSUME NEW old \in armed[d], UndoClient(d, old) PROVE RefsInv'
  BY <1>10, UndoClientKeeps
<1> QED BY <1>1, <1>2, <1>3, <1>4, <1>5, <1>6, <1>7, <1>8, <1>9, <1>10, WriteClientKeeps DEF RefsUser

----------------------------------------------------------------------------
(* The session.                                                            *)

\* The last time of a page.
LEMMA LastTimeIs ==
    ASSUME NEW T, RowsOK(T), NEW rows \in SUBSET Gids, rows # {}, clock \in Nat,
           \A k \in Gids : T[k].ua <= clock
    PROVE  LastTime(T, rows) \in Nat
<1> DEFINE times == {T[k].ua : k \in rows}
           ages == {clock - x : x \in times}
<1>1. \A x \in times : x \in Nat /\ clock - x \in Nat
  BY RowIs
<1>2. ages \subseteq Nat /\ ages # {}
  BY <1>1
<1> HIDE DEF ages
<1>3. PICK a \in ages : \A b \in ages : a <= b
  BY <1>2, LeastNumber
<1>4. PICK x \in times : a = clock - x
  BY <1>3 DEF ages
<1>5. \A y \in times : y <= x
  <2> SUFFICES ASSUME NEW y \in times PROVE y <= x
    OBVIOUS
  <2>1. clock - y \in ages
    BY DEF ages
  <2> QED BY <1>1, <1>3, <1>4, <2>1
<1>6. \A k \in rows : T[k].ua <= x
  BY <1>5
<1>7. LastTime(T, rows) \in times
  BY <1>4, <1>6 DEF LastTime
<1> QED BY <1>1, <1>7

LEMMA NoSessionIs == NoSession \in [pc : {"idle", "pull", "push"}, since : Nat, stime : Nat]
BY DEF NoSession

LEMMA PullPageKeeps ==
    ASSUME RefsInv, NEW d \in Desktops, NEW page \in PullPagesOf(d), PullPage(d, page)
    PROVE  RefsInv'
<1> DEFINE work == Applied(d, page)
           next == IF Cardinality(page) = PullLimit
                   THEN [pc |-> "pull", since |-> LastTime(cloud, page), stime |-> 0]
                   ELSE [pc |-> "push", since |-> 0, stime |-> clock]
<1>1. /\ RefTypes /\ RowsOK(cloud) /\ page \in SUBSET Gids /\ PullLimit \in Nat \ {0}
      /\ \A k \in Gids : cloud[k].ua <= clock
  BY PageIs, RefsAssumption DEF RefsInv, CloudOK
<1>2. next \in [pc : {"idle", "pull", "push"}, since : Nat, stime : Nat]
  <2>1. CASE Cardinality(page) = PullLimit
    <3>1. page # {}
      BY <1>1, <2>1, FS_EmptySet
    <3>2. LastTime(cloud, page) \in Nat
      BY <1>1, <3>1, LastTimeIs DEF RefTypes
    <3> QED BY <2>1, <3>2
  <2>2. CASE Cardinality(page) # PullLimit
    BY <1>1, <2>2 DEF RefTypes
  <2> QED BY <2>1, <2>2
<1>3. /\ work.table \in [Gids -> RefRow] /\ TableOK(work.table) /\ LinksOK(work.table, late[d])
      /\ \A k \in Gids : work.table[k].ua <= clock
  <2>1. PageInv(d, page, work)
    BY PageEnd
  <2> HIDE DEF work
  <2> QED BY <2>1 DEF PageInv
<1>4. /\ tables' = [tables EXCEPT ![d] = work.table]
      /\ listed' = [listed EXCEPT ![d] = listed[d] \cup LiveGroups(work.table)]
      /\ session' = [session EXCEPT ![d] = next]
      /\ UNCHANGED <<clock, pushes, cloud, pulledTo, pushedTo, late, armed, update>>
  BY DEF PullPage, cursors, panel
<1> HIDE DEF work, next
<1>5. RefTypes'
  <2>1. LiveGroups(work.table) \subseteq GroupIds
    BY DEF LiveGroups
  <2>2. tables' \in [Desktops -> [Gids -> RefRow]] /\ listed' \in [Desktops -> SUBSET GroupIds]
    BY <1>1, <1>3, <1>4, <2>1 DEF RefTypes
  <2>3. session' \in [Desktops -> [pc : {"idle", "pull", "push"}, since : Nat, stime : Nat]]
    BY <1>1, <1>2, <1>4 DEF RefTypes
  <2> QED BY <1>1, <1>4, <2>2, <2>3 DEF RefTypes
<1>6. CloudOK' /\ \A k \in Gids : cloud'[k].ua <= clock'
  BY <1>4 DEF RefsInv, CloudOK
<1>7. ASSUME NEW e \in Desktops
      PROVE  TableOK(tables'[e]) /\ LinksOK(tables'[e], late'[e]) /\ \A k \in Gids : tables'[e][k].ua <= clock'
  <2>1. CASE e = d
    <3>1. tables'[e] = work.table /\ late'[e] = late[d] /\ clock' = clock
      BY <1>1, <1>4, <2>1 DEF RefTypes
    <3> QED BY <1>3, <3>1
  <2>2. CASE e # d
    <3>1. tables'[e] = tables[e] /\ late'[e] = late[e] /\ clock' = clock
      BY <1>1, <1>4, <2>2 DEF RefTypes
    <3> QED BY <3>1 DEF RefsInv
  <2> QED BY <2>1, <2>2
<1> QED BY <1>5, <1>6, <1>7 DEF RefsInv

LEMMA PushAllKeeps ==
    ASSUME RefsInv, NEW d \in Desktops, PushAll(d)
    PROVE  RefsInv'
<1> DEFINE T == tables[d]
           rows == PendingRows(d)
<1>1. /\ rows # {} /\ pushes < MaxPushes /\ pushes' = pushes + 1 /\ clock' = clock + 1
      /\ cloud' = [k \in Gids |-> IF k \in rows THEN Payload(T, k) ELSE cloud[k]]
      /\ pushedTo' = [pushedTo EXCEPT ![d] = LastTime(T, rows)]
      /\ pulledTo' = [pulledTo EXCEPT ![d] = clock + 1]
      /\ session' = [session EXCEPT ![d] = NoSession]
      /\ UNCHANGED <<tables, listed, late, armed, update>>
  BY DEF PushAll, panel
<1>2. /\ RefTypes /\ CloudOK /\ RowsOK(cloud) /\ RowsOK(T) /\ TableOK(T) /\ clock \in Nat
      /\ \A k \in Gids : T[k].ua <= clock /\ T[k].ua \in Nat /\ cloud[k].ua <= clock /\ cloud[k].ua \in Nat
  <2>1. RefTypes /\ CloudOK /\ RowsOK(cloud) /\ \A k \in Gids : cloud[k].ua <= clock
    BY DEF RefsInv, CloudOK
  <2>2. \A k \in Gids : cloud[k].ua \in Nat
    BY <2>1, RowIs
  <2> QED BY <2>1, <2>2, DesktopRows
<1>3. rows \in SUBSET Gids
  BY DEF PendingRows
<1>4. MaxWrites \in Nat /\ MaxPushes \in Nat
  BY RefsAssumption
<1> HIDE DEF T, rows
<1>5. ASSUME NEW k \in Gids
      PROVE  /\ Payload(T, k) \in RefRow /\ Payload(T, k).ua = T[k].ua /\ Payload(T, k).ref \in RefsOf(k)
             /\ Payload(T, k).gone => Exists(Payload(T, k))
             /\ IsLive(Payload(T, k)) => Exists(T[k]) /\ Payload(T, k).name = T[k].name
  <2>1. /\ T[k] \in RefRow /\ T[k].ref \in RefsOf(k) /\ (T[k].gone => Exists(T[k])) /\ T[k].gone \in BOOLEAN
        /\ clock + 1 \in Nat /\ NoRef \in RefsOf(k)
    BY <1>2, RowIs DEF RefsOf
  <2>2. CASE T[k].gone
    <3>1. Payload(T, k) = [Unwritten EXCEPT !.gone = TRUE, !.ua = T[k].ua, !.hlc = clock + 1]
      BY <2>2 DEF Payload
    <3>2. <<>> \in Seq(Labels \cup ({"short", "long"} \X GroupIds) \cup {<<"star">>})
      OBVIOUS
    <3>3. /\ Payload(T, k) = [name |-> <<>>, ref |-> NoRef, gone |-> TRUE, ua |-> T[k].ua, hlc |-> clock + 1]
      BY <3>1 DEF Unwritten
    <3>4. Payload(T, k) \in RefRow
      BY <1>2, <2>1, <3>2, <3>3 DEF RefRow, Texts
    <3> QED BY <2>1, <2>2, <3>3, <3>4 DEF Exists, IsLive
  <2>3. CASE ~ T[k].gone
    <3> DEFINE ref == IF k \in ClientIds /\ T[k].ref \notin LiveGroups(T) THEN NoRef ELSE T[k].ref
    <3>1. Payload(T, k) = [T[k] EXCEPT !.hlc = clock + 1, !.ref = ref]
      BY <2>3 DEF Payload
    <3>2. ref \in RefsOf(k) /\ ref \in Gids \cup {NoRef}
      BY <2>1, IdsApart DEF RefsOf
    <3> HIDE DEF ref
    <3>3. /\ Payload(T, k) \in RefRow /\ Payload(T, k).ref = ref /\ Payload(T, k).ua = T[k].ua
          /\ Payload(T, k).gone = T[k].gone /\ Payload(T, k).name = T[k].name
      BY <2>1, <3>1, <3>2 DEF RefRow, Texts
    <3> QED BY <2>3, <3>2, <3>3 DEF Exists, IsLive
  <2> QED BY <2>1, <2>2, <2>3
<1>6. ASSUME NEW k \in Gids
      PROVE  /\ cloud'[k] \in RefRow /\ cloud'[k].ref \in RefsOf(k) /\ cloud'[k].ua <= clock'
             /\ cloud'[k].gone => Exists(cloud'[k])
             /\ k \in GroupIds /\ IsLive(cloud'[k]) => OwnName(cloud'[k].name, k)
  <2>1. CASE k \in rows
    <3>1. cloud'[k] = Payload(T, k)
      BY <1>1, <2>1
    <3>2. k \in GroupIds /\ Exists(T[k]) => OwnName(T[k].name, k)
      BY <1>2 DEF TableOK
    <3> QED BY <1>1, <1>2, <1>5, <3>1, <3>2
  <2>2. CASE k \notin rows
    <3>1. cloud'[k] = cloud[k]
      BY <1>1, <2>2
    <3>2. k \in GroupIds /\ IsLive(cloud[k]) => OwnName(cloud[k].name, k)
      BY <1>2 DEF CloudOK
    <3>3. cloud[k] \in RefRow /\ cloud[k].ref \in RefsOf(k) /\ (cloud[k].gone => Exists(cloud[k])) /\ cloud[k].ua <= clock + 1
      BY <1>2, RowIs
    <3> QED BY <1>1, <3>1, <3>2, <3>3
  <2> QED BY <2>1, <2>2
<1>7. cloud' \in [Gids -> RefRow]
  <2>1. cloud' = [k \in Gids |-> cloud'[k]]
    BY <1>1
  <2> QED BY <1>6, <2>1
<1>8. RowsOK(cloud') /\ CloudOK'
  <2>1. RowsOK(cloud')
    BY <1>6, <1>7 DEF RowsOK
  <2> QED BY <1>6, <2>1, IdsApart DEF CloudOK
<1>9. RefTypes'
  <2>1. LastTime(T, rows) \in Nat
    BY <1>1, <1>2, <1>3, LastTimeIs
  <2>2. clock' \in Nat /\ pushes' \in 0..MaxPushes /\ clock' - pushes' \in 0..MaxWrites
    BY <1>1, <1>2, <1>4 DEF RefTypes
  <2>3. pulledTo' \in [Desktops -> Nat] /\ pushedTo' \in [Desktops -> Nat]
    BY <1>1, <1>2, <2>1 DEF RefTypes
  <2>4. session' \in [Desktops -> [pc : {"idle", "pull", "push"}, since : Nat, stime : Nat]]
    BY <1>1, <1>2, NoSessionIs DEF RefTypes
  <2> QED BY <1>1, <1>2, <1>7, <2>2, <2>3, <2>4 DEF RefTypes
<1>10. ASSUME NEW e \in Desktops
       PROVE  TableOK(tables'[e]) /\ LinksOK(tables'[e], late'[e]) /\ \A k \in Gids : tables'[e][k].ua <= clock'
  <2>1. TableOK(tables[e]) /\ LinksOK(tables[e], late[e]) /\ \A k \in Gids : tables[e][k].ua <= clock + 1
    BY DesktopRows
  <2> QED BY <1>1, <2>1
<1> QED BY <1>6, <1>8, <1>9, <1>10 DEF RefsInv

LEMMA RefsSessionKeeps ==
    ASSUME RefsInv, NEW d \in Desktops, RefsSession(d)
    PROVE  RefsInv'
<1>0. /\ pulledTo \in [Desktops -> Nat]
      /\ session \in [Desktops -> [pc : {"idle", "pull", "push"}, since : Nat, stime : Nat]]
  BY DEF RefsInv, RefTypes
<1>1. ASSUME NEW page \in PullPagesOf(d), PullPage(d, page) PROVE RefsInv'
  BY <1>1, PullPageKeeps
<1>2. ASSUME NEW page \in PullPagesOf(d), PageFails(d, page) PROVE RefsInv'
  <2>1. session' \in [Desktops -> [pc : {"idle", "pull", "push"}, since : Nat, stime : Nat]]
    BY <1>0, <1>2, NoSessionIs DEF PageFails
  <2> QED BY <1>0, <1>2, <2>1, PanelStays, SessionKeeps DEF PageFails, cursors
<1>3. ASSUME NothingPending(d) PROVE RefsInv'
  <2>1. session' \in [Desktops -> [pc : {"idle", "pull", "push"}, since : Nat, stime : Nat]]
    BY <1>0, <1>3, NoSessionIs DEF NothingPending
  <2>2. pulledTo' \in [Desktops -> Nat]
    BY <1>0, <1>3 DEF NothingPending
  <2> QED BY <1>3, <2>1, <2>2, PanelStays, SessionKeeps DEF NothingPending
<1>4. ASSUME PushFails(d) PROVE RefsInv'
  <2>1. session' \in [Desktops -> [pc : {"idle", "pull", "push"}, since : Nat, stime : Nat]]
    BY <1>0, <1>4, NoSessionIs DEF PushFails
  <2> QED BY <1>0, <1>4, <2>1, PanelStays, SessionKeeps DEF PushFails, cursors
<1> QED BY <1>1, <1>2, <1>3, <1>4, PushAllKeeps DEF RefsSession

\* A backup is a good table.
LEMMA BackupIs ==
    ASSUME NEW g \in GroupIds, NEW c \in ClientIds, NEW label \in Labels
    PROVE  TableOK(Backup(g, c, label)) /\ LinksOK(Backup(g, c, label), {})
           /\ \A k \in Gids : Backup(g, c, label)[k].ua <= 1
<1> DEFINE T == Backup(g, c, label)
           t == TaskOf(c)
           group == [Unwritten EXCEPT !.name = <<label>>, !.ua = 1]
           client == [Unwritten EXCEPT !.name = <<label>>, !.ref = g, !.ua = 1]
           task == [Unwritten EXCEPT !.ref = c, !.ua = 1]
<1>1. /\ g \in Gids /\ c \in Gids /\ t \in TaskIds /\ t \in Gids
      /\ g \notin ClientIds /\ g \notin TaskIds /\ c \notin TaskIds /\ c \notin GroupIds
      /\ t \notin GroupIds /\ t \notin ClientIds
  <2>1. t \in TaskIds
    BY DEF TaskIds
  <2> HIDE DEF t
  <2> QED BY <2>1, IdsApart
<1>2. \A k \in Gids : T[k] = IF k = t THEN task ELSE IF k = c THEN client ELSE IF k = g THEN group ELSE Unwritten
  <2> HIDE DEF t, task, client, group
  <2> USE DEF t, task, client, group
  <2> QED BY <1>1 DEF Backup, NoRows
<1>3. T = [k \in Gids |-> T[k]]
  BY <1>1 DEF Backup, NoRows
<1> HIDE DEF T, t
<1>4. /\ Unwritten \in RefRow /\ group \in RefRow /\ client \in RefRow /\ task \in RefRow
      /\ \A row \in {Unwritten, group, client, task} : ~ row.gone /\ row.ua <= 1
      /\ Unwritten.ref = NoRef /\ group.ref = NoRef /\ client.ref = g /\ task.ref = c
      /\ ~ Exists(Unwritten) /\ Exists(group) /\ group.name = <<label>>
  <2>1. <<label>> \in Seq(Parts) /\ 1 \in Nat /\ g \in Gids \cup {NoRef} /\ c \in Gids \cup {NoRef}
    BY <1>1, TypedName
  <2>2. <<>> \in Seq(Parts)
    OBVIOUS
  <2>3. /\ Unwritten \in RefRow /\ Unwritten.ref = NoRef /\ ~ Exists(Unwritten) /\ ~ Unwritten.gone
        /\ Unwritten.ua = 0
    BY <2>2 DEF Unwritten, RefRow, Texts, Exists, Parts
  <2>4. /\ group \in RefRow /\ ~ group.gone /\ group.ua = 1 /\ group.ref = NoRef /\ group.name = <<label>>
    BY <2>1, <2>3 DEF RefRow, Texts, Parts
  <2>5. client \in RefRow /\ ~ client.gone /\ client.ua = 1 /\ client.ref = g
    BY <2>1, <2>3 DEF RefRow, Texts, Parts
  <2>6. task \in RefRow /\ ~ task.gone /\ task.ua = 1 /\ task.ref = c
    BY <2>1, <2>3 DEF RefRow, Texts
  <2> HIDE DEF group, client, task
  <2> QED BY <2>3, <2>4, <2>5, <2>6 DEF Exists
<1> HIDE DEF group, client, task
<1>5. ASSUME NEW k \in Gids
      PROVE  T[k] \in RefRow /\ T[k].ref \in RefsOf(k) /\ ~ T[k].gone /\ T[k].ua <= 1
  BY <1>1, <1>2, <1>4 DEF RefsOf
<1>6. RowsOK(T)
  <2>1. T \in [Gids -> RefRow]
    BY <1>3, <1>5
  <2> QED BY <1>5, <2>1 DEF RowsOK
<1>7. \A h \in GroupIds : h \in Gids /\ (Exists(T[h]) => OwnName(T[h].name, h))
  <2> SUFFICES ASSUME NEW h \in GroupIds PROVE h \in Gids /\ (Exists(T[h]) => OwnName(T[h].name, h))
    OBVIOUS
  <2>1. h \in Gids /\ h # t /\ h # c
    BY <1>1, IdsApart
  <2>2. T[h] = group \/ T[h] = Unwritten
    BY <1>2, <2>1
  <2> QED BY <1>4, <2>1, <2>2, TypedName
<1>8. LinksOK(T, {})
  <2>1. g \in LiveGroups(T)
    BY <1>1, <1>2, <1>4 DEF LiveGroups, IsLive
  <2>2. \A j \in ClientIds : T[j].ref \in {g, NoRef}
    <3> SUFFICES ASSUME NEW j \in ClientIds PROVE T[j].ref \in {g, NoRef}
      OBVIOUS
    <3>1. j \in Gids /\ j # t /\ j # g
      BY <1>1, IdsApart
    <3> QED BY <1>2, <1>4, <3>1
  <2> QED BY <2>1, <2>2 DEF LinksOK
<1>9. TableOK(T)
  BY <1>6, <1>7 DEF TableOK
<1> QED BY <1>5, <1>8, <1>9 DEF T

LEMMA RefsInitially == RefsInit => RefsInv
<1> SUFFICES ASSUME RefsInit PROVE RefsInv
  OBVIOUS
<1>1. Unwritten \in RefRow /\ Unwritten.ref = NoRef /\ ~ Exists(Unwritten) /\ ~ Unwritten.gone /\ Unwritten.ua = 0
  <2>1. <<>> \in Seq(Labels \cup ({"short", "long"} \X GroupIds) \cup {<<"star">>})
    OBVIOUS
  <2> QED BY <2>1 DEF Unwritten, RefRow, Texts, Exists
<1>2. NoRows \in [Gids -> RefRow] /\ \A k \in Gids : NoRows[k] = Unwritten
  BY <1>1 DEF NoRows
<1>3. RowsOK(NoRows)
  BY <1>1, <1>2 DEF RowsOK, RefsOf
<1>4. TableOK(NoRows) /\ LinksOK(NoRows, {}) /\ \A k \in Gids : NoRows[k].ua <= 0
  BY <1>1, <1>2, <1>3, IdsApart DEF TableOK, LinksOK, IsLive
<1>5. CloudOK /\ \A k \in Gids : cloud[k].ua = 0
  BY <1>1, <1>2, <1>3, IdsApart DEF CloudOK, IsLive, RefsInit
<1>6. PICK T : tables = [d \in Desktops |-> T] /\ clock \in Nat /\ clock \in 0..1
               /\ TableOK(T) /\ LinksOK(T, {}) /\ \A k \in Gids : T[k].ua <= clock
  <2>1. CASE clock = 0 /\ tables = [d \in Desktops |-> NoRows]
    BY <1>4, <2>1
  <2>2. CASE \E g \in GroupIds, c \in ClientIds, label \in Labels :
                clock = 1 /\ tables = [d \in Desktops |-> Backup(g, c, label)]
    BY <2>2, BackupIs
  <2> QED BY <2>1, <2>2 DEF RefsInit
<1>7. tables \in [Desktops -> [Gids -> RefRow]] /\ \A d \in Desktops : tables[d] = T /\ late[d] = {}
  BY <1>6 DEF TableOK, RowsOK, RefsInit
<1>8. RefTypes
  <2>1. pushes = 0 /\ clock \in Nat /\ pushes \in 0..MaxPushes /\ clock - pushes \in 0..MaxWrites
    BY <1>6, RefsAssumption DEF RefsInit
  <2>2. cloud \in [Gids -> RefRow] /\ pulledTo \in [Desktops -> Nat] /\ pushedTo \in [Desktops -> Nat]
    BY <1>2 DEF RefsInit
  <2>3. session \in [Desktops -> [pc : {"idle", "pull", "push"}, since : Nat, stime : Nat]]
    BY NoSessionIs DEF RefsInit
  <2>4. armed \in [Desktops -> SUBSET OldFields] /\ update \in [Desktops -> NewFields]
    BY DEF RefsInit, NewFields
  <2> QED BY <1>7, <2>1, <2>2, <2>3, <2>4 DEF RefTypes, RefsInit
<1> QED BY <1>2, <1>5, <1>6, <1>7, <1>8 DEF RefsInv, RefsInit

\* Rows refer to rows of the table before theirs, groups have names of their
\* own, no time lies ahead of the clock, and the links of live clients are good.
THEOREM RefsInvariant == RefsSpec => []RefsInv
<1>1. RefsInit => RefsInv
  BY RefsInitially
<1>2. RefsInv /\ [RefsNext]_refVars => RefsInv'
  <2> SUFFICES ASSUME RefsInv, [RefsNext]_refVars PROVE RefsInv'
    OBVIOUS
  <2>1. CASE UNCHANGED refVars
    <3>1. pulledTo' \in [Desktops -> Nat]
      BY <2>1 DEF refVars, cursors, RefsInv, RefTypes
    <3>2. session' \in [Desktops -> [pc : {"idle", "pull", "push"}, since : Nat, stime : Nat]]
      BY <2>1 DEF refVars, RefsInv, RefTypes
    <3>3. armed' \in [Desktops -> SUBSET OldFields] /\ update' \in [Desktops -> NewFields]
      BY <2>1, PanelStays DEF refVars, panel
    <3> QED BY <2>1, <3>1, <3>2, <3>3, SessionKeeps DEF refVars, cursors
  <2>2. CASE RefsNext
    BY <2>2, RefsUserKeeps, RefsSessionKeeps DEF RefsNext
  <2> QED BY <2>1, <2>2
<1> QED BY <1>1, <1>2, PTL DEF RefsSpec

\* The values of every variable stay in their sets, on any number of desktops.
THEOREM RefsTypeCorrect == RefsSpec => []RefsTypeOK
<1>1. RefsInv => RefsTypeOK
  <2> SUFFICES ASSUME RefsInv PROVE RefsTypeOK
    OBVIOUS
  <2>1. RefTypes
    BY DEF RefsInv
  <2> QED BY <2>1 DEF RefTypes, RefsTypeOK
<1> QED BY <1>1, RefsInvariant, PTL

\* A live client of a desktop is in a group that is deleted there only if its
\* group was last written from a value read before the deletion: by a dialog or
\* an update_client that a pull came between, or by an undo.
THEOREM LinksAreLive == RefsSpec => []DanglingNeedsStaleWrite
<1>1. RefsInv => DanglingNeedsStaleWrite
  BY DEF RefsInv, LinksOK, DanglingNeedsStaleWrite
<1> QED BY <1>1, RefsInvariant, PTL

\* A page fails on a group only if a group that is deleted has its label: the
\* second names that a pull gives never meet the name of a group in use.
THEOREM OnlyTombstonesJam == RefsSpec => []GroupJamNeedsTombstone
<1>1. RefsInv => GroupJamNeedsTombstone
  <2> SUFFICES ASSUME RefsInv, NEW d \in Desktops, NEW page \in PullPagesOf(d),
                      NEW k, k = Applied(d, page).failed, k \in GroupIds
               PROVE  \E h \in {g \in GroupIds \ {k} : Exists(tables[d][g])} :
                         /\ tables[d][h].gone \/ (h \in page /\ cloud[h].gone)
                         /\ \/ Head(tables[d][h].name) = Head(cloud[k].name)
                            \/ h \in page /\ ~ cloud[h].gone /\ Head(cloud[h].name) = Head(cloud[k].name)
    BY DEF GroupJamNeedsTombstone
  <2>1. Jammed(d, page, k)
    BY PageEnd DEF PageInv
  <2> QED BY <2>1 DEF Jammed
<1> QED BY <1>1, RefsInvariant, PTL

\* A page that is applied costs a row its link only if the row it refers to is
\* deleted, was passed over by the cursor, or is on a later page.
THEOREM LinksAreKept == RefsSpec => LinkLossNeedsCause
<1>1. ASSUME RefsInv, NEW d \in Desktops, NEW page \in PullPagesOf(d), PullPage(d, page),
             NEW k \in page, ~ cloud[k].gone, ~ Older(tables[d], k)
      PROVE  LinkKept(d, page, k, tables'[d][k].ref)
  <2> DEFINE work == Applied(d, page)
  <2>1. PageInv(d, page, work) /\ work.left = {}
    BY <1>1, PageEnd
  <2>2. work.failed = NoRef /\ tables' = [tables EXCEPT ![d] = work.table]
    BY <1>1 DEF PullPage
  <2> HIDE DEF work
  <2>3. tables'[d] = work.table
    BY <1>1, <2>2 DEF RefsInv, RefTypes
  <2>4. LinkKept(d, page, k, work.table[k].ref)
    BY <1>1, <2>1, <2>2 DEF PageInv
  <2> QED BY <2>3, <2>4
<1>2. RefsInv => [PullsKeepLinks]_refVars
  BY <1>1 DEF PullsKeepLinks
<1> QED BY <1>2, RefsInvariant, PTL DEF LinkLossNeedsCause

----------------------------------------------------------------------------
(* Two sessions of one desktop.                                            *)

\* The session has read the row; it has read the rows of all tables.
Pushing(c) == twin[c].pc \in {"rest", "clock", "save", "sent"}
Paging(c) == twin[c].pc \in {"clock", "save", "sent"}

\* What has gone out was stamped, and the Worker holds what has gone out.
SentStamped ==
    /\ sent \subseteq stamped /\ cloudRow \in sent \cup {Unsent}
    /\ \A s \in stamped : s.hlc # NoHlc

\* What a session has in its hands at each point.
InHand(c) ==
    /\ twin[c].mine # "no" => Pushing(c)
    /\ twin[c].mine = "stamped" => Request(c) \in stamped
    /\ twin[c].pc = "sent" => twin[c].mine # "yes"
    /\ twin[c].pc = "sent" /\ twin[c].mine = "stamped" => Request(c) \in sent
    /\ twin[c].pc = "save" => HlcLess(twin[c].read, twin[c].next)

\* The stored clock is at or past every clock the row was given, and the clocks
\* are in the order of the edits: no clock was given to two states.
ClockAbove == \A s \in stamped : HlcLeq(s.hlc, lastHlc)
StampsFollowEdits == \A s, t \in stamped : HlcLeq(s.hlc, t.hlc) => s.at <= t.at

\* What a session has passed over is on the Worker.
PassedBy(c) ==
    /\ Pushing(c) \/ twin[c].pc = "collect" => twin[c].since <= cloudRow.at
    /\ Pushing(c) /\ twin[c].mine = "no" => twin[c].took <= twin[c].since
    /\ Paging(c) => twin[c].upTo = twin[c].took

EditsInOrder ==
    /\ ClockAbove /\ StampsFollowEdits /\ pushCursor <= cloudRow.at
    /\ \A c \in Callers : PassedBy(c)

DeviceInv ==
    /\ DeviceTypeOK /\ SentStamped /\ \A c \in Callers : InHand(c)
    /\ ~ overtaken => EditsInOrder

LEMMA NoTwinTyped == NoTwin \in Twin /\ Unsent \in RowState /\ NoHlc \in Hlc
BY DeviceAssumption DEF NoTwin, Twin, Unsent, RowState, NoHlc, Hlc

LEMMA DeviceStarts == DeviceInit => DeviceInv
<1> SUFFICES ASSUME DeviceInit PROVE DeviceInv
  OBVIOUS
<1>1. DeviceTypeOK
  <2>1. 0 \in 0 .. MaxEdits /\ 0 \in 0 .. MaxBegun
    BY DeviceAssumption
  <2>2. twin \in [Callers -> Twin]
    BY NoTwinTyped DEF DeviceInit
  <2> QED BY <2>1, <2>2, NoTwinTyped DEF DeviceInit, DeviceTypeOK
<1>2. \A c \in Callers : twin[c] = NoTwin
  BY DEF DeviceInit
<1>3. \A c \in Callers : InHand(c) /\ PassedBy(c)
  BY <1>2 DEF InHand, PassedBy, Pushing, Paging, NoTwin
<1>4. EditsInOrder
  BY <1>3 DEF DeviceInit, EditsInOrder, ClockAbove, StampsFollowEdits, Unsent
<1> QED BY <1>1, <1>3, <1>4 DEF DeviceInv, DeviceInit, SentStamped

\* Only the session of c moves.
TwinMoves(c) ==
    twin' \in [Callers -> Twin] /\ \A d \in Callers \ {c} : twin'[d] = twin[d]

LEMMA GotoMoves ==
    ASSUME DeviceTypeOK, NEW c \in Callers,
           NEW pc \in {"idle", "pull", "note", "push", "collect", "rest", "clock", "save", "sent"}, Goto(c, pc)
    PROVE  /\ TwinMoves(c)
           /\ twin'[c] = [twin[c] EXCEPT !.pc = pc, !.read = NoHlc, !.next = NoHlc]
<1>1. twin \in [Callers -> Twin] /\ twin[c] \in Twin
  BY DEF DeviceTypeOK
<1>2. [twin[c] EXCEPT !.pc = pc, !.read = NoHlc, !.next = NoHlc] \in Twin
  BY <1>1, NoTwinTyped DEF Twin
<1>3. twin' = [twin EXCEPT ![c] = [twin[c] EXCEPT !.pc = pc, !.read = NoHlc, !.next = NoHlc]]
  BY DEF Goto
<1> QED BY <1>1, <1>2, <1>3 DEF TwinMoves

LEMMA EndMoves ==
    ASSUME DeviceTypeOK, NEW c \in Callers, EndTwin(c)
    PROVE  TwinMoves(c) /\ twin'[c] = NoTwin
BY NoTwinTyped DEF DeviceTypeOK, EndTwin, TwinMoves

\* A step of one session that stamps, sends and stores nothing of the row.
LEMMA QuietTwin ==
    ASSUME DeviceInv, NEW c \in Callers, TwinMoves(c), DeviceTypeOK',
           UNCHANGED <<stamped, sent, cloudRow>>,
           InHand(c)',
           ~ overtaken' => /\ ~ overtaken /\ HlcLeq(lastHlc, lastHlc')
                           /\ pushCursor' <= cloudRow.at
                           /\ PassedBy(c)'
    PROVE  DeviceInv'
<1>1. \A d \in Callers : InHand(d)'
  <2> SUFFICES ASSUME NEW d \in Callers PROVE InHand(d)'
    OBVIOUS
  <2>1. CASE d = c
    BY <2>1
  <2>2. CASE d # c
    BY <2>2 DEF DeviceInv, InHand, TwinMoves, Request, Pushing
  <2> QED BY <2>1, <2>2
<1>2. ASSUME ~ overtaken' PROVE EditsInOrder'
  <2>1. ~ overtaken /\ HlcLeq(lastHlc, lastHlc') /\ pushCursor' <= cloudRow.at /\ PassedBy(c)'
    BY <1>2
  <2>2. EditsInOrder
    BY <2>1 DEF DeviceInv
  <2>3. ClockAbove'
    <3> SUFFICES ASSUME NEW s \in stamped PROVE HlcLeq(s.hlc, lastHlc')
      BY DEF ClockAbove
    <3>1. s.hlc \in Hlc /\ lastHlc \in Hlc /\ lastHlc' \in Hlc
      BY DEF DeviceInv, DeviceTypeOK, RowState
    <3> QED BY <2>1, <2>2, <3>1, HlcLeqTransitive DEF EditsInOrder, ClockAbove
  <2>4. \A d \in Callers : PassedBy(d)'
    <3> SUFFICES ASSUME NEW d \in Callers PROVE PassedBy(d)'
      OBVIOUS
    <3>1. CASE d = c
      BY <2>1, <3>1
    <3>2. CASE d # c
      BY <2>2, <3>2 DEF EditsInOrder, PassedBy, TwinMoves, Pushing, Paging
    <3> QED BY <3>1, <3>2
  <2> QED BY <2>1, <2>2, <2>3, <2>4 DEF EditsInOrder, StampsFollowEdits
<1> QED BY <1>1, <1>2 DEF DeviceInv, SentStamped

----------------------------------------------------------------------------
\* A session that does no more than go on, or end, changes nothing of the row.
LEMMA GoesOn ==
    ASSUME DeviceInv, NEW c \in Callers, TwinMoves(c), DeviceTypeOK',
           UNCHANGED <<lastHlc, pushCursor, stamped, sent, cloudRow, overtaken>>,
           InHand(c)', ~ overtaken => PassedBy(c)'
    PROVE  DeviceInv'
<1>1. HlcLeq(lastHlc, lastHlc')
  BY DEF HlcLeq
<1>2. ~ overtaken => pushCursor <= cloudRow.at
  BY DEF DeviceInv, EditsInOrder
<1> QED BY <1>1, <1>2, QuietTwin

LEMMA EndOK ==
    ASSUME DeviceInv, NEW c \in Callers, EndTwin(c),
           UNCHANGED <<edited, lastHlc, pushCursor, stamped, sent, cloudRow, begun, overtaken>>
    PROVE  DeviceInv'
<1>1. TwinMoves(c) /\ twin'[c] = NoTwin
  BY EndMoves DEF DeviceInv
<1>2. DeviceTypeOK'
  BY <1>1 DEF DeviceInv, DeviceTypeOK, TwinMoves
<1>3. InHand(c)' /\ PassedBy(c)'
  BY <1>1 DEF InHand, PassedBy, Pushing, Paging, NoTwin
<1> QED BY <1>1, <1>2, <1>3, GoesOn

LEMMA EditOK == ASSUME DeviceInv, EditRow PROVE DeviceInv'
<1>1. UNCHANGED <<lastHlc, pushCursor, stamped, sent, cloudRow, twin, begun, overtaken>>
  BY DEF EditRow
<1>2. DeviceTypeOK'
  <2>1. edited' \in 0 .. MaxEdits
    BY DeviceAssumption DEF EditRow, DeviceInv, DeviceTypeOK
  <2> QED BY <1>1, <2>1 DEF DeviceInv, DeviceTypeOK
<1>3. SentStamped' /\ \A c \in Callers : InHand(c)'
  BY <1>1 DEF DeviceInv, SentStamped, InHand, Request, Pushing
<1>4. ~ overtaken => EditsInOrder'
  BY <1>1 DEF DeviceInv, EditsInOrder, ClockAbove, StampsFollowEdits, PassedBy, Pushing, Paging
<1> QED BY <1>1, <1>2, <1>3, <1>4 DEF DeviceInv

LEMMA BeginOK == ASSUME DeviceInv, NEW c \in Callers, BeginSync(c) PROVE DeviceInv'
<1>1. UNCHANGED <<edited, lastHlc, pushCursor, stamped, sent, cloudRow, overtaken>>
  BY DEF BeginSync
<1>2. PICK mode \in Modes(c) :
        twin' = [twin EXCEPT ![c] = [NoTwin EXCEPT !.mode = mode,
                                                   !.pc = IF mode = "push" THEN "push" ELSE "pull"]]
  BY DEF BeginSync
<1> DEFINE new == [NoTwin EXCEPT !.mode = mode, !.pc = IF mode = "push" THEN "push" ELSE "pull"]
<1>3. new \in Twin /\ new.pc \in {"push", "pull"} /\ new.mine = "no"
  BY NoTwinTyped DEF Modes, Twin, NoTwin
<1>4. TwinMoves(c) /\ twin'[c] = new
  BY <1>2, <1>3 DEF TwinMoves, DeviceInv, DeviceTypeOK
<1>5. DeviceTypeOK'
  <2>1. begun' \in 0 .. MaxBegun
    BY DeviceAssumption DEF BeginSync, DeviceInv, DeviceTypeOK
  <2> QED BY <1>1, <1>4, <2>1 DEF DeviceInv, DeviceTypeOK, TwinMoves
<1>6. InHand(c)' /\ PassedBy(c)'
  <2> HIDE DEF new
  <2> QED BY <1>3, <1>4 DEF InHand, PassedBy, Pushing, Paging
<1> QED BY <1>1, <1>4, <1>5, <1>6, GoesOn

LEMMA ReadsTyped == DeviceTypeOK => Reads \subseteq Hlc
BY NoTwinTyped DEF DeviceTypeOK, Reads

LEMMA HearOK == ASSUME DeviceInv, NEW c \in Callers, Hear(c) PROVE DeviceInv'
<1>1. UNCHANGED <<edited, lastHlc, pushCursor, stamped, sent, cloudRow, begun, overtaken>>
  BY DEF Hear
<1>2. PICK h \in Remote, r \in Reads :
        twin' = [twin EXCEPT ![c].pc = "note", ![c].read = r, ![c].next = h]
  BY DEF Hear
<1>3. twin \in [Callers -> Twin] /\ h \in Hlc /\ r \in Hlc /\ twin[c].pc = "pull"
  BY ReadsTyped, DeviceAssumption DEF DeviceInv, DeviceTypeOK, Hear
<1>4. TwinMoves(c) /\ twin'[c] = [twin[c] EXCEPT !.pc = "note", !.read = r, !.next = h]
  <2> DEFINE new == [twin[c] EXCEPT !.pc = "note", !.read = r, !.next = h]
  <2>1. new \in Twin
    BY <1>3 DEF Twin
  <2>2. twin' = [twin EXCEPT ![c] = new]
    BY <1>2, <1>3
  <2> HIDE DEF new
  <2>3. TwinMoves(c) /\ twin'[c] = new
    BY <1>3, <2>1, <2>2 DEF TwinMoves
  <2> QED BY <2>3 DEF new
<1>5. DeviceTypeOK'
  BY <1>1, <1>4 DEF DeviceInv, DeviceTypeOK, TwinMoves
<1>6. twin[c].mine = "no"
  BY <1>3 DEF DeviceInv, DeviceTypeOK, InHand, Pushing, Twin
<1>7. twin'[c].pc = "note" /\ twin'[c].mine = "no"
  BY <1>3, <1>4, <1>6 DEF Twin
<1>8. InHand(c)' /\ PassedBy(c)'
  BY <1>7 DEF InHand, PassedBy, Pushing, Paging
<1> QED BY <1>1, <1>4, <1>5, <1>8, GoesOn

\* What is stored after its read is above what was stored, if nobody has stored
\* anything in between.
LEMMA StoreRaises ==
    ASSUME NEW c \in Callers, Store(c), HlcLess(twin[c].read, twin[c].next), ~ overtaken'
    PROVE  ~ overtaken /\ lastHlc' = twin[c].next /\ HlcLess(lastHlc, lastHlc')
BY DEF Store

LEMMA NoteOK == ASSUME DeviceInv, NEW c \in Callers, NoteHeard(c) PROVE DeviceInv'
<1>1. UNCHANGED <<edited, pushCursor, stamped, sent, cloudRow, begun>> /\ twin[c].pc = "note"
  BY DEF NoteHeard
<1>2. twin[c] \in Twin /\ twin[c].mine = "no" /\ lastHlc \in Hlc
  BY <1>1 DEF DeviceInv, DeviceTypeOK, InHand, Pushing, Twin
<1>3. TwinMoves(c) /\ twin'[c] = [twin[c] EXCEPT !.pc = "pull", !.read = NoHlc, !.next = NoHlc]
  BY GotoMoves DEF NoteHeard, DeviceInv
<1>4. twin'[c].pc = "pull" /\ twin'[c].mine = "no"
  BY <1>2, <1>3 DEF Twin
<1>5. InHand(c)' /\ PassedBy(c)'
  BY <1>4 DEF InHand, PassedBy, Pushing, Paging
<1>6. lastHlc' \in Hlc /\ overtaken' \in BOOLEAN
  BY <1>2 DEF NoteHeard, Store, DeviceInv, DeviceTypeOK, Twin
<1>7. DeviceTypeOK'
  BY <1>1, <1>3, <1>6 DEF DeviceInv, DeviceTypeOK, TwinMoves
<1>8. ~ overtaken' => ~ overtaken /\ HlcLeq(lastHlc, lastHlc')
  BY StoreRaises DEF NoteHeard, HlcLeq
<1>9. ~ overtaken => pushCursor <= cloudRow.at
  BY DEF DeviceInv, EditsInOrder
<1> QED BY <1>1, <1>3, <1>5, <1>7, <1>8, <1>9, QuietTwin

LEMMA PullDoneOK == ASSUME DeviceInv, NEW c \in Callers, PullDone(c) PROVE DeviceInv'
<1>1. UNCHANGED <<edited, lastHlc, pushCursor, stamped, sent, cloudRow, begun, overtaken>>
  BY DEF PullDone
<1>2. CASE EndTwin(c)
  BY <1>1, <1>2, EndOK
<1>3. CASE Goto(c, "push")
  <2>1. twin[c] \in Twin /\ twin[c].mine = "no"
    BY DEF PullDone, DeviceInv, DeviceTypeOK, InHand, Pushing, Twin
  <2>2. TwinMoves(c) /\ twin'[c] = [twin[c] EXCEPT !.pc = "push", !.read = NoHlc, !.next = NoHlc]
    BY <1>3, GotoMoves DEF DeviceInv
  <2>3. twin'[c].pc = "push" /\ twin'[c].mine = "no"
    BY <2>1, <2>2 DEF Twin
  <2>4. InHand(c)' /\ PassedBy(c)'
    BY <2>3 DEF InHand, PassedBy, Pushing, Paging
  <2>5. DeviceTypeOK'
    BY <1>1, <2>2 DEF DeviceInv, DeviceTypeOK, TwinMoves
  <2> QED BY <1>1, <2>2, <2>4, <2>5, GoesOn
<1> QED BY <1>2, <1>3 DEF PullDone

LEMMA CursorOK == ASSUME DeviceInv, NEW c \in Callers, ReadCursor(c) PROVE DeviceInv'
<1> DEFINE new == [twin[c] EXCEPT !.pc = "collect", !.since = pushCursor]
<1>1. UNCHANGED <<edited, lastHlc, pushCursor, stamped, sent, cloudRow, begun, overtaken>>
  BY DEF ReadCursor
<1>2. twin \in [Callers -> Twin] /\ twin[c].pc = "push" /\ pushCursor \in 0 .. MaxEdits
  BY DEF ReadCursor, DeviceInv, DeviceTypeOK
<1>3. twin[c].mine = "no"
  BY <1>2 DEF DeviceInv, InHand, Pushing, Twin
<1>4. new \in Twin /\ new.pc = "collect" /\ new.since = pushCursor /\ new.mine = "no"
  BY <1>2, <1>3 DEF Twin
<1>5. twin' = [twin EXCEPT ![c] = new]
  BY <1>2 DEF ReadCursor
<1> HIDE DEF new
<1>6. TwinMoves(c) /\ twin'[c] = new
  BY <1>2, <1>4, <1>5 DEF TwinMoves
<1>7. DeviceTypeOK'
  BY <1>1, <1>6 DEF DeviceInv, DeviceTypeOK, TwinMoves
<1>8. InHand(c)'
  BY <1>4, <1>6 DEF InHand, Pushing
<1>9. ~ overtaken => PassedBy(c)'
  BY <1>1, <1>4, <1>6 DEF PassedBy, Pushing, Paging, DeviceInv, EditsInOrder
<1> QED BY <1>1, <1>6, <1>7, <1>8, <1>9, GoesOn

LEMMA CollectRowOK == ASSUME DeviceInv, NEW c \in Callers, CollectRow(c) PROVE DeviceInv'
<1> DEFINE mine == IF edited > twin[c].since THEN "yes" ELSE "no"
           new == [twin[c] EXCEPT !.pc = "rest", !.took = edited, !.mine = mine]
<1>1. UNCHANGED <<edited, lastHlc, pushCursor, stamped, sent, cloudRow, begun, overtaken>>
  BY DEF CollectRow
<1>2. twin \in [Callers -> Twin] /\ twin[c].pc = "collect" /\ edited \in 0 .. MaxEdits
  BY DEF CollectRow, DeviceInv, DeviceTypeOK
<1>3. mine \in {"yes", "no"} /\ (mine = "no" => edited <= twin[c].since)
  BY <1>2, DeviceAssumption DEF Twin
<1>4. twin' = [twin EXCEPT ![c].pc = "rest", ![c].took = edited, ![c].mine = mine]
  BY DEF CollectRow
<1> HIDE DEF mine
<1>5. new \in Twin
  BY <1>2, <1>3 DEF Twin
<1>6. new.pc = "rest" /\ new.took = edited /\ new.mine = mine /\ new.since = twin[c].since
  BY <1>2 DEF Twin
<1>7. twin' = [twin EXCEPT ![c] = new]
  BY <1>2, <1>4
<1> HIDE DEF new
<1>8. TwinMoves(c) /\ twin'[c] = new
  BY <1>2, <1>5, <1>7 DEF TwinMoves
<1>9. DeviceTypeOK'
  BY <1>1, <1>8 DEF DeviceInv, DeviceTypeOK, TwinMoves
<1>10. InHand(c)'
  BY <1>3, <1>6, <1>8 DEF InHand, Pushing
<1>11. ~ overtaken => PassedBy(c)'
  <2>1. ~ overtaken => twin[c].since <= cloudRow.at
    BY <1>2 DEF DeviceInv, EditsInOrder, PassedBy
  <2> QED BY <1>1, <1>3, <1>6, <1>8, <2>1 DEF PassedBy, Paging
<1> QED BY <1>1, <1>8, <1>9, <1>10, <1>11, GoesOn

LEMMA CollectRestOK == ASSUME DeviceInv, NEW c \in Callers, CollectRest(c) PROVE DeviceInv'
<1>1. UNCHANGED <<edited, lastHlc, pushCursor, stamped, sent, cloudRow, begun>>
  BY DEF CollectRest
<1>2. CASE EndTwin(c) /\ UNCHANGED overtaken
  BY <1>1, <1>2, EndOK
<1>3. ASSUME NEW n \in twin[c].took .. edited,
             twin' = [twin EXCEPT ![c].pc = "clock", ![c].upTo = n],
             overtaken' = (overtaken \/ n # twin[c].took)
      PROVE  DeviceInv'
  <2> DEFINE new == [twin[c] EXCEPT !.pc = "clock", !.upTo = n]
  <2>1. /\ twin \in [Callers -> Twin] /\ twin[c].pc = "rest"
        /\ edited \in 0 .. MaxEdits /\ twin[c].took \in 0 .. MaxEdits
    BY DEF CollectRest, DeviceInv, DeviceTypeOK, Twin
  <2>2. n \in 0 .. MaxEdits
    BY <2>1, DeviceAssumption
  <2>3. new \in Twin
    BY <2>1, <2>2 DEF Twin
  <2>4. /\ new.pc = "clock" /\ new.upTo = n /\ new.took = twin[c].took
        /\ new.mine = twin[c].mine /\ new.since = twin[c].since /\ new.hlc = twin[c].hlc
    BY <2>1 DEF Twin
  <2>5. twin' = [twin EXCEPT ![c] = new]
    BY <1>3, <2>1
  <2> HIDE DEF new
  <2>6. TwinMoves(c) /\ twin'[c] = new
    BY <2>1, <2>3, <2>5 DEF TwinMoves
  <2>7. overtaken' \in BOOLEAN /\ (~ overtaken' => ~ overtaken /\ n = twin[c].took)
    BY <1>3
  <2>8. DeviceTypeOK'
    BY <1>1, <2>6, <2>7 DEF DeviceInv, DeviceTypeOK, TwinMoves
  <2>9. InHand(c)'
    <3>1. InHand(c)
      BY DEF DeviceInv
    <3> QED BY <1>1, <2>1, <2>4, <2>6, <3>1 DEF InHand, Pushing, Request
  <2>10. ASSUME ~ overtaken' PROVE pushCursor <= cloudRow.at /\ PassedBy(c)'
    <3>1. EditsInOrder /\ n = twin[c].took
      BY <2>7, <2>10 DEF DeviceInv
    <3>2. PassedBy(c) /\ pushCursor <= cloudRow.at
      BY <3>1 DEF EditsInOrder
    <3> QED BY <1>1, <2>1, <2>4, <2>6, <3>1, <3>2 DEF PassedBy, Pushing, Paging
  <2>11. HlcLeq(lastHlc, lastHlc') /\ pushCursor' = pushCursor
    BY <1>1 DEF HlcLeq
  <2>12. ~ overtaken' => /\ ~ overtaken /\ HlcLeq(lastHlc, lastHlc')
                         /\ pushCursor' <= cloudRow.at /\ PassedBy(c)'
    BY <2>7, <2>10, <2>11
  <2> QED BY <1>1, <2>6, <2>8, <2>9, <2>12, QuietTwin
<1> QED BY <1>2, <1>3 DEF CollectRest

LEMMA ReadClockOK == ASSUME DeviceInv, NEW c \in Callers, ReadClock(c) PROVE DeviceInv'
<1>1. UNCHANGED <<edited, lastHlc, pushCursor, stamped, sent, cloudRow, begun, overtaken>>
  BY DEF ReadClock
<1>2. PICK w \in Walls, r \in Reads :
        twin' = [twin EXCEPT ![c].pc = "save", ![c].read = r, ![c].next = Stamp(r, w, Node, 1)]
  BY DEF ReadClock
<1> DEFINE h == Stamp(r, w, Node, 1)
           new == [twin[c] EXCEPT !.pc = "save", !.read = r, !.next = h]
<1>3. twin \in [Callers -> Twin] /\ twin[c] \in Twin /\ twin[c].pc = "clock"
  BY DEF ReadClock, DeviceInv, DeviceTypeOK
<1>4. r \in Hlc /\ h \in Hlc /\ HlcLess(r, h)
  <2>1. r \in Hlc /\ w \in Nat /\ Node \in Nat /\ 1 \in Nat \ {0}
    BY ReadsTyped, DeviceAssumption DEF DeviceInv
  <2> QED BY <2>1, StampAboveLast
<1>5. twin' = [twin EXCEPT ![c] = new]
  BY <1>2, <1>3
<1> HIDE DEF h
<1>6. new \in Twin
  BY <1>3, <1>4 DEF Twin
<1>7. /\ new.pc = "save" /\ new.read = r /\ new.next = h /\ new.mine = twin[c].mine
      /\ new.since = twin[c].since /\ new.took = twin[c].took /\ new.hlc = twin[c].hlc
      /\ new.upTo = twin[c].upTo
  BY <1>3 DEF Twin
<1> HIDE DEF new
<1>8. TwinMoves(c) /\ twin'[c] = new
  BY <1>3, <1>5, <1>6 DEF TwinMoves
<1>9. DeviceTypeOK'
  BY <1>1, <1>8 DEF DeviceInv, DeviceTypeOK, TwinMoves
<1>10. InHand(c)'
  <2>1. InHand(c)
    BY DEF DeviceInv
  <2> QED BY <1>1, <1>4, <1>7, <1>8, <2>1 DEF InHand, Pushing, Request
<1>11. ~ overtaken => PassedBy(c)'
  <2>1. ~ overtaken => PassedBy(c)
    BY DEF DeviceInv, EditsInOrder
  <2> QED BY <1>1, <1>3, <1>7, <1>8, <2>1 DEF PassedBy, Pushing, Paging
<1> QED BY <1>1, <1>8, <1>9, <1>10, <1>11, GoesOn

\* A session goes on after a stamp, or has sent its page.
LEMMA GoesToPush ==
    ASSUME DeviceInv, NEW c \in Callers, Pushing(c), NEW pc \in {"clock", "sent"}, Goto(c, pc)
    PROVE  /\ TwinMoves(c) /\ twin'[c].pc = pc
           /\ twin'[c].mine = twin[c].mine /\ twin'[c].hlc = twin[c].hlc
           /\ twin'[c].took = twin[c].took /\ twin'[c].since = twin[c].since
           /\ twin'[c].upTo = twin[c].upTo
<1>1. TwinMoves(c) /\ twin'[c] = [twin[c] EXCEPT !.pc = pc, !.read = NoHlc, !.next = NoHlc]
  BY GotoMoves DEF DeviceInv
<1>2. twin[c] \in Twin
  BY DEF DeviceInv, DeviceTypeOK
<1> QED BY <1>1, <1>2 DEF Twin

LEMMA SaveOtherOK == ASSUME DeviceInv, NEW c \in Callers, SaveOther(c) PROVE DeviceInv'
<1>1. UNCHANGED <<edited, pushCursor, stamped, sent, cloudRow, begun>> /\ twin[c].pc = "save"
  BY DEF SaveOther
<1>2. /\ TwinMoves(c) /\ twin'[c].pc = "clock"
      /\ twin'[c].mine = twin[c].mine /\ twin'[c].hlc = twin[c].hlc
      /\ twin'[c].took = twin[c].took /\ twin'[c].since = twin[c].since
      /\ twin'[c].upTo = twin[c].upTo
  BY <1>1, GoesToPush DEF SaveOther, Pushing
<1>3. InHand(c) /\ (~ overtaken => PassedBy(c) /\ pushCursor <= cloudRow.at)
  BY DEF DeviceInv, EditsInOrder
<1>4. InHand(c)' /\ (~ overtaken => PassedBy(c)')
  BY <1>1, <1>2, <1>3 DEF InHand, PassedBy, Pushing, Paging, Request
<1>5. twin[c].next \in Hlc /\ lastHlc \in Hlc /\ overtaken \in BOOLEAN
  BY DEF DeviceInv, DeviceTypeOK, Twin
<1>6. lastHlc' \in Hlc /\ overtaken' \in BOOLEAN
  BY <1>5 DEF SaveOther, Store
<1>7. DeviceTypeOK'
  BY <1>1, <1>2, <1>6 DEF DeviceInv, DeviceTypeOK, TwinMoves
<1>8. HlcLess(twin[c].read, twin[c].next)
  BY <1>1, <1>3 DEF InHand
<1>9. ~ overtaken' => ~ overtaken /\ HlcLeq(lastHlc, lastHlc')
  BY <1>8, StoreRaises DEF SaveOther, HlcLeq
<1> QED BY <1>1, <1>2, <1>3, <1>4, <1>7, <1>9, QuietTwin

LEMMA SendOK == ASSUME DeviceInv, NEW c \in Callers, SendPage(c) PROVE DeviceInv'
<1>1. UNCHANGED <<edited, lastHlc, pushCursor, stamped, cloudRow, begun, overtaken>>
      /\ twin[c].pc = "clock" /\ twin[c].mine # "yes"
  BY DEF SendPage
<1>2. /\ TwinMoves(c) /\ twin'[c].pc = "sent"
      /\ twin'[c].mine = twin[c].mine /\ twin'[c].hlc = twin[c].hlc
      /\ twin'[c].took = twin[c].took /\ twin'[c].since = twin[c].since
      /\ twin'[c].upTo = twin[c].upTo
  BY <1>1, GoesToPush DEF SendPage, Pushing
<1>3. /\ sent \subseteq sent' /\ sent' \subseteq sent \cup (stamped \cap {Request(c)})
      /\ twin[c].mine = "stamped" => Request(c) \in sent'
  BY <1>1 DEF SendPage, DeviceInv, InHand
<1>4. DeviceTypeOK'
  <2>1. sent' \subseteq RowState
    BY <1>3 DEF DeviceInv, DeviceTypeOK
  <2> QED BY <1>1, <1>2, <2>1 DEF DeviceInv, DeviceTypeOK, TwinMoves
<1>5. SentStamped'
  BY <1>1, <1>3 DEF DeviceInv, SentStamped
<1>6. Request(c)' = Request(c)
  BY <1>2 DEF Request
<1>7. \A d \in Callers : InHand(d)'
  <2> SUFFICES ASSUME NEW d \in Callers PROVE InHand(d)'
    OBVIOUS
  <2>1. InHand(d)
    BY DEF DeviceInv
  <2>2. CASE d = c
    BY <1>1, <1>2, <1>3, <1>6, <2>1, <2>2 DEF InHand, Pushing
  <2>3. CASE d # c
    <3>1. twin'[d] = twin[d]
      BY <1>2, <2>3 DEF TwinMoves
    <3> QED BY <1>1, <1>3, <2>1, <3>1 DEF InHand, Pushing, Request
  <2> QED BY <2>2, <2>3
<1>8. ~ overtaken => EditsInOrder'
  <2>1. ~ overtaken => \A d \in Callers : PassedBy(d)'
    <3> SUFFICES ASSUME ~ overtaken, NEW d \in Callers PROVE PassedBy(d)'
      OBVIOUS
    <3>1. PassedBy(d)
      BY DEF DeviceInv, EditsInOrder
    <3>2. CASE d = c
      BY <1>1, <1>2, <3>1, <3>2 DEF PassedBy, Pushing, Paging
    <3>3. CASE d # c
      <4>1. twin'[d] = twin[d]
        BY <1>2, <3>3 DEF TwinMoves
      <4> QED BY <1>1, <3>1, <4>1 DEF PassedBy, Pushing, Paging
    <3> QED BY <3>2, <3>3
  <2> QED BY <1>1, <2>1 DEF DeviceInv, EditsInOrder, ClockAbove, StampsFollowEdits
<1> QED BY <1>1, <1>4, <1>5, <1>7, <1>8 DEF DeviceInv

LEMMA SaveMineOK == ASSUME DeviceInv, NEW c \in Callers, SaveMine(c) PROVE DeviceInv'
<1> DEFINE n == twin[c].next
           state == [hlc |-> n, at |-> twin[c].took]
           new == [twin[c] EXCEPT !.pc = "clock", !.mine = "stamped", !.hlc = n,
                                  !.read = NoHlc, !.next = NoHlc]
<1>1. /\ UNCHANGED <<edited, pushCursor, sent, cloudRow, begun>>
      /\ twin[c].pc = "save" /\ twin[c].mine = "yes"
      /\ stamped' = stamped \cup {state} /\ lastHlc' \in {lastHlc, n}
  BY DEF SaveMine
<1>2. /\ twin \in [Callers -> Twin] /\ twin[c] \in Twin /\ lastHlc \in Hlc
      /\ n \in Hlc /\ twin[c].read \in Hlc /\ twin[c].took \in 0 .. MaxEdits
  BY DEF DeviceInv, DeviceTypeOK, Twin
<1>3. InHand(c) /\ HlcLess(twin[c].read, n) /\ DeviceTypeOK /\ SentStamped
  BY <1>1 DEF DeviceInv, InHand
<1>4. /\ new \in Twin /\ new.pc = "clock" /\ new.mine = "stamped" /\ new.hlc = n
      /\ new.took = twin[c].took /\ new.since = twin[c].since /\ new.upTo = twin[c].upTo
  BY <1>2, NoTwinTyped DEF Twin
<1>5. twin' = [twin EXCEPT ![c] = new]
  BY <1>2 DEF SaveMine
<1>6. state \in RowState /\ state.hlc = n /\ state.at = twin[c].took
  BY <1>2 DEF RowState
<1>7. n # NoHlc
  BY <1>2, <1>3 DEF HlcLess, Hlc, NoHlc
<1>8. ~ overtaken' => /\ ~ overtaken /\ lastHlc' = n /\ HlcLess(lastHlc, n)
                      /\ \A s \in stamped : ~ (s.at > twin[c].took)
  BY <1>3 DEF SaveMine
<1>9. overtaken' \in BOOLEAN
  BY DEF SaveMine
<1>10. Request(c)' = [hlc |-> twin'[c].hlc, at |-> twin'[c].took]
  BY DEF Request
<1> HIDE DEF new
<1>11. TwinMoves(c) /\ twin'[c] = new
  BY <1>2, <1>4, <1>5 DEF TwinMoves
<1>12. Request(c)' = state
  BY <1>4, <1>10, <1>11
<1> HIDE DEF n, state
<1>13. DeviceTypeOK'
  <2>1. lastHlc' \in Hlc /\ stamped' \subseteq RowState
    BY <1>1, <1>2, <1>3, <1>6 DEF DeviceTypeOK
  <2> QED BY <1>1, <1>3, <1>9, <1>11, <2>1 DEF DeviceTypeOK, TwinMoves
<1>14. SentStamped'
  BY <1>1, <1>3, <1>6, <1>7 DEF SentStamped
<1>15. \A d \in Callers : InHand(d)'
  <2> SUFFICES ASSUME NEW d \in Callers PROVE InHand(d)'
    OBVIOUS
  <2>1. CASE d = c
    BY <1>1, <1>4, <1>11, <1>12, <2>1 DEF InHand, Pushing
  <2>2. CASE d # c
    <3>1. twin'[d] = twin[d] /\ InHand(d)
      BY <1>11, <2>2 DEF TwinMoves, DeviceInv
    <3> QED BY <1>1, <3>1 DEF InHand, Pushing, Request
  <2> QED BY <2>1, <2>2
<1>16. ASSUME ~ overtaken' PROVE EditsInOrder'
  <2>1. EditsInOrder /\ lastHlc' = n /\ HlcLess(lastHlc, n)
    BY <1>8, <1>16 DEF DeviceInv
  <2>2. \A s \in stamped : s.hlc \in Hlc /\ s.at \in 0 .. MaxEdits /\ HlcLess(s.hlc, n)
    <3> SUFFICES ASSUME NEW s \in stamped
                 PROVE s.hlc \in Hlc /\ s.at \in 0 .. MaxEdits /\ HlcLess(s.hlc, n)
      OBVIOUS
    <3>1. s.hlc \in Hlc /\ s.at \in 0 .. MaxEdits
      BY <1>3 DEF DeviceTypeOK, RowState
    <3>2. HlcLeq(s.hlc, lastHlc)
      BY <2>1 DEF EditsInOrder, ClockAbove
    <3> QED BY <1>2, <2>1, <3>1, <3>2, HlcLeqLess
  <2>3. ClockAbove'
    BY <1>1, <1>6, <2>1, <2>2 DEF ClockAbove, HlcLeq
  <2>4. StampsFollowEdits'
    <3> SUFFICES ASSUME NEW s \in stamped', NEW t \in stamped', HlcLeq(s.hlc, t.hlc)
                 PROVE s.at <= t.at
      BY DEF StampsFollowEdits
    <3>1. CASE s \in stamped /\ t \in stamped
      BY <2>1, <3>1 DEF EditsInOrder, StampsFollowEdits
    <3>2. CASE s \in stamped /\ t = state
      <4>1. s.at \in 0 .. MaxEdits /\ ~ (s.at > twin[c].took)
        BY <1>8, <1>16, <2>2, <3>2
      <4> QED BY <1>2, <1>6, <3>2, <4>1, DeviceAssumption
    <3>3. CASE s = state /\ t \in stamped
      <4>1. HlcLess(t.hlc, n) /\ t.hlc \in Hlc /\ HlcLeq(n, t.hlc)
        BY <1>6, <2>2, <3>3
      <4> QED BY <1>2, <4>1, HlcLeqLess, HlcIrreflexive
    <3>4. CASE s = state /\ t = state
      BY <1>2, <1>6, <3>4, DeviceAssumption
    <3> QED BY <1>1, <3>1, <3>2, <3>3, <3>4
  <2>5. \A d \in Callers : PassedBy(d)'
    <3> SUFFICES ASSUME NEW d \in Callers PROVE PassedBy(d)'
      OBVIOUS
    <3>1. PassedBy(d)
      BY <2>1 DEF EditsInOrder
    <3>2. CASE d = c
      BY <1>1, <1>4, <1>11, <3>1, <3>2 DEF PassedBy, Pushing, Paging
    <3>3. CASE d # c
      <4>1. twin'[d] = twin[d]
        BY <1>11, <3>3 DEF TwinMoves
      <4> QED BY <1>1, <3>1, <4>1 DEF PassedBy, Pushing, Paging
    <3> QED BY <3>2, <3>3
  <2> QED BY <1>1, <2>1, <2>3, <2>4, <2>5 DEF EditsInOrder
<1> QED BY <1>13, <1>14, <1>15, <1>16 DEF DeviceInv

----------------------------------------------------------------------------
\* The Worker's row never goes back to an earlier edit.
LEMMA ArriveOK == ASSUME DeviceInv, NEW r \in sent, Arrive(r) PROVE DeviceInv'
<1>1. /\ UNCHANGED <<edited, lastHlc, pushCursor, stamped, sent, twin, begun, overtaken>>
      /\ cloudRow' = r /\ HlcLess(cloudRow.hlc, r.hlc)
  BY DEF Arrive
<1>2. /\ DeviceTypeOK /\ SentStamped /\ r \in stamped /\ r \in RowState
      /\ cloudRow \in stamped \cup {Unsent}
  BY DEF DeviceInv, DeviceTypeOK, SentStamped
<1>3. DeviceTypeOK' /\ SentStamped'
  BY <1>1, <1>2 DEF DeviceTypeOK, SentStamped
<1>4. \A c \in Callers : InHand(c)'
  BY <1>1 DEF DeviceInv, InHand, Pushing, Request
<1>5. ASSUME ~ overtaken PROVE EditsInOrder'
  <2>1. EditsInOrder
    BY <1>5 DEF DeviceInv
  <2>2. cloudRow.at <= r.at
    <3>1. CASE cloudRow \in stamped
      BY <1>1, <1>2, <2>1, <3>1 DEF EditsInOrder, StampsFollowEdits, HlcLeq
    <3>2. CASE cloudRow = Unsent
      BY <1>2, <3>2, DeviceAssumption DEF RowState, Unsent
    <3> QED BY <1>2, <3>1, <3>2
  <2>3. /\ cloudRow.at \in 0 .. MaxEdits /\ r.at \in 0 .. MaxEdits /\ pushCursor \in 0 .. MaxEdits
        /\ \A c \in Callers : twin[c].since \in 0 .. MaxEdits
    BY <1>2 DEF DeviceTypeOK, RowState, Twin
  <2>4. pushCursor' <= cloudRow'.at
    BY <1>1, <2>1, <2>2, <2>3, DeviceAssumption DEF EditsInOrder
  <2>5. \A c \in Callers : PassedBy(c)'
    <3> SUFFICES ASSUME NEW c \in Callers PROVE PassedBy(c)'
      OBVIOUS
    <3>1. PassedBy(c)
      BY <2>1 DEF EditsInOrder
    <3> QED BY <1>1, <2>2, <2>3, <3>1, DeviceAssumption DEF PassedBy, Pushing, Paging
  <2> QED BY <1>1, <2>1, <2>4, <2>5 DEF EditsInOrder, ClockAbove, StampsFollowEdits
<1> QED BY <1>1, <1>3, <1>4, <1>5 DEF DeviceInv

\* The cursor moves to the last row of the page; the row is on the Worker by now.
LEMMA AnsweredOK == ASSUME DeviceInv, NEW c \in Callers, Answered(c) PROVE DeviceInv'
<1>1. /\ UNCHANGED <<edited, lastHlc, stamped, sent, cloudRow, begun, overtaken>>
      /\ twin[c].pc = "sent" /\ pushCursor' = twin[c].upTo
      /\ twin[c].mine = "stamped" => HlcLeq(twin[c].hlc, cloudRow.hlc)
  BY DEF Answered
<1>2. /\ TwinMoves(c) /\ twin'[c] = NoTwin
  BY EndMoves DEF Answered, DeviceInv
<1>3. DeviceTypeOK /\ SentStamped /\ InHand(c) /\ twin[c] \in Twin /\ cloudRow \in RowState
  BY DEF DeviceInv, DeviceTypeOK
<1>4. DeviceTypeOK'
  <2>1. pushCursor' \in 0 .. MaxEdits
    BY <1>1, <1>3 DEF Twin
  <2> QED BY <1>1, <1>2, <1>3, <2>1 DEF DeviceTypeOK, TwinMoves
<1>5. InHand(c)' /\ PassedBy(c)'
  BY <1>2 DEF InHand, PassedBy, Pushing, Paging, NoTwin
<1>6. ASSUME ~ overtaken PROVE twin[c].upTo <= cloudRow.at
  <2> SUFFICES twin[c].took <= cloudRow.at
    BY <1>1, <1>6 DEF DeviceInv, EditsInOrder, PassedBy, Paging
  <2>1. EditsInOrder
    BY <1>6 DEF DeviceInv
  <2>2. CASE twin[c].mine = "stamped"
    <3>1. Request(c) \in stamped /\ Request(c).hlc # NoHlc
      BY <1>1, <1>3, <2>2 DEF InHand, SentStamped
    <3>2. Request(c).hlc = twin[c].hlc /\ Request(c).at = twin[c].took
      BY DEF Request
    <3>3. CASE cloudRow \in stamped
      BY <1>1, <2>1, <2>2, <3>1, <3>2, <3>3 DEF EditsInOrder, StampsFollowEdits
    <3>4. CASE cloudRow = Unsent
      <4>1. twin[c].hlc \in Hlc /\ HlcLeq(twin[c].hlc, NoHlc)
        BY <1>1, <1>3, <2>2, <3>4 DEF Twin, Unsent
      <4>2. twin[c].hlc = NoHlc
        BY <4>1 DEF HlcLeq, HlcLess, NoHlc, Hlc
      <4> QED BY <3>1, <3>2, <4>2
    <3> QED BY <1>3, <3>3, <3>4 DEF SentStamped
  <2>3. CASE twin[c].mine = "no"
    <3>1. PassedBy(c) /\ Pushing(c)
      BY <1>1, <2>1 DEF EditsInOrder, Pushing
    <3>2. twin[c].took <= twin[c].since /\ twin[c].since <= cloudRow.at
      BY <2>3, <3>1 DEF PassedBy
    <3>3. /\ twin[c].took \in 0 .. MaxEdits /\ twin[c].since \in 0 .. MaxEdits
          /\ cloudRow.at \in 0 .. MaxEdits
      BY <1>3 DEF Twin, RowState
    <3> QED BY <3>2, <3>3, DeviceAssumption
  <2> QED BY <1>1, <1>3, <2>2, <2>3 DEF InHand, Twin
<1>7. ~ overtaken' => /\ ~ overtaken /\ HlcLeq(lastHlc, lastHlc')
                      /\ pushCursor' <= cloudRow.at
  BY <1>1, <1>6 DEF HlcLeq
<1> QED BY <1>1, <1>2, <1>4, <1>5, <1>7, QuietTwin

LEMMA StopOK == ASSUME DeviceInv, NEW c \in Callers, StopTwin(c) PROVE DeviceInv'
BY EndOK DEF StopTwin

LEMMA DeviceSteps == DeviceInv /\ [DeviceNext]_deviceVars => DeviceInv'
<1> SUFFICES ASSUME DeviceInv, [DeviceNext]_deviceVars PROVE DeviceInv'
  OBVIOUS
<1>1. CASE UNCHANGED deviceVars
  BY <1>1 DEF deviceVars, DeviceInv, DeviceTypeOK, SentStamped, InHand, Pushing, Request,
              EditsInOrder, ClockAbove, StampsFollowEdits, PassedBy, Paging
<1>2. CASE EditRow
  BY <1>2, EditOK
<1>3. ASSUME NEW c \in Callers, TwinStep(c) PROVE DeviceInv'
  BY <1>3, BeginOK, HearOK, NoteOK, PullDoneOK, CursorOK, CollectRowOK, CollectRestOK, ReadClockOK, SaveOtherOK,
     SaveMineOK, SendOK, AnsweredOK, StopOK DEF TwinStep
<1>4. ASSUME NEW r \in sent, Arrive(r) PROVE DeviceInv'
  BY <1>4, ArriveOK
<1> QED BY <1>1, <1>2, <1>3, <1>4 DEF DeviceNext

\* Two sessions of one desktop at once: what one has in its hands was stamped,
\* what went out was stamped, and, as long as no case that the property excepts
\* has happened, the clocks of the row follow its edits and both cursors are
\* covered by the Worker's row.
THEOREM DeviceInvariant == DeviceSpec => []DeviceInv
BY DeviceStarts, DeviceSteps, PTL DEF DeviceSpec

\* The type invariant of the two sessions.
THEOREM DeviceTypes == DeviceSpec => []DeviceTypeOK
<1>1. DeviceInv => DeviceTypeOK
  BY DEF DeviceInv
<1> QED BY <1>1, DeviceInvariant, PTL

\* Every edit of the row that the push cursor has passed is on the Worker,
\* however the scheduler's session and Sync Now overlap, retry or stop, but for
\* the cases that the property excepts.
THEOREM DevicePassedIsStored == DeviceSpec => []PassedIsStored
<1>1. DeviceInv => PassedIsStored
  BY DEF DeviceInv, EditsInOrder, PassedIsStored
<1> QED BY <1>1, DeviceInvariant, PTL

----------------------------------------------------------------------------
(* Pushes.                                                                 *)
\* No handler is about to write row k over what another one has decided on it:
\* the other will write it as well, or has refused its change in favour of an
\* unclocked row of protocol 1.
UndisturbedRow(k) ==
    \A s, t \in Slots :
        /\ s # t /\ handler[s].st \in {"write", "done"} /\ handler[t].st = "write"
        /\ k \in handler[t].todo /\ k \in InBatch(handler[s].batch)
        => k \notin handler[s].todo /\ server[k].hlc # NoHlc

Undisturbed == \A k \in Rows : UndisturbedRow(k)

\* The change a handler has for a row is stored, or one with a higher clock is.
Reached(kept, item) == kept # NoRow /\ (kept.hlc # NoHlc => HlcLeq(item.hlc, kept.hlc))

\* What handlers have decided to write to row k is newer than what is stored.
StillNewer(k) ==
    \A s \in Slots : handler[s].st = "write" /\ k \in handler[s].todo =>
        server[k] = NoRow \/ ~ Stale(server[k], handler[s].batch[k])

\* Row k is covered where a running handler need not write it any more.
HandledCovered(k) ==
    \A s \in Slots :
        handler[s].st \in {"write", "done"} /\ k \in InBatch(handler[s].batch) \ handler[s].todo =>
            Reached(server[k], handler[s].batch[k])

\* What devices were told of row k.
RowAcked(k) == \A a \in acked : a[1] = k => LWW!Covered(server[k], a[2])

NothingLeft == \A s \in Slots : handler[s].st = "done" => handler[s].todo = {}

RowInv(k) == TypeOK /\ NothingLeft /\ StillNewer(k) /\ HandledCovered(k) /\ RowAcked(k)

USE ServerAssumption, OfferedAssumption

\* The abstract store compares clocks the same way.
LEMMA SameOrder ==
    /\ \A a, b : LWW!HlcLess(a, b) <=> HlcLess(a, b)
    /\ \A a, b : LWW!HlcLeq(a, b) <=> HlcLeq(a, b)
    /\ LWW!NoHlc = NoHlc
BY DEF LWW!HlcLess, LWW!HlcLeq, LWW!NoHlc, HlcLess, HlcLeq, NoHlc

LEMMA ChangeIsRow ==
    ASSUME NEW b \in Batch, NEW k \in InBatch(b)
    PROVE  /\ k \in Rows /\ b[k] \in SyncRow /\ b[k].hlc \in Hlc /\ b[k].hlc # NoHlc
           /\ b[k] \in Change
BY DEF Batch, InBatch, Change, SyncRow

\* A row that is not stale against the stored one has a higher clock.
LEMMA NotStaleImproves ==
    ASSUME NEW kept \in SyncRow \cup {NoRow}, NEW item \in SyncRow, item.hlc # NoHlc,
           kept = NoRow \/ ~ Stale(kept, item)
    PROVE  LWW!Improves(kept, item)
<1>1. item # NoRow
  OBVIOUS
<1>2. CASE kept = NoRow
  BY <1>1, <1>2 DEF LWW!Improves
<1>3. CASE kept # NoRow /\ kept.hlc # NoHlc
  BY <1>1, <1>3, SameOrder DEF LWW!Improves, Stale
<1>4. CASE kept # NoRow /\ kept.hlc = NoHlc
  BY <1>1, <1>4, NoHlcLowest, SameOrder DEF LWW!Improves, SyncRow, HlcLeq
<1> QED BY <1>2, <1>3, <1>4

\* A refused row lost to a row that covers it, or to an unclocked one.
LEMMA StaleReached ==
    ASSUME NEW kept \in SyncRow, NEW item \in SyncRow, Stale(kept, item)
    PROVE  Reached(kept, item)
BY HlcTotal DEF Stale, SyncRow, HlcLeq, Reached

\* A row that covers a change is only replaced by rows that cover it too.
LEMMA ImprovedReaches ==
    ASSUME NEW kept \in SyncRow, NEW new \in SyncRow, NEW item \in SyncRow,
           HlcLeq(item.hlc, kept.hlc), LWW!Improves(kept, new)
    PROVE  new # NoRow /\ HlcLeq(item.hlc, new.hlc)
<1>1. HlcLess(kept.hlc, new.hlc) /\ new # NoRow
  BY SameOrder DEF LWW!Improves
<1>2. item.hlc \in Hlc /\ kept.hlc \in Hlc /\ new.hlc \in Hlc
  BY DEF SyncRow
<1>3. HlcLess(item.hlc, new.hlc)
  BY <1>1, <1>2, HlcLeqLess
<1> QED BY <1>1, <1>3 DEF HlcLeq

LEMMA PushStarts == Init => TypeOK /\ NothingLeft
<1> SUFFICES ASSUME Init PROVE TypeOK /\ NothingLeft
  OBVIOUS
<1>1. server \in [Rows -> SyncRow \cup {NoRow}]
  BY DEF Init, ServerInit
<1>2. NoBatch \in Batch
  BY DEF NoBatch, Batch
<1> QED BY <1>1, <1>2 DEF Init, ServerInit, TypeOK, ServerTypeOK, HandlerRecord, FreeHandler,
                          Stages, NothingLeft

LEMMA RowStarts == ASSUME NEW k \in Rows PROVE Init => RowInv(k)
<1> SUFFICES ASSUME Init PROVE RowInv(k)
  OBVIOUS
<1>1. TypeOK /\ NothingLeft
  BY PushStarts
<1>2. \A s \in Slots : handler[s].st = "free"
  BY DEF Init, ServerInit, FreeHandler
<1>3. acked = {}
  BY DEF Init
<1> QED BY <1>1, <1>2, <1>3 DEF RowInv, StillNewer, HandledCovered, RowAcked

LEMMA InitRefines == Init => LWW!Init
<1> SUFFICES ASSUME Init PROVE LWW!Init
  OBVIOUS
<1>1. \A k \in Rows : server[k] \in LegacyRows \cup {NoRow}
  BY DEF Init, ServerInit
<1>2. \A r \in LegacyRows : r.hlc = NoHlc
  OBVIOUS
<1> QED BY <1>1, <1>2, SameOrder DEF LWW!Init, Init

\* Only the handler of s moves, and its record is one of a handler.
SlotMoves(s) ==
    /\ handler' \in [Slots -> HandlerRecord]
    /\ handler'[s].todo \subseteq InBatch(handler'[s].batch)
    /\ \A t \in Slots \ {s} : handler'[t] = handler[t]

----------------------------------------------------------------------------
\* What each step does, whether pushes overlap or not.
LEMMA PostMoves ==
    ASSUME TypeOK, NEW s \in Slots, Post(s)
    PROVE  SlotMoves(s) /\ handler'[s].st = "fetch" /\ server' = server /\ acked' = acked
<1>1. PICK b \in Offered : Receive(s, b)
  BY DEF Post
<1>2. b \in Batch
  OBVIOUS
<1>3. handler' = [handler EXCEPT ![s] = Received(b)] /\ handler \in [Slots -> HandlerRecord]
  BY <1>1 DEF Receive, TypeOK, ServerTypeOK
<1>4. Received(b) \in HandlerRecord /\ Received(b).st = "fetch" /\ Received(b).todo = {}
  BY <1>2 DEF Received, HandlerRecord, Stages
<1> QED BY <1>3, <1>4 DEF SlotMoves, Post

LEMMA FetchMoves ==
    ASSUME TypeOK, NEW s \in Slots, Fetch(s)
    PROVE  /\ SlotMoves(s) /\ server' = server
           /\ handler'[s].batch = handler[s].batch
           /\ handler'[s].todo = Winners(server, handler[s].batch)
           /\ handler'[s].st = IF handler'[s].todo = {} THEN "done" ELSE "write"
<1> DEFINE b == handler[s].batch
           won == Winners(server, b)
<1>1. handler \in [Slots -> HandlerRecord] /\ b \in Batch
  BY DEF TypeOK, ServerTypeOK, HandlerRecord
<1>2. won \subseteq InBatch(b) /\ InBatch(b) \subseteq Rows
  BY DEF Winners, InBatch
<1>3. /\ handler'[s].batch = b /\ handler'[s].todo = won
      /\ handler'[s].st = (IF won = {} THEN "done" ELSE "write")
      /\ \A t \in Slots \ {s} : handler'[t] = handler[t]
  BY <1>1 DEF Fetch, HandlerRecord
<1>4. handler' \in [Slots -> HandlerRecord]
  BY <1>1, <1>2 DEF Fetch, HandlerRecord, Stages
<1> QED BY <1>2, <1>3, <1>4 DEF SlotMoves, Fetch

\* The rows that a D1 batch writes.
Stores(s, S) ==
    /\ S \subseteq handler[s].todo
    /\ \A k \in S : server'[k] = handler[s].batch[k]
    /\ \A k \in Rows \ S : server'[k] = server[k]
    /\ handler'[s].batch = handler[s].batch /\ handler'[s].todo = handler[s].todo \ S
    /\ handler'[s].st = (IF handler[s].todo \subseteq S THEN "done" ELSE "write")

LEMMA WriteMoves ==
    ASSUME TypeOK, NEW s \in Slots, WriteBatch(s)
    PROVE  /\ SlotMoves(s) /\ handler[s].st = "write"
           /\ server' \in [Rows -> SyncRow \cup {NoRow}]
           /\ \E S : Stores(s, S)
<1> DEFINE b == handler[s].batch
           todo == handler[s].todo
<1>1. PICK S \in FirstOf(b, todo) :
        /\ server' = [k \in Rows |-> IF k \in S THEN b[k] ELSE server[k]]
        /\ handler' = [handler EXCEPT ![s].todo = @ \ S,
                           ![s].st = IF todo \subseteq S THEN "done" ELSE "write"]
  BY DEF WriteBatch
<1>2. handler \in [Slots -> HandlerRecord] /\ b \in Batch /\ todo \subseteq InBatch(b)
  BY DEF TypeOK, ServerTypeOK, HandlerRecord
<1>3. S \subseteq todo /\ InBatch(b) \subseteq Rows
  BY <1>1 DEF FirstOf, InBatch
<1>4. /\ handler'[s].batch = b /\ handler'[s].todo = todo \ S
      /\ handler'[s].st = (IF todo \subseteq S THEN "done" ELSE "write")
      /\ \A t \in Slots \ {s} : handler'[t] = handler[t]
  BY <1>1, <1>2 DEF HandlerRecord
<1>5. handler' \in [Slots -> HandlerRecord]
  BY <1>1, <1>2 DEF HandlerRecord, Stages
<1>6. \A k \in S : b[k] \in SyncRow
  BY <1>2, <1>3, ChangeIsRow
<1>7. server' \in [Rows -> SyncRow \cup {NoRow}]
  BY <1>1, <1>6 DEF TypeOK, ServerTypeOK
<1>8. SlotMoves(s)
  BY <1>2, <1>4, <1>5 DEF SlotMoves
<1>9. Stores(s, S)
  BY <1>1, <1>2, <1>3, <1>4 DEF Stores
<1> QED BY <1>7, <1>8, <1>9 DEF WriteBatch

LEMMA FailMoves ==
    ASSUME TypeOK, NEW s \in Slots, FailHandler(s)
    PROVE  SlotMoves(s) /\ handler'[s].st = "failed" /\ server' = server
<1>1. handler \in [Slots -> HandlerRecord] /\ handler[s].todo \subseteq InBatch(handler[s].batch)
  BY DEF TypeOK, ServerTypeOK
<1>2. /\ handler'[s].st = "failed" /\ handler'[s].batch = handler[s].batch
      /\ handler'[s].todo = handler[s].todo /\ handler' \in [Slots -> HandlerRecord]
      /\ \A t \in Slots \ {s} : handler'[t] = handler[t]
  BY <1>1 DEF FailHandler, HandlerRecord, Stages
<1> QED BY <1>1, <1>2 DEF SlotMoves, FailHandler

LEMMA ReleaseMoves ==
    ASSUME TypeOK, NEW s \in Slots, Release(s)
    PROVE  SlotMoves(s) /\ handler'[s].st = "free"
<1>1. NoBatch \in Batch
  BY DEF NoBatch, Batch
<1>2. FreeHandler \in HandlerRecord /\ FreeHandler.st = "free" /\ FreeHandler.todo = {}
  BY <1>1 DEF FreeHandler, HandlerRecord, Stages
<1>3. handler \in [Slots -> HandlerRecord]
  BY DEF TypeOK, ServerTypeOK
<1> QED BY <1>2, <1>3 DEF Release, SlotMoves

LEMMA AcksTyped ==
    ASSUME TypeOK, NEW s \in Slots
    PROVE  Acks(handler[s].batch) \subseteq Rows \X Change
<1>1. handler[s].batch \in Batch
  BY DEF TypeOK, ServerTypeOK, HandlerRecord
<1> QED BY <1>1, ChangeIsRow DEF Acks

LEMMA MovedTypes ==
    ASSUME TypeOK, NEW s \in Slots, SlotMoves(s), server' \in [Rows -> SyncRow \cup {NoRow}],
           acked' \subseteq Rows \X Change
    PROVE  TypeOK'
<1>1. \A t \in Slots : handler'[t].todo \subseteq InBatch(handler'[t].batch)
  <2> SUFFICES ASSUME NEW t \in Slots PROVE handler'[t].todo \subseteq InBatch(handler'[t].batch)
    OBVIOUS
  <2>1. CASE t = s
    BY <2>1 DEF SlotMoves
  <2>2. CASE t # s
    BY <2>2 DEF SlotMoves, TypeOK, ServerTypeOK
  <2> QED BY <2>1, <2>2
<1>2. handler' \in [Slots -> HandlerRecord]
  BY DEF SlotMoves
<1> QED BY <1>1, <1>2 DEF TypeOK, ServerTypeOK

\* A handler that is done has written all it had to.
LEMMA MovedNothingLeft ==
    ASSUME NothingLeft, NEW s \in Slots, SlotMoves(s), handler'[s].st = "done" => handler'[s].todo = {}
    PROVE  NothingLeft'
BY DEF NothingLeft, SlotMoves

LEMMA PushSteps == TypeOK /\ NothingLeft /\ [Next]_vars => (TypeOK /\ NothingLeft)'
<1> SUFFICES ASSUME TypeOK, NothingLeft, [Next]_vars PROVE TypeOK' /\ NothingLeft'
  OBVIOUS
<1>1. server \in [Rows -> SyncRow \cup {NoRow}] /\ acked \subseteq Rows \X Change
  BY DEF TypeOK, ServerTypeOK
<1>2. CASE UNCHANGED vars
  BY <1>2 DEF vars, TypeOK, ServerTypeOK, NothingLeft
<1>3. ASSUME NEW s \in Slots, Post(s) PROVE TypeOK' /\ NothingLeft'
  BY <1>1, <1>3, PostMoves, MovedTypes, MovedNothingLeft
<1>4. ASSUME NEW s \in Slots, Work(s) PROVE TypeOK' /\ NothingLeft'
  <2>1. CASE Fetch(s)
    BY <1>1, <1>4, <2>1, FetchMoves, MovedTypes, MovedNothingLeft DEF Work
  <2>2. CASE WriteBatch(s)
    <3>1. handler'[s].st = "done" => handler'[s].todo = {}
      BY <2>2, WriteMoves DEF Stores
    <3> QED BY <1>1, <1>4, <2>2, <3>1, WriteMoves, MovedTypes, MovedNothingLeft DEF Work
  <2>3. CASE FailHandler(s)
    BY <1>1, <1>4, <2>3, FailMoves, MovedTypes, MovedNothingLeft DEF Work
  <2> QED BY <1>4, <2>1, <2>2, <2>3 DEF Work, HandlerStep
<1>5. ASSUME NEW s \in Slots, Answer(s) PROVE TypeOK' /\ NothingLeft'
  BY <1>1, <1>5, ReleaseMoves, AcksTyped, MovedTypes, MovedNothingLeft DEF Answer
<1>6. ASSUME NEW s \in Slots, Refuse(s) PROVE TypeOK' /\ NothingLeft'
  BY <1>1, <1>6, ReleaseMoves, MovedTypes, MovedNothingLeft DEF Refuse
<1> QED BY <1>2, <1>3, <1>4, <1>5, <1>6 DEF Next

\* A handler only ever writes rows of the batch it was sent, whatever overlaps.
THEOREM PushTypes == Spec => []TypeOK
<1>1. TypeOK /\ NothingLeft => TypeOK
  OBVIOUS
<1> QED BY PushStarts, PushSteps, PTL DEF Spec

----------------------------------------------------------------------------
\* The steps, one lemma each: what is said of row k is kept, and what happens
\* to it is a step of the abstract store or leaves it alone.
RowStep(k) ==
    /\ StillNewer(k)' /\ HandledCovered(k)' /\ RowAcked(k)'
    /\ server'[k] = server[k] \/ LWW!Improves(server[k], server'[k])
    /\ acked \subseteq acked'
    /\ \A a \in acked' \ acked : a[1] = k => LWW!Covered(server'[k], a[2])

\* A step that writes nothing leaves to prove what the moved handler says.
LEMMA QuietStep ==
    ASSUME NEW k \in Rows, RowInv(k), NEW s \in Slots, SlotMoves(s), server' = server,
           handler'[s].st = "write" /\ k \in handler'[s].todo =>
               server[k] = NoRow \/ ~ Stale(server[k], handler'[s].batch[k]),
           handler'[s].st \in {"write", "done"} /\ k \in InBatch(handler'[s].batch) \ handler'[s].todo =>
               Reached(server[k], handler'[s].batch[k]),
           acked \subseteq acked',
           \A a \in acked' \ acked : a[1] = k => LWW!Covered(server[k], a[2])
    PROVE  RowStep(k)
<1>1. ASSUME NEW t \in Slots, t # s PROVE handler'[t] = handler[t]
  BY <1>1 DEF SlotMoves
<1>2. StillNewer(k)'
  <2> SUFFICES ASSUME NEW t \in Slots, handler'[t].st = "write", k \in handler'[t].todo
               PROVE  server[k] = NoRow \/ ~ Stale(server[k], handler'[t].batch[k])
    BY DEF StillNewer
  <2>1. CASE t = s
    BY <2>1
  <2>2. CASE t # s
    BY <2>2, <1>1 DEF RowInv, StillNewer
  <2> QED BY <2>1, <2>2
<1>3. HandledCovered(k)'
  <2> SUFFICES ASSUME NEW t \in Slots, handler'[t].st \in {"write", "done"},
                      k \in InBatch(handler'[t].batch) \ handler'[t].todo
               PROVE  Reached(server[k], handler'[t].batch[k])
    BY DEF HandledCovered
  <2>1. CASE t = s
    BY <2>1
  <2>2. CASE t # s
    BY <2>2, <1>1 DEF RowInv, HandledCovered
  <2> QED BY <2>1, <2>2
<1>4. RowAcked(k)'
  BY DEF RowInv, RowAcked
<1> QED BY <1>2, <1>3, <1>4 DEF RowStep

LEMMA PostOK == ASSUME NEW k \in Rows, RowInv(k), NEW s \in Slots, Post(s) PROVE RowStep(k)
BY PostMoves, QuietStep DEF RowInv

LEMMA FetchOK ==
    ASSUME NEW k \in Rows, RowInv(k), NEW s \in Slots, Fetch(s), UNCHANGED acked
    PROVE  RowStep(k)
<1> DEFINE b == handler[s].batch
           won == Winners(server, b)
<1>1. TypeOK /\ b \in Batch
  BY DEF RowInv, TypeOK, ServerTypeOK, HandlerRecord
<1>2. /\ SlotMoves(s) /\ server' = server /\ handler'[s].batch = b /\ handler'[s].todo = won
      /\ handler'[s].st = IF won = {} THEN "done" ELSE "write"
  BY <1>1, FetchMoves
<1>3. k \in won => server[k] = NoRow \/ ~ Stale(server[k], b[k])
  BY DEF Winners
<1>4. ASSUME k \in InBatch(b) \ won PROVE Reached(server[k], b[k])
  <2>1. server[k] # NoRow /\ Stale(server[k], b[k])
    BY <1>4 DEF Winners
  <2>2. server[k] \in SyncRow /\ b[k] \in SyncRow
    BY <1>1, <1>4, <2>1, ChangeIsRow DEF TypeOK, ServerTypeOK
  <2> QED BY <2>1, <2>2, StaleReached
<1> HIDE DEF b, won
<1> QED BY <1>2, <1>3, <1>4, QuietStep

\* Row k gets a higher clock if a D1 batch writes it: what the handler has
\* decided on is still newer than what is stored.
LEMMA WriteImproves ==
    ASSUME NEW k \in Rows, RowInv(k), NEW s \in Slots, handler[s].st = "write",
           NEW S, Stores(s, S), k \in S
    PROVE  /\ server'[k] = handler[s].batch[k] /\ server'[k] \in SyncRow
           /\ server'[k] # NoRow /\ server'[k].hlc # NoHlc
           /\ LWW!Improves(server[k], server'[k])
<1> DEFINE b == handler[s].batch
<1>1. b \in Batch /\ handler[s].todo \subseteq InBatch(b)
  BY DEF RowInv, TypeOK, ServerTypeOK, HandlerRecord
<1>2. k \in InBatch(b) /\ k \in handler[s].todo /\ server'[k] = b[k]
  BY <1>1 DEF Stores
<1>3. b[k] \in SyncRow /\ b[k].hlc # NoHlc
  BY <1>1, <1>2, ChangeIsRow
<1>4. server[k] = NoRow \/ ~ Stale(server[k], b[k])
  BY <1>2 DEF RowInv, StillNewer
<1>5. server[k] \in SyncRow \cup {NoRow}
  BY <1>3 DEF RowInv, TypeOK, ServerTypeOK
<1>6. LWW!Improves(server[k], b[k])
  BY <1>3, <1>4, <1>5, NotStaleImproves
<1> QED BY <1>2, <1>3, <1>6

LEMMA WriteBatchOK ==
    ASSUME NEW k \in Rows, RowInv(k), UndisturbedRow(k), NEW s \in Slots, WriteBatch(s),
           UNCHANGED acked
    PROVE  RowStep(k)
<1> DEFINE b == handler[s].batch
           todo == handler[s].todo
<1>1. TypeOK /\ b \in Batch /\ todo \subseteq InBatch(b)
  BY DEF RowInv, TypeOK, ServerTypeOK, HandlerRecord
<1>2. SlotMoves(s) /\ handler[s].st = "write"
  BY <1>1, WriteMoves
<1>3. PICK S : Stores(s, S)
  BY <1>1, WriteMoves
<1>4. ASSUME k \in S
      PROVE  /\ server'[k] = b[k] /\ server'[k] \in SyncRow
             /\ server'[k] # NoRow /\ server'[k].hlc # NoHlc
             /\ LWW!Improves(server[k], server'[k])
  BY <1>2, <1>3, <1>4, WriteImproves
<1>5. k \notin S => server'[k] = server[k]
  BY <1>3 DEF Stores
<1>6. /\ S \subseteq todo /\ handler'[s].batch = b /\ handler'[s].todo = todo \ S
      /\ handler'[s].st = (IF todo \subseteq S THEN "done" ELSE "write")
  BY <1>3 DEF Stores
<1>7. ASSUME NEW t \in Slots, t # s PROVE handler'[t] = handler[t]
  BY <1>2, <1>7 DEF SlotMoves
<1>8. ASSUME NEW t \in Slots, t # s, handler[t].st \in {"write", "done"},
             k \in S, k \in InBatch(handler[t].batch)
      PROVE  k \notin handler[t].todo /\ server[k].hlc # NoHlc
  BY <1>2, <1>6, <1>8 DEF UndisturbedRow
<1>9. ASSUME NEW t \in Slots
      PROVE  handler[t].batch \in Batch /\ handler[t].todo \subseteq InBatch(handler[t].batch)
  BY DEF RowInv, TypeOK, ServerTypeOK, HandlerRecord
<1> HIDE DEF b, todo
<1>10. StillNewer(k)'
  <2> SUFFICES ASSUME NEW t \in Slots, handler'[t].st = "write", k \in handler'[t].todo
               PROVE  server'[k] = NoRow \/ ~ Stale(server'[k], handler'[t].batch[k])
    BY DEF StillNewer
  <2>1. CASE t = s
    <3>1. k \in todo \ S /\ handler'[t].batch = b
      BY <1>6, <2>1
    <3>2. server[k] = NoRow \/ ~ Stale(server[k], b[k])
      BY <1>2, <3>1 DEF RowInv, StillNewer, b, todo
    <3> QED BY <1>5, <3>1, <3>2
  <2>2. CASE t # s
    <3>1. handler'[t] = handler[t] /\ k \in InBatch(handler[t].batch)
      BY <1>7, <1>9, <2>2
    <3>2. k \notin S
      BY <1>8, <2>2, <3>1
    <3>3. server[k] = NoRow \/ ~ Stale(server[k], handler[t].batch[k])
      BY <3>1 DEF RowInv, StillNewer
    <3> QED BY <1>5, <3>1, <3>2, <3>3
  <2> QED BY <2>1, <2>2
<1>11. HandledCovered(k)'
  <2> SUFFICES ASSUME NEW t \in Slots, handler'[t].st \in {"write", "done"},
                      k \in InBatch(handler'[t].batch) \ handler'[t].todo
               PROVE  Reached(server'[k], handler'[t].batch[k])
    BY DEF HandledCovered
  <2>1. CASE t = s /\ k \in S
    BY <1>4, <1>6, <2>1 DEF Reached, HlcLeq
  <2>2. CASE t = s /\ k \notin S
    <3>1. server'[k] = server[k] /\ k \in InBatch(b) \ todo /\ handler'[t].batch = b
      BY <1>5, <1>6, <2>2
    <3> QED BY <1>2, <3>1 DEF RowInv, HandledCovered, b, todo
  <2>3. CASE t # s
    <3>1. handler'[t] = handler[t]
      BY <1>7, <2>3
    <3>2. Reached(server[k], handler[t].batch[k])
      BY <3>1 DEF RowInv, HandledCovered
    <3>3. CASE k \notin S
      BY <1>5, <3>1, <3>2, <3>3
    <3>4. CASE k \in S
      <4>1. server[k].hlc # NoHlc
        BY <1>8, <2>3, <3>1, <3>4
      <4>2. server[k] \in SyncRow /\ HlcLeq(handler[t].batch[k].hlc, server[k].hlc)
        BY <3>2, <4>1 DEF Reached, RowInv, TypeOK, ServerTypeOK
      <4>3. handler[t].batch[k] \in SyncRow
        BY <1>9, <3>1, ChangeIsRow
      <4> QED BY <1>4, <3>1, <3>4, <4>2, <4>3, ImprovedReaches DEF Reached
    <3> QED BY <3>3, <3>4
  <2> QED BY <2>1, <2>2, <2>3
<1>12. RowAcked(k)'
  <2> SUFFICES ASSUME NEW a \in acked, a[1] = k PROVE LWW!Covered(server'[k], a[2])
    BY DEF RowAcked
  <2>1. a[2] \in SyncRow
    BY DEF RowInv, TypeOK, Change
  <2>2. LWW!Covered(server[k], a[2])
    BY DEF RowInv, RowAcked
  <2>3. CASE k \notin S
    BY <2>2, <2>3, <1>5
  <2>4. CASE k \in S
    <3>1. server[k] \in SyncRow /\ HlcLeq(a[2].hlc, server[k].hlc)
      BY <2>2, SameOrder DEF LWW!Covered, RowInv, TypeOK, ServerTypeOK
    <3> QED BY <1>4, <2>1, <2>4, <3>1, ImprovedReaches, SameOrder DEF LWW!Covered
  <2> QED BY <2>3, <2>4
<1> QED BY <1>4, <1>5, <1>10, <1>11, <1>12 DEF RowStep

LEMMA FailOK ==
    ASSUME NEW k \in Rows, RowInv(k), NEW s \in Slots, FailHandler(s), UNCHANGED acked
    PROVE  RowStep(k)
BY FailMoves, QuietStep DEF RowInv

LEMMA AnswerOK == ASSUME NEW k \in Rows, RowInv(k), NEW s \in Slots, Answer(s) PROVE RowStep(k)
<1> DEFINE b == handler[s].batch
<1>1. server' = server /\ acked' = acked \cup Acks(b) /\ handler[s].st = "done" /\ Release(s)
  BY DEF Answer
<1>2. TypeOK /\ handler[s].todo = {}
  BY <1>1 DEF RowInv, NothingLeft
<1>3. \A a \in Acks(b) : a[1] = k => LWW!Covered(server[k], a[2])
  BY <1>1, <1>2, SameOrder DEF Acks, RowInv, HandledCovered, Reached, LWW!Covered
<1>4. SlotMoves(s) /\ handler'[s].st = "free"
  BY <1>1, <1>2, ReleaseMoves
<1> QED BY <1>1, <1>3, <1>4, QuietStep

LEMMA RefuseOK == ASSUME NEW k \in Rows, RowInv(k), NEW s \in Slots, Refuse(s) PROVE RowStep(k)
BY ReleaseMoves, QuietStep DEF RowInv, Refuse

LEMMA RowSteps ==
    ASSUME NEW k \in Rows, RowInv(k), UndisturbedRow(k), [Next]_vars
    PROVE  RowInv(k)' /\ RowStep(k)
<1>1. TypeOK' /\ NothingLeft'
  BY PushSteps DEF RowInv
<1>2. CASE UNCHANGED vars
  <2>1. server' = server /\ handler' = handler /\ acked' = acked
    BY <1>2 DEF vars
  <2>2. RowStep(k)
    BY <2>1 DEF RowStep, RowInv, StillNewer, HandledCovered, RowAcked
  <2> QED BY <1>1, <2>2 DEF RowInv, RowStep
<1>3. CASE Next
  <2> SUFFICES ASSUME NEW s \in Slots, Post(s) \/ Work(s) \/ Answer(s) \/ Refuse(s)
               PROVE  RowStep(k)
    BY <1>1, <1>3 DEF Next, RowInv, RowStep
  <2>1. CASE Post(s)
    BY <2>1, PostOK
  <2>2. CASE Work(s)
    BY <2>2, FetchOK, WriteBatchOK, FailOK DEF Work, HandlerStep
  <2>3. CASE Answer(s)
    BY <2>3, AnswerOK
  <2>4. CASE Refuse(s)
    BY <2>4, RefuseOK
  <2> QED BY <2>1, <2>2, <2>3, <2>4
<1> QED BY <1>2, <1>3

\* Pushes may overlap.  As long as no handler is about to write row k while
\* another one has decided on it and not answered, what a device was told of that
\* row stays true, whatever becomes of the other rows.
THEOREM RowSafe ==
    ASSUME NEW k \in Rows
    PROVE  Spec /\ []UndisturbedRow(k) => [](StillNewer(k) /\ HandledCovered(k) /\ RowAcked(k))
<1>1. Init => RowInv(k)
  BY RowStarts
<1>2. RowInv(k) /\ UndisturbedRow(k) /\ [Next]_vars => RowInv(k)'
  BY RowSteps
<1>3. RowInv(k) => StillNewer(k) /\ HandledCovered(k) /\ RowAcked(k)
  BY DEF RowInv
<1> QED BY <1>1, <1>2, <1>3, PTL DEF Spec

----------------------------------------------------------------------------
\* All rows at once.
IInv == TypeOK /\ NothingLeft /\ \A k \in Rows : RowInv(k)

LEMMA InitIInv == Init => IInv
BY PushStarts, RowStarts DEF IInv

LEMMA AllSteps ==
    ASSUME IInv, Undisturbed, [Next]_vars
    PROVE  IInv' /\ [LWW!Next]_<<server, acked>>
<1>1. TypeOK' /\ NothingLeft'
  BY PushSteps DEF IInv
<1>2. ASSUME NEW k \in Rows PROVE RowInv(k)' /\ RowStep(k)
  BY RowSteps DEF IInv, Undisturbed
<1>3. IInv'
  BY <1>1, <1>2 DEF IInv
<1>4. CASE UNCHANGED vars
  BY <1>3, <1>4 DEF vars
<1>5. CASE Next
  <2>1. acked \subseteq acked'
    <3>1. PICK s \in Slots : Post(s) \/ Work(s) \/ Answer(s) \/ Refuse(s)
      BY <1>5 DEF Next
    <3> QED BY <3>1 DEF Post, Work, Answer, Refuse
  <2>2. \A k \in Rows : server'[k] = server[k] \/ LWW!Improves(server[k], server'[k])
    BY <1>2 DEF RowStep
  <2>3. ASSUME NEW a \in acked' \ acked PROVE LWW!Covered(server'[a[1]], a[2])
    <3>1. a[1] \in Rows
      BY <1>1 DEF TypeOK
    <3> QED BY <1>2, <3>1 DEF RowStep
  <2> QED BY <1>3, <2>1, <2>2, <2>3 DEF LWW!Next
<1> QED BY <1>4, <1>5

\* The invariant under which no handler's read is ever stale.
THEOREM UndisturbedInvariant == Spec /\ []Undisturbed => []IInv
<1>1. IInv /\ Undisturbed /\ [Next]_vars => IInv'
  BY AllSteps
<1> QED BY InitIInv, <1>1, PTL DEF Spec

\* Nothing a device was told is stored is ever behind that change.
THEOREM UndisturbedAckedCovered == Spec /\ []Undisturbed => []AckedCovered
<1>1. IInv => AckedCovered
  BY DEF IInv, RowInv, RowAcked, AckedCovered, LWW!AckedCovered, TypeOK
<1> QED BY UndisturbedInvariant, <1>1, PTL

\* partitionPushChanges decides on a read that is still true when it writes.
THEOREM UndisturbedWinnersStillNewer == Spec /\ []Undisturbed => []WinnersStillNewer
<1>1. IInv => WinnersStillNewer
  BY DEF IInv, RowInv, StillNewer, WinnersStillNewer, TypeOK, ServerTypeOK, InBatch
<1> QED BY UndisturbedInvariant, <1>1, PTL

\* A handler that answers "done" leaves every row of its batch at the change it
\* was sent or at a higher one.
THEOREM UndisturbedDoneCovered == Spec /\ []Undisturbed => []DoneCovered
<1>1. IInv => DoneCovered
  BY DEF IInv, RowInv, HandledCovered, NothingLeft, DoneCovered, Reached, InBatch
<1> QED BY UndisturbedInvariant, <1>1, PTL

\* The push endpoint implements the last-writer-wins store.
THEOREM UndisturbedRefinement == Spec /\ []Undisturbed => ImplementsLww
<1>1. IInv /\ Undisturbed /\ [Next]_vars => [LWW!Next]_<<server, acked>>
  BY AllSteps
<1> QED BY UndisturbedInvariant, InitRefines, <1>1, PTL DEF Spec, ImplementsLww, LWW!Spec

\* Handlers that run one at a time leave each other alone.
Serial == \A s, t \in Slots : s = t

LEMMA SerialUndisturbed == Serial => Undisturbed
BY DEF Serial, Undisturbed, UndisturbedRow

\* Pushes that do not overlap implement the last-writer-wins store, and nothing
\* a device was told is stored is ever behind that change.
THEOREM SerialRefinement == ASSUME Serial PROVE Spec => ImplementsLww /\ []AckedCovered
<1>1. Undisturbed
  BY SerialUndisturbed
<1> QED BY <1>1, UndisturbedRefinement, UndisturbedAckedCovered, PTL
====
