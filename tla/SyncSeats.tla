---- MODULE SyncSeats ----
(***************************************************************************)
(* The seats of an org: machines register for a token of the data sync, a  *)
(* new machine only while fewer than max_devices tokens of its org are     *)
(* active, and every use of a token extends it.  Handlers of the Worker    *)
(* run at the same time and are switched at each await.                    *)
(*                                                                         *)
(* Every license says the same max_devices.  Whether a code is eligible is *)
(* Licensing's; here any machine may ask, as it does when a session finds  *)
(* no credentials and after each save of a license.  Time is in days; on   *)
(* the last day of a token it may be over already or not.                  *)
(***************************************************************************)
EXTENDS Integers, FiniteSets

CONSTANTS Machines,
          Orgs,
          Requests,  \* handlers that run at once
          Cap,       \* max_devices, not 0
          Ttl,       \* SYNC_TOKEN_TTL_DAYS
          MaxDay,    \* bound: the clock stops there
          MaxTokens  \* bound: registrations asked for

ASSUME SeatsAssumption ==
    /\ IsFiniteSet(Machines) /\ Orgs # {}
    /\ Cap \in Nat \ {0} /\ Ttl \in Nat /\ {MaxDay, MaxTokens} \subseteq Nat

VARIABLES today,
          firm,      \* firm[m]: org_id of the machine's latest license
          seats,     \* sync_devices: token_hash, expires_at and org_id
          register,  \* the handlers of POST /api/sync/register
          auth,      \* machines whose token was accepted, before the refresh
          token,     \* sync_device.json of each desktop, 0 if none
          tokens,    \* issued so far
          loose,     \* history: seats that were not taken by counting alone
          alone,     \* history: requests that no other of their desktop overlapped
          crossed    \* history: desktops that lost an answer or the file, or asked
                     \* twice at once, since an answer that was alone
seatVars == <<today, firm, seats, register, auth, token, tokens, loose, alone, crossed>>

NoSeat == [token |-> 0, exp |-> 0, org |-> "none"]
NoRequest == [pc |-> "none", mid |-> "none", org |-> "none", token |-> 0, disturbed |-> FALSE]

SeatsInit ==
    /\ today = 0
    /\ firm \in [Machines -> Orgs]
    /\ seats = [m \in Machines |-> NoSeat]
    /\ register = [s \in Requests |-> NoRequest]
    /\ auth = {}
    /\ token = [m \in Machines |-> 0] /\ tokens = 0
    /\ loose = {} /\ alone = {} /\ crossed = {}

Registered(m) == seats[m] # NoSeat

\* expires_at > datetime('now') compares texts, of which one has a "T" where
\* the other has a blank: a seat is counted to the end of its last day.
Active(m) == Registered(m) /\ today <= seats[m].exp
ActiveIn(o) == {m \in Machines : Active(m) /\ seats[m].org = o}

MidnightPasses ==
    /\ today < MaxDay /\ today' = today + 1
    /\ UNCHANGED <<firm, seats, register, auth, token, tokens, loose, alone, crossed>>

\* The owner issues the machine a license of another org.
MoveMachine(m) ==
    /\ \E o \in Orgs \ {firm[m]} : firm' = [firm EXCEPT ![m] = o]
    /\ UNCHANGED <<today, seats, register, auth, token, tokens, loose, alone, crossed>>

----------------------------------------------------------------------------
(* POST /api/sync/register.                                                *)

Goes(s, pc) == register' = [register EXCEPT ![s].pc = pc]
RequestOver(s) == register' = [register EXCEPT ![s] = NoRequest] /\ alone' = alone \ {s}

\* Also those that the desktop no longer waits for.
Asking(m) == {s \in Requests : register[s].pc # "none" /\ register[s].mid = m}

Ask(s, m) ==
    /\ register[s].pc = "none"
    /\ tokens < MaxTokens /\ tokens' = tokens + 1
    /\ register' = [register EXCEPT ![s] =
            [NoRequest EXCEPT !.pc = "org", !.mid = m, !.token = tokens']]
    /\ alone' = IF Asking(m) = {} THEN alone \cup {s} ELSE alone \ Asking(m)
    /\ UNCHANGED <<today, firm, seats, auth, token, loose, crossed>>

\* Mutant of ReadOrg: the seat is given without an org.
ReadNoOrg(s) == register[s].pc = "org" /\ Goes(s, "known")
    /\ UNCHANGED <<today, firm, seats, auth, token, tokens, loose, alone, crossed>>

\* lookupLicenseOrgId
ReadOrg(s) ==
    /\ register[s].pc = "org"
    /\ register' = [register EXCEPT ![s].pc = "known", ![s].org = firm[register[s].mid]]
    /\ UNCHANGED <<today, firm, seats, auth, token, tokens, loose, alone, crossed>>

\* checkOrgDeviceLimit: a machine that has a row is always let through.
KnownMachine(s) ==
    /\ register[s].pc = "known"
    /\ Goes(s, IF Registered(register[s].mid) THEN "find" ELSE "count")
    /\ UNCHANGED <<today, firm, seats, auth, token, tokens, loose, alone, crossed>>

\* Mutant of CountSeats: the last seat is given twice.
CountSeatsInclusive(s) ==
    /\ register[s].pc = "count"
    /\ Cardinality(ActiveIn(register[s].org)) <= Cap
    /\ Goes(s, "find new")
    /\ UNCHANGED <<today, firm, seats, auth, token, tokens, loose, alone, crossed>>

CountSeats(s) ==
    /\ register[s].pc = "count"
    /\ Cardinality(ActiveIn(register[s].org)) < Cap
    /\ Goes(s, "find new")
    /\ UNCHANGED <<today, firm, seats, auth, token, tokens, loose, alone, crossed>>

\* Refused at any of the checks, or the handler fails.
RefuseSeat(s) ==
    /\ register[s].pc \in {"org", "known", "count", "find", "find new", "update", "insert"}
    /\ RequestOver(s)
    /\ UNCHANGED <<today, firm, seats, auth, token, tokens, loose, crossed>>

\* upsertSyncDevice looks for the row again.
FindSeat(s) ==
    /\ register[s].pc \in {"find", "find new"}
    /\ Goes(s, IF Registered(register[s].mid) THEN "update" ELSE "insert")
    /\ UNCHANGED <<today, firm, seats, auth, token, tokens, loose, alone, crossed>>

Granted(s) == [token |-> register[s].token, exp |-> today + Ttl, org |-> register[s].org]

\* The row gets the new token, in the org of the license. Nothing was
\* counted for a row that had expired or was another org's.
UpdateSeat(s) ==
    /\ register[s].pc = "update" /\ Goes(s, "answer")
    /\ LET m == register[s].mid
       IN /\ seats' = [seats EXCEPT ![m] = Granted(s)]
          /\ loose' = IF Active(m) /\ seats[m].org = register[s].org THEN loose ELSE loose \cup {m}
    /\ UNCHANGED <<today, firm, auth, token, tokens, alone, crossed>>

Counted(s) == register[s].pc \in {"find new", "insert"}

\* The insert; it fails if the row is there by now (the primary key). Other
\* handlers that have counted the org have counted without this seat.
InsertSeat(s) ==
    /\ register[s].pc = "insert" /\ ~ Registered(register[s].mid)
    /\ seats' = [seats EXCEPT ![register[s].mid] = Granted(s)]
    /\ loose' = IF register[s].disturbed THEN loose \cup {register[s].mid}
                ELSE loose \ {register[s].mid}
    /\ register' = [r \in Requests |->
            IF r = s THEN [register[s] EXCEPT !.pc = "answer"]
            ELSE IF Counted(r) /\ register[r].org = register[s].org
                 THEN [register[r] EXCEPT !.disturbed = TRUE]
                 ELSE register[r]]
    /\ UNCHANGED <<today, firm, auth, token, tokens, alone, crossed>>

\* An answer that was alone tells the desktop where it is; two that overlap
\* may come in either order.
AnswerComes(s) ==
    /\ register[s].pc = "answer" /\ RequestOver(s)
    /\ crossed' = IF s \in alone THEN crossed \ {register[s].mid} ELSE crossed \cup {register[s].mid}
    /\ UNCHANGED <<today, firm, seats, auth, tokens, loose>>

\* Mutant of StoreToken: a desktop that has a token keeps it.
StoreFirstToken(s) ==
    /\ AnswerComes(s)
    /\ token' = [token EXCEPT ![register[s].mid] = IF @ = 0 THEN register[s].token ELSE @]

\* The desktop stores the token that the answer brings.
StoreToken(s) == AnswerComes(s) /\ token' = [token EXCEPT ![register[s].mid] = register[s].token]

\* The desktop has given up waiting, or the answer does not arrive.
LoseAnswer(s) ==
    /\ register[s].pc = "answer" /\ RequestOver(s)
    /\ crossed' = crossed \cup {register[s].mid}
    /\ UNCHANGED <<today, firm, seats, auth, token, tokens, loose>>

\* sync_device.json is torn by a crash while it is written, cannot be read or
\* decrypted, or is removed: the desktop has no token until it asks again.
LoseFile(m) ==
    /\ token[m] # 0 /\ token' = [token EXCEPT ![m] = 0]
    /\ crossed' = crossed \cup {m}
    /\ UNCHANGED <<today, firm, seats, register, auth, tokens, loose, alone>>

----------------------------------------------------------------------------
(* syncAuthMiddleware: the token of a pull or push is checked, then the    *)
(* row is extended.                                                        *)

Authorize(m) ==
    /\ token[m] # 0 /\ token[m] = seats[m].token /\ today <= seats[m].exp
    /\ auth' = auth \cup {m}
    /\ UNCHANGED <<today, firm, seats, register, token, tokens, loose, alone, crossed>>

Refresh(m) ==
    /\ m \in auth /\ auth' = auth \ {m}
    /\ seats' = [seats EXCEPT ![m].exp = today + Ttl]
    /\ loose' = IF Active(m) THEN loose ELSE loose \cup {m}
    /\ UNCHANGED <<today, firm, register, token, tokens, alone, crossed>>

Register(s) ==
    \/ \E m \in Machines : Ask(s, m)
    \/ ReadOrg(s) \/ KnownMachine(s) \/ CountSeats(s) \/ RefuseSeat(s)
    \/ FindSeat(s) \/ UpdateSeat(s) \/ InsertSeat(s)
    \/ StoreToken(s) \/ LoseAnswer(s)

SeatsNext ==
    \/ MidnightPasses
    \/ \E m \in Machines : MoveMachine(m) \/ LoseFile(m) \/ Authorize(m) \/ Refresh(m)
    \/ \E s \in Requests : Register(s)

SeatsSpec == SeatsInit /\ [][SeatsNext]_seatVars

----------------------------------------------------------------------------
SeatsTypeOK ==
    /\ today \in Nat /\ tokens \in Nat
    /\ firm \in [Machines -> Orgs]
    /\ seats \in [Machines -> [token : 1..tokens, exp : Nat, org : Orgs] \cup {NoSeat}]
    /\ register \in [Requests ->
            [pc : {"none", "org", "known", "count", "find", "find new", "update", "insert", "answer"},
             mid : Machines \cup {"none"}, org : Orgs \cup {"none"}, token : Nat, disturbed : BOOLEAN]]
    /\ auth \subseteq Machines /\ token \in [Machines -> Nat]
    /\ loose \subseteq Machines /\ alone \subseteq Requests /\ crossed \subseteq Machines

\* An org has more active tokens than max_devices only through seats that
\* were taken beside the count: by two inserts between count and insert, by
\* a token that had expired, or by a machine of another org.
CapNeedsCause == \A o \in Orgs : Cardinality(ActiveIn(o) \ loose) <= Cap

\* A desktop holds the token the Worker knows, or the answer with it is still
\* to come, or since its last request that was alone it has lost an answer or
\* the file, or has asked twice at once: one more request alone repairs it.
TokenKnown ==
    \A m \in Machines \ crossed :
        \/ token[m] = seats[m].token
        \/ \E s \in Asking(m) : register[s].pc = "answer"
====
