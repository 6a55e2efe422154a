---- MODULE Licensing ----
(***************************************************************************)
(* The life of an activation code: the Worker issues a license key and a   *)
(* passcode, the desktop redeems one of them through POST /api/claim, the  *)
(* owner revokes, bans and purges.  Handlers of the Worker interleave at   *)
(* their awaits; a desktop may stop waiting for an answer at any time.     *)
(*                                                                         *)
(* Time is counted in days, the granularity at which the purge compares    *)
(* its texts.  A code is named by the issue it belongs to and its kind, in *)
(* place of a random nonce; a text is a code with the expiry signed in it. *)
(* control_version is left out: nothing in the sources compares it.        *)
(***************************************************************************)
EXTENDS Integers, FiniteSets

CONSTANTS
    Machines,    \* machine ids
    Slots,       \* activations that may be under way at once
    Packages,    \* package lengths in days; 0 is an unlimited package
    MaxStack,    \* MAX_STACKABLE_SECONDS, in days
    PurgeAges,   \* older_than_days of the purge requests
    MaxIssues,   \* bound: licenses generated
    MaxAdmin,    \* bound: owner requests other than generate and purge
    MaxTime      \* bound: the last day

ASSUME LicensingAssumption ==
    /\ Packages \subseteq Nat
    /\ PurgeAges \subseteq Nat \ {0}
    /\ MaxStack \in Nat
    /\ MaxIssues \in Nat
    /\ MaxAdmin \in Nat
    /\ MaxTime \in Nat

\* ACTIVATION_WINDOW_HOURS, in days.
Window == 1

Never == -1
Expiries == Nat \cup {Never}

Ids == 1..MaxIssues
Kinds == {"license", "passcode"}
Nonces == Ids \X Kinds

Texts == [id : Ids, kind : Kinds, mid : Machines, exp : Expiries]
Rows == [id : Ids, mid : Machines, days : Packages, issued : Nat, key : Texts]

Nonce(x) == <<x.id, x.kind>>

\* The nonce column of an issued row is that of its license key.
RowNonce(r) == <<r.id, "license">>

VARIABLES
    now, last,       \* the day; the last id of issued_licenses
    rows, archived,  \* issued_licenses; the ids in archived_licenses
    used, revoked, revokedPc, bans,
    purge,           \* the purge request under way
    admin,           \* other owner requests so far
    texts,           \* the codes handed to customers
    req,             \* the activations under way
    saved, burned,   \* license.key and used.txt of each machine
    claims,          \* codes a claim has burned
    raced, unrevoked \* codes claimed twice, or claimed and purged, at once; codes un-revoked

tables == <<rows, archived, used, revoked, revokedPc, bans>>
history == <<claims, raced, unrevoked>>
desktop == <<saved, burned>>
vars == <<now, last, tables, purge, admin, texts, req, desktop, history>>

NoRequest == [pc |-> "idle"]
Steps == {"check", "row", "used", "apply", "replied", "mark"}
Handling == {"check", "row", "used", "apply"}
Replies == {"none", "ok", "used"}

Requests ==
    [pc : Steps, text : Texts, waiting : BOOLEAN,
     existing : Nat, repair : BOOLEAN, row : SUBSET Rows,
     reply : Replies, key : SUBSET Texts]

NoPurge == [pc |-> "idle", chosen |-> {}]

Init ==
    /\ now = 0 /\ last = 0 /\ admin = 0
    /\ rows = {} /\ archived = {} /\ used = {} /\ revoked = {}
    /\ revokedPc = {} /\ bans = {} /\ texts = {}
    /\ purge = NoPurge
    /\ req = [s \in Slots |-> NoRequest]
    /\ saved = [m \in Machines |-> {}]
    /\ burned = [m \in Machines |-> {}]
    /\ claims = {} /\ raced = {} /\ unrevoked = {}

----
\* POST /api/generate: a row and two codes.  Until it is claimed a timed
\* package expires with its activation window.
Deadline(days, t) == IF days = 0 THEN Never ELSE t + Window

Generate(m, days) ==
    /\ last < MaxIssues
    /\ last' = last + 1
    /\ LET code(k) == [id |-> last + 1, kind |-> k, mid |-> m, exp |-> Deadline(days, now)]
       IN  /\ rows' = rows \cup {[id |-> last + 1, mid |-> m, days |-> days,
                                  issued |-> now, key |-> code("license")]}
           /\ texts' = texts \cup {code(k) : k \in Kinds}
    /\ UNCHANGED <<now, archived, used, revoked, revokedPc, bans, purge, admin, req, desktop, history>>

\* The owner's requests; one that finds its entry in place changes nothing.
Owner ==
    /\ admin < MaxAdmin
    /\ admin' = admin + 1
    /\ UNCHANGED <<now, last, texts, req, desktop, claims, raced>>

Issued == {n \in Nonces : n[1] <= last}

Ban(m) == Owner /\ m \notin bans /\ bans' = bans \cup {m}
          /\ UNCHANGED <<rows, archived, used, revoked, revokedPc, purge, unrevoked>>
Unban(m) == Owner /\ m \in bans /\ bans' = bans \ {m}
            /\ UNCHANGED <<rows, archived, used, revoked, revokedPc, purge, unrevoked>>
Revoke(n) == Owner /\ n \notin revoked /\ revoked' = revoked \cup {n}
             /\ UNCHANGED <<rows, archived, used, revokedPc, bans, purge, unrevoked>>
Unrevoke(n) == Owner /\ n \in revoked /\ revoked' = revoked \ {n}
               /\ unrevoked' = unrevoked \cup {n}
               /\ UNCHANGED <<rows, archived, used, revokedPc, bans, purge>>
MarkUsed(n) == Owner /\ n \notin used /\ used' = used \cup {n}
               /\ UNCHANGED <<rows, archived, revoked, revokedPc, bans, purge, unrevoked>>
RevokePc(n) == Owner /\ n \notin revokedPc /\ revokedPc' = revokedPc \cup {n}
               /\ UNCHANGED <<rows, archived, used, revoked, bans, purge, unrevoked>>

----
\* POST /api/purge-licenses selects, then archives, deletes the rows and
\* prunes their burns, in batches with an await between them.
CandidateByAge(r, age) == \* mutant: the burns are not joined
    \/ r.key.exp # Never /\ r.key.exp < now - age
    \/ RowNonce(r) \in revoked /\ r.issued < now - age
    \/ r.days # 0 /\ r.issued < now - age

Candidate(r, age) ==
    LET n == RowNonce(r)
        stale(t) == t < now - age
    IN  /\ \/ r.key.exp # Never /\ stale(r.key.exp)
           \/ n \in revoked /\ stale(r.issued)
           \/ n \notin used /\ r.days # 0 /\ stale(r.issued)
        /\ ~ (n \in used /\ n \notin revoked /\ (r.key.exp = Never \/ r.key.exp >= now))

\* A handler of a claim of n is under way.
Claiming(s, n) == req[s].pc \in Handling /\ Nonce(req[s].text) = n

PurgeSelect(age) ==
    /\ purge.pc = "idle"
    /\ LET chosen == {r.id : r \in {r \in rows : Candidate(r, age)}}
       IN  chosen # {} /\ purge' = [pc |-> "archive", chosen |-> chosen]
    /\ UNCHANGED <<now, last, tables, admin, texts, req, desktop, history>>

Purging(from, to) ==
    /\ purge.pc = from
    /\ purge' = IF to = "idle" THEN NoPurge ELSE [purge EXCEPT !.pc = to]
    /\ UNCHANGED <<now, last, revoked, revokedPc, bans, admin, texts, req, desktop,
                   claims, unrevoked>>

PurgeArchiveNone == \* mutant: rows are deleted without a copy
    /\ Purging("archive", "rows")
    /\ UNCHANGED <<archived, rows, used, raced>>

PurgeArchive ==
    /\ Purging("archive", "rows")
    /\ archived' = archived \cup purge.chosen
    /\ UNCHANGED <<rows, used, raced>>

PurgeRows ==
    /\ Purging("rows", "burns")
    /\ rows' = {r \in rows : r.id \notin purge.chosen}
    /\ UNCHANGED <<archived, used, raced>>

PurgeBurns ==
    /\ Purging("burns", "idle")
    /\ LET pruned == {<<i, "license">> : i \in purge.chosen}
       IN  /\ used' = used \ pruned
           /\ raced' = raced \cup {n \in pruned : \E s \in Slots : Claiming(s, n)}
    /\ UNCHANGED <<rows, archived>>

PurgeFails ==
    /\ purge.pc # "idle"
    /\ purge' = NoPurge
    /\ UNCHANGED <<now, last, tables, admin, texts, req, desktop, history>>

----
\* An activation on the desktop: the control list brings in the Worker's
\* burns, the code is checked against the local files, and the claim is sent,
\* in one step: a burn that comes between is found by the handler.
Activating == <<now, last, tables, purge, admin, texts>>

\* On the day a text expires it is usable until some hour.
MayBeLive(exp) == exp = Never \/ exp >= now
MayBeOver(exp) == exp # Never /\ exp <= now

RemainingOfAny(m) == {t.exp - now : t \in saved[m]} \* mutant: neither over nor unlimited matters

\* _remaining_seconds of the saved license.
Remaining(m) ==
    {t.exp - now : t \in {t \in saved[m] : t.exp # Never /\ t.exp > now}}

\* check_activation_usable on the files the fetched list has been merged into.
Usable(m, t, known) ==
    /\ MayBeLive(t.exp)
    /\ Nonce(t) \in known => \E c \in saved[m] : Nonce(c) = Nonce(t)

\* _is_repair_activation compares texts.
Send(s, m, t) ==
    /\ req[s] = NoRequest
    /\ t.mid = m
    /\ burned' = [burned EXCEPT ![m] = @ \cup used]
    /\ Usable(m, t, burned'[m])
    /\ \E d \in IF Remaining(m) = {} THEN {0} ELSE Remaining(m) :
          req' = [req EXCEPT ![s] =
                    [pc |-> "check", text |-> t, waiting |-> TRUE,
                     existing |-> d, repair |-> t \in saved[m],
                     row |-> {}, reply |-> "none", key |-> {}]]
    /\ UNCHANGED <<Activating, saved, history>>

\* The handler: eligibility, the row, the burn, one batch of writes.
StandsUnlessBanned(t) == t.mid \notin bans \* mutant: revocations are not read

Stands(t) ==
    /\ t.mid \notin bans
    /\ Nonce(t) \notin revoked
    /\ t.kind = "passcode" => Nonce(t) \notin revokedPc

\* The answer, if the desktop still waits for one.
Reply(s, answer, key) ==
    req' = [req EXCEPT ![s] =
              IF req[s].waiting
              THEN [req[s] EXCEPT !.pc = "replied", !.row = {}, !.existing = 0, !.reply = answer,
                                  !.key = key, !.repair = req[s].repair /\ answer = "used"]
              ELSE NoRequest]

\* An error ends the activation: the desktop shows it and changes nothing.
ReplyError(s) == req' = [req EXCEPT ![s] = NoRequest]

Check(s) ==
    /\ req[s].pc = "check"
    /\ \/ /\ Stands(req[s].text) /\ MayBeLive(req[s].text.exp)
          /\ req' = [req EXCEPT ![s].pc = "row"]
       \/ /\ ~Stands(req[s].text) \/ MayBeOver(req[s].text.exp)
          /\ ReplyError(s)
    /\ UNCHANGED <<Activating, desktop, history>>

ReadRow(s) ==
    /\ req[s].pc = "row"
    /\ req' = [req EXCEPT ![s].pc = "used",
                          ![s].row = {r \in rows : RowNonce(r) = Nonce(req[s].text)}]
    /\ UNCHANGED <<Activating, desktop, history>>

ReadUsed(s) ==
    /\ req[s].pc = "used"
    /\ LET n == Nonce(req[s].text)
           rival == \E z \in Slots \ {s} : req[z].pc = "apply" /\ Nonce(req[z].text) = n
       IN  /\ IF n \in used THEN Reply(s, "used", {})
                            ELSE req' = [req EXCEPT ![s].pc = "apply"]
           /\ raced' = IF n \notin used /\ rival THEN raced \cup {n} ELSE raced
    /\ UNCHANGED <<Activating, desktop, claims, unrevoked>>

\* The key the handler answers with: re-signed for the full package on top of
\* the days the desktop still has, or as issued.
Resigned(r, existing) ==
    IF r.days = 0 THEN r.key
    ELSE [r.key EXCEPT !.exp = now + r.days + (IF existing < MaxStack THEN existing ELSE MaxStack)]

RowsResigned(s) ==
    {IF \E o \in req[s].row : o.id = r.id /\ o.days # 0
     THEN [r EXCEPT !.key = Resigned(r, req[s].existing)] ELSE r : r \in rows}

\* After the batch a failing purge of the rate limits still answers an error.
Apply(s) ==
    /\ req[s].pc = "apply"
    /\ LET n == Nonce(req[s].text)
       IN  /\ rows' = RowsResigned(s)
           /\ used' = used \cup {n}
           /\ Reply(s, "ok", {Resigned(o, req[s].existing) : o \in req[s].row}) \/ ReplyError(s)
           /\ claims' = claims \cup {n}
    /\ UNCHANGED <<now, last, archived, revoked, revokedPc, bans, purge, admin, texts, desktop,
                   raced, unrevoked>>

HandlerFailsHalfway(s) == \* mutant: the row is written, the burn is not
    /\ req[s].pc = "apply"
    /\ rows' = RowsResigned(s)
    /\ ReplyError(s)
    /\ UNCHANGED <<now, last, archived, used, revoked, revokedPc, bans, purge, admin, texts,
                   desktop, history>>

HandlerFailsSilently(s) == \* mutant: the error is swallowed
    /\ req[s].pc = "apply"
    /\ Reply(s, "ok", {})
    /\ UNCHANGED <<Activating, desktop, history>>

\* A failing D1 call; a batch is atomic, so nothing was written.
HandlerFails(s) ==
    /\ req[s].pc \in Handling
    /\ ReplyError(s)
    /\ UNCHANGED <<Activating, desktop, history>>

----
\* The answer reaches the desktop.
Accepted(q) == q.reply = "ok" \/ (q.reply = "used" /\ q.repair)

\* _finish saves the code itself when the answer carries no key.
ToSave(q) == IF q.key # {} THEN q.key ELSE {q.text}

Receive(s) ==
    /\ req[s].pc = "replied"
    /\ LET q == req[s]
           m == q.text.mid
       IN  \/ /\ Accepted(q)
              /\ saved' = [saved EXCEPT ![m] = ToSave(q)]
              /\ req' = [req EXCEPT ![s].pc = "mark", ![s].repair = FALSE,
                                    ![s].reply = "none", ![s].key = {}]
           \/ /\ ~Accepted(q)
              /\ req' = [req EXCEPT ![s] = NoRequest]
              /\ UNCHANGED saved
    /\ UNCHANGED <<Activating, burned, history>>

\* mark_used after save_license_file.
Mark(s) ==
    /\ req[s].pc = "mark"
    /\ burned' = [burned EXCEPT ![req[s].text.mid] = @ \cup {Nonce(req[s].text)}]
    /\ req' = [req EXCEPT ![s] = NoRequest]
    /\ UNCHANGED <<Activating, saved, history>>

\* The desktop times out, is closed, or refuses the code; the handler goes on.
GiveUp(s) ==
    /\ req[s].pc \in Steps /\ req[s].waiting
    /\ req' = [req EXCEPT ![s] = IF req[s].pc \in Handling
                                      THEN [@ EXCEPT !.waiting = FALSE, !.repair = FALSE]
                                      ELSE NoRequest]
    /\ UNCHANGED <<Activating, desktop, history>>

\* An activation takes seconds: none is under way at midnight.
Tick ==
    /\ now < MaxTime
    /\ \A s \in Slots : req[s] = NoRequest
    /\ now' = now + 1
    /\ UNCHANGED <<last, tables, purge, admin, texts, req, desktop, history>>

OwnerNext ==
    \/ \E m \in Machines, d \in Packages : Generate(m, d)
    \/ \E m \in Machines : Ban(m) \/ Unban(m)
    \/ \E n \in Issued : Revoke(n) \/ Unrevoke(n) \/ MarkUsed(n)
    \/ \E n \in Issued : n[2] = "passcode" /\ RevokePc(n)
    \/ \E a \in PurgeAges : PurgeSelect(a)
    \/ PurgeArchive \/ PurgeRows \/ PurgeBurns \/ PurgeFails

ClaimNext(s) ==
    \/ \E m \in Machines : \E t \in texts \cup saved[m] : Send(s, m, t)
    \/ Check(s) \/ ReadRow(s) \/ ReadUsed(s) \/ Apply(s) \/ HandlerFails(s)
    \/ Receive(s) \/ Mark(s) \/ GiveUp(s)

Next == OwnerNext \/ Tick \/ \E s \in Slots : ClaimNext(s)

Spec == Init /\ [][Next]_vars

----
TypeOK ==
    /\ now \in 0..MaxTime /\ last \in 0..MaxIssues /\ admin \in 0..MaxAdmin
    /\ rows \subseteq Rows /\ archived \subseteq Ids
    /\ used \subseteq Nonces /\ revoked \subseteq Nonces /\ revokedPc \subseteq Nonces
    /\ bans \subseteq Machines /\ texts \subseteq Texts
    /\ purge \in [pc : {"idle", "archive", "rows", "burns"}, chosen : SUBSET Ids]
    /\ req \in [Slots -> Requests \cup {NoRequest}]
    /\ saved \in [Machines -> SUBSET Texts] /\ burned \in [Machines -> SUBSET Nonces]
    /\ claims \subseteq Nonces
    /\ raced \subseteq Nonces /\ unrevoked \subseteq Nonces

\* A key is re-signed for its full period only together with its burn
\* (apply.ts: one atomic batch, "a crash between them used to leave a resigned
\* key without its nonce burn").
ResignedIsBurned ==
    \A r \in rows : r.key.exp # Deadline(r.days, r.issued) => RowNonce(r) \in used

\* Whatever step of a purge fails, and whatever is claimed meanwhile, an issued
\* license is in issued_licenses or in archived_licenses (write.ts).
NothingLost == \A i \in Ids : i <= last => i \in archived \/ \E r \in rows : r.id = i

\* "Licenses safe to remove: expired 30d+, revoked 30d+, or unused pending
\* 30d+": while a machine runs on a license that was never revoked, the Worker
\* keeps the row and the burn of that license; unless two claims of the code
\* ran into each other, of which the second may have shortened the key of the
\* row by the difference of their existing_seconds.
Running(m, t) ==
    /\ t \in saved[m] /\ t.kind = "license"
    /\ MayBeLive(t.exp)
    /\ Nonce(t) \notin revoked \cup unrevoked \cup raced

PurgeKeepsRunning ==
    \A m \in Machines : \A t \in saved[m] :
        Running(m, t) => Nonce(t) \in used /\ \E r \in rows : RowNonce(r) = Nonce(t)

\* write.ts: pruning burns is safe, "reuse stays blocked by the
\* revocation/expiry eligibility gates": a handler is about to claim a code
\* that was claimed before only if another claim or a purge of the code ran
\* into it, or the code was un-revoked.
ReclaimNeedsCause ==
    \A s \in Slots :
        req[s].pc = "apply" /\ Nonce(req[s].text) \in claims =>
            Nonce(req[s].text) \in raced \cup unrevoked

\* What a machine has burned locally the Worker has burned too, unless the
\* license was archived.
LocalBurns ==
    \A m \in Machines : \A n \in burned[m] : n \in used \/ n[1] \in archived

----
\* signing.ts: "Timed packages: exp is the 24h activation window; full period
\* starts on claim": what the first claim of a code makes the desktop save runs
\* for the whole package.
FullPeriod ==
    \A s \in Slots : \A r \in rows :
        req[s].pc = "replied" /\ req[s].reply = "ok" /\ r.id = req[s].text.id /\ r.days # 0 =>
            \A t \in ToSave(req[s]) : t.exp >= now + r.days
====
