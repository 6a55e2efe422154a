---- MODULE Registration ----
(***************************************************************************)
(* How a desktop with a saved license comes to a token for the data sync:  *)
(* POST /api/sync/register with the text of license.key.  It is called by  *)
(* a sync session that has no credentials, and after a license was saved   *)
(* over existing ones.  Every license is of a package that syncs, for one  *)
(* machine of its own, so the seat check passes.                           *)
(***************************************************************************)
EXTENDS Licensing

CONSTANT MaxTokens \* bound: tokens issued

VARIABLES
    device, \* sync_devices: the last token of each machine, 0 if none
    creds,  \* sync_device.json: the token each desktop holds, 0 if none
    issued, \* tokens issued so far
    refused \* machines refused although their license stands

regVars == <<device, creds, issued, refused>>

RegInit ==
    /\ Init
    /\ device = [m \in Machines |-> 0] /\ creds = [m \in Machines |-> 0]
    /\ issued = 0 /\ refused = {}

\* requireSyncEnabled looks for a row of the machine.
SyncEnabled(m) == \E r \in rows : r.mid = m

\* The license is what the eligibility check and the entitlement ask for.
Active(t) == Stands(t) /\ MayBeLive(t.exp) /\ SyncEnabled(t.mid)

Grantable(t) == Active(t) /\ Nonce(t) \notin used

\* The token is stored under the machine; the answer may get lost.
Grant(m, t) ==
    /\ Grantable(t)
    /\ issued < MaxTokens
    /\ issued' = issued + 1
    /\ device' = [device EXCEPT ![m] = issued']
    /\ creds' \in {creds, [creds EXCEPT ![m] = issued']}
    /\ UNCHANGED refused

Refuse(m, t) ==
    /\ ~Grantable(t) \/ MayBeOver(t.exp)
    /\ refused' = IF Active(t) /\ ~MayBeOver(t.exp) THEN refused \cup {m} ELSE refused
    /\ UNCHANGED <<device, creds, issued>>

Register(m) ==
    /\ \E t \in saved[m] : Grant(m, t) \/ Refuse(m, t)
    /\ UNCHANGED vars

\* ensure_sync_credentials of a session; rotation after a save while the
\* activation is finishing.
RegisterNext ==
    \E m \in Machines :
        /\ creds[m] = 0 \/ \E s \in Slots : req[s].pc = "mark" /\ req[s].text.mid = m
        /\ Register(m)

RegNext == RegisterNext \/ (Next /\ UNCHANGED regVars)

RegSpec == RegInit /\ [][RegNext]_<<vars, regVars>>

----
\* docs/PLATFORM.md: "Exchange active license for device sync token": no
\* machine is refused while its license is neither revoked, banned nor over
\* and its package syncs.
ActiveLicenseRegisters == refused = {}
====
