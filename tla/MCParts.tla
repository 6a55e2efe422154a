---- MODULE MCParts ----
(***************************************************************************)
(* Parts that share no state: the push endpoint and the seats of an org on *)
(* the Worker; the license files, the database handles, the database file, *)
(* the undo and the two sync sessions of a desktop; the links between rows *)
(* of several desktops.                                                    *)
(* One run checks their safety, one at a time: only the part chosen at the *)
(* start moves.                                                            *)
(***************************************************************************)
EXTENDS MCSyncPush, SyncSeats, LicenseFiles, ConnectionPool, DatabaseSwap, SyncRefs,
        ClientUndo, DeviceSessions, TLC

VARIABLE part
FewWrites == 3 \* bound of "refs"; "links" has MaxWrites
OnePush == 1   \* bound of "links"; "refs" has MaxPushes
partsVars == <<vars, seatVars, fileVars, poolVars, swapVars, refVars, undoVars, deviceVars,
               part>>

PartsInit ==
    /\ part \in {"push", "seats", "files", "pool", "swap", "refs", "links", "undo", "device"}
    /\ Init /\ SeatsInit /\ FilesInit /\ PoolInit /\ SwapInit /\ RefsInit /\ UndoInit
    /\ DeviceInit
    /\ part # "push" => server = [k \in Rows |-> NoRow]
    /\ part # "seats" => firm = [m \in Machines |-> CHOOSE o \in Orgs : TRUE]
    /\ part = "links" => clock = 1
    /\ part \notin {"refs", "links"} => clock = 0
    /\ part # "undo" => client = [c \in Clients |-> NoRecord]

\* An update_client that could not be written any more is not begun.
Within(most) ==
    /\ clock' - pushes' <= most
    /\ (\E d \in Desktops : update'[d] # NoUpdate) => clock' - pushes' < most

\* Commands on clients and the deletion of groups are followed for longer, on
\* desktops that start with a client in a group.
LinksNext == \E d \in Desktops :
    \/ \E g \in GroupIds : DeleteGroup(d, g)
    \/ \E c \in ClientIds, l \in Labels, g \in Offers(d) : EditClient(d, c, l, g)
    \/ \E c \in ClientIds : SaveInfo(d, c)
    \/ \E old \in armed[d] : UndoClient(d, old)
    \/ WriteClient(d) \/ RefsSession(d)

PartsNext ==
    /\ UNCHANGED part
    /\ \/ /\ part = "push" /\ Next
          /\ UNCHANGED <<seatVars, fileVars, poolVars, swapVars, refVars, undoVars, deviceVars>>
       \/ /\ part = "seats" /\ SeatsNext
          /\ UNCHANGED <<vars, fileVars, poolVars, swapVars, refVars, undoVars, deviceVars>>
       \/ /\ part = "files" /\ FilesNext
          /\ UNCHANGED <<vars, seatVars, poolVars, swapVars, refVars, undoVars, deviceVars>>
       \/ /\ part = "pool" /\ PoolNext
          /\ UNCHANGED <<vars, seatVars, fileVars, swapVars, refVars, undoVars, deviceVars>>
       \/ /\ part = "swap" /\ SwapNext
          /\ UNCHANGED <<vars, seatVars, fileVars, poolVars, refVars, undoVars, deviceVars>>
       \/ /\ part = "refs" /\ RefsNext /\ Within(FewWrites)
          /\ UNCHANGED <<vars, seatVars, fileVars, poolVars, swapVars, undoVars, deviceVars>>
       \/ /\ part = "links" /\ LinksNext /\ Within(MaxWrites) /\ pushes' <= OnePush
          /\ UNCHANGED <<vars, seatVars, fileVars, poolVars, swapVars, undoVars, deviceVars>>
       \/ /\ part = "undo" /\ UndoNext
          /\ UNCHANGED <<vars, seatVars, fileVars, poolVars, swapVars, refVars, deviceVars>>
       \/ /\ part = "device" /\ DeviceNext
          /\ UNCHANGED <<vars, seatVars, fileVars, poolVars, swapVars, refVars, undoVars>>

PartsSpec == PartsInit /\ [][PartsNext]_partsVars

\* The state of every part keeps its types, the bounds of retries, attempts and
\* passes among them.
PartsTypeOK ==
    CASE part = "push" -> TypeOK [] part = "seats" -> SeatsTypeOK [] part = "files" -> FilesTypeOK
      [] part = "pool" -> PoolTypeOK [] part = "swap" -> SwapTypeOK [] part \in {"refs", "links"} -> RefsTypeOK
      [] part = "undo" -> UndoTypeOK [] part = "device" -> DeviceTypeOK

\* A clock of another device.
MCRemote == {[wall |-> 1, counter |-> 1, node |-> 2]}

\* Handles are numbers, because a new one is chosen; rows of the push endpoint
\* have owners. Sets of different parts have the same members, m1 and m2 or x
\* and y: TLC tries every permutation of all of them on the states of each part.
Alike == Permutations(Machines) \cup Permutations(Orgs) \cup Permutations(Requests)
====
