---- MODULE Parts_proofs ----
(***************************************************************************)
(* The composition of parts that share no state.  A step of the whole is a *)
(* step of one part, or changes nothing of it, so the whole behaves, seen  *)
(* from each part, as that part's own specification allows, and all that   *)
(* is proved of a part alone holds of it among the others.                 *)
(***************************************************************************)
EXTENDS MCParts, Org_proofs, Files_proofs, ConnectionPool_proofs

PartNames == {"push", "seats", "files", "pool", "swap", "refs", "links", "undo", "device"}

\* What a step of the whole is to each part.
StepOfEach ==
    /\ [Next]_vars /\ [SeatsNext]_seatVars /\ [FilesNext]_fileVars /\ [PoolNext]_poolVars
    /\ [SwapNext]_swapVars /\ [RefsNext]_refVars /\ [UndoNext]_undoVars
    /\ [DeviceNext]_deviceVars

StartOfEach ==
    /\ Init /\ SeatsInit /\ FilesInit /\ PoolInit /\ SwapInit /\ RefsInit /\ UndoInit
    /\ DeviceInit

LEMMA PartsStarts == PartsInit => StartOfEach /\ part \in PartNames
BY DEF PartsInit, StartOfEach, PartNames

LEMMA LinksAreRefs == LinksNext => RefsNext
BY DEF LinksNext, RefsNext, RefsUser

LEMMA PartsSteps == [PartsNext]_partsVars => StepOfEach /\ UNCHANGED part
<1> SUFFICES ASSUME [PartsNext]_partsVars PROVE StepOfEach /\ UNCHANGED part
  OBVIOUS
<1>1. CASE UNCHANGED partsVars
  BY <1>1 DEF partsVars, StepOfEach
<1>2. CASE PartsNext
  BY <1>2, LinksAreRefs DEF PartsNext, StepOfEach
<1> QED BY <1>1, <1>2

\* Whichever part moves, each part does only what its own specification lets
\* it do: the Worker's push endpoint and seats, the desktop's license files,
\* database handles, database file, links, undo
\* and overlapping sessions.
THEOREM PartsImplementEach ==
    PartsSpec => /\ Spec /\ SeatsSpec /\ FilesSpec /\ PoolSpec
                 /\ SwapSpec /\ RefsSpec /\ UndoSpec /\ DeviceSpec
<1>1. PartsInit => StartOfEach
  BY PartsStarts
<1>2. [PartsNext]_partsVars => StepOfEach
  BY PartsSteps
<1> QED BY <1>1, <1>2, PTL
        DEF PartsSpec, StartOfEach, StepOfEach,
            Spec, SeatsSpec, FilesSpec, PoolSpec, SwapSpec, RefsSpec, UndoSpec, DeviceSpec

\* Which part moves is settled at the start.
LEMMA PartsPart == PartsSpec => [](part \in PartNames)
<1>1. PartsInit => part \in PartNames
  BY PartsStarts
<1>2. part \in PartNames /\ [PartsNext]_partsVars => (part \in PartNames)'
  BY PartsSteps
<1> QED BY <1>1, <1>2, PTL DEF PartsSpec

\* The state of every part keeps its types, for all values of the constants
\* and any number of handlers that overlap.
THEOREM PartsTypes == PartsSpec => []PartsTypeOK
<1>1. /\ part \in PartNames
      /\ TypeOK /\ SeatsTypeOK /\ FilesTypeOK /\ PoolTypeOK /\ SwapTypeOK /\ RefsTypeOK /\ UndoTypeOK
      /\ DeviceTypeOK
      => PartsTypeOK
  BY DEF PartNames, PartsTypeOK
<1> QED BY <1>1, PartsImplementEach, PartsPart, PushTypes, SeatsTypes, FilesTypeCorrect, PoolTypes,
           SwapTypes, RefsTypeCorrect, UndoTypeCorrect, DeviceTypes, PTL

\* What each part keeps safe alone it keeps safe among the others.
THEOREM PartsSafe ==
    PartsSpec => /\ [](CapNeedsCause /\ TokenKnown /\ CopiesAgree /\ ComplaintNeedsCause)
                 /\ [](HandlesSafe /\ OnlyRacedOpen /\ PinnedAllOrNothing /\ SwapSafe)
                 /\ [](DanglingNeedsStaleWrite /\ GroupJamNeedsTombstone /\ PassedIsStored)
                 /\ LinkLossNeedsCause /\ UndoIsExact
BY PartsImplementEach, SeatsCap, SeatsToken, FilesCopiesAgree, FilesComplaintNeedsCause,
   PoolHandles, PoolLocksOut, PoolPinned, SwapIsSafe, LinksAreLive, OnlyTombstonesJam,
   LinksAreKept, UndoExact, DevicePassedIsStored, PTL

\* Among the others, the push endpoint implements the last-writer-wins store
\* as long as no handler writes into the window of another.
THEOREM PartsImplementLww ==
    PartsSpec /\ []Undisturbed => ImplementsLww /\ []AckedCovered
BY PartsImplementEach, UndisturbedRefinement, UndisturbedAckedCovered, PTL
====
