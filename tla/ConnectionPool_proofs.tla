---- MODULE ConnectionPool_proofs ----
(***************************************************************************)
(* The handles of the database, for any number of threads, handles, nested *)
(* scopes and attempts.                                                    *)
(*                                                                         *)
(* No step is taken under a lock that spans a scope, so the invariant says *)
(* for each point of a checkout what other threads cannot have done        *)
(* meanwhile: whose a handle is (Apart), that a restore is alone in its    *)
(* steps (OneRestore), and that a thread which acquires a handle while the *)
(* file is replaced had passed the check before (LockedOut).               *)
(***************************************************************************)
EXTENDS ConnectionPool, TLAPS

\* Which steps a thread takes.
RolesOf(t) ==
    /\ t = Main => at[t].pc \notin {"look", "connect", "label", "track"} /\ local[t].conn = NoHandle
    /\ at[t].pc = "connect" => local[t].conn = NoHandle
    /\ at[t].pc \in {"label", "track"} => local[t].conn \in Handles
    /\ at[t].pc = "idle" => at[t].task \in {"none", "bundle"}
    /\ at[t].task = "none" => at[t].pc = "idle"
    /\ at[t].pc = "body" => at[t].task = "bundle"
    /\ at[t].pc = "close" => at[t].task \in {"shutdown", "restore"}
    /\ at[t].pc \in {"lock", "close again", "replace"} => at[t].task = "restore"
    /\ at[t].task = "shutdown" => t = Main
    /\ at[t].pinned => at[t].task = "bundle"

\* How many of its nested scopes a bundle has written and committed.
CommitsOf(t) ==
    /\ at[t].saved <= at[t].wrote \/ at[t].pc = "idle"
    /\ at[t].wrote > 0 /\ at[t].pc \notin {"body", "idle"} => at[t].saved < at[t].wrote
    /\ at[t].pinned =>
        /\ at[t].wrote > 0 => at[t].pc = "body"
        /\ at[t].pc # "idle" => at[t].saved = 0
        /\ at[t].saved \in {0, Writes}

Roles == \A t \in Threads : RolesOf(t)
Commits == \A t \in Threads : CommitsOf(t)

Owned(t, h) ==
    \/ h \in {local[t].conn, local[t].bundle, at[t].held}
    \/ t = Main /\ h = pooled

\* A handle belongs to one thread.
Apart == \A t, u \in Threads, h \in Handles : Owned(t, h) /\ Owned(u, h) => t = u

OneRestore ==
    \A t, u \in Threads : at[t].task = "restore" /\ at[u].task = "restore" => t = u

LockedOut ==
    \A t \in Threads : at[t].pc \in {"close again", "replace"} =>
        lockout /\ \A u \in Threads : Acquiring(u) => u \in raced

\* The inductive invariant, beside the types.
Safe ==
    /\ Roles /\ Commits /\ HandlesTracked /\ Apart
    /\ OneRestore /\ LockedOut /\ OnlyRacedOpen

----------------------------------------------------------------------------
\* The types, by names the provers need not look into.
Tasks == {"none", "save", "bundle", "shutdown", "restore"}
Tried == 0..(Attempts - 1)
Scopes == 0..Writes
Doing == [task : Tasks, pc : Stage, held : Handle, tries : Tried, pinned : BOOLEAN,
          wrote : Scopes, saved : Scopes]
Locals == [conn : Handle, label : Nat, bundle : Handle]
Typed ==
    /\ lockout \in BOOLEAN /\ epoch \in Nat /\ legacy \in BOOLEAN
    /\ pooled \in Handle /\ bgConns \subseteq Handles /\ open \subseteq Handles
    /\ local \in [Threads -> Locals] /\ at \in [Threads -> Doing]
    /\ tasks \in Nat /\ raced \subseteq Threads

LEMMA TypedIsTypeOK == Typed <=> PoolTypeOK
BY DEF Typed, PoolTypeOK, Tasks, Tried, Scopes, Doing, Locals

LEMMA InTasks ==
  /\ "none" \in Tasks /\ "save" \in Tasks /\ "bundle" \in Tasks /\ "shutdown" \in Tasks
  /\ "restore" \in Tasks
BY DEF Tasks

LEMMA InStage ==
  /\ "idle" \in Stage /\ "check" \in Stage /\ "get" \in Stage /\ "look" \in Stage
  /\ "connect" \in Stage /\ "label" \in Stage /\ "track" \in Stage /\ "use" \in Stage
  /\ "body" \in Stage /\ "close" \in Stage /\ "lock" \in Stage /\ "close again" \in Stage
  /\ "replace" \in Stage
BY DEF Stage

LEMMA Members ==
  /\ NoHandle \in Handle /\ Handles \subseteq Handle /\ NoHandle \notin Handles
  /\ 0 \in Tried /\ 0 \in Scopes /\ Writes \in Scopes
  /\ Main \in Threads /\ Background \subseteq Threads /\ Main \notin Background
  /\ \A t \in Threads : t # Main => t \in Background
<1>1. 0 \in Tried /\ 0 \in Scopes /\ Writes \in Scopes
  BY PoolAssumption DEF Tried, Scopes
<1>2. QED
  BY <1>1, PoolAssumption DEF Handle, Threads

LEMMA FreshIsNew ==
  ASSUME Fresh # {}
  PROVE  NewHandle \in Handles /\ NewHandle \notin Referred
BY DEF Fresh, NewHandle

LEMMA IdleIs ==
  /\ Idle \in Doing
  /\ Idle.task = "none" /\ Idle.pc = "idle" /\ Idle.held = NoHandle
  /\ ~ Idle.pinned /\ Idle.wrote = 0 /\ Idle.saved = 0
BY Members, InTasks, InStage DEF Idle, Doing

LEMMA EndedIs ==
  ASSUME NEW a \in Doing
  PROVE  /\ Ended(a) \in Doing
         /\ Ended(a).task = IF a.task = "bundle" THEN "bundle" ELSE "none"
         /\ Ended(a).pc = "idle" /\ Ended(a).held = NoHandle
         /\ Ended(a).pinned = a.pinned /\ Ended(a).wrote = 0 /\ Ended(a).saved = a.saved
BY Members, InTasks, IdleIs DEF Ended, Doing

LEMMA Counting ==
  /\ \A n \in Tried : n + 1 # Attempts => n + 1 \in Tried
  /\ \A n \in Scopes : n < Writes => n + 1 \in Scopes
BY PoolAssumption DEF Tried, Scopes

LEMMA RaiseIs ==
  ASSUME Typed, NEW t \in Threads, Raise(t)
  PROVE  /\ at' \in [Threads -> Doing]
         /\ \A u \in Threads : u # t => at'[u] = at[u]
         /\ \/ /\ at[t].task \in {"shutdown", "restore"}
               /\ at'[t] = [at[t] EXCEPT !.pc = "close"]
            \/ /\ at[t].task \notin {"shutdown", "restore"}
               /\ at'[t] = Ended(at[t])
<1>1. at \in [Threads -> Doing] /\ at[t] \in Doing
  BY DEF Typed
<1>2. Ended(at[t]) \in Doing
  BY <1>1, EndedIs
<1>3. [at[t] EXCEPT !.pc = "close"] \in Doing
  BY <1>1, InStage DEF Doing
<1>4. QED
  BY <1>1, <1>2, <1>3 DEF Raise

LEMMA FinishedIs ==
  ASSUME Typed, NEW t \in Threads, Finished(t)
  PROVE  /\ at' \in [Threads -> Doing]
         /\ \A u \in Threads : u # t => at'[u] = at[u]
         /\ at'[t] = Ended(at[t])
<1>1. at \in [Threads -> Doing] /\ at[t] \in Doing
  BY DEF Typed
<1>2. Ended(at[t]) \in Doing
  BY <1>1, EndedIs
<1>3. QED
  BY <1>1, <1>2 DEF Finished

LEMMA GoWithIs ==
  ASSUME Typed, NEW t \in Threads, NEW h \in Handle, GoWith(t, h)
  PROVE  /\ at' \in [Threads -> Doing]
         /\ \A u \in Threads : u # t => at'[u] = at[u]
         /\ at'[t] = [at[t] EXCEPT !.pc = "use", !.held = h]
BY InStage DEF GoWith, Typed, Doing

LEMMA CloseAllIs ==
  ASSUME Typed, NEW t \in Threads, CloseAll(t)
  PROVE  /\ local' \in [Threads -> Locals]
         /\ open' \subseteq Handles /\ pooled' \in Handle /\ bgConns' \subseteq Handles
         /\ legacy' \in BOOLEAN /\ epoch' \in Nat
<1>1. local' \in [Threads -> Locals]
  BY Members DEF CloseAll, Typed, Locals
<1>2. epoch' \in Nat
  BY DEF CloseAll, Typed
<1>3. QED
  BY <1>1, <1>2, Members DEF CloseAll, Typed

LEMMA WroteOn ==
  ASSUME NEW a \in Doing, a.wrote < Writes
  PROVE  a.wrote + 1 \in Scopes
BY Counting DEF Doing

\* What is committed is written.
LEMMA SavedOn ==
  ASSUME Typed, Commits, NEW t \in Threads, at[t].wrote > 0, at[t].pc = "use"
  PROVE  at[t].saved + 1 \in Scopes
<1>1. at[t].saved \in Scopes /\ at[t].wrote \in Scopes
  BY DEF Typed, Doing
<1>2. at[t].saved < at[t].wrote
  BY DEF Commits, CommitsOf
<1>3. QED
  BY <1>1, <1>2, PoolAssumption DEF Scopes

LEMMA EndedOf ==
  ASSUME NEW a \in Doing, NEW n \in Scopes
  PROVE  /\ [Ended(a) EXCEPT !.saved = n] \in Doing
         /\ [Ended(a) EXCEPT !.saved = Ended(a).saved] = Ended(a)
<1>1. Ended(a) \in Doing
  BY EndedIs
<1>2. QED
  BY <1>1 DEF Doing

LEMMA TrackedIs ==
  ASSUME Roles, NEW t \in Threads, Track(t)
  PROVE  local[t].conn \in Handles
BY Members DEF Roles, RolesOf, Track

----------------------------------------------------------------------------
(* The types are kept.                                                     *)

LEMMA HandleStep ==
  ASSUME Typed, Roles, Commits, [PoolNext]_poolVars
  PROVE  Typed'
<1>0. at \in [Threads -> Doing] /\ local \in [Threads -> Locals] /\ epoch \in Nat /\ pooled \in Handle
  BY DEF Typed
<1> USE <1>0
<1>1. CASE Shutdown
  <2>1. at' \in [Threads -> Doing]
    BY <1>1, IdleIs, InStage, InTasks, Members DEF Shutdown, Give, Doing, pool
  <2>2. local' \in [Threads -> Locals]
    BY <1>1 DEF Shutdown, Give, Locals, Doing, pool
  <2>3. QED
    BY <1>1, <2>1, <2>2 DEF Typed, Shutdown, Give, pool
<1>2. CASE MainGet
  <2>1. at' \in [Threads -> Doing]
    <3>1. CASE GoWith(Main, pooled)
      BY <1>2, <3>1, GoWithIs, Members
    <3>2. CASE Fresh # {} /\ GoWith(Main, NewHandle)
      BY <1>2, <3>2, GoWithIs, FreshIsNew, Members
    <3>3. CASE Raise(Main)
      BY <1>2, <3>3, RaiseIs, Members
    <3>4. QED
      BY <1>2, <3>1, <3>2, <3>3 DEF MainGet
  <2>2. local' \in [Threads -> Locals]
    BY <1>2, FreshIsNew, Members DEF MainGet, GoWith, Locals, Doing, pool
  <2>3. QED
    BY <1>2, <2>1, <2>2, FreshIsNew, Members DEF Typed, MainGet, GoWith, pool
<1>3. ASSUME NEW t \in Threads, ThreadStep(t) PROVE Typed'
  <2>1. CASE Save(t)
    <3>1. at' \in [Threads -> Doing]
      BY <2>1, IdleIs, InStage, InTasks DEF Save, Give, Doing, pool
    <3>2. local' \in [Threads -> Locals]
      BY <2>1 DEF Save, Give, Locals, Doing, pool
    <3>3. QED
      BY <2>1, <3>1, <3>2 DEF Typed, Save, Give, pool
  <2>2. CASE Bundle(t)
    <3>1. at' \in [Threads -> Doing]
      BY <2>2, IdleIs, InStage, InTasks DEF Bundle, Doing, pool
    <3>2. local' \in [Threads -> Locals]
      BY <2>2 DEF Bundle, Locals, Doing, pool
    <3>3. QED
      BY <2>2, <3>1, <3>2 DEF Typed, Bundle, pool
  <2>3. CASE Restore(t)
    <3>1. at' \in [Threads -> Doing]
      BY <2>3, IdleIs, InStage, InTasks DEF Restore, Give, Doing, pool
    <3>2. local' \in [Threads -> Locals]
      BY <2>3 DEF Restore, Give, Locals, Doing, pool
    <3>3. QED
      BY <2>3, <3>1, <3>2 DEF Typed, Restore, Give, pool
  <2>4. CASE Check(t)
    <3>1. at' \in [Threads -> Doing]
      <4>1. CASE lockout
        BY <2>4, <4>1, RaiseIs DEF Check
      <4>2. CASE ~ lockout
        <5>1. 0 \in Tried /\ (IF t = Main THEN "get" ELSE "look") \in Stage
          BY <2>4, <4>2, InStage, Members
        <5>2. QED
          BY <2>4, <4>2, <5>1 DEF Check, Doing
      <4>3. QED
        BY <2>4, <4>1, <4>2 DEF Check
    <3>2. local' \in [Threads -> Locals]
      BY <2>4 DEF Check, Locals, Doing, pool
    <3>3. QED
      BY <2>4, <3>1, <3>2 DEF Typed, Check, pool
  <2>5. CASE Reuse(t)
    <3>1. at' \in [Threads -> Doing]
      BY <2>5, GoWithIs DEF Reuse, Locals
    <3>2. local' \in [Threads -> Locals]
      BY <2>5 DEF Reuse, GoWith, Locals, Doing, pool
    <3>3. QED
      BY <2>5, <3>1, <3>2 DEF Typed, Reuse, GoWith, pool
  <2>6. CASE Forget(t)
    <3>1. at' \in [Threads -> Doing]
      BY <2>6, InStage DEF Forget, Go, Doing, pool
    <3>2. local' \in [Threads -> Locals]
      BY <2>6, Members DEF Forget, Go, Locals, Doing, pool
    <3>3. QED
      BY <2>6, <3>1, <3>2, Members DEF Typed, Forget, Go, pool
  <2>7. CASE Connect(t)
    <3>1. at' \in [Threads -> Doing]
      <4>1. CASE Go(t, "label")
        BY <2>7, <4>1, InStage DEF Go, Doing
      <4>2. CASE Raise(t)
        BY <2>7, <4>2, RaiseIs
      <4>3. QED
        BY <2>7, <4>1, <4>2 DEF Connect
    <3>2. local' \in [Threads -> Locals]
      BY <2>7, FreshIsNew, Members DEF Connect, Go, Locals, Doing, pool
    <3>3. QED
      BY <2>7, <3>1, <3>2, FreshIsNew, Members DEF Typed, Connect, Go, pool
  <2>8. CASE Label(t)
    <3>1. at' \in [Threads -> Doing]
      BY <2>8, InStage DEF Label, Go, Doing, pool
    <3>2. local' \in [Threads -> Locals]
      BY <2>8, <1>0 DEF Label, Go, Locals, Doing, pool
    <3>3. QED
      BY <2>8, <3>1, <3>2, <1>0 DEF Typed, Label, Go, pool
  <2>9. CASE Track(t)
    <3>1. at' \in [Threads -> Doing]
      <4>1. CASE local[t].label = epoch
        BY <2>9, <4>1, GoWithIs DEF Track, Locals
      <4>2. CASE local[t].label # epoch /\ at[t].tries + 1 = Attempts
        BY <2>9, <4>2, RaiseIs DEF Track
      <4>3. CASE local[t].label # epoch /\ at[t].tries + 1 # Attempts
        <5>1. at[t].tries + 1 \in Tried /\ "look" \in Stage
          BY <2>9, <4>3, Counting, InStage DEF Doing
        <5>2. QED
          BY <2>9, <4>3, <5>1 DEF Track, Doing
      <4>4. QED
        BY <2>9, <4>1, <4>2, <4>3 DEF Track
    <3>2. local' \in [Threads -> Locals]
      BY <2>9, TrackedIs, Members DEF Track, GoWith, Locals, Doing, pool
    <3>3. bgConns' \subseteq Handles /\ open' \subseteq Handles
      BY <2>9, TrackedIs DEF Track, Typed
    <3>4. QED
      BY <2>9, <3>1, <3>2, <3>3 DEF Track, Typed, pool
  <2>10. CASE EndScope(t)
    <3>1. at' \in [Threads -> Doing]
      <4>1. CASE at[t].task = "save"
        BY <2>10, <4>1, FinishedIs DEF EndScope
      <4>2. CASE at[t].task # "save"
        BY <2>10, <4>2, InStage DEF EndScope, Go, Doing
      <4>3. QED
        BY <2>10, <4>1, <4>2 DEF EndScope
    <3>2. local' \in [Threads -> Locals]
      BY <2>10 DEF EndScope, Go, Locals, Doing, pool
    <3>3. QED
      BY <2>10, <3>1, <3>2 DEF Typed, EndScope, Go, pool
  <2>11. CASE Pin(t)
    <3>1. at' \in [Threads -> Doing]
      BY <2>11, InStage DEF Pin, Go, Doing, pool
    <3>2. local' \in [Threads -> Locals]
      BY <2>11, Members, ZenonT(60) DEF Pin, Go, Locals, Doing, pool
    <3>3. QED
      BY <2>11, <3>1, <3>2, Members DEF Typed, Pin, Go, pool
  <2>12. CASE Nested(t)
    <3>1. at' \in [Threads -> Doing]
      <4>1. at[t].wrote + 1 \in Scopes /\ "check" \in Stage
        BY <2>12, InStage, WroteOn DEF Nested
      <4>2. QED
        BY <2>12, <4>1 DEF Nested, Doing
    <3>2. local' \in [Threads -> Locals]
      BY <2>12 DEF Nested, Locals, Doing, pool
    <3>3. QED
      BY <2>12, <3>1, <3>2 DEF Typed, Nested, pool
  <2>13. CASE NestedCommit(t)
    <3>1. at' \in [Threads -> Doing]
      <4>1. CASE at[t].held \in open
        <5>1. at[t].saved + 1 \in Scopes /\ "body" \in Stage
          BY <2>13, <4>1, InStage, SavedOn DEF NestedCommit
        <5>2. QED
          BY <2>13, <4>1, <5>1 DEF NestedCommit, Doing
      <4>2. CASE at[t].held \notin open
        BY <2>13, <4>2, RaiseIs DEF NestedCommit
      <4>3. QED
        BY <2>13, <4>1, <4>2 DEF NestedCommit
    <3>2. local' \in [Threads -> Locals]
      BY <2>13 DEF NestedCommit, Locals, Doing, pool
    <3>3. QED
      BY <2>13, <3>1, <3>2 DEF Typed, NestedCommit, pool
  <2>14. CASE EndBundle(t)
    <3>1. at' \in [Threads -> Doing]
      <4>1. /\ \A n \in Scopes : [Ended(at[t]) EXCEPT !.saved = n] \in Doing
             /\ at[t].saved \in Scopes
        BY <2>14, EndedOf DEF Doing
      <4>2. QED
        BY <2>14, <4>1, Members DEF EndBundle
    <3>2. local' \in [Threads -> Locals]
      BY <2>14, Members DEF EndBundle, Unpin, Locals, Doing, pool
    <3>3. QED
      BY <2>14, <3>1, <3>2, Members DEF Typed, EndBundle, Unpin, pool
  <2>15. CASE BodyFails(t)
    <3>1. at' \in [Threads -> Doing]
      BY <2>15, FinishedIs DEF BodyFails, Unpin, Doing, pool
    <3>2. local' \in [Threads -> Locals]
      BY <2>15, Members DEF BodyFails, Unpin, Locals, Doing, pool
    <3>3. QED
      BY <2>15, <3>1, <3>2, Members DEF Typed, BodyFails, Unpin, pool
  <2>16. CASE Close(t)
    <3>1. at' \in [Threads -> Doing]
      <4>1. CASE at[t].task = "restore"
        <5>1. NoHandle \in Handle /\ "lock" \in Stage
          BY <2>16, <4>1, InStage, Members
        <5>2. QED
          BY <2>16, <4>1, <5>1 DEF Close, Doing
      <4>2. CASE at[t].task # "restore"
        BY <2>16, <4>2, FinishedIs DEF Close
      <4>3. QED
        BY <2>16, <4>1, <4>2 DEF Close
    <3>2. local' \in [Threads -> Locals]
      BY <2>16, CloseAllIs DEF Close, Locals, Doing, pool
    <3>3. QED
      BY <2>16, <3>1, <3>2, CloseAllIs DEF Typed, Close, pool
  <2>17. CASE Lock(t)
    <3>1. at' \in [Threads -> Doing]
      BY <2>17, InStage DEF Lock, Go, Doing, pool
    <3>2. local' \in [Threads -> Locals]
      BY <2>17 DEF Lock, Go, Locals, Doing, pool
    <3>3. QED
      BY <2>17, <3>1, <3>2 DEF Typed, Lock, Go, pool
  <2>18. CASE CloseAgain(t)
    <3>1. at' \in [Threads -> Doing]
      BY <2>18, InStage DEF CloseAgain, Go, Doing, pool
    <3>2. local' \in [Threads -> Locals]
      BY <2>18, CloseAllIs DEF CloseAgain, Go, Locals, Doing, pool
    <3>3. QED
      BY <2>18, <3>1, <3>2, CloseAllIs DEF Typed, CloseAgain, Go, pool
  <2>19. CASE Replace(t)
    <3>1. at' \in [Threads -> Doing]
      BY <2>19, FinishedIs DEF Replace, Doing, pool
    <3>2. local' \in [Threads -> Locals]
      BY <2>19 DEF Replace, Locals, Doing, pool
    <3>3. QED
      BY <2>19, <3>1, <3>2 DEF Typed, Replace, pool
  <2>20. QED
    BY <1>3, <2>1, <2>2, <2>3, <2>4, <2>5, <2>6, <2>7, <2>8, <2>9, <2>10,
       <2>11, <2>12, <2>13, <2>14, <2>15, <2>16, <2>17, <2>18, <2>19 DEF ThreadStep
<1>4. CASE UNCHANGED poolVars
  BY <1>4 DEF poolVars, pool, Typed
<1>5. QED
  BY <1>1, <1>2, <1>3, <1>4 DEF PoolNext

----------------------------------------------------------------------------
(* What each step does, field by field.                                    *)

Becomes(t, task, pc, held, pinned, wrote, saved) ==
    /\ at'[t].task = task /\ at'[t].pc = pc /\ at'[t].held = held
    /\ at'[t].pinned = pinned /\ at'[t].wrote = wrote /\ at'[t].saved = saved

\* Only the program counter and perhaps the handle change.
Reaches(t, pc, held) ==
    Becomes(t, at[t].task, pc, held, at[t].pinned, at[t].wrote, at[t].saved)
GoesTo(t, pc) == Reaches(t, pc, at[t].held)
Starts(t, task, pc, pinned) == Becomes(t, task, pc, NoHandle, pinned, 0, 0)
Ends(t, saved) ==
    Becomes(t, IF at[t].task = "bundle" THEN "bundle" ELSE "none", "idle", NoHandle,
            at[t].pinned, 0, saved)
HasRaised(t) ==
    \/ at[t].task \in {"shutdown", "restore"} /\ GoesTo(t, "close")
    \/ at[t].task \notin {"shutdown", "restore"} /\ Ends(t, at[t].saved)

Has(t, conn, bundle) == local'[t].conn = conn /\ local'[t].bundle = bundle

LEMMA GiveEffect ==
  ASSUME Typed, NEW t \in Threads, NEW task, NEW pc, Give(t, task, pc)
  PROVE  Starts(t, task, pc, FALSE)
BY DEF Give, Typed, Starts, Becomes, Idle

LEMMA GoEffect ==
  ASSUME Typed, NEW t \in Threads, NEW pc, Go(t, pc)
  PROVE  GoesTo(t, pc)
BY DEF Go, Typed, Doing, GoesTo, Reaches, Becomes

LEMMA GoWithEffect ==
  ASSUME Typed, NEW t \in Threads, NEW h, GoWith(t, h)
  PROVE  Reaches(t, "use", h)
BY DEF GoWith, Typed, Doing, Reaches, Becomes

LEMMA FinishedEffect ==
  ASSUME Typed, NEW t \in Threads, Finished(t)
  PROVE  Ends(t, at[t].saved)
<1>1. at[t] \in Doing
  BY DEF Typed
<1>2. QED
  BY <1>1, FinishedIs, EndedIs DEF Ends, Becomes

LEMMA RaiseEffect ==
  ASSUME Typed, NEW t \in Threads, Raise(t)
  PROVE  HasRaised(t)
<1>1. at[t] \in Doing
  BY DEF Typed
<1>2. CASE at[t].task \in {"shutdown", "restore"}
  BY <1>1, <1>2, RaiseIs, ZenonT(60) DEF HasRaised, GoesTo, Reaches, Becomes, Doing
<1>3. CASE at[t].task \notin {"shutdown", "restore"}
  BY <1>1, <1>3, RaiseIs, EndedIs DEF HasRaised, Ends, Becomes
<1>4. QED
  BY <1>2, <1>3

LEMMA BundleEffect ==
  ASSUME Typed, NEW t \in Threads, Bundle(t)
  PROVE  Starts(t, "bundle", "check", ~ (legacy /\ t # Main))
BY DEF Bundle, Typed, Starts, Becomes, Idle

LEMMA CheckEffect ==
  ASSUME Typed, NEW t \in Threads, Check(t)
  PROVE  \/ lockout /\ HasRaised(t)
         \/ ~ lockout /\ GoesTo(t, IF t = Main THEN "get" ELSE "look")
<1>1. CASE lockout
  BY <1>1, RaiseEffect DEF Check
<1>2. CASE ~ lockout
  BY <1>2 DEF Check, Typed, Doing, GoesTo, Reaches, Becomes
<1>3. QED
  BY <1>1, <1>2

LEMMA TrackEffect ==
  ASSUME Typed, NEW t \in Threads, Track(t)
  PROVE  \/ /\ bgConns' = bgConns \cup {local[t].conn} /\ Reaches(t, "use", local[t].conn)
            /\ open' = open /\ local' = local
         \/ /\ open' = open \ {local[t].conn} /\ Has(t, NoHandle, local[t].bundle)
            /\ HasRaised(t) \/ GoesTo(t, "look")
            /\ bgConns' = bgConns
<1>1. CASE local[t].label = epoch
  BY <1>1, GoWithEffect DEF Track
<1>2. CASE local[t].label # epoch
  <2>1. Has(t, NoHandle, local[t].bundle)
    BY <1>2 DEF Track, Has, Typed, Locals
  <2>2. CASE at[t].tries + 1 = Attempts
    BY <1>2, <2>1, <2>2, RaiseEffect DEF Track
  <2>3. CASE at[t].tries + 1 # Attempts
    <3>1. at' = [at EXCEPT ![t].pc = "look", ![t].tries = at[t].tries + 1]
      BY <1>2, <2>3 DEF Track
    <3>2. GoesTo(t, "look")
      BY <3>1 DEF Typed, Doing, GoesTo, Reaches, Becomes
    <3>3. QED
      BY <1>2, <2>1, <3>2 DEF Track
  <2>4. QED
    BY <2>2, <2>3
<1>3. QED
  BY <1>1, <1>2

LEMMA ConnEffect ==
  ASSUME Typed, NEW t \in Threads, NEW h, local' = [local EXCEPT ![t].conn = h]
  PROVE  Has(t, h, local[t].bundle)
BY DEF Typed, Locals, Has

LEMMA LabelEffect ==
  ASSUME Typed, NEW t \in Threads, Label(t)
  PROVE  Has(t, local[t].conn, local[t].bundle) /\ GoesTo(t, "track")
BY GoEffect DEF Label, Typed, Locals, Has

LEMMA PinEffect ==
  ASSUME Typed, NEW t \in Threads, Pin(t)
  PROVE  /\ GoesTo(t, "body")
         /\ Has(t, local[t].conn, IF at[t].pinned THEN at[t].held ELSE local[t].bundle)
<1>1. GoesTo(t, "body")
  BY GoEffect DEF Pin
<1>2. Has(t, local[t].conn, IF at[t].pinned THEN at[t].held ELSE local[t].bundle)
  BY DEF Pin, Typed, Locals, Has
<1>3. QED
  BY <1>1, <1>2

LEMMA UnpinEffect ==
  ASSUME Typed, NEW t \in Threads, Unpin(t)
  PROVE  Has(t, local[t].conn, NoHandle)
BY DEF Unpin, Typed, Locals, Has

LEMMA NestedEffect ==
  ASSUME Typed, NEW t \in Threads, Nested(t)
  PROVE  /\ at[t].pc = "body"
         /\ \E pc \in {"body", "check"} :
              /\ pc = "body" <=> at[t].pinned
              /\ Becomes(t, at[t].task, pc, at[t].held, at[t].pinned, at[t].wrote + 1, at[t].saved)
<1>1. CASE at[t].pinned
  <2>1. at' = [at EXCEPT ![t].wrote = at[t].wrote + 1]
    BY <1>1 DEF Nested
  <2>2. Becomes(t, at[t].task, "body", at[t].held, at[t].pinned, at[t].wrote + 1, at[t].saved)
    BY <2>1 DEF Nested, Typed, Doing, Becomes
  <2>3. QED
    BY <1>1, <2>2 DEF Nested
<1>2. CASE ~ at[t].pinned
  <2>1. at' = [at EXCEPT ![t].wrote = at[t].wrote + 1, ![t].pc = "check"]
    BY <1>2 DEF Nested
  <2>2. Becomes(t, at[t].task, "check", at[t].held, at[t].pinned, at[t].wrote + 1, at[t].saved)
    BY <2>1 DEF Typed, Doing, Becomes
  <2>3. QED
    BY <1>2, <2>2 DEF Nested
<1>3. QED
  BY <1>1, <1>2

LEMMA NestedCommitEffect ==
  ASSUME Typed, NEW t \in Threads, NestedCommit(t)
  PROVE  \/ Becomes(t, at[t].task, "body", at[t].held, at[t].pinned, at[t].wrote, at[t].saved + 1)
         \/ HasRaised(t)
<1>1. CASE at[t].held \in open
  <2>1. at' = [at EXCEPT ![t].pc = "body", ![t].saved = at[t].saved + 1]
    BY <1>1 DEF NestedCommit
  <2>2. QED
    BY <2>1 DEF Typed, Doing, Becomes
<1>2. CASE at[t].held \notin open
  BY <1>2, RaiseEffect DEF NestedCommit
<1>3. QED
  BY <1>1, <1>2

LEMMA EndBundleEffect ==
  ASSUME Typed, NEW t \in Threads, EndBundle(t)
  PROVE  /\ Has(t, local[t].conn, NoHandle)
         /\ Ends(t, at[t].saved) \/ (at[t].pinned /\ Ends(t, Writes))
<1>1. at[t] \in Doing /\ Ended(at[t]) \in Doing
  BY EndedIs DEF Typed
<1>2. PICK n \in Scopes : /\ at' = [at EXCEPT ![t] = [Ended(at[t]) EXCEPT !.saved = n]]
                          /\ n = at[t].saved \/ (at[t].pinned /\ n = Writes)
  <2>1. CASE at[t].pinned /\ local[t].bundle \in open
    BY <2>1, Members DEF EndBundle
  <2>2. CASE ~ (at[t].pinned /\ local[t].bundle \in open)
    BY <2>2, <1>1 DEF EndBundle, Doing
  <2>3. QED
    BY <2>1, <2>2
<1>3. at'[t] = [Ended(at[t]) EXCEPT !.saved = n] /\ \A u \in Threads : u # t => at'[u] = at[u]
  BY <1>2 DEF Typed
<1>4. Ends(t, n)
  BY <1>1, <1>3, EndedIs DEF Ends, Becomes, Doing
<1>5. QED
  BY <1>2, <1>4, UnpinEffect DEF EndBundle

LEMMA CloseAllEffect ==
  ASSUME Typed, NEW t \in Threads, CloseAll(t)
  PROVE  /\ open' = open \ (bgConns \cup {pooled})
         /\ pooled' = NoHandle /\ bgConns' = {}
         /\ Has(t, NoHandle, NoHandle)
BY DEF CloseAll, Typed, Locals, Has

LEMMA CloseEffect ==
  ASSUME Typed, NEW t \in Threads, Close(t)
  PROVE  \/ at[t].task = "restore" /\ Reaches(t, "lock", NoHandle)
         \/ at[t].task # "restore" /\ Ends(t, at[t].saved)
<1>1. CASE at[t].task = "restore"
  BY <1>1 DEF Close, Typed, Doing, Reaches, Becomes
<1>2. CASE at[t].task # "restore"
  BY <1>2, FinishedEffect DEF Close
<1>3. QED
  BY <1>1, <1>2

----------------------------------------------------------------------------
(* What a step of t must keep, so that the invariant is kept.              *)

Others(t) == \A u \in Threads : u # t => at'[u] = at[u] /\ local'[u] = local[u]

LEMMA RolesKept ==
  ASSUME Roles, NEW t \in Threads, Others(t), RolesOf(t)'
  PROVE  Roles'
<1> SUFFICES ASSUME NEW u \in Threads PROVE RolesOf(u)'
  BY DEF Roles
<1>1. CASE u = t
  BY <1>1
<1>2. CASE u # t
  BY <1>2 DEF Roles, RolesOf, Others
<1>3. QED
  BY <1>1, <1>2

LEMMA CommitsKept ==
  ASSUME Commits, NEW t \in Threads, Others(t), CommitsOf(t)'
  PROVE  Commits'
<1> SUFFICES ASSUME NEW u \in Threads PROVE CommitsOf(u)'
  BY DEF Commits
<1>1. CASE u = t
  BY <1>1
<1>2. CASE u # t
  BY <1>2 DEF Commits, CommitsOf, Others
<1>3. QED
  BY <1>1, <1>2

Opening(t, h) == t \in Background /\ at[t].pc \in {"label", "track"} /\ local[t].conn = h

LEMMA TrackedKept ==
  ASSUME HandlesTracked, NEW t \in Threads, Others(t),
         \A h \in open' :
            \/ /\ h \in open
               /\ h = pooled => h = pooled'
               /\ h \in bgConns => h \in bgConns'
               /\ Opening(t, h) => Opening(t, h)' \/ h \in bgConns'
            \/ h = pooled' \/ Opening(t, h)'
  PROVE  HandlesTracked'
<1> SUFFICES ASSUME NEW h \in open'
             PROVE  h = pooled' \/ h \in bgConns' \/ \E u \in Background : Opening(u, h)'
  BY DEF HandlesTracked, Opening
<1>1. CASE h \in open /\ h \in {pooled} \cup bgConns
  BY <1>1 DEF Opening
<1>2. ASSUME h \in open, NEW u \in Background, Opening(u, h)
      PROVE  h = pooled' \/ h \in bgConns' \/ \E v \in Background : Opening(v, h)'
  <2>1. CASE u = t
    BY <1>2, <2>1
  <2>2. CASE u # t
    BY <1>2, <2>2, Members DEF Opening, Others
  <2>3. QED
    BY <2>1, <2>2
<1>3. CASE h = pooled' \/ Opening(t, h)'
  BY <1>3 DEF Opening
<1>4. CASE h \in open
  BY <1>1, <1>2, <1>4 DEF HandlesTracked, Opening
<1>5. QED
  BY <1>3, <1>4

LEMMA ApartKept ==
  ASSUME Apart, NEW t \in Threads, Others(t), pooled' \in {pooled, NoHandle} \/ t = Main,
         \A h \in Handles : Owned(t, h)' => Owned(t, h) \/ \A u \in Threads : ~ Owned(u, h)
  PROVE  Apart'
<1>1. ASSUME NEW u \in Threads, u # t, NEW h \in Handles, Owned(u, h)'
      PROVE  Owned(u, h)
  BY <1>1, Members DEF Owned, Others
<1>2. SUFFICES ASSUME NEW u \in Threads, NEW v \in Threads, NEW h \in Handles,
                      Owned(u, h)', Owned(v, h)', u # v
               PROVE  FALSE
  BY DEF Apart
<1>3. QED
  BY <1>1, <1>2 DEF Apart

LEMMA OneRestoreKept ==
  ASSUME OneRestore, NEW t \in Threads, Others(t),
         at'[t].task = "restore" =>
            at[t].task = "restore" \/ \A u \in Threads : at[u].task # "restore"
  PROVE  OneRestore'
<1>1. SUFFICES ASSUME NEW u \in Threads, NEW v \in Threads,
                      at'[u].task = "restore", at'[v].task = "restore", u # v
               PROVE  FALSE
  BY DEF OneRestore
<1>2. QED
  BY <1>1 DEF OneRestore, Others

LEMMA LockedOutKept ==
  ASSUME LockedOut, NEW t \in Threads, Others(t), UNCHANGED <<lockout, raced>>,
         at'[t].pc \in {"close again", "replace"} => at[t].pc \in {"close again", "replace"},
         Acquiring(t)' => Acquiring(t) \/ ~ lockout
  PROVE  LockedOut'
<1>1. SUFFICES ASSUME NEW u \in Threads, at'[u].pc \in {"close again", "replace"}
               PROVE  lockout' /\ \A v \in Threads : Acquiring(v)' => v \in raced'
  BY DEF LockedOut
<1>2. at[u].pc \in {"close again", "replace"}
  BY <1>1 DEF Others
<1>3. lockout /\ \A v \in Threads : Acquiring(v) => v \in raced
  BY <1>2 DEF LockedOut
<1>4. ASSUME NEW v \in Threads, Acquiring(v)' PROVE v \in raced
  BY <1>3, <1>4 DEF Acquiring, Others
<1>5. QED
  BY <1>3, <1>4

Replacing == \E t \in Threads : at[t].pc = "replace"

LEMMA RacedKept ==
  ASSUME OnlyRacedOpen, NEW t \in Threads, Others(t), pooled' = pooled \/ t = Main,
         raced' = raced, raced \subseteq Threads,
         at'[t].pc = "replace" => at[t].pc = "replace",
         \A h \in open' : \/ h \in open /\ (Uses(t, h) => Uses(t, h)')
                          \/ Uses(t, h)' /\ (Replacing => t \in raced)
  PROVE  OnlyRacedOpen'
<1>1. SUFFICES ASSUME NEW w \in Threads, at'[w].pc = "replace", NEW h \in open'
               PROVE  \E u \in raced : Uses(u, h)'
  BY DEF OnlyRacedOpen
<1>2. at[w].pc = "replace"
  BY <1>1 DEF Others
<1>3. CASE h \in open /\ (Uses(t, h) => Uses(t, h)')
  <2>1. PICK u \in raced : Uses(u, h)
    BY <1>2, <1>3 DEF OnlyRacedOpen
  <2>2. CASE u = t
    BY <1>3, <2>1, <2>2
  <2>3. CASE u # t
    BY <2>1, <2>3, Members DEF Uses, Others
  <2>4. QED
    BY <2>2, <2>3
<1>4. CASE Uses(t, h)' /\ (Replacing => t \in raced)
  BY <1>2, <1>4 DEF Replacing
<1>5. QED
  BY <1>1, <1>3, <1>4


\* What CloseAll leaves open is being acquired.
LEMMA LeftRaced ==
  ASSUME HandlesTracked, LockedOut, NEW t \in Threads, Others(t),
         at[t].pc \notin {"label", "track"}, raced' = raced,
         NEW w \in Threads, at[w].pc \in {"close again", "replace"},
         open' = open \ (bgConns \cup {pooled})
  PROVE  OnlyRacedOpen'
<1>1. SUFFICES ASSUME NEW h \in open' PROVE \E u \in raced' : Uses(u, h)'
  BY DEF OnlyRacedOpen
<1>2. PICK u \in Background : at[u].pc \in {"label", "track"} /\ local[u].conn = h
  BY <1>1 DEF HandlesTracked
<1>3. u \in raced
  BY <1>2, Members DEF LockedOut, Acquiring
<1>4. u # t /\ Uses(u, h)'
  BY <1>2, Members DEF Uses, Others
<1>5. QED
  BY <1>3, <1>4

\* A restore that is past its first close has no other beside it.
LEMMA LoneRestore ==
  ASSUME Roles, OneRestore, NEW t \in Threads, at[t].task = "restore",
         NEW u \in Threads, at[u].pc \in {"close again", "replace"}
  PROVE  u = t
BY DEF Roles, RolesOf, OneRestore

----------------------------------------------------------------------------
(* Each step keeps the invariant.                                          *)

LEMMA ShutdownKeeps ==
  ASSUME Typed, Safe, Shutdown
  PROVE  Safe'
<1>1. /\ at[Main].pc = "idle" /\ UNCHANGED <<lockout, pooled, bgConns, open, local, raced>>
      /\ Starts(Main, "shutdown", "check", FALSE) \/ Starts(Main, "shutdown", "close", FALSE)
  BY GiveEffect, Members DEF Shutdown, Give, pool
<1>2. Others(Main)
  BY Members DEF Others, Shutdown, Give, pool, Typed
<1>3. /\ RolesOf(Main) /\ CommitsOf(Main) /\ Main \in Threads /\ raced \subseteq Threads
      /\ at[Main].task \in Tasks /\ at[Main].wrote \in Nat /\ at[Main].saved \in Nat
      /\ NoHandle \notin Handles /\ NoHandle \notin open /\ Writes \in Nat
  BY Members, PoolAssumption DEF Safe, Roles, Commits, Typed, Doing, Scopes
<1>4. Roles'
  <2>1. RolesOf(Main)'
    BY <1>1, <1>3 DEF RolesOf, Tasks, Starts, Becomes
  <2>2. QED
    BY <1>2, <1>3, <2>1, RolesKept DEF Safe
<1>5. Commits'
  <2>1. CommitsOf(Main)'
    BY <1>1, <1>3 DEF CommitsOf, Starts, Becomes
  <2>2. QED
    BY <1>2, <1>3, <2>1, CommitsKept DEF Safe
<1>6. HandlesTracked'
  <2>1. \A h \in open' :
            \/ /\ h \in open
               /\ h = pooled => h = pooled'
               /\ h \in bgConns => h \in bgConns'
               /\ Opening(Main, h) => Opening(Main, h)' \/ h \in bgConns'
            \/ h = pooled' \/ Opening(Main, h)'
    BY <1>1, <1>3 DEF Opening, RolesOf, Starts, Becomes
  <2>2. QED
    BY <1>2, <1>3, <2>1, TrackedKept DEF Safe
<1>7. Apart'
  <2>1. /\ pooled' \in {pooled, NoHandle} \/ Main = Main
        /\ \A h \in Handles : Owned(Main, h)' => Owned(Main, h) \/ \A u \in Threads : ~ Owned(u, h)
    BY <1>1, <1>3 DEF Owned, Starts, Becomes
  <2>2. QED
    BY <1>2, <1>3, <2>1, ApartKept DEF Safe
<1>8. OneRestore'
  <2>1. at'[Main].task = "restore" =>
            at[Main].task = "restore" \/ \A u \in Threads : at[u].task # "restore"
    BY <1>1, <1>3 DEF RolesOf, Starts, Becomes
  <2>2. QED
    BY <1>2, <1>3, <2>1, OneRestoreKept DEF Safe
<1>9. LockedOut'
  <2>1. /\ UNCHANGED <<lockout, raced>>
        /\ at'[Main].pc \in {"close again", "replace"} => at[Main].pc \in {"close again", "replace"}
        /\ Acquiring(Main)' => Acquiring(Main) \/ ~ lockout
    BY <1>1, <1>3 DEF Acquiring, Starts, Becomes
  <2>2. QED
    BY <1>2, <1>3, <2>1, LockedOutKept DEF Safe
<1>10. OnlyRacedOpen'
  <2>1. /\ pooled' = pooled \/ Main = Main
        /\ raced' = raced /\ raced \subseteq Threads
        /\ at'[Main].pc = "replace" => at[Main].pc = "replace"
        /\ \A h \in open' : \/ h \in open /\ (Uses(Main, h) => Uses(Main, h)')
                            \/ Uses(Main, h)' /\ (Replacing => Main \in raced)
    BY <1>1, <1>3 DEF Uses, Replacing, Acquiring, LockedOut, Starts, Becomes
  <2>2. QED
    BY <1>2, <1>3, <2>1, RacedKept DEF Safe
<1>11. QED
  BY <1>4, <1>5, <1>6, <1>7, <1>8, <1>9, <1>10 DEF Safe

LEMMA MainGetKeeps ==
  ASSUME Typed, Safe, MainGet
  PROVE  Safe'
<1>1. /\ at[Main].pc = "get" /\ UNCHANGED <<lockout, bgConns, local, raced>>
      /\ \/ pooled \in open /\ Reaches(Main, "use", pooled) /\ UNCHANGED <<pooled, open>>
         \/ /\ pooled \notin open /\ NewHandle \in Handles /\ NewHandle \notin Referred
            /\ pooled' = NewHandle /\ open' = open \cup {NewHandle} /\ Reaches(Main, "use", NewHandle)
         \/ pooled \notin open /\ pooled' = NoHandle /\ open' = open /\ HasRaised(Main)
  BY GoWithEffect, RaiseEffect, FreshIsNew, Members DEF MainGet
<1>2. Others(Main)
  BY Members DEF Others, MainGet, GoWith, Raise, Typed, pool
<1>3. /\ RolesOf(Main) /\ CommitsOf(Main) /\ Main \in Threads /\ raced \subseteq Threads
      /\ at[Main].task \in Tasks /\ at[Main].wrote \in Nat /\ at[Main].saved \in Nat
      /\ NoHandle \notin Handles /\ NoHandle \notin open /\ Writes \in Nat
  BY Members, PoolAssumption DEF Safe, Roles, Commits, Typed, Doing, Scopes
<1>4. Roles'
  <2>1. RolesOf(Main)'
    BY <1>1, <1>3 DEF RolesOf, Tasks, Ends, HasRaised, GoesTo, Reaches, Becomes
  <2>2. QED
    BY <1>2, <1>3, <2>1, RolesKept DEF Safe
<1>5. Commits'
  <2>1. CommitsOf(Main)'
    BY <1>1, <1>3 DEF CommitsOf, Ends, HasRaised, GoesTo, Reaches, Becomes
  <2>2. QED
    BY <1>2, <1>3, <2>1, CommitsKept DEF Safe
<1>6. HandlesTracked'
  <2>1. \A h \in open' :
            \/ /\ h \in open
               /\ h = pooled => h = pooled'
               /\ h \in bgConns => h \in bgConns'
               /\ Opening(Main, h) => Opening(Main, h)' \/ h \in bgConns'
            \/ h = pooled' \/ Opening(Main, h)'
    BY <1>1, <1>3 DEF Opening, RolesOf, Ends, HasRaised, GoesTo, Reaches, Becomes
  <2>2. QED
    BY <1>2, <1>3, <2>1, TrackedKept DEF Safe
<1>7. Apart'
  <2>1. /\ pooled' \in {pooled, NoHandle} \/ Main = Main
        /\ \A h \in Handles : Owned(Main, h)' => Owned(Main, h) \/ \A u \in Threads : ~ Owned(u, h)
    BY <1>1, <1>3 DEF Owned, Referred, Ends, HasRaised, GoesTo, Reaches, Becomes
  <2>2. QED
    BY <1>2, <1>3, <2>1, ApartKept DEF Safe
<1>8. OneRestore'
  <2>1. at'[Main].task = "restore" =>
            at[Main].task = "restore" \/ \A u \in Threads : at[u].task # "restore"
    BY <1>1, <1>3 DEF RolesOf, Ends, HasRaised, GoesTo, Reaches, Becomes
  <2>2. QED
    BY <1>2, <1>3, <2>1, OneRestoreKept DEF Safe
<1>9. LockedOut'
  <2>1. /\ UNCHANGED <<lockout, raced>>
        /\ at'[Main].pc \in {"close again", "replace"} => at[Main].pc \in {"close again", "replace"}
        /\ Acquiring(Main)' => Acquiring(Main) \/ ~ lockout
    BY <1>1, <1>3 DEF Acquiring, Ends, HasRaised, GoesTo, Reaches, Becomes
  <2>2. QED
    BY <1>2, <1>3, <2>1, LockedOutKept DEF Safe
<1>10. OnlyRacedOpen'
  <2>1. /\ pooled' = pooled \/ Main = Main
        /\ raced' = raced /\ raced \subseteq Threads
        /\ at'[Main].pc = "replace" => at[Main].pc = "replace"
        /\ \A h \in open' : \/ h \in open /\ (Uses(Main, h) => Uses(Main, h)')
                            \/ Uses(Main, h)' /\ (Replacing => Main \in raced)
    BY <1>1, <1>3 DEF Safe, Uses, Replacing, Acquiring, LockedOut, Ends, HasRaised, GoesTo, Reaches,
       Becomes
  <2>2. QED
    BY <1>2, <1>3, <2>1, RacedKept DEF Safe
<1>11. QED
  BY <1>4, <1>5, <1>6, <1>7, <1>8, <1>9, <1>10 DEF Safe

LEMMA SaveKeeps ==
  ASSUME Typed, Safe, NEW t \in Threads, Save(t)
  PROVE  Safe'
<1>1. /\ at[t].pc = "idle" /\ UNCHANGED <<lockout, pooled, bgConns, open, local, raced>>
      /\ Starts(t, "save", "check", FALSE)
  BY GiveEffect DEF Save, Give, pool
<1>2. Others(t)
  BY Members DEF Others, Save, Give, pool, Typed
<1>3. /\ RolesOf(t) /\ CommitsOf(t) /\ t \in Threads /\ raced \subseteq Threads
      /\ at[t].task \in Tasks /\ at[t].wrote \in Nat /\ at[t].saved \in Nat
      /\ NoHandle \notin Handles /\ NoHandle \notin open /\ Writes \in Nat
  BY Members, PoolAssumption DEF Safe, Roles, Commits, Typed, Doing, Scopes
<1>4. Roles'
  <2>1. RolesOf(t)'
    BY <1>1, <1>3 DEF RolesOf, Tasks, Starts, Becomes
  <2>2. QED
    BY <1>2, <1>3, <2>1, RolesKept DEF Safe
<1>5. Commits'
  <2>1. CommitsOf(t)'
    BY <1>1, <1>3 DEF CommitsOf, Starts, Becomes
  <2>2. QED
    BY <1>2, <1>3, <2>1, CommitsKept DEF Safe
<1>6. HandlesTracked'
  <2>1. \A h \in open' :
            \/ /\ h \in open
               /\ h = pooled => h = pooled'
               /\ h \in bgConns => h \in bgConns'
               /\ Opening(t, h) => Opening(t, h)' \/ h \in bgConns'
            \/ h = pooled' \/ Opening(t, h)'
    BY <1>1, <1>3 DEF Opening, RolesOf, Starts, Becomes
  <2>2. QED
    BY <1>2, <1>3, <2>1, TrackedKept DEF Safe
<1>7. Apart'
  <2>1. /\ pooled' \in {pooled, NoHandle} \/ t = Main
        /\ \A h \in Handles : Owned(t, h)' => Owned(t, h) \/ \A u \in Threads : ~ Owned(u, h)
    BY <1>1, <1>3 DEF Owned, Starts, Becomes
  <2>2. QED
    BY <1>2, <1>3, <2>1, ApartKept DEF Safe
<1>8. OneRestore'
  <2>1. at'[t].task = "restore" =>
            at[t].task = "restore" \/ \A u \in Threads : at[u].task # "restore"
    BY <1>1, <1>3 DEF RolesOf, Starts, Becomes
  <2>2. QED
    BY <1>2, <1>3, <2>1, OneRestoreKept DEF Safe
<1>9. LockedOut'
  <2>1. /\ UNCHANGED <<lockout, raced>>
        /\ at'[t].pc \in {"close again", "replace"} => at[t].pc \in {"close again", "replace"}
        /\ Acquiring(t)' => Acquiring(t) \/ ~ lockout
    BY <1>1, <1>3 DEF Acquiring, Starts, Becomes
  <2>2. QED
    BY <1>2, <1>3, <2>1, LockedOutKept DEF Safe
<1>10. OnlyRacedOpen'
  <2>1. /\ pooled' = pooled \/ t = Main
        /\ raced' = raced /\ raced \subseteq Threads
        /\ at'[t].pc = "replace" => at[t].pc = "replace"
        /\ \A h \in open' : \/ h \in open /\ (Uses(t, h) => Uses(t, h)')
                            \/ Uses(t, h)' /\ (Replacing => t \in raced)
    BY <1>1, <1>3 DEF Uses, Replacing, Acquiring, LockedOut, Starts, Becomes
  <2>2. QED
    BY <1>2, <1>3, <2>1, RacedKept DEF Safe
<1>11. QED
  BY <1>4, <1>5, <1>6, <1>7, <1>8, <1>9, <1>10 DEF Safe

LEMMA BundleKeeps ==
  ASSUME Typed, Safe, NEW t \in Threads, Bundle(t)
  PROVE  Safe'
<1>1. /\ at[t].pc = "idle" /\ UNCHANGED <<lockout, pooled, bgConns, open, local, raced>>
      /\ \E b \in BOOLEAN : Starts(t, "bundle", "check", b)
  BY BundleEffect DEF Bundle, pool
<1>2. Others(t)
  BY Members DEF Others, Bundle, pool, Typed
<1>3. /\ RolesOf(t) /\ CommitsOf(t) /\ t \in Threads /\ raced \subseteq Threads
      /\ at[t].task \in Tasks /\ at[t].wrote \in Nat /\ at[t].saved \in Nat
      /\ NoHandle \notin Handles /\ NoHandle \notin open /\ Writes \in Nat
  BY Members, PoolAssumption DEF Safe, Roles, Commits, Typed, Doing, Scopes
<1>4. Roles'
  <2>1. RolesOf(t)'
    BY <1>1, <1>3 DEF RolesOf, Tasks, Starts, Becomes
  <2>2. QED
    BY <1>2, <1>3, <2>1, RolesKept DEF Safe
<1>5. Commits'
  <2>1. CommitsOf(t)'
    BY <1>1, <1>3 DEF CommitsOf, Starts, Becomes
  <2>2. QED
    BY <1>2, <1>3, <2>1, CommitsKept DEF Safe
<1>6. HandlesTracked'
  <2>1. \A h \in open' :
            \/ /\ h \in open
               /\ h = pooled => h = pooled'
               /\ h \in bgConns => h \in bgConns'
               /\ Opening(t, h) => Opening(t, h)' \/ h \in bgConns'
            \/ h = pooled' \/ Opening(t, h)'
    BY <1>1, <1>3 DEF Opening, RolesOf, Starts, Becomes
  <2>2. QED
    BY <1>2, <1>3, <2>1, TrackedKept DEF Safe
<1>7. Apart'
  <2>1. /\ pooled' \in {pooled, NoHandle} \/ t = Main
        /\ \A h \in Handles : Owned(t, h)' => Owned(t, h) \/ \A u \in Threads : ~ Owned(u, h)
    BY <1>1, <1>3 DEF Owned, Starts, Becomes
  <2>2. QED
    BY <1>2, <1>3, <2>1, ApartKept DEF Safe
<1>8. OneRestore'
  <2>1. at'[t].task = "restore" =>
            at[t].task = "restore" \/ \A u \in Threads : at[u].task # "restore"
    BY <1>1, <1>3 DEF RolesOf, Starts, Becomes
  <2>2. QED
    BY <1>2, <1>3, <2>1, OneRestoreKept DEF Safe
<1>9. LockedOut'
  <2>1. /\ UNCHANGED <<lockout, raced>>
        /\ at'[t].pc \in {"close again", "replace"} => at[t].pc \in {"close again", "replace"}
        /\ Acquiring(t)' => Acquiring(t) \/ ~ lockout
    BY <1>1, <1>3 DEF Acquiring, Starts, Becomes
  <2>2. QED
    BY <1>2, <1>3, <2>1, LockedOutKept DEF Safe
<1>10. OnlyRacedOpen'
  <2>1. /\ pooled' = pooled \/ t = Main
        /\ raced' = raced /\ raced \subseteq Threads
        /\ at'[t].pc = "replace" => at[t].pc = "replace"
        /\ \A h \in open' : \/ h \in open /\ (Uses(t, h) => Uses(t, h)')
                            \/ Uses(t, h)' /\ (Replacing => t \in raced)
    BY <1>1, <1>3 DEF Uses, Replacing, Acquiring, LockedOut, Starts, Becomes
  <2>2. QED
    BY <1>2, <1>3, <2>1, RacedKept DEF Safe
<1>11. QED
  BY <1>4, <1>5, <1>6, <1>7, <1>8, <1>9, <1>10 DEF Safe

LEMMA RestoreKeeps ==
  ASSUME Typed, Safe, NEW t \in Threads, Restore(t)
  PROVE  Safe'
<1>1. /\ at[t].pc = "idle" /\ UNCHANGED <<lockout, pooled, bgConns, open, local, raced>>
      /\ ~ lockout /\ \A u \in Threads : at[u].pc # "idle" => at[u].task # "restore"
      /\ Starts(t, "restore", "check", FALSE)
  BY GiveEffect DEF Restore, Give, pool
<1>2. Others(t)
  BY Members DEF Others, Restore, Give, pool, Typed
<1>3. /\ RolesOf(t) /\ CommitsOf(t) /\ t \in Threads /\ raced \subseteq Threads
      /\ at[t].task \in Tasks /\ at[t].wrote \in Nat /\ at[t].saved \in Nat
      /\ NoHandle \notin Handles /\ NoHandle \notin open /\ Writes \in Nat
  BY Members, PoolAssumption DEF Safe, Roles, Commits, Typed, Doing, Scopes
<1>4. Roles'
  <2>1. RolesOf(t)'
    BY <1>1, <1>3 DEF RolesOf, Tasks, Starts, Becomes
  <2>2. QED
    BY <1>2, <1>3, <2>1, RolesKept DEF Safe
<1>5. Commits'
  <2>1. CommitsOf(t)'
    BY <1>1, <1>3 DEF CommitsOf, Starts, Becomes
  <2>2. QED
    BY <1>2, <1>3, <2>1, CommitsKept DEF Safe
<1>6. HandlesTracked'
  <2>1. \A h \in open' :
            \/ /\ h \in open
               /\ h = pooled => h = pooled'
               /\ h \in bgConns => h \in bgConns'
               /\ Opening(t, h) => Opening(t, h)' \/ h \in bgConns'
            \/ h = pooled' \/ Opening(t, h)'
    BY <1>1, <1>3 DEF Opening, RolesOf, Starts, Becomes
  <2>2. QED
    BY <1>2, <1>3, <2>1, TrackedKept DEF Safe
<1>7. Apart'
  <2>1. /\ pooled' \in {pooled, NoHandle} \/ t = Main
        /\ \A h \in Handles : Owned(t, h)' => Owned(t, h) \/ \A u \in Threads : ~ Owned(u, h)
    BY <1>1, <1>3 DEF Owned, Starts, Becomes
  <2>2. QED
    BY <1>2, <1>3, <2>1, ApartKept DEF Safe
<1>8. OneRestore'
  <2>1. at'[t].task = "restore" =>
            at[t].task = "restore" \/ \A u \in Threads : at[u].task # "restore"
    BY <1>1, <1>3 DEF Safe, Roles, RolesOf, Starts, Becomes
  <2>2. QED
    BY <1>2, <1>3, <2>1, OneRestoreKept DEF Safe
<1>9. LockedOut'
  <2>1. /\ UNCHANGED <<lockout, raced>>
        /\ at'[t].pc \in {"close again", "replace"} => at[t].pc \in {"close again", "replace"}
        /\ Acquiring(t)' => Acquiring(t) \/ ~ lockout
    BY <1>1, <1>3 DEF Acquiring, Starts, Becomes
  <2>2. QED
    BY <1>2, <1>3, <2>1, LockedOutKept DEF Safe
<1>10. OnlyRacedOpen'
  <2>1. /\ pooled' = pooled \/ t = Main
        /\ raced' = raced /\ raced \subseteq Threads
        /\ at'[t].pc = "replace" => at[t].pc = "replace"
        /\ \A h \in open' : \/ h \in open /\ (Uses(t, h) => Uses(t, h)')
                            \/ Uses(t, h)' /\ (Replacing => t \in raced)
    BY <1>1, <1>3 DEF Uses, Replacing, Acquiring, LockedOut, Starts, Becomes
  <2>2. QED
    BY <1>2, <1>3, <2>1, RacedKept DEF Safe
<1>11. QED
  BY <1>4, <1>5, <1>6, <1>7, <1>8, <1>9, <1>10 DEF Safe

LEMMA CheckKeeps ==
  ASSUME Typed, Safe, NEW t \in Threads, Check(t)
  PROVE  Safe'
<1>1. /\ at[t].pc = "check" /\ UNCHANGED <<lockout, pooled, bgConns, open, local, raced>>
      /\ \/ lockout /\ HasRaised(t)
         \/ ~ lockout /\ t = Main /\ GoesTo(t, "get")
         \/ ~ lockout /\ t # Main /\ GoesTo(t, "look")
  BY CheckEffect DEF Check, pool
<1>2. Others(t)
  BY Members DEF Others, Check, Raise, Typed, pool
<1>3. /\ RolesOf(t) /\ CommitsOf(t) /\ t \in Threads /\ raced \subseteq Threads
      /\ at[t].task \in Tasks /\ at[t].wrote \in Nat /\ at[t].saved \in Nat
      /\ NoHandle \notin Handles /\ NoHandle \notin open /\ Writes \in Nat
  BY Members, PoolAssumption DEF Safe, Roles, Commits, Typed, Doing, Scopes
<1>4. Roles'
  <2>1. RolesOf(t)'
    BY <1>1, <1>3 DEF RolesOf, Tasks, Ends, HasRaised, GoesTo, Reaches, Becomes
  <2>2. QED
    BY <1>2, <1>3, <2>1, RolesKept DEF Safe
<1>5. Commits'
  <2>1. CommitsOf(t)'
    BY <1>1, <1>3 DEF CommitsOf, Ends, HasRaised, GoesTo, Reaches, Becomes
  <2>2. QED
    BY <1>2, <1>3, <2>1, CommitsKept DEF Safe
<1>6. HandlesTracked'
  <2>1. \A h \in open' :
            \/ /\ h \in open
               /\ h = pooled => h = pooled'
               /\ h \in bgConns => h \in bgConns'
               /\ Opening(t, h) => Opening(t, h)' \/ h \in bgConns'
            \/ h = pooled' \/ Opening(t, h)'
    BY <1>1, <1>3 DEF Opening, RolesOf, Ends, HasRaised, GoesTo, Reaches, Becomes
  <2>2. QED
    BY <1>2, <1>3, <2>1, TrackedKept DEF Safe
<1>7. Apart'
  <2>1. /\ pooled' \in {pooled, NoHandle} \/ t = Main
        /\ \A h \in Handles : Owned(t, h)' => Owned(t, h) \/ \A u \in Threads : ~ Owned(u, h)
    BY <1>1, <1>3 DEF Owned, Ends, HasRaised, GoesTo, Reaches, Becomes
  <2>2. QED
    BY <1>2, <1>3, <2>1, ApartKept DEF Safe
<1>8. OneRestore'
  <2>1. at'[t].task = "restore" =>
            at[t].task = "restore" \/ \A u \in Threads : at[u].task # "restore"
    BY <1>1, <1>3 DEF RolesOf, Ends, HasRaised, GoesTo, Reaches, Becomes
  <2>2. QED
    BY <1>2, <1>3, <2>1, OneRestoreKept DEF Safe
<1>9. LockedOut'
  <2>1. /\ UNCHANGED <<lockout, raced>>
        /\ at'[t].pc \in {"close again", "replace"} => at[t].pc \in {"close again", "replace"}
        /\ Acquiring(t)' => Acquiring(t) \/ ~ lockout
    BY <1>1, <1>3 DEF Acquiring, Ends, HasRaised, GoesTo, Reaches, Becomes
  <2>2. QED
    BY <1>2, <1>3, <2>1, LockedOutKept DEF Safe
<1>10. OnlyRacedOpen'
  <2>1. /\ pooled' = pooled \/ t = Main
        /\ raced' = raced /\ raced \subseteq Threads
        /\ at'[t].pc = "replace" => at[t].pc = "replace"
        /\ \A h \in open' : \/ h \in open /\ (Uses(t, h) => Uses(t, h)')
                            \/ Uses(t, h)' /\ (Replacing => t \in raced)
    BY <1>1, <1>3 DEF Uses, Replacing, Acquiring, LockedOut, Ends, HasRaised, GoesTo, Reaches, Becomes
  <2>2. QED
    BY <1>2, <1>3, <2>1, RacedKept DEF Safe
<1>11. QED
  BY <1>4, <1>5, <1>6, <1>7, <1>8, <1>9, <1>10 DEF Safe

LEMMA ReuseKeeps ==
  ASSUME Typed, Safe, NEW t \in Threads, Reuse(t)
  PROVE  Safe'
<1>1. /\ at[t].pc = "look" /\ UNCHANGED <<lockout, pooled, bgConns, open, local, raced>>
      /\ Reaches(t, "use", local[t].conn)
  BY GoWithEffect DEF Reuse, pool
<1>2. Others(t)
  BY Members DEF Others, Reuse, GoWith, Typed, pool
<1>3. /\ RolesOf(t) /\ CommitsOf(t) /\ t \in Threads /\ raced \subseteq Threads
      /\ at[t].task \in Tasks /\ at[t].wrote \in Nat /\ at[t].saved \in Nat
      /\ NoHandle \notin Handles /\ NoHandle \notin open /\ Writes \in Nat
  BY Members, PoolAssumption DEF Safe, Roles, Commits, Typed, Doing, Scopes
<1>4. Roles'
  <2>1. RolesOf(t)'
    BY <1>1, <1>3 DEF RolesOf, Tasks, Reaches, Becomes
  <2>2. QED
    BY <1>2, <1>3, <2>1, RolesKept DEF Safe
<1>5. Commits'
  <2>1. CommitsOf(t)'
    BY <1>1, <1>3 DEF CommitsOf, Reaches, Becomes
  <2>2. QED
    BY <1>2, <1>3, <2>1, CommitsKept DEF Safe
<1>6. HandlesTracked'
  <2>1. \A h \in open' :
            \/ /\ h \in open
               /\ h = pooled => h = pooled'
               /\ h \in bgConns => h \in bgConns'
               /\ Opening(t, h) => Opening(t, h)' \/ h \in bgConns'
            \/ h = pooled' \/ Opening(t, h)'
    BY <1>1, <1>3 DEF Opening, RolesOf, Reaches, Becomes
  <2>2. QED
    BY <1>2, <1>3, <2>1, TrackedKept DEF Safe
<1>7. Apart'
  <2>1. /\ pooled' \in {pooled, NoHandle} \/ t = Main
        /\ \A h \in Handles : Owned(t, h)' => Owned(t, h) \/ \A u \in Threads : ~ Owned(u, h)
    BY <1>1, <1>3 DEF Owned, Reaches, Becomes
  <2>2. QED
    BY <1>2, <1>3, <2>1, ApartKept DEF Safe
<1>8. OneRestore'
  <2>1. at'[t].task = "restore" =>
            at[t].task = "restore" \/ \A u \in Threads : at[u].task # "restore"
    BY <1>1, <1>3 DEF RolesOf, Reaches, Becomes
  <2>2. QED
    BY <1>2, <1>3, <2>1, OneRestoreKept DEF Safe
<1>9. LockedOut'
  <2>1. /\ UNCHANGED <<lockout, raced>>
        /\ at'[t].pc \in {"close again", "replace"} => at[t].pc \in {"close again", "replace"}
        /\ Acquiring(t)' => Acquiring(t) \/ ~ lockout
    BY <1>1, <1>3 DEF Acquiring, Reaches, Becomes
  <2>2. QED
    BY <1>2, <1>3, <2>1, LockedOutKept DEF Safe
<1>10. OnlyRacedOpen'
  <2>1. /\ pooled' = pooled \/ t = Main
        /\ raced' = raced /\ raced \subseteq Threads
        /\ at'[t].pc = "replace" => at[t].pc = "replace"
        /\ \A h \in open' : \/ h \in open /\ (Uses(t, h) => Uses(t, h)')
                            \/ Uses(t, h)' /\ (Replacing => t \in raced)
    BY <1>1, <1>3 DEF Uses, Replacing, Acquiring, LockedOut, Reaches, Becomes
  <2>2. QED
    BY <1>2, <1>3, <2>1, RacedKept DEF Safe
<1>11. QED
  BY <1>4, <1>5, <1>6, <1>7, <1>8, <1>9, <1>10 DEF Safe

LEMMA ForgetKeeps ==
  ASSUME Typed, Safe, NEW t \in Threads, Forget(t)
  PROVE  Safe'
<1>1. /\ at[t].pc = "look" /\ UNCHANGED <<lockout, pooled, raced>>
      /\ open' = open \ {local[t].conn} /\ bgConns' = bgConns \ {local[t].conn}
      /\ GoesTo(t, "connect") /\ Has(t, NoHandle, local[t].bundle)
  BY GoEffect, ConnEffect DEF Forget
<1>2. Others(t)
  BY Members DEF Others, Forget, Go, Typed, pool
<1>3. /\ RolesOf(t) /\ CommitsOf(t) /\ t \in Threads /\ raced \subseteq Threads
      /\ at[t].task \in Tasks /\ at[t].wrote \in Nat /\ at[t].saved \in Nat
      /\ NoHandle \notin Handles /\ NoHandle \notin open /\ Writes \in Nat
  BY Members, PoolAssumption DEF Safe, Roles, Commits, Typed, Doing, Scopes
<1>4. Roles'
  <2>1. RolesOf(t)'
    BY <1>1, <1>3 DEF RolesOf, Tasks, GoesTo, Reaches, Becomes, Has
  <2>2. QED
    BY <1>2, <1>3, <2>1, RolesKept DEF Safe
<1>5. Commits'
  <2>1. CommitsOf(t)'
    BY <1>1, <1>3 DEF CommitsOf, GoesTo, Reaches, Becomes, Has
  <2>2. QED
    BY <1>2, <1>3, <2>1, CommitsKept DEF Safe
<1>6. HandlesTracked'
  <2>1. \A h \in open' :
            \/ /\ h \in open
               /\ h = pooled => h = pooled'
               /\ h \in bgConns => h \in bgConns'
               /\ Opening(t, h) => Opening(t, h)' \/ h \in bgConns'
            \/ h = pooled' \/ Opening(t, h)'
    BY <1>1, <1>3 DEF Opening, RolesOf, GoesTo, Reaches, Becomes, Has
  <2>2. QED
    BY <1>2, <1>3, <2>1, TrackedKept DEF Safe
<1>7. Apart'
  <2>1. /\ pooled' \in {pooled, NoHandle} \/ t = Main
        /\ \A h \in Handles : Owned(t, h)' => Owned(t, h) \/ \A u \in Threads : ~ Owned(u, h)
    BY <1>1, <1>3 DEF Owned, GoesTo, Reaches, Becomes, Has
  <2>2. QED
    BY <1>2, <1>3, <2>1, ApartKept DEF Safe
<1>8. OneRestore'
  <2>1. at'[t].task = "restore" =>
            at[t].task = "restore" \/ \A u \in Threads : at[u].task # "restore"
    BY <1>1, <1>3 DEF RolesOf, GoesTo, Reaches, Becomes, Has
  <2>2. QED
    BY <1>2, <1>3, <2>1, OneRestoreKept DEF Safe
<1>9. LockedOut'
  <2>1. /\ UNCHANGED <<lockout, raced>>
        /\ at'[t].pc \in {"close again", "replace"} => at[t].pc \in {"close again", "replace"}
        /\ Acquiring(t)' => Acquiring(t) \/ ~ lockout
    BY <1>1, <1>3 DEF Acquiring, GoesTo, Reaches, Becomes, Has
  <2>2. QED
    BY <1>2, <1>3, <2>1, LockedOutKept DEF Safe
<1>10. OnlyRacedOpen'
  <2>1. /\ pooled' = pooled \/ t = Main
        /\ raced' = raced /\ raced \subseteq Threads
        /\ at'[t].pc = "replace" => at[t].pc = "replace"
        /\ \A h \in open' : \/ h \in open /\ (Uses(t, h) => Uses(t, h)')
                            \/ Uses(t, h)' /\ (Replacing => t \in raced)
    BY <1>1, <1>3 DEF Uses, Replacing, Acquiring, LockedOut, GoesTo, Reaches, Becomes, Has
  <2>2. QED
    BY <1>2, <1>3, <2>1, RacedKept DEF Safe
<1>11. QED
  BY <1>4, <1>5, <1>6, <1>7, <1>8, <1>9, <1>10 DEF Safe

LEMMA ConnectKeeps ==
  ASSUME Typed, Safe, NEW t \in Threads, Connect(t)
  PROVE  Safe'
<1>1. /\ at[t].pc = "connect" /\ UNCHANGED <<lockout, pooled, bgConns, raced>>
      /\ \/ /\ NewHandle \in Handles /\ NewHandle \notin Referred /\ open' = open \cup {NewHandle}
            /\ GoesTo(t, "label") /\ Has(t, NewHandle, local[t].bundle)
         \/ HasRaised(t) /\ UNCHANGED <<open, local>>
  BY GoEffect, ConnEffect, RaiseEffect, FreshIsNew DEF Connect
<1>2. Others(t)
  BY Members DEF Others, Connect, Go, Raise, Typed, pool
<1>3. /\ RolesOf(t) /\ CommitsOf(t) /\ t \in Threads /\ raced \subseteq Threads
      /\ at[t].task \in Tasks /\ at[t].wrote \in Nat /\ at[t].saved \in Nat
      /\ NoHandle \notin Handles /\ NoHandle \notin open /\ Writes \in Nat
  BY Members, PoolAssumption DEF Safe, Roles, Commits, Typed, Doing, Scopes
<1>4. Roles'
  <2>1. RolesOf(t)'
    BY <1>1, <1>3 DEF RolesOf, Tasks, Ends, HasRaised, GoesTo, Reaches, Becomes, Has
  <2>2. QED
    BY <1>2, <1>3, <2>1, RolesKept DEF Safe
<1>5. Commits'
  <2>1. CommitsOf(t)'
    BY <1>1, <1>3 DEF CommitsOf, Ends, HasRaised, GoesTo, Reaches, Becomes, Has
  <2>2. QED
    BY <1>2, <1>3, <2>1, CommitsKept DEF Safe
<1>6. HandlesTracked'
  <2>1. \A h \in open' :
            \/ /\ h \in open
               /\ h = pooled => h = pooled'
               /\ h \in bgConns => h \in bgConns'
               /\ Opening(t, h) => Opening(t, h)' \/ h \in bgConns'
            \/ h = pooled' \/ Opening(t, h)'
    BY <1>1, <1>3 DEF Threads, Opening, RolesOf, Ends, HasRaised, GoesTo, Reaches, Becomes, Has
  <2>2. QED
    BY <1>2, <1>3, <2>1, TrackedKept DEF Safe
<1>7. Apart'
  <2>1. /\ pooled' \in {pooled, NoHandle} \/ t = Main
        /\ \A h \in Handles : Owned(t, h)' => Owned(t, h) \/ \A u \in Threads : ~ Owned(u, h)
    BY <1>1, <1>3 DEF Owned, Referred, Ends, HasRaised, GoesTo, Reaches, Becomes, Has
  <2>2. QED
    BY <1>2, <1>3, <2>1, ApartKept DEF Safe
<1>8. OneRestore'
  <2>1. at'[t].task = "restore" =>
            at[t].task = "restore" \/ \A u \in Threads : at[u].task # "restore"
    BY <1>1, <1>3 DEF RolesOf, Ends, HasRaised, GoesTo, Reaches, Becomes, Has
  <2>2. QED
    BY <1>2, <1>3, <2>1, OneRestoreKept DEF Safe
<1>9. LockedOut'
  <2>1. /\ UNCHANGED <<lockout, raced>>
        /\ at'[t].pc \in {"close again", "replace"} => at[t].pc \in {"close again", "replace"}
        /\ Acquiring(t)' => Acquiring(t) \/ ~ lockout
    BY <1>1, <1>3 DEF Acquiring, Ends, HasRaised, GoesTo, Reaches, Becomes, Has
  <2>2. QED
    BY <1>2, <1>3, <2>1, LockedOutKept DEF Safe
<1>10. OnlyRacedOpen'
  <2>1. /\ pooled' = pooled \/ t = Main
        /\ raced' = raced /\ raced \subseteq Threads
        /\ at'[t].pc = "replace" => at[t].pc = "replace"
        /\ \A h \in open' : \/ h \in open /\ (Uses(t, h) => Uses(t, h)')
                            \/ Uses(t, h)' /\ (Replacing => t \in raced)
    BY <1>1, <1>3 DEF Safe, RolesOf, Uses, Replacing, Acquiring, LockedOut, Ends, HasRaised, GoesTo,
       Reaches, Becomes, Has
  <2>2. QED
    BY <1>2, <1>3, <2>1, RacedKept DEF Safe
<1>11. QED
  BY <1>4, <1>5, <1>6, <1>7, <1>8, <1>9, <1>10 DEF Safe

LEMMA LabelKeeps ==
  ASSUME Typed, Safe, NEW t \in Threads, Label(t)
  PROVE  Safe'
<1>1. /\ at[t].pc = "label" /\ UNCHANGED <<lockout, pooled, bgConns, open, raced>>
      /\ GoesTo(t, "track") /\ Has(t, local[t].conn, local[t].bundle)
  BY LabelEffect DEF Label, pool
<1>2. Others(t)
  BY Members DEF Others, Label, Go, Typed, pool
<1>3. /\ RolesOf(t) /\ CommitsOf(t) /\ t \in Threads /\ raced \subseteq Threads
      /\ at[t].task \in Tasks /\ at[t].wrote \in Nat /\ at[t].saved \in Nat
      /\ NoHandle \notin Handles /\ NoHandle \notin open /\ Writes \in Nat
  BY Members, PoolAssumption DEF Safe, Roles, Commits, Typed, Doing, Scopes
<1>4. Roles'
  <2>1. RolesOf(t)'
    BY <1>1, <1>3 DEF RolesOf, Tasks, GoesTo, Reaches, Becomes, Has
  <2>2. QED
    BY <1>2, <1>3, <2>1, RolesKept DEF Safe
<1>5. Commits'
  <2>1. CommitsOf(t)'
    BY <1>1, <1>3 DEF CommitsOf, GoesTo, Reaches, Becomes, Has
  <2>2. QED
    BY <1>2, <1>3, <2>1, CommitsKept DEF Safe
<1>6. HandlesTracked'
  <2>1. \A h \in open' :
            \/ /\ h \in open
               /\ h = pooled => h = pooled'
               /\ h \in bgConns => h \in bgConns'
               /\ Opening(t, h) => Opening(t, h)' \/ h \in bgConns'
            \/ h = pooled' \/ Opening(t, h)'
    BY <1>1, <1>3 DEF Opening, RolesOf, GoesTo, Reaches, Becomes, Has
  <2>2. QED
    BY <1>2, <1>3, <2>1, TrackedKept DEF Safe
<1>7. Apart'
  <2>1. /\ pooled' \in {pooled, NoHandle} \/ t = Main
        /\ \A h \in Handles : Owned(t, h)' => Owned(t, h) \/ \A u \in Threads : ~ Owned(u, h)
    BY <1>1, <1>3 DEF Owned, GoesTo, Reaches, Becomes, Has
  <2>2. QED
    BY <1>2, <1>3, <2>1, ApartKept DEF Safe
<1>8. OneRestore'
  <2>1. at'[t].task = "restore" =>
            at[t].task = "restore" \/ \A u \in Threads : at[u].task # "restore"
    BY <1>1, <1>3 DEF RolesOf, GoesTo, Reaches, Becomes, Has
  <2>2. QED
    BY <1>2, <1>3, <2>1, OneRestoreKept DEF Safe
<1>9. LockedOut'
  <2>1. /\ UNCHANGED <<lockout, raced>>
        /\ at'[t].pc \in {"close again", "replace"} => at[t].pc \in {"close again", "replace"}
        /\ Acquiring(t)' => Acquiring(t) \/ ~ lockout
    BY <1>1, <1>3 DEF Acquiring, GoesTo, Reaches, Becomes, Has
  <2>2. QED
    BY <1>2, <1>3, <2>1, LockedOutKept DEF Safe
<1>10. OnlyRacedOpen'
  <2>1. /\ pooled' = pooled \/ t = Main
        /\ raced' = raced /\ raced \subseteq Threads
        /\ at'[t].pc = "replace" => at[t].pc = "replace"
        /\ \A h \in open' : \/ h \in open /\ (Uses(t, h) => Uses(t, h)')
                            \/ Uses(t, h)' /\ (Replacing => t \in raced)
    BY <1>1, <1>3 DEF Uses, Replacing, Acquiring, LockedOut, GoesTo, Reaches, Becomes, Has
  <2>2. QED
    BY <1>2, <1>3, <2>1, RacedKept DEF Safe
<1>11. QED
  BY <1>4, <1>5, <1>6, <1>7, <1>8, <1>9, <1>10 DEF Safe

LEMMA TrackKeeps ==
  ASSUME Typed, Safe, NEW t \in Threads, Track(t)
  PROVE  Safe'
<1>1. /\ at[t].pc = "track" /\ UNCHANGED <<lockout, pooled, raced>>
      /\ \/ /\ bgConns' = bgConns \cup {local[t].conn} /\ UNCHANGED <<open, local>>
            /\ Reaches(t, "use", local[t].conn)
         \/ /\ open' = open \ {local[t].conn} /\ Has(t, NoHandle, local[t].bundle) /\ UNCHANGED bgConns
            /\ HasRaised(t) \/ GoesTo(t, "look")
  BY TrackEffect DEF Track
<1>2. Others(t)
  BY Members DEF Others, Track, GoWith, Raise, Typed, pool
<1>3. /\ RolesOf(t) /\ CommitsOf(t) /\ t \in Threads /\ raced \subseteq Threads
      /\ at[t].task \in Tasks /\ at[t].wrote \in Nat /\ at[t].saved \in Nat
      /\ NoHandle \notin Handles /\ NoHandle \notin open /\ Writes \in Nat
  BY Members, PoolAssumption DEF Safe, Roles, Commits, Typed, Doing, Scopes
<1>4. Roles'
  <2>1. RolesOf(t)'
    BY <1>1, <1>3 DEF RolesOf, Tasks, Ends, HasRaised, GoesTo, Reaches, Becomes, Has
  <2>2. QED
    BY <1>2, <1>3, <2>1, RolesKept DEF Safe
<1>5. Commits'
  <2>1. CommitsOf(t)'
    BY <1>1, <1>3 DEF CommitsOf, Ends, HasRaised, GoesTo, Reaches, Becomes, Has
  <2>2. QED
    BY <1>2, <1>3, <2>1, CommitsKept DEF Safe
<1>6. HandlesTracked'
  <2>1. \A h \in open' :
            \/ /\ h \in open
               /\ h = pooled => h = pooled'
               /\ h \in bgConns => h \in bgConns'
               /\ Opening(t, h) => Opening(t, h)' \/ h \in bgConns'
            \/ h = pooled' \/ Opening(t, h)'
    BY <1>1, <1>3 DEF Opening, RolesOf, Ends, HasRaised, GoesTo, Reaches, Becomes, Has
  <2>2. QED
    BY <1>2, <1>3, <2>1, TrackedKept DEF Safe
<1>7. Apart'
  <2>1. /\ pooled' \in {pooled, NoHandle} \/ t = Main
        /\ \A h \in Handles : Owned(t, h)' => Owned(t, h) \/ \A u \in Threads : ~ Owned(u, h)
    BY <1>1, <1>3 DEF Owned, Ends, HasRaised, GoesTo, Reaches, Becomes, Has
  <2>2. QED
    BY <1>2, <1>3, <2>1, ApartKept DEF Safe
<1>8. OneRestore'
  <2>1. at'[t].task = "restore" =>
            at[t].task = "restore" \/ \A u \in Threads : at[u].task # "restore"
    BY <1>1, <1>3 DEF RolesOf, Ends, HasRaised, GoesTo, Reaches, Becomes, Has
  <2>2. QED
    BY <1>2, <1>3, <2>1, OneRestoreKept DEF Safe
<1>9. LockedOut'
  <2>1. /\ UNCHANGED <<lockout, raced>>
        /\ at'[t].pc \in {"close again", "replace"} => at[t].pc \in {"close again", "replace"}
        /\ Acquiring(t)' => Acquiring(t) \/ ~ lockout
    BY <1>1, <1>3 DEF Acquiring, Ends, HasRaised, GoesTo, Reaches, Becomes, Has
  <2>2. QED
    BY <1>2, <1>3, <2>1, LockedOutKept DEF Safe
<1>10. OnlyRacedOpen'
  <2>1. /\ pooled' = pooled \/ t = Main
        /\ raced' = raced /\ raced \subseteq Threads
        /\ at'[t].pc = "replace" => at[t].pc = "replace"
        /\ \A h \in open' : \/ h \in open /\ (Uses(t, h) => Uses(t, h)')
                            \/ Uses(t, h)' /\ (Replacing => t \in raced)
    BY <1>1, <1>3 DEF Uses, Replacing, Acquiring, LockedOut, Ends, HasRaised, GoesTo, Reaches,
       Becomes, Has
  <2>2. QED
    BY <1>2, <1>3, <2>1, RacedKept DEF Safe
<1>11. QED
  BY <1>4, <1>5, <1>6, <1>7, <1>8, <1>9, <1>10 DEF Safe

LEMMA EndScopeKeeps ==
  ASSUME Typed, Safe, NEW t \in Threads, EndScope(t)
  PROVE  Safe'
<1>1. /\ at[t].pc = "use" /\ at[t].task # "bundle" /\ UNCHANGED <<lockout, pooled, bgConns, open, local, raced>>
      /\ \/ at[t].task = "save" /\ Ends(t, at[t].saved)
         \/ at[t].task # "save" /\ GoesTo(t, "close")
  BY FinishedEffect, GoEffect DEF EndScope, pool
<1>2. Others(t)
  BY Members DEF Others, EndScope, Finished, Go, Typed, pool
<1>3. /\ RolesOf(t) /\ CommitsOf(t) /\ t \in Threads /\ raced \subseteq Threads
      /\ at[t].task \in Tasks /\ at[t].wrote \in Nat /\ at[t].saved \in Nat
      /\ NoHandle \notin Handles /\ NoHandle \notin open /\ Writes \in Nat
  BY Members, PoolAssumption DEF Safe, Roles, Commits, Typed, Doing, Scopes
<1>4. Roles'
  <2>1. RolesOf(t)'
    BY <1>1, <1>3 DEF RolesOf, Tasks, Ends, GoesTo, Reaches, Becomes
  <2>2. QED
    BY <1>2, <1>3, <2>1, RolesKept DEF Safe
<1>5. Commits'
  <2>1. CommitsOf(t)'
    BY <1>1, <1>3 DEF CommitsOf, Ends, GoesTo, Reaches, Becomes
  <2>2. QED
    BY <1>2, <1>3, <2>1, CommitsKept DEF Safe
<1>6. HandlesTracked'
  <2>1. \A h \in open' :
            \/ /\ h \in open
               /\ h = pooled => h = pooled'
               /\ h \in bgConns => h \in bgConns'
               /\ Opening(t, h) => Opening(t, h)' \/ h \in bgConns'
            \/ h = pooled' \/ Opening(t, h)'
    BY <1>1, <1>3 DEF Opening, RolesOf, Ends, GoesTo, Reaches, Becomes
  <2>2. QED
    BY <1>2, <1>3, <2>1, TrackedKept DEF Safe
<1>7. Apart'
  <2>1. /\ pooled' \in {pooled, NoHandle} \/ t = Main
        /\ \A h \in Handles : Owned(t, h)' => Owned(t, h) \/ \A u \in Threads : ~ Owned(u, h)
    BY <1>1, <1>3 DEF Owned, Ends, GoesTo, Reaches, Becomes
  <2>2. QED
    BY <1>2, <1>3, <2>1, ApartKept DEF Safe
<1>8. OneRestore'
  <2>1. at'[t].task = "restore" =>
            at[t].task = "restore" \/ \A u \in Threads : at[u].task # "restore"
    BY <1>1, <1>3 DEF RolesOf, Ends, GoesTo, Reaches, Becomes
  <2>2. QED
    BY <1>2, <1>3, <2>1, OneRestoreKept DEF Safe
<1>9. LockedOut'
  <2>1. /\ UNCHANGED <<lockout, raced>>
        /\ at'[t].pc \in {"close again", "replace"} => at[t].pc \in {"close again", "replace"}
        /\ Acquiring(t)' => Acquiring(t) \/ ~ lockout
    BY <1>1, <1>3 DEF Acquiring, Ends, GoesTo, Reaches, Becomes
  <2>2. QED
    BY <1>2, <1>3, <2>1, LockedOutKept DEF Safe
<1>10. OnlyRacedOpen'
  <2>1. /\ pooled' = pooled \/ t = Main
        /\ raced' = raced /\ raced \subseteq Threads
        /\ at'[t].pc = "replace" => at[t].pc = "replace"
        /\ \A h \in open' : \/ h \in open /\ (Uses(t, h) => Uses(t, h)')
                            \/ Uses(t, h)' /\ (Replacing => t \in raced)
    BY <1>1, <1>3 DEF Uses, Replacing, Acquiring, LockedOut, Ends, GoesTo, Reaches, Becomes
  <2>2. QED
    BY <1>2, <1>3, <2>1, RacedKept DEF Safe
<1>11. QED
  BY <1>4, <1>5, <1>6, <1>7, <1>8, <1>9, <1>10 DEF Safe

LEMMA PinKeeps ==
  ASSUME Typed, Safe, NEW t \in Threads, Pin(t)
  PROVE  Safe'
<1>1. /\ at[t].pc = "use" /\ at[t].wrote = 0 /\ at[t].task = "bundle" /\ UNCHANGED <<lockout, pooled, bgConns, open, raced>>
      /\ \/ GoesTo(t, "body") /\ Has(t, local[t].conn, local[t].bundle)
         \/ GoesTo(t, "body") /\ Has(t, local[t].conn, at[t].held)
  BY PinEffect DEF Pin
<1>2. Others(t)
  BY Members DEF Others, Pin, Go, Typed, pool
<1>3. /\ RolesOf(t) /\ CommitsOf(t) /\ t \in Threads /\ raced \subseteq Threads
      /\ at[t].task \in Tasks /\ at[t].wrote \in Nat /\ at[t].saved \in Nat
      /\ NoHandle \notin Handles /\ NoHandle \notin open /\ Writes \in Nat
  BY Members, PoolAssumption DEF Safe, Roles, Commits, Typed, Doing, Scopes
<1>4. Roles'
  <2>1. RolesOf(t)'
    BY <1>1, <1>3 DEF RolesOf, Tasks, GoesTo, Reaches, Becomes, Has
  <2>2. QED
    BY <1>2, <1>3, <2>1, RolesKept DEF Safe
<1>5. Commits'
  <2>1. CommitsOf(t)'
    BY <1>1, <1>3 DEF CommitsOf, GoesTo, Reaches, Becomes, Has
  <2>2. QED
    BY <1>2, <1>3, <2>1, CommitsKept DEF Safe
<1>6. HandlesTracked'
  <2>1. \A h \in open' :
            \/ /\ h \in open
               /\ h = pooled => h = pooled'
               /\ h \in bgConns => h \in bgConns'
               /\ Opening(t, h) => Opening(t, h)' \/ h \in bgConns'
            \/ h = pooled' \/ Opening(t, h)'
    BY <1>1, <1>3 DEF Opening, RolesOf, GoesTo, Reaches, Becomes, Has
  <2>2. QED
    BY <1>2, <1>3, <2>1, TrackedKept DEF Safe
<1>7. Apart'
  <2>1. /\ pooled' \in {pooled, NoHandle} \/ t = Main
        /\ \A h \in Handles : Owned(t, h)' => Owned(t, h) \/ \A u \in Threads : ~ Owned(u, h)
    BY <1>1, <1>3 DEF Owned, GoesTo, Reaches, Becomes, Has
  <2>2. QED
    BY <1>2, <1>3, <2>1, ApartKept DEF Safe
<1>8. OneRestore'
  <2>1. at'[t].task = "restore" =>
            at[t].task = "restore" \/ \A u \in Threads : at[u].task # "restore"
    BY <1>1, <1>3 DEF RolesOf, GoesTo, Reaches, Becomes, Has
  <2>2. QED
    BY <1>2, <1>3, <2>1, OneRestoreKept DEF Safe
<1>9. LockedOut'
  <2>1. /\ UNCHANGED <<lockout, raced>>
        /\ at'[t].pc \in {"close again", "replace"} => at[t].pc \in {"close again", "replace"}
        /\ Acquiring(t)' => Acquiring(t) \/ ~ lockout
    BY <1>1, <1>3 DEF Acquiring, GoesTo, Reaches, Becomes, Has
  <2>2. QED
    BY <1>2, <1>3, <2>1, LockedOutKept DEF Safe
<1>10. OnlyRacedOpen'
  <2>1. /\ pooled' = pooled \/ t = Main
        /\ raced' = raced /\ raced \subseteq Threads
        /\ at'[t].pc = "replace" => at[t].pc = "replace"
        /\ \A h \in open' : \/ h \in open /\ (Uses(t, h) => Uses(t, h)')
                            \/ Uses(t, h)' /\ (Replacing => t \in raced)
    BY <1>1, <1>3 DEF Uses, Replacing, Acquiring, LockedOut, GoesTo, Reaches, Becomes, Has
  <2>2. QED
    BY <1>2, <1>3, <2>1, RacedKept DEF Safe
<1>11. QED
  BY <1>4, <1>5, <1>6, <1>7, <1>8, <1>9, <1>10 DEF Safe

LEMMA NestedKeeps ==
  ASSUME Typed, Safe, NEW t \in Threads, Nested(t)
  PROVE  Safe'
<1>1. /\ at[t].pc = "body" /\ UNCHANGED <<lockout, pooled, bgConns, open, local, raced>>
      /\ \E pc \in {"body", "check"} :
             /\ pc = "body" <=> at[t].pinned
             /\ Becomes(t, at[t].task, pc, at[t].held, at[t].pinned, at[t].wrote + 1, at[t].saved)
  BY NestedEffect DEF Nested, pool
<1>2. Others(t)
  BY Members DEF Others, Nested, pool, Typed
<1>3. /\ RolesOf(t) /\ CommitsOf(t) /\ t \in Threads /\ raced \subseteq Threads
      /\ at[t].task \in Tasks /\ at[t].wrote \in Nat /\ at[t].saved \in Nat
      /\ NoHandle \notin Handles /\ NoHandle \notin open /\ Writes \in Nat
  BY Members, PoolAssumption DEF Safe, Roles, Commits, Typed, Doing, Scopes
<1>4. Roles'
  <2>1. RolesOf(t)'
    BY <1>1, <1>3 DEF RolesOf, Tasks, Becomes
  <2>2. QED
    BY <1>2, <1>3, <2>1, RolesKept DEF Safe
<1>5. Commits'
  <2>1. CommitsOf(t)'
    BY <1>1, <1>3 DEF CommitsOf, Becomes
  <2>2. QED
    BY <1>2, <1>3, <2>1, CommitsKept DEF Safe
<1>6. HandlesTracked'
  <2>1. \A h \in open' :
            \/ /\ h \in open
               /\ h = pooled => h = pooled'
               /\ h \in bgConns => h \in bgConns'
               /\ Opening(t, h) => Opening(t, h)' \/ h \in bgConns'
            \/ h = pooled' \/ Opening(t, h)'
    BY <1>1, <1>3 DEF Opening, RolesOf, Becomes
  <2>2. QED
    BY <1>2, <1>3, <2>1, TrackedKept DEF Safe
<1>7. Apart'
  <2>1. /\ pooled' \in {pooled, NoHandle} \/ t = Main
        /\ \A h \in Handles : Owned(t, h)' => Owned(t, h) \/ \A u \in Threads : ~ Owned(u, h)
    BY <1>1, <1>3 DEF Owned, Becomes
  <2>2. QED
    BY <1>2, <1>3, <2>1, ApartKept DEF Safe
<1>8. OneRestore'
  <2>1. at'[t].task = "restore" =>
            at[t].task = "restore" \/ \A u \in Threads : at[u].task # "restore"
    BY <1>1, <1>3 DEF RolesOf, Becomes
  <2>2. QED
    BY <1>2, <1>3, <2>1, OneRestoreKept DEF Safe
<1>9. LockedOut'
  <2>1. /\ UNCHANGED <<lockout, raced>>
        /\ at'[t].pc \in {"close again", "replace"} => at[t].pc \in {"close again", "replace"}
        /\ Acquiring(t)' => Acquiring(t) \/ ~ lockout
    BY <1>1, <1>3 DEF Acquiring, Becomes
  <2>2. QED
    BY <1>2, <1>3, <2>1, LockedOutKept DEF Safe
<1>10. OnlyRacedOpen'
  <2>1. /\ pooled' = pooled \/ t = Main
        /\ raced' = raced /\ raced \subseteq Threads
        /\ at'[t].pc = "replace" => at[t].pc = "replace"
        /\ \A h \in open' : \/ h \in open /\ (Uses(t, h) => Uses(t, h)')
                            \/ Uses(t, h)' /\ (Replacing => t \in raced)
    BY <1>1, <1>3 DEF Uses, Replacing, Acquiring, LockedOut, Becomes
  <2>2. QED
    BY <1>2, <1>3, <2>1, RacedKept DEF Safe
<1>11. QED
  BY <1>4, <1>5, <1>6, <1>7, <1>8, <1>9, <1>10 DEF Safe

LEMMA NestedCommitKeeps ==
  ASSUME Typed, Safe, NEW t \in Threads, NestedCommit(t)
  PROVE  Safe'
<1>1. /\ at[t].pc = "use" /\ at[t].wrote > 0 /\ at[t].task = "bundle" /\ UNCHANGED <<lockout, pooled, bgConns, open, local, raced>>
      /\ \/ Becomes(t, at[t].task, "body", at[t].held, at[t].pinned, at[t].wrote, at[t].saved + 1)
         \/ HasRaised(t)
  BY NestedCommitEffect DEF NestedCommit, pool
<1>2. Others(t)
  BY Members DEF Others, NestedCommit, Raise, Typed, pool
<1>3. /\ RolesOf(t) /\ CommitsOf(t) /\ t \in Threads /\ raced \subseteq Threads
      /\ at[t].task \in Tasks /\ at[t].wrote \in Nat /\ at[t].saved \in Nat
      /\ NoHandle \notin Handles /\ NoHandle \notin open /\ Writes \in Nat
  BY Members, PoolAssumption DEF Safe, Roles, Commits, Typed, Doing, Scopes
<1>4. Roles'
  <2>1. RolesOf(t)'
    BY <1>1, <1>3 DEF RolesOf, Tasks, Ends, HasRaised, GoesTo, Reaches, Becomes
  <2>2. QED
    BY <1>2, <1>3, <2>1, RolesKept DEF Safe
<1>5. Commits'
  <2>1. CommitsOf(t)'
    BY <1>1, <1>3 DEF CommitsOf, Ends, HasRaised, GoesTo, Reaches, Becomes
  <2>2. QED
    BY <1>2, <1>3, <2>1, CommitsKept DEF Safe
<1>6. HandlesTracked'
  <2>1. \A h \in open' :
            \/ /\ h \in open
               /\ h = pooled => h = pooled'
               /\ h \in bgConns => h \in bgConns'
               /\ Opening(t, h) => Opening(t, h)' \/ h \in bgConns'
            \/ h = pooled' \/ Opening(t, h)'
    BY <1>1, <1>3 DEF Opening, RolesOf, Ends, HasRaised, GoesTo, Reaches, Becomes
  <2>2. QED
    BY <1>2, <1>3, <2>1, TrackedKept DEF Safe
<1>7. Apart'
  <2>1. /\ pooled' \in {pooled, NoHandle} \/ t = Main
        /\ \A h \in Handles : Owned(t, h)' => Owned(t, h) \/ \A u \in Threads : ~ Owned(u, h)
    BY <1>1, <1>3 DEF Owned, Ends, HasRaised, GoesTo, Reaches, Becomes
  <2>2. QED
    BY <1>2, <1>3, <2>1, ApartKept DEF Safe
<1>8. OneRestore'
  <2>1. at'[t].task = "restore" =>
            at[t].task = "restore" \/ \A u \in Threads : at[u].task # "restore"
    BY <1>1, <1>3 DEF RolesOf, Ends, HasRaised, GoesTo, Reaches, Becomes
  <2>2. QED
    BY <1>2, <1>3, <2>1, OneRestoreKept DEF Safe
<1>9. LockedOut'
  <2>1. /\ UNCHANGED <<lockout, raced>>
        /\ at'[t].pc \in {"close again", "replace"} => at[t].pc \in {"close again", "replace"}
        /\ Acquiring(t)' => Acquiring(t) \/ ~ lockout
    BY <1>1, <1>3 DEF Acquiring, Ends, HasRaised, GoesTo, Reaches, Becomes
  <2>2. QED
    BY <1>2, <1>3, <2>1, LockedOutKept DEF Safe
<1>10. OnlyRacedOpen'
  <2>1. /\ pooled' = pooled \/ t = Main
        /\ raced' = raced /\ raced \subseteq Threads
        /\ at'[t].pc = "replace" => at[t].pc = "replace"
        /\ \A h \in open' : \/ h \in open /\ (Uses(t, h) => Uses(t, h)')
                            \/ Uses(t, h)' /\ (Replacing => t \in raced)
    BY <1>1, <1>3 DEF Uses, Replacing, Acquiring, LockedOut, Ends, HasRaised, GoesTo, Reaches, Becomes
  <2>2. QED
    BY <1>2, <1>3, <2>1, RacedKept DEF Safe
<1>11. QED
  BY <1>4, <1>5, <1>6, <1>7, <1>8, <1>9, <1>10 DEF Safe

LEMMA EndBundleKeeps ==
  ASSUME Typed, Safe, NEW t \in Threads, EndBundle(t)
  PROVE  Safe'
<1>1. /\ at[t].pc = "body" /\ UNCHANGED <<lockout, pooled, bgConns, open, raced>>
      /\ Has(t, local[t].conn, NoHandle)
      /\ Ends(t, at[t].saved) \/ (at[t].pinned /\ Ends(t, Writes))
  BY EndBundleEffect DEF EndBundle
<1>2. Others(t)
  BY Members DEF Others, EndBundle, Unpin, Typed, pool
<1>3. /\ RolesOf(t) /\ CommitsOf(t) /\ t \in Threads /\ raced \subseteq Threads
      /\ at[t].task \in Tasks /\ at[t].wrote \in Nat /\ at[t].saved \in Nat
      /\ NoHandle \notin Handles /\ NoHandle \notin open /\ Writes \in Nat
  BY Members, PoolAssumption DEF Safe, Roles, Commits, Typed, Doing, Scopes
<1>4. Roles'
  <2>1. RolesOf(t)'
    BY <1>1, <1>3 DEF RolesOf, Tasks, Ends, Becomes, Has
  <2>2. QED
    BY <1>2, <1>3, <2>1, RolesKept DEF Safe
<1>5. Commits'
  <2>1. CommitsOf(t)'
    BY <1>1, <1>3 DEF CommitsOf, Ends, Becomes, Has
  <2>2. QED
    BY <1>2, <1>3, <2>1, CommitsKept DEF Safe
<1>6. HandlesTracked'
  <2>1. \A h \in open' :
            \/ /\ h \in open
               /\ h = pooled => h = pooled'
               /\ h \in bgConns => h \in bgConns'
               /\ Opening(t, h) => Opening(t, h)' \/ h \in bgConns'
            \/ h = pooled' \/ Opening(t, h)'
    BY <1>1, <1>3 DEF Opening, RolesOf, Ends, Becomes, Has
  <2>2. QED
    BY <1>2, <1>3, <2>1, TrackedKept DEF Safe
<1>7. Apart'
  <2>1. /\ pooled' \in {pooled, NoHandle} \/ t = Main
        /\ \A h \in Handles : Owned(t, h)' => Owned(t, h) \/ \A u \in Threads : ~ Owned(u, h)
    BY <1>1, <1>3 DEF Owned, Ends, Becomes, Has
  <2>2. QED
    BY <1>2, <1>3, <2>1, ApartKept DEF Safe
<1>8. OneRestore'
  <2>1. at'[t].task = "restore" =>
            at[t].task = "restore" \/ \A u \in Threads : at[u].task # "restore"
    BY <1>1, <1>3 DEF RolesOf, Ends, Becomes, Has
  <2>2. QED
    BY <1>2, <1>3, <2>1, OneRestoreKept DEF Safe
<1>9. LockedOut'
  <2>1. /\ UNCHANGED <<lockout, raced>>
        /\ at'[t].pc \in {"close again", "replace"} => at[t].pc \in {"close again", "replace"}
        /\ Acquiring(t)' => Acquiring(t) \/ ~ lockout
    BY <1>1, <1>3 DEF Acquiring, Ends, Becomes, Has
  <2>2. QED
    BY <1>2, <1>3, <2>1, LockedOutKept DEF Safe
<1>10. OnlyRacedOpen'
  <2>1. /\ pooled' = pooled \/ t = Main
        /\ raced' = raced /\ raced \subseteq Threads
        /\ at'[t].pc = "replace" => at[t].pc = "replace"
        /\ \A h \in open' : \/ h \in open /\ (Uses(t, h) => Uses(t, h)')
                            \/ Uses(t, h)' /\ (Replacing => t \in raced)
    BY <1>1, <1>3 DEF Uses, Replacing, Acquiring, LockedOut, Ends, Becomes, Has
  <2>2. QED
    BY <1>2, <1>3, <2>1, RacedKept DEF Safe
<1>11. QED
  BY <1>4, <1>5, <1>6, <1>7, <1>8, <1>9, <1>10 DEF Safe

LEMMA BodyFailsKeeps ==
  ASSUME Typed, Safe, NEW t \in Threads, BodyFails(t)
  PROVE  Safe'
<1>1. /\ at[t].pc = "body" /\ UNCHANGED <<lockout, pooled, bgConns, open, raced>>
      /\ Has(t, local[t].conn, NoHandle) /\ Ends(t, at[t].saved)
  BY FinishedEffect, UnpinEffect DEF BodyFails
<1>2. Others(t)
  BY Members DEF Others, BodyFails, Finished, Unpin, Typed, pool
<1>3. /\ RolesOf(t) /\ CommitsOf(t) /\ t \in Threads /\ raced \subseteq Threads
      /\ at[t].task \in Tasks /\ at[t].wrote \in Nat /\ at[t].saved \in Nat
      /\ NoHandle \notin Handles /\ NoHandle \notin open /\ Writes \in Nat
  BY Members, PoolAssumption DEF Safe, Roles, Commits, Typed, Doing, Scopes
<1>4. Roles'
  <2>1. RolesOf(t)'
    BY <1>1, <1>3 DEF RolesOf, Tasks, Ends, Becomes, Has
  <2>2. QED
    BY <1>2, <1>3, <2>1, RolesKept DEF Safe
<1>5. Commits'
  <2>1. CommitsOf(t)'
    BY <1>1, <1>3 DEF CommitsOf, Ends, Becomes, Has
  <2>2. QED
    BY <1>2, <1>3, <2>1, CommitsKept DEF Safe
<1>6. HandlesTracked'
  <2>1. \A h \in open' :
            \/ /\ h \in open
               /\ h = pooled => h = pooled'
               /\ h \in bgConns => h \in bgConns'
               /\ Opening(t, h) => Opening(t, h)' \/ h \in bgConns'
            \/ h = pooled' \/ Opening(t, h)'
    BY <1>1, <1>3 DEF Opening, RolesOf, Ends, Becomes, Has
  <2>2. QED
    BY <1>2, <1>3, <2>1, TrackedKept DEF Safe
<1>7. Apart'
  <2>1. /\ pooled' \in {pooled, NoHandle} \/ t = Main
        /\ \A h \in Handles : Owned(t, h)' => Owned(t, h) \/ \A u \in Threads : ~ Owned(u, h)
    BY <1>1, <1>3 DEF Owned, Ends, Becomes, Has
  <2>2. QED
    BY <1>2, <1>3, <2>1, ApartKept DEF Safe
<1>8. OneRestore'
  <2>1. at'[t].task = "restore" =>
            at[t].task = "restore" \/ \A u \in Threads : at[u].task # "restore"
    BY <1>1, <1>3 DEF RolesOf, Ends, Becomes, Has
  <2>2. QED
    BY <1>2, <1>3, <2>1, OneRestoreKept DEF Safe
<1>9. LockedOut'
  <2>1. /\ UNCHANGED <<lockout, raced>>
        /\ at'[t].pc \in {"close again", "replace"} => at[t].pc \in {"close again", "replace"}
        /\ Acquiring(t)' => Acquiring(t) \/ ~ lockout
    BY <1>1, <1>3 DEF Acquiring, Ends, Becomes, Has
  <2>2. QED
    BY <1>2, <1>3, <2>1, LockedOutKept DEF Safe
<1>10. OnlyRacedOpen'
  <2>1. /\ pooled' = pooled \/ t = Main
        /\ raced' = raced /\ raced \subseteq Threads
        /\ at'[t].pc = "replace" => at[t].pc = "replace"
        /\ \A h \in open' : \/ h \in open /\ (Uses(t, h) => Uses(t, h)')
                            \/ Uses(t, h)' /\ (Replacing => t \in raced)
    BY <1>1, <1>3 DEF Uses, Replacing, Acquiring, LockedOut, Ends, Becomes, Has
  <2>2. QED
    BY <1>2, <1>3, <2>1, RacedKept DEF Safe
<1>11. QED
  BY <1>4, <1>5, <1>6, <1>7, <1>8, <1>9, <1>10 DEF Safe

LEMMA CloseKeeps ==
  ASSUME Typed, Safe, NEW t \in Threads, Close(t)
  PROVE  Safe'
<1>1. /\ at[t].pc = "close" /\ UNCHANGED <<lockout, raced>>
      /\ open' = open \ (bgConns \cup {pooled}) /\ pooled' = NoHandle /\ bgConns' = {}
      /\ Has(t, NoHandle, NoHandle)
      /\ \/ at[t].task = "restore" /\ Reaches(t, "lock", NoHandle)
         \/ at[t].task # "restore" /\ Ends(t, at[t].saved)
  BY CloseEffect, CloseAllEffect DEF Close
<1>2. Others(t)
  BY Members DEF Others, Close, CloseAll, Finished, Typed, pool
<1>3. /\ RolesOf(t) /\ CommitsOf(t) /\ t \in Threads /\ raced \subseteq Threads
      /\ at[t].task \in Tasks /\ at[t].wrote \in Nat /\ at[t].saved \in Nat
      /\ NoHandle \notin Handles /\ NoHandle \notin open /\ Writes \in Nat
  BY Members, PoolAssumption DEF Safe, Roles, Commits, Typed, Doing, Scopes
<1>4. Roles'
  <2>1. RolesOf(t)'
    BY <1>1, <1>3 DEF RolesOf, Tasks, Ends, Reaches, Becomes, Has
  <2>2. QED
    BY <1>2, <1>3, <2>1, RolesKept DEF Safe
<1>5. Commits'
  <2>1. CommitsOf(t)'
    BY <1>1, <1>3 DEF CommitsOf, Ends, Reaches, Becomes, Has
  <2>2. QED
    BY <1>2, <1>3, <2>1, CommitsKept DEF Safe
<1>6. HandlesTracked'
  <2>1. \A h \in open' :
            \/ /\ h \in open
               /\ h = pooled => h = pooled'
               /\ h \in bgConns => h \in bgConns'
               /\ Opening(t, h) => Opening(t, h)' \/ h \in bgConns'
            \/ h = pooled' \/ Opening(t, h)'
    BY <1>1, <1>3 DEF Opening, RolesOf, Ends, Reaches, Becomes, Has
  <2>2. QED
    BY <1>2, <1>3, <2>1, TrackedKept DEF Safe
<1>7. Apart'
  <2>1. /\ pooled' \in {pooled, NoHandle} \/ t = Main
        /\ \A h \in Handles : Owned(t, h)' => Owned(t, h) \/ \A u \in Threads : ~ Owned(u, h)
    BY <1>1, <1>3 DEF Owned, Ends, Reaches, Becomes, Has
  <2>2. QED
    BY <1>2, <1>3, <2>1, ApartKept DEF Safe
<1>8. OneRestore'
  <2>1. at'[t].task = "restore" =>
            at[t].task = "restore" \/ \A u \in Threads : at[u].task # "restore"
    BY <1>1, <1>3 DEF RolesOf, Ends, Reaches, Becomes, Has
  <2>2. QED
    BY <1>2, <1>3, <2>1, OneRestoreKept DEF Safe
<1>9. LockedOut'
  <2>1. /\ UNCHANGED <<lockout, raced>>
        /\ at'[t].pc \in {"close again", "replace"} => at[t].pc \in {"close again", "replace"}
        /\ Acquiring(t)' => Acquiring(t) \/ ~ lockout
    BY <1>1, <1>3 DEF Acquiring, Ends, Reaches, Becomes, Has
  <2>2. QED
    BY <1>2, <1>3, <2>1, LockedOutKept DEF Safe
<1>10. OnlyRacedOpen'
  <2>1. CASE \E w \in Threads : at[w].pc = "replace"
    BY <1>1, <1>2, <2>1, LeftRaced DEF Safe
  <2>2. CASE ~ \E w \in Threads : at[w].pc = "replace"
    <3>1. \A w \in Threads : at'[w].pc # "replace"
      BY <1>1, <1>2, <2>2 DEF Others, Ends, Reaches, Becomes, Has
    <3>2. QED
      BY <3>1 DEF OnlyRacedOpen
  <2>3. QED
    BY <2>1, <2>2
<1>11. QED
  BY <1>4, <1>5, <1>6, <1>7, <1>8, <1>9, <1>10 DEF Safe

LEMMA LockKeeps ==
  ASSUME Typed, Safe, NEW t \in Threads, Lock(t)
  PROVE  Safe'
<1>1. /\ at[t].pc = "lock" /\ UNCHANGED <<pooled, bgConns, open, local>>
      /\ lockout' /\ raced' = {u \in Threads : Acquiring(u)} /\ GoesTo(t, "close again")
  BY GoEffect DEF Lock
<1>2. Others(t)
  BY Members DEF Others, Lock, Go, Typed, pool
<1>3. /\ RolesOf(t) /\ CommitsOf(t) /\ t \in Threads /\ raced \subseteq Threads
      /\ at[t].task \in Tasks /\ at[t].wrote \in Nat /\ at[t].saved \in Nat
      /\ NoHandle \notin Handles /\ NoHandle \notin open /\ Writes \in Nat
  BY Members, PoolAssumption DEF Safe, Roles, Commits, Typed, Doing, Scopes
<1>4. Roles'
  <2>1. RolesOf(t)'
    BY <1>1, <1>3 DEF RolesOf, Tasks, GoesTo, Reaches, Becomes
  <2>2. QED
    BY <1>2, <1>3, <2>1, RolesKept DEF Safe
<1>5. Commits'
  <2>1. CommitsOf(t)'
    BY <1>1, <1>3 DEF CommitsOf, GoesTo, Reaches, Becomes
  <2>2. QED
    BY <1>2, <1>3, <2>1, CommitsKept DEF Safe
<1>6. HandlesTracked'
  <2>1. \A h \in open' :
            \/ /\ h \in open
               /\ h = pooled => h = pooled'
               /\ h \in bgConns => h \in bgConns'
               /\ Opening(t, h) => Opening(t, h)' \/ h \in bgConns'
            \/ h = pooled' \/ Opening(t, h)'
    BY <1>1, <1>3 DEF Opening, RolesOf, GoesTo, Reaches, Becomes
  <2>2. QED
    BY <1>2, <1>3, <2>1, TrackedKept DEF Safe
<1>7. Apart'
  <2>1. /\ pooled' \in {pooled, NoHandle} \/ t = Main
        /\ \A h \in Handles : Owned(t, h)' => Owned(t, h) \/ \A u \in Threads : ~ Owned(u, h)
    BY <1>1, <1>3 DEF Owned, GoesTo, Reaches, Becomes
  <2>2. QED
    BY <1>2, <1>3, <2>1, ApartKept DEF Safe
<1>8. OneRestore'
  <2>1. at'[t].task = "restore" =>
            at[t].task = "restore" \/ \A u \in Threads : at[u].task # "restore"
    BY <1>1, <1>3 DEF RolesOf, GoesTo, Reaches, Becomes
  <2>2. QED
    BY <1>2, <1>3, <2>1, OneRestoreKept DEF Safe
<1>9. LockedOut'
  <2>1. \A v \in Threads : Acquiring(v)' => Acquiring(v)
    BY <1>1, <1>2 DEF Others, Acquiring, GoesTo, Reaches, Becomes
  <2>2. QED
    BY <1>1, <2>1 DEF LockedOut
<1>10. OnlyRacedOpen'
  <2>1. at[t].task = "restore"
    BY <1>1, <1>3 DEF RolesOf
  <2>2. ASSUME NEW w \in Threads, at'[w].pc = "replace" PROVE FALSE
    <3>1. w # t /\ at[w].pc = "replace"
      BY <1>1, <1>2, <2>2 DEF Others, GoesTo, Reaches, Becomes
    <3>2. QED
      BY <2>1, <3>1, LoneRestore DEF Safe
  <2>3. QED
    BY <2>2 DEF OnlyRacedOpen
<1>11. QED
  BY <1>4, <1>5, <1>6, <1>7, <1>8, <1>9, <1>10 DEF Safe

LEMMA CloseAgainKeeps ==
  ASSUME Typed, Safe, NEW t \in Threads, CloseAgain(t)
  PROVE  Safe'
<1>1. /\ at[t].pc = "close again" /\ UNCHANGED <<lockout, raced>>
      /\ open' = open \ (bgConns \cup {pooled}) /\ pooled' = NoHandle /\ bgConns' = {}
      /\ Has(t, NoHandle, NoHandle) /\ GoesTo(t, "replace")
  BY GoEffect, CloseAllEffect DEF CloseAgain
<1>2. Others(t)
  BY Members DEF Others, CloseAgain, CloseAll, Go, Typed, pool
<1>3. /\ RolesOf(t) /\ CommitsOf(t) /\ t \in Threads /\ raced \subseteq Threads
      /\ at[t].task \in Tasks /\ at[t].wrote \in Nat /\ at[t].saved \in Nat
      /\ NoHandle \notin Handles /\ NoHandle \notin open /\ Writes \in Nat
  BY Members, PoolAssumption DEF Safe, Roles, Commits, Typed, Doing, Scopes
<1>4. Roles'
  <2>1. RolesOf(t)'
    BY <1>1, <1>3 DEF RolesOf, Tasks, GoesTo, Reaches, Becomes, Has
  <2>2. QED
    BY <1>2, <1>3, <2>1, RolesKept DEF Safe
<1>5. Commits'
  <2>1. CommitsOf(t)'
    BY <1>1, <1>3 DEF CommitsOf, GoesTo, Reaches, Becomes, Has
  <2>2. QED
    BY <1>2, <1>3, <2>1, CommitsKept DEF Safe
<1>6. HandlesTracked'
  <2>1. \A h \in open' :
            \/ /\ h \in open
               /\ h = pooled => h = pooled'
               /\ h \in bgConns => h \in bgConns'
               /\ Opening(t, h) => Opening(t, h)' \/ h \in bgConns'
            \/ h = pooled' \/ Opening(t, h)'
    BY <1>1, <1>3 DEF Opening, RolesOf, GoesTo, Reaches, Becomes, Has
  <2>2. QED
    BY <1>2, <1>3, <2>1, TrackedKept DEF Safe
<1>7. Apart'
  <2>1. /\ pooled' \in {pooled, NoHandle} \/ t = Main
        /\ \A h \in Handles : Owned(t, h)' => Owned(t, h) \/ \A u \in Threads : ~ Owned(u, h)
    BY <1>1, <1>3 DEF Owned, GoesTo, Reaches, Becomes, Has
  <2>2. QED
    BY <1>2, <1>3, <2>1, ApartKept DEF Safe
<1>8. OneRestore'
  <2>1. at'[t].task = "restore" =>
            at[t].task = "restore" \/ \A u \in Threads : at[u].task # "restore"
    BY <1>1, <1>3 DEF RolesOf, GoesTo, Reaches, Becomes, Has
  <2>2. QED
    BY <1>2, <1>3, <2>1, OneRestoreKept DEF Safe
<1>9. LockedOut'
  <2>1. /\ UNCHANGED <<lockout, raced>>
        /\ at'[t].pc \in {"close again", "replace"} => at[t].pc \in {"close again", "replace"}
        /\ Acquiring(t)' => Acquiring(t) \/ ~ lockout
    BY <1>1, <1>3 DEF Acquiring, GoesTo, Reaches, Becomes, Has
  <2>2. QED
    BY <1>2, <1>3, <2>1, LockedOutKept DEF Safe
<1>10. OnlyRacedOpen'
  BY <1>1, <1>2, LeftRaced DEF Safe
<1>11. QED
  BY <1>4, <1>5, <1>6, <1>7, <1>8, <1>9, <1>10 DEF Safe

LEMMA ReplaceKeeps ==
  ASSUME Typed, Safe, NEW t \in Threads, Replace(t)
  PROVE  Safe'
<1>1. /\ at[t].pc = "replace" /\ UNCHANGED <<pooled, bgConns, open, local, raced>>
      /\ Ends(t, at[t].saved)
  BY FinishedEffect DEF Replace
<1>2. Others(t)
  BY Members DEF Others, Replace, Finished, Typed, pool
<1>3. /\ RolesOf(t) /\ CommitsOf(t) /\ t \in Threads /\ raced \subseteq Threads
      /\ at[t].task \in Tasks /\ at[t].wrote \in Nat /\ at[t].saved \in Nat
      /\ NoHandle \notin Handles /\ NoHandle \notin open /\ Writes \in Nat
  BY Members, PoolAssumption DEF Safe, Roles, Commits, Typed, Doing, Scopes
<1>4. Roles'
  <2>1. RolesOf(t)'
    BY <1>1, <1>3 DEF RolesOf, Tasks, Ends, Becomes
  <2>2. QED
    BY <1>2, <1>3, <2>1, RolesKept DEF Safe
<1>5. Commits'
  <2>1. CommitsOf(t)'
    BY <1>1, <1>3 DEF CommitsOf, Ends, Becomes
  <2>2. QED
    BY <1>2, <1>3, <2>1, CommitsKept DEF Safe
<1>6. HandlesTracked'
  <2>1. \A h \in open' :
            \/ /\ h \in open
               /\ h = pooled => h = pooled'
               /\ h \in bgConns => h \in bgConns'
               /\ Opening(t, h) => Opening(t, h)' \/ h \in bgConns'
            \/ h = pooled' \/ Opening(t, h)'
    BY <1>1, <1>3 DEF Opening, RolesOf, Ends, Becomes
  <2>2. QED
    BY <1>2, <1>3, <2>1, TrackedKept DEF Safe
<1>7. Apart'
  <2>1. /\ pooled' \in {pooled, NoHandle} \/ t = Main
        /\ \A h \in Handles : Owned(t, h)' => Owned(t, h) \/ \A u \in Threads : ~ Owned(u, h)
    BY <1>1, <1>3 DEF Owned, Ends, Becomes
  <2>2. QED
    BY <1>2, <1>3, <2>1, ApartKept DEF Safe
<1>8. OneRestore'
  <2>1. at'[t].task = "restore" =>
            at[t].task = "restore" \/ \A u \in Threads : at[u].task # "restore"
    BY <1>1, <1>3 DEF RolesOf, Ends, Becomes
  <2>2. QED
    BY <1>2, <1>3, <2>1, OneRestoreKept DEF Safe
<1>9. LockedOut'
  <2>1. at[t].task = "restore"
    BY <1>1, <1>3 DEF RolesOf
  <2>2. ASSUME NEW w \in Threads, at'[w].pc \in {"close again", "replace"} PROVE FALSE
    <3>1. w # t /\ at[w].pc \in {"close again", "replace"}
      BY <1>1, <1>2, <2>2 DEF Others, Ends, Becomes
    <3>2. QED
      BY <2>1, <3>1, LoneRestore DEF Safe
  <2>3. QED
    BY <2>2 DEF LockedOut
<1>10. OnlyRacedOpen'
  <2>1. /\ pooled' = pooled \/ t = Main
        /\ raced' = raced /\ raced \subseteq Threads
        /\ at'[t].pc = "replace" => at[t].pc = "replace"
        /\ \A h \in open' : \/ h \in open /\ (Uses(t, h) => Uses(t, h)')
                            \/ Uses(t, h)' /\ (Replacing => t \in raced)
    BY <1>1, <1>3 DEF Uses, Replacing, Acquiring, LockedOut, Ends, Becomes
  <2>2. QED
    BY <1>2, <1>3, <2>1, RacedKept DEF Safe
<1>11. QED
  BY <1>4, <1>5, <1>6, <1>7, <1>8, <1>9, <1>10 DEF Safe

LEMMA PoolInvInit == PoolInit => Typed /\ Safe
<1> SUFFICES ASSUME PoolInit PROVE Typed /\ Safe
  OBVIOUS
<1>1. Idle \in Doing /\ NoLocals \in Locals
  BY IdleIs, Members DEF NoLocals, Locals
<1>2. Typed
  BY <1>1, Members DEF PoolInit, Typed
<1>3. \A t \in Threads : /\ at[t].task = "none" /\ at[t].pc = "idle" /\ at[t].held = NoHandle
                         /\ ~ at[t].pinned /\ at[t].wrote = 0 /\ at[t].saved = 0
                         /\ local[t].conn = NoHandle /\ local[t].bundle = NoHandle
  BY DEF PoolInit, Idle, NoLocals
<1>4. Roles
  BY <1>3 DEF Roles, RolesOf
<1>5. Commits
  BY <1>3 DEF Commits, CommitsOf
<1>6. Apart
  BY <1>3, PoolAssumption DEF Apart, Owned, PoolInit
<1>7. HandlesTracked /\ OneRestore /\ LockedOut /\ OnlyRacedOpen
  BY <1>3 DEF PoolInit, HandlesTracked, OneRestore, LockedOut, OnlyRacedOpen
<1>8. QED
  BY <1>2, <1>4, <1>5, <1>6, <1>7 DEF Safe

LEMMA SafeStep ==
  ASSUME Typed, Safe, [PoolNext]_poolVars
  PROVE  Safe'
<1>1. CASE Shutdown
  BY <1>1, ShutdownKeeps
<1>2. CASE MainGet
  BY <1>2, MainGetKeeps
<1>3. ASSUME NEW t \in Threads, ThreadStep(t) PROVE Safe'
  BY <1>3, SaveKeeps, BundleKeeps, RestoreKeeps, CheckKeeps, ReuseKeeps, ForgetKeeps,
     ConnectKeeps, LabelKeeps, TrackKeeps, EndScopeKeeps, PinKeeps, NestedKeeps,
     NestedCommitKeeps, EndBundleKeeps, BodyFailsKeeps, CloseKeeps, LockKeeps,
     CloseAgainKeeps, ReplaceKeeps DEF ThreadStep
<1>4. CASE UNCHANGED poolVars
  <2>1. /\ UNCHANGED <<pooled, bgConns, open, local, at>>
        /\ lockout' = lockout /\ raced' = raced
    BY <1>4 DEF poolVars, pool
  <2>2. Roles' /\ Commits' /\ HandlesTracked' /\ Apart'
    BY <2>1 DEF Safe, Roles, RolesOf, Commits, CommitsOf, HandlesTracked, Apart, Owned
  <2>3. OneRestore' /\ LockedOut' /\ OnlyRacedOpen'
    BY <2>1 DEF Safe, OneRestore, LockedOut, Acquiring, OnlyRacedOpen, Uses
  <2>4. QED
    BY <2>2, <2>3 DEF Safe
<1>5. QED
  BY <1>1, <1>2, <1>3, <1>4 DEF PoolNext

----------------------------------------------------------------------------

\* The inductive invariant of the handles.
THEOREM PoolInvariant == PoolSpec => [](Typed /\ Safe)
<1>1. PoolInit => Typed /\ Safe
  BY PoolInvInit
<1>2. Typed /\ Safe /\ [PoolNext]_poolVars => (Typed /\ Safe)'
  BY HandleStep, SafeStep DEF Safe
<1>3. QED
  BY <1>1, <1>2, PTL DEF PoolSpec

\* Type correctness: no count of attempts, writes or commits leaves its range.
THEOREM PoolTypes == PoolSpec => []PoolTypeOK
<1>1. Typed => PoolTypeOK
  BY TypedIsTypeOK
<1>2. QED
  BY <1>1, PoolInvariant, PTL

\* _track_bg_conn and _close_pooled_conn lose no open handle, and no two
\* threads are in a scope with one, whatever the order in which threads
\* open, close and try again.
THEOREM PoolHandles == PoolSpec => []HandlesSafe
<1>1. Safe => HandlesTracked
  BY DEF Safe
<1>2. Typed /\ Safe => HandlesOwned
  BY DEF Typed, Doing, Handle, Safe, Apart, Owned, HandlesOwned
<1>3. QED
  BY <1>1, <1>2, PoolInvariant, PTL DEF HandlesSafe

\* begin_restore_lockout closes the file but for threads that were past the
\* check of the lock.
THEOREM PoolLocksOut == PoolSpec => []OnlyRacedOpen
<1>1. Safe => OnlyRacedOpen
  BY DEF Safe
<1>2. QED
  BY <1>1, PoolInvariant, PTL

\* A pinned bundle_queries is all or nothing, for any number of nested
\* scopes and any closing of its handle between them.
THEOREM PoolPinned == PoolSpec => []PinnedAllOrNothing
<1>1. ASSUME Typed, Safe PROVE PinnedAllOrNothing
  <2>1. SUFFICES ASSUME NEW t \in Threads, at[t].pinned
                 PROVE  at[t].saved = 0 \/ (at[t].saved = Writes /\ at[t].pc = "idle")
    BY DEF PinnedAllOrNothing
  <2>2. CommitsOf(t)
    BY <1>1 DEF Safe, Commits
  <2>3. QED
    BY <2>1, <2>2 DEF CommitsOf
<1>2. QED
  BY <1>1, PoolInvariant, PTL
====
