---- MODULE Desktop_proofs ----
(***************************************************************************)
(* Five parts of the desktop: the timers and flags of automatic sync,      *)
(* automatic backups, background work, the copies of the control list, and *)
(* the tables that an upgrade moves.  They share no state; each has an     *)
(* inductive invariant of its own, for any number of saves, checks,        *)
(* widgets, threads, codes and rows, and the last section composes them.   *)
(*                                                                         *)
(* The upgrade is proved for any rows and any number of ends of the app.   *)
(* Its invariant says which statements of a move are left, and what the    *)
(* tables hold by then; a list of statements is written <<first>> \o rest. *)
(* What the next start makes good is proved from a second invariant: the   *)
(* aim of a recorded migration is reached and nothing that is left undoes  *)
(* it, and the one that runs has a statement left that will reach its own. *)
(***************************************************************************)
EXTENDS MCDesktop, SequenceTheorems, FiniteSetTheorems, WellFoundedInduction, TLAPS

----------------------------------------------------------------------------
(* Automatic sync: only the job of a push clears the dirty flag, and no    *)
(* session takes, and the Worker has, more than the saves made.            *)

ClearsForPush == \A j \in Jobs : sess[j].pc = "clear" => j = "auto" /\ sess[j].mode = "push"

TookSaved == pushed <= saves /\ \A j \in Jobs : sess[j].took <= saves

Inv ==
    /\ TypeOK /\ ClearsForPush /\ TookSaved
    /\ DepthCounts /\ BusyIsJob /\ PullScheduled /\ UnpushedIsComing

LEMMA InitInv == Init => Inv
<1> SUFFICES ASSUME Init PROVE Inv
  OBVIOUS
<1> USE DEF Init, Jobs, NoSession
<1>1. TypeOK
  BY DEF TypeOK, Stages, AutoPull
<1>2. ClearsForPush /\ TookSaved /\ UnpushedIsComing
  BY DEF ClearsForPush, TookSaved, UnpushedIsComing
<1>3. DepthCounts
  BY DEF DepthCounts, Inside
<1>4. BusyIsJob
  BY DEF BusyIsJob
<1>5. PullScheduled
  BY DEF PullScheduled
<1>6. QED
  BY <1>1, <1>2, <1>3, <1>4, <1>5 DEF Inv

\* What run_auto_sync_job leaves: the job untouched, or a fresh one.
LEMMA RunEffect ==
  ASSUME TypeOK, NEW mode \in {"push", "pull"}, Run(mode)
  PROVE  /\ busy' \in BOOLEAN
         /\ sess' \in [Jobs -> [pc : Stages, mode : {"full", "pull", "push"}, took : Nat]]
         /\ sess'["manual"] = sess["manual"]
         /\ \/ busy /\ busy' = busy /\ sess' = sess
            \/ /\ ~ busy /\ busy'
               /\ sess'["auto"].pc = IF mode = "push" THEN "clear" ELSE "enter"
               /\ sess'["auto"].mode = mode /\ sess'["auto"].took = 0
<1>2. CASE busy
  BY <1>2 DEF Run, TypeOK
<1>3. CASE ~ busy
  <2> DEFINE fresh == [pc |-> IF mode = "push" THEN "clear" ELSE "enter", mode |-> mode, took |-> 0]
  <2>1. fresh \in [pc : Stages, mode : {"full", "pull", "push"}, took : Nat]
    BY DEF Stages
  <2>2. sess' = [sess EXCEPT !["auto"] = fresh] /\ busy'
    BY <1>3 DEF Run
  <2> HIDE DEF fresh
  <2>3. /\ sess' \in [Jobs -> [pc : Stages, mode : {"full", "pull", "push"}, took : Nat]]
        /\ sess'["manual"] = sess["manual"] /\ sess'["auto"] = fresh
    BY <2>1, <2>2 DEF TypeOK, Jobs
  <2>4. /\ fresh.pc = IF mode = "push" THEN "clear" ELSE "enter"
        /\ fresh.mode = mode /\ fresh.took = 0
    BY DEF fresh
  <2>5. busy' = TRUE
    BY <1>3 DEF Run
  <2>6. QED
    BY <2>3, <2>4, <2>5, <1>3
<1>4. QED
  BY <1>2, <1>3 DEF TypeOK

LEMMA StepTypeOK ==
  ASSUME Inv, [Next]_vars
  PROVE  TypeOK'
<1> USE DEF Inv, TypeOK, Jobs, Stages, DepthCounts, BusyIsJob, Inside
<1>1. CASE Save
  <2>1. missed' \in BOOLEAN
    BY <1>1 DEF Save
  <2>2. dirty' \in BOOLEAN /\ pushTimer' \in BOOLEAN
    BY <1>1 DEF Save, Notify
  <2>3. QED
    BY <1>1, <2>1, <2>2 DEF Save, settings
<1>2. CASE Touch
  BY <1>2 DEF Touch, Notify, settings, flags, timers, progress
<1>3. CASE Toggle
  BY <1>3 DEF Toggle, Notify, settings, flags, timers, progress
<1>4. CASE SetInterval
  BY <1>4 DEF SetInterval, Notify, settings, flags, timers, progress
<1>5. CASE DebouncedPush
  BY <1>5, RunEffect DEF DebouncedPush, settings, flags, timers, progress
<1>6. CASE IntervalPull
  BY <1>6, RunEffect DEF IntervalPull, AutoPull, settings, flags, timers, progress
<1>7. CASE Focus
  BY <1>7, RunEffect DEF Focus, settings, flags, timers, progress
<1>8. CASE SyncNow
  BY <1>8 DEF SyncNow, NoSession, settings, flags, timers, progress
<1>9. CASE Restart
  <2>1. pullTimer' \in BOOLEAN
    BY <1>9 DEF Restart, AutoPull
  <2>2. sess' \in [Jobs -> [pc : Stages, mode : {"full", "pull", "push"}, took : Nat]]
    BY <1>9 DEF Restart, NoSession
  <2>3. /\ on' \in BOOLEAN /\ interval' \in BOOLEAN /\ dirty' \in BOOLEAN
        /\ pushTimer' \in BOOLEAN /\ busy' \in BOOLEAN /\ missed' \in BOOLEAN
    BY <1>9 DEF Restart, settings
  <2>4. depth' \in Nat /\ saves' \in Nat /\ pushed' \in Nat /\ starts' \in Nat
    BY <1>9 DEF Restart
  <2>5. QED
    BY <2>1, <2>2, <2>3, <2>4
<1>10. ASSUME NEW j \in Jobs, Clear(j) PROVE TypeOK'
  BY <1>10 DEF Clear, Move, settings, flags, timers, progress
<1>11. ASSUME NEW j \in Jobs, Enter(j) PROVE TypeOK'
  BY <1>11 DEF Enter, Move, settings, flags, timers, progress
<1>12. ASSUME NEW j \in Jobs, TurnedOff(j) PROVE TypeOK'
  BY <1>12 DEF TurnedOff, settings, flags, timers, progress
<1>13. ASSUME NEW j \in Jobs, Pull(j) PROVE TypeOK'
  BY <1>13 DEF Pull, Move, settings, flags, timers, progress
<1>14. ASSUME NEW j \in Jobs, Collect(j) PROVE TypeOK'
  BY <1>14 DEF Collect, settings, flags, timers, progress
<1>15. ASSUME NEW j \in Jobs, Send(j) PROVE TypeOK'
  BY <1>15 DEF Send, Move, Arrived, settings, flags, timers, progress
<1>16. ASSUME NEW j \in Jobs, SendFails(j) PROVE TypeOK'
  BY <1>16 DEF SendFails, Move, settings, flags, timers, progress
<1>17. ASSUME NEW j \in Jobs, Exit(j) PROVE TypeOK'
  BY <1>17 DEF Exit, Move, settings, flags, timers, progress
<1>18. ASSUME NEW j \in Jobs, Done(j) PROVE TypeOK'
  BY <1>18 DEF Done, NoSession, settings, flags, timers, progress
<1>19. CASE UNCHANGED vars
  BY <1>19 DEF vars
<1>20. QED
  BY <1>1, <1>2, <1>3, <1>4, <1>5, <1>6, <1>7, <1>8, <1>9, <1>10, <1>11, <1>12, <1>13, <1>14, <1>15, <1>16, <1>17, <1>18, <1>19 DEF Next, SessionStep

LEMMA StepClears ==
  ASSUME Inv, [Next]_vars
  PROVE  ClearsForPush'
<1> USE DEF Inv, TypeOK, Jobs, Stages, ClearsForPush
<1>1. CASE Save
  BY <1>1 DEF Save, Notify, settings, flags, timers, progress
<1>2. CASE Touch
  BY <1>2 DEF Touch, Notify, settings, flags, timers, progress
<1>3. CASE Toggle
  BY <1>3 DEF Toggle, Notify, settings, flags, timers, progress
<1>4. CASE SetInterval
  BY <1>4 DEF SetInterval, Notify, settings, flags, timers, progress
<1>5. CASE DebouncedPush
  BY <1>5, RunEffect DEF DebouncedPush, settings, flags, timers, progress
<1>6. CASE IntervalPull
  BY <1>6, RunEffect DEF IntervalPull, AutoPull, settings, flags, timers, progress
<1>7. CASE Focus
  BY <1>7, RunEffect DEF Focus, settings, flags, timers, progress
<1>8. CASE SyncNow
  BY <1>8 DEF SyncNow, NoSession, settings, flags, timers, progress
<1>9. CASE Restart
  BY <1>9 DEF Restart, NoSession, AutoPull, settings, flags, timers, progress
<1>10. ASSUME NEW j \in Jobs, Clear(j) PROVE ClearsForPush'
  BY <1>10 DEF Clear, Move, settings, flags, timers, progress
<1>11. ASSUME NEW j \in Jobs, Enter(j) PROVE ClearsForPush'
  BY <1>11 DEF Enter, Move, settings, flags, timers, progress
<1>12. ASSUME NEW j \in Jobs, TurnedOff(j) PROVE ClearsForPush'
  BY <1>12 DEF TurnedOff, settings, flags, timers, progress
<1>13. ASSUME NEW j \in Jobs, Pull(j) PROVE ClearsForPush'
  BY <1>13 DEF Pull, Move, settings, flags, timers, progress
<1>14. ASSUME NEW j \in Jobs, Collect(j) PROVE ClearsForPush'
  BY <1>14 DEF Collect, settings, flags, timers, progress
<1>15. ASSUME NEW j \in Jobs, Send(j) PROVE ClearsForPush'
  BY <1>15 DEF Send, Move, Arrived, settings, flags, timers, progress
<1>16. ASSUME NEW j \in Jobs, SendFails(j) PROVE ClearsForPush'
  BY <1>16 DEF SendFails, Move, settings, flags, timers, progress
<1>17. ASSUME NEW j \in Jobs, Exit(j) PROVE ClearsForPush'
  BY <1>17 DEF Exit, Move, settings, flags, timers, progress
<1>18. ASSUME NEW j \in Jobs, Done(j) PROVE ClearsForPush'
  BY <1>18 DEF Done, NoSession, settings, flags, timers, progress
<1>19. CASE UNCHANGED vars
  BY <1>19 DEF vars
<1>20. QED
  BY <1>1, <1>2, <1>3, <1>4, <1>5, <1>6, <1>7, <1>8, <1>9, <1>10, <1>11, <1>12, <1>13, <1>14, <1>15, <1>16, <1>17, <1>18, <1>19 DEF Next, SessionStep

LEMMA StepTook ==
  ASSUME Inv, [Next]_vars
  PROVE  TookSaved'
<1> USE DEF Inv, TypeOK, Jobs, Stages, TookSaved
<1>1. CASE Save
  BY <1>1 DEF Save, Notify, settings, flags, timers, progress
<1>2. CASE Touch
  BY <1>2 DEF Touch, Notify, settings, flags, timers, progress
<1>3. CASE Toggle
  BY <1>3 DEF Toggle, Notify, settings, flags, timers, progress
<1>4. CASE SetInterval
  BY <1>4 DEF SetInterval, Notify, settings, flags, timers, progress
<1>5. CASE DebouncedPush
  BY <1>5, RunEffect DEF DebouncedPush, settings, flags, timers, progress
<1>6. CASE IntervalPull
  BY <1>6, RunEffect DEF IntervalPull, AutoPull, settings, flags, timers, progress
<1>7. CASE Focus
  BY <1>7, RunEffect DEF Focus, settings, flags, timers, progress
<1>8. CASE SyncNow
  BY <1>8 DEF SyncNow, NoSession, settings, flags, timers, progress
<1>9. CASE Restart
  BY <1>9 DEF Restart, NoSession, AutoPull, settings, flags, timers, progress
<1>10. ASSUME NEW j \in Jobs, Clear(j) PROVE TookSaved'
  BY <1>10 DEF Clear, Move, settings, flags, timers, progress
<1>11. ASSUME NEW j \in Jobs, Enter(j) PROVE TookSaved'
  BY <1>11 DEF Enter, Move, settings, flags, timers, progress
<1>12. ASSUME NEW j \in Jobs, TurnedOff(j) PROVE TookSaved'
  BY <1>12 DEF TurnedOff, settings, flags, timers, progress
<1>13. ASSUME NEW j \in Jobs, Pull(j) PROVE TookSaved'
  BY <1>13 DEF Pull, Move, settings, flags, timers, progress
<1>14. ASSUME NEW j \in Jobs, Collect(j) PROVE TookSaved'
  BY <1>14 DEF Collect, settings, flags, timers, progress
<1>15. ASSUME NEW j \in Jobs, Send(j) PROVE TookSaved'
  BY <1>15 DEF Send, Move, Arrived, settings, flags, timers, progress
<1>16. ASSUME NEW j \in Jobs, SendFails(j) PROVE TookSaved'
  BY <1>16 DEF SendFails, Move, settings, flags, timers, progress
<1>17. ASSUME NEW j \in Jobs, Exit(j) PROVE TookSaved'
  BY <1>17 DEF Exit, Move, settings, flags, timers, progress
<1>18. ASSUME NEW j \in Jobs, Done(j) PROVE TookSaved'
  BY <1>18 DEF Done, NoSession, settings, flags, timers, progress
<1>19. CASE UNCHANGED vars
  BY <1>19 DEF vars
<1>20. QED
  BY <1>1, <1>2, <1>3, <1>4, <1>5, <1>6, <1>7, <1>8, <1>9, <1>10, <1>11, <1>12, <1>13, <1>14, <1>15, <1>16, <1>17, <1>18, <1>19 DEF Next, SessionStep

LEMMA StepDepth ==
  ASSUME Inv, [Next]_vars
  PROVE  DepthCounts'
<1> USE DEF Inv, TypeOK, Jobs, Stages, DepthCounts, BusyIsJob, Inside
<1>1. CASE Save
  BY <1>1 DEF Save, Notify, settings, flags, timers, progress
<1>2. CASE Touch
  BY <1>2 DEF Touch, Notify, settings, flags, timers, progress
<1>3. CASE Toggle
  BY <1>3 DEF Toggle, Notify, settings, flags, timers, progress
<1>4. CASE SetInterval
  BY <1>4 DEF SetInterval, Notify, settings, flags, timers, progress
<1>5. CASE DebouncedPush
  BY <1>5, RunEffect DEF DebouncedPush, settings, flags, timers, progress
<1>6. CASE IntervalPull
  BY <1>6, RunEffect DEF IntervalPull, AutoPull, settings, flags, timers, progress
<1>7. CASE Focus
  BY <1>7, RunEffect DEF Focus, settings, flags, timers, progress
<1>8. CASE SyncNow
  BY <1>8 DEF SyncNow, NoSession, settings, flags, timers, progress
<1>9. CASE Restart
  BY <1>9 DEF Restart, NoSession, AutoPull, settings, flags, timers, progress
<1>10. ASSUME NEW j \in Jobs, Clear(j) PROVE DepthCounts'
  BY <1>10 DEF Clear, Move, settings, flags, timers, progress
<1>11. ASSUME NEW j \in Jobs, Enter(j) PROVE DepthCounts'
  BY <1>11 DEF Enter, Move, settings, flags, timers, progress
<1>12. ASSUME NEW j \in Jobs, TurnedOff(j) PROVE DepthCounts'
  BY <1>12 DEF TurnedOff, settings, flags, timers, progress
<1>13. ASSUME NEW j \in Jobs, Pull(j) PROVE DepthCounts'
  BY <1>13 DEF Pull, Move, settings, flags, timers, progress
<1>14. ASSUME NEW j \in Jobs, Collect(j) PROVE DepthCounts'
  BY <1>14 DEF Collect, settings, flags, timers, progress
<1>15. ASSUME NEW j \in Jobs, Send(j) PROVE DepthCounts'
  BY <1>15 DEF Send, Move, Arrived, settings, flags, timers, progress
<1>16. ASSUME NEW j \in Jobs, SendFails(j) PROVE DepthCounts'
  BY <1>16 DEF SendFails, Move, settings, flags, timers, progress
<1>17. ASSUME NEW j \in Jobs, Exit(j) PROVE DepthCounts'
  BY <1>17 DEF Exit, Move, settings, flags, timers, progress
<1>18. ASSUME NEW j \in Jobs, Done(j) PROVE DepthCounts'
  BY <1>18 DEF Done, NoSession, settings, flags, timers, progress
<1>19. CASE UNCHANGED vars
  BY <1>19 DEF vars
<1>20. QED
  BY <1>1, <1>2, <1>3, <1>4, <1>5, <1>6, <1>7, <1>8, <1>9, <1>10, <1>11, <1>12, <1>13, <1>14, <1>15, <1>16, <1>17, <1>18, <1>19 DEF Next, SessionStep

LEMMA StepBusy ==
  ASSUME Inv, [Next]_vars
  PROVE  BusyIsJob'
<1> USE DEF Inv, TypeOK, Jobs, Stages, BusyIsJob
<1>1. CASE Save
  BY <1>1 DEF Save, Notify, settings, flags, timers, progress
<1>2. CASE Touch
  BY <1>2 DEF Touch, Notify, settings, flags, timers, progress
<1>3. CASE Toggle
  BY <1>3 DEF Toggle, Notify, settings, flags, timers, progress
<1>4. CASE SetInterval
  BY <1>4 DEF SetInterval, Notify, settings, flags, timers, progress
<1>5. CASE DebouncedPush
  BY <1>5, RunEffect DEF DebouncedPush, settings, flags, timers, progress
<1>6. CASE IntervalPull
  BY <1>6, RunEffect DEF IntervalPull, AutoPull, settings, flags, timers, progress
<1>7. CASE Focus
  BY <1>7, RunEffect DEF Focus, settings, flags, timers, progress
<1>8. CASE SyncNow
  BY <1>8 DEF SyncNow, NoSession, settings, flags, timers, progress
<1>9. CASE Restart
  BY <1>9 DEF Restart, NoSession, AutoPull, settings, flags, timers, progress
<1>10. ASSUME NEW j \in Jobs, Clear(j) PROVE BusyIsJob'
  BY <1>10 DEF Clear, Move, settings, flags, timers, progress
<1>11. ASSUME NEW j \in Jobs, Enter(j) PROVE BusyIsJob'
  BY <1>11 DEF Enter, Move, settings, flags, timers, progress
<1>12. ASSUME NEW j \in Jobs, TurnedOff(j) PROVE BusyIsJob'
  BY <1>12 DEF TurnedOff, settings, flags, timers, progress
<1>13. ASSUME NEW j \in Jobs, Pull(j) PROVE BusyIsJob'
  BY <1>13 DEF Pull, Move, settings, flags, timers, progress
<1>14. ASSUME NEW j \in Jobs, Collect(j) PROVE BusyIsJob'
  BY <1>14 DEF Collect, settings, flags, timers, progress
<1>15. ASSUME NEW j \in Jobs, Send(j) PROVE BusyIsJob'
  BY <1>15 DEF Send, Move, Arrived, settings, flags, timers, progress
<1>16. ASSUME NEW j \in Jobs, SendFails(j) PROVE BusyIsJob'
  BY <1>16 DEF SendFails, Move, settings, flags, timers, progress
<1>17. ASSUME NEW j \in Jobs, Exit(j) PROVE BusyIsJob'
  BY <1>17 DEF Exit, Move, settings, flags, timers, progress
<1>18. ASSUME NEW j \in Jobs, Done(j) PROVE BusyIsJob'
  BY <1>18 DEF Done, NoSession, settings, flags, timers, progress
<1>19. CASE UNCHANGED vars
  BY <1>19 DEF vars
<1>20. QED
  BY <1>1, <1>2, <1>3, <1>4, <1>5, <1>6, <1>7, <1>8, <1>9, <1>10, <1>11, <1>12, <1>13, <1>14, <1>15, <1>16, <1>17, <1>18, <1>19 DEF Next, SessionStep

LEMMA StepPull ==
  ASSUME Inv, [Next]_vars
  PROVE  PullScheduled'
<1> USE DEF Inv, TypeOK, PullScheduled, AutoPull
<1>1. CASE Save
  BY <1>1 DEF Save, Notify, settings, flags, timers, progress
<1>2. CASE Touch
  BY <1>2 DEF Touch, Notify, settings, flags, timers, progress
<1>3. CASE Toggle
  BY <1>3 DEF Toggle, Notify, settings, flags, timers, progress
<1>4. CASE SetInterval
  BY <1>4 DEF SetInterval, Notify, settings, flags, timers, progress
<1>5. CASE DebouncedPush
  BY <1>5, RunEffect DEF DebouncedPush, settings, flags, timers, progress
<1>6. CASE IntervalPull
  BY <1>6, RunEffect DEF IntervalPull, AutoPull, settings, flags, timers, progress
<1>7. CASE Focus
  BY <1>7, RunEffect DEF Focus, settings, flags, timers, progress
<1>8. CASE SyncNow
  BY <1>8 DEF SyncNow, NoSession, settings, flags, timers, progress
<1>9. CASE Restart
  BY <1>9 DEF Restart, NoSession, AutoPull, settings, flags, timers, progress
<1>10. ASSUME NEW j \in Jobs, Clear(j) PROVE PullScheduled'
  BY <1>10 DEF Clear, Move, settings, flags, timers, progress
<1>11. ASSUME NEW j \in Jobs, Enter(j) PROVE PullScheduled'
  BY <1>11 DEF Enter, Move, settings, flags, timers, progress
<1>12. ASSUME NEW j \in Jobs, TurnedOff(j) PROVE PullScheduled'
  BY <1>12 DEF TurnedOff, settings, flags, timers, progress
<1>13. ASSUME NEW j \in Jobs, Pull(j) PROVE PullScheduled'
  BY <1>13 DEF Pull, Move, settings, flags, timers, progress
<1>14. ASSUME NEW j \in Jobs, Collect(j) PROVE PullScheduled'
  BY <1>14 DEF Collect, settings, flags, timers, progress
<1>15. ASSUME NEW j \in Jobs, Send(j) PROVE PullScheduled'
  BY <1>15 DEF Send, Move, Arrived, settings, flags, timers, progress
<1>16. ASSUME NEW j \in Jobs, SendFails(j) PROVE PullScheduled'
  BY <1>16 DEF SendFails, Move, settings, flags, timers, progress
<1>17. ASSUME NEW j \in Jobs, Exit(j) PROVE PullScheduled'
  BY <1>17 DEF Exit, Move, settings, flags, timers, progress
<1>18. ASSUME NEW j \in Jobs, Done(j) PROVE PullScheduled'
  BY <1>18 DEF Done, NoSession, settings, flags, timers, progress
<1>19. CASE UNCHANGED vars
  BY <1>19 DEF vars
<1>20. QED
  BY <1>1, <1>2, <1>3, <1>4, <1>5, <1>6, <1>7, <1>8, <1>9, <1>10, <1>11, <1>12, <1>13, <1>14, <1>15, <1>16, <1>17, <1>18, <1>19 DEF Next, SessionStep

LEMMA StepComing ==
  ASSUME Inv, [Next]_vars
  PROVE  UnpushedIsComing'
<1> USE DEF Inv, TypeOK, Jobs, Stages, DepthCounts, Inside, BusyIsJob, ClearsForPush, TookSaved, UnpushedIsComing, JobTakesAll
<1>1. CASE Save
  BY <1>1 DEF Save, Notify, settings, flags, timers, progress
<1>2. CASE Touch
  BY <1>2 DEF Touch, Notify, settings, flags, timers, progress
<1>3. CASE Toggle
  BY <1>3 DEF Toggle, Notify, settings, flags, timers, progress
<1>4. CASE SetInterval
  BY <1>4 DEF SetInterval, Notify, settings, flags, timers, progress
<1>5. CASE DebouncedPush
  BY <1>5, RunEffect DEF DebouncedPush, settings, flags, timers, progress
<1>6. CASE IntervalPull
  BY <1>6, RunEffect DEF IntervalPull, AutoPull, settings, flags, timers, progress
<1>7. CASE Focus
  BY <1>7, RunEffect DEF Focus, settings, flags, timers, progress
<1>8. CASE SyncNow
  BY <1>8 DEF SyncNow, NoSession, settings, flags, timers, progress
<1>9. CASE Restart
  BY <1>9 DEF Restart, NoSession, AutoPull, settings, flags, timers, progress
<1>10. ASSUME NEW j \in Jobs, Clear(j) PROVE UnpushedIsComing'
  BY <1>10 DEF Clear, Move, settings, flags, timers, progress
<1>11. ASSUME NEW j \in Jobs, Enter(j) PROVE UnpushedIsComing'
  BY <1>11, ZenonT(60) DEF Enter, Move, settings, flags, timers, progress
<1>12. ASSUME NEW j \in Jobs, TurnedOff(j) PROVE UnpushedIsComing'
  BY <1>12 DEF TurnedOff, settings, flags, timers, progress
<1>13. ASSUME NEW j \in Jobs, Pull(j) PROVE UnpushedIsComing'
  BY <1>13 DEF Pull, Move, settings, flags, timers, progress
<1>14. ASSUME NEW j \in Jobs, Collect(j) PROVE UnpushedIsComing'
  BY <1>14 DEF Collect, settings, flags, timers, progress
<1>15. ASSUME NEW j \in Jobs, Send(j) PROVE UnpushedIsComing'
  BY <1>15 DEF Send, Move, Arrived, settings, flags, timers, progress
<1>16. ASSUME NEW j \in Jobs, SendFails(j) PROVE UnpushedIsComing'
  BY <1>16 DEF SendFails, Move, settings, flags, timers, progress
<1>17. ASSUME NEW j \in Jobs, Exit(j) PROVE UnpushedIsComing'
  BY <1>17 DEF Exit, Move, settings, flags, timers, progress
<1>18. ASSUME NEW j \in Jobs, Done(j) PROVE UnpushedIsComing'
  BY <1>18 DEF Done, NoSession, settings, flags, timers, progress
<1>19. CASE UNCHANGED vars
  BY <1>19 DEF vars
<1>20. QED
  BY <1>1, <1>2, <1>3, <1>4, <1>5, <1>6, <1>7, <1>8, <1>9, <1>10, <1>11, <1>12, <1>13, <1>14, <1>15, <1>16, <1>17, <1>18, <1>19 DEF Next, SessionStep

LEMMA StepInv == Inv /\ [Next]_vars => Inv'
  BY StepTypeOK, StepClears, StepTook, StepDepth, StepBusy, StepPull, StepComing DEF Inv

LEMMA Invariance == Spec => []Inv
  BY InitInv, StepInv, PTL DEF Spec

\* Type correctness.
THEOREM AutoTypeOK == Spec => []TypeOK
  BY Invariance, PTL DEF Inv

\* However the thread of the job and that of Sync Now interleave, and
\* whatever is toggled meanwhile, the suppression depth counts the sessions
\* inside sync_data.
THEOREM AutoDepthCounts == Spec => []DepthCounts
  BY Invariance, PTL DEF Inv

\* _busy is up exactly while the background job runs.
THEOREM AutoBusyIsJob == Spec => []BusyIsJob
  BY Invariance, PTL DEF Inv

\* A pull is scheduled whenever automatic pulls are wanted.
THEOREM AutoPullScheduled == Spec => []PullScheduled
  BY Invariance, PTL DEF Inv

\* A save that has not arrived, and was not lost in one of the known ways,
\* has a timer or a job coming for it.
THEOREM AutoUnpushedIsComing == Spec => []UnpushedIsComing
  BY Invariance, PTL DEF Inv

----------------------------------------------------------------------------
(* Automatic backups: until a run goes unrecorded or the clock goes back,  *)
(* no file is of a later day than the last run.                            *)

FilesPast ==
    excuse \/ IF lastRun = Never THEN files = {} /\ latest = NoFile
              ELSE /\ lastRun <= clock /\ latest \in files
                   /\ \A f \in files : f.day <= lastRun \div DayParts

BackupInv == BackupTypeOK /\ IsFiniteSet(files) /\ FilesPast

\* The clock as the day of a name.
LEMMA DayOf ==
    ASSUME NEW t \in Nat
    PROVE  /\ t \div DayParts \in Nat
           /\ \A u \in Nat : u >= t + DayParts => u \div DayParts > t \div DayParts
BY BackupAssumption

\* A set of naturals has a least one.
LEMMA LeastNatural ==
    ASSUME NEW T, T \subseteq Nat, T # {}
    PROVE  \E x \in T : \A y \in T : x <= y
<1> DEFINE R == {ss \in Nat \X Nat : ss[1] < ss[2]}
<1>1. IsWellFoundedOn(R, Nat)
  BY NatLessThanWellFounded DEF OpToRel
<1>2. \E x \in T : \A y \in T : <<y, x>> \notin R
  <2> HIDE DEF R
  <2> QED BY <1>1, WFMin
<1>3. ASSUME NEW x \in T, NEW y \in T, <<y, x>> \notin R PROVE x <= y
  <2>1. <<y, x>> \in Nat \X Nat /\ <<y, x>>[1] = y /\ <<y, x>>[2] = x
    OBVIOUS
  <2> QED BY <1>3, <2>1
<1> HIDE DEF R
<1> QED BY <1>2, <1>3

\* The name of a backup is free: no backup is written over another.
LEMMA FreeName ==
    ASSUME BackupTypeOK, IsFiniteSet(files)
    PROVE  Name.day = Today /\ Name.n \in Nat /\ Name \notin files /\ Today \in Nat
<1> DEFINE C == Cardinality(files)
           at(n) == [day |-> Today, n |-> n]
           free == {n \in 0..C : at(n) \notin files}
<1>1. C \in Nat /\ Today \in Nat
  BY FS_CardinalityType, DayOf DEF BackupTypeOK, Today
<1>2. free # {}
  <2> SUFFICES ASSUME \A n \in 0..C : at(n) \in files PROVE FALSE
    OBVIOUS
  <2> DEFINE f == [n \in 0..C |-> at(n)]
  <2>1. \A m, n \in 0..C : at(m) = at(n) => m = n
    BY Zenon
  <2>2. f \in Injection(0..C, files)
    BY <2>1 DEF Injection, IsInjective
  <2>3. Cardinality(0..C) <= C
    <3> HIDE DEF f, C
    <3> QED BY <2>2, FS_Injection DEF C
  <2>4. Cardinality(0..C) = C + 1
    BY <1>1, FS_Interval
  <2> QED BY <1>1, <2>3, <2>4
<1>3. \E n \in 0..C : at(n) \notin files /\ \A i \in 0..(n - 1) : at(i) \in files
  <2>1. free \subseteq Nat
    BY <1>1
  <2>2. PICK n \in free : \A m \in free : n <= m
    BY <1>2, <2>1, LeastNatural
  <2>3. \A i \in 0..(n - 1) : i \in 0..C /\ ~ (n <= i)
    BY <1>1, <2>2
  <2> QED BY <2>2, <2>3
<1>4. \E n \in 0..C : Name = at(n) /\ at(n) \notin files
  BY <1>3 DEF Name
<1> QED BY <1>1, <1>4

LEMMA BackupStarts == BackupInit => BackupInv
<1> SUFFICES ASSUME BackupInit PROVE BackupInv
  OBVIOUS
<1>1. IsFiniteSet(files)
  BY FS_EmptySet DEF BackupInit
<1>2. BackupTypeOK
  <2>1. wanted \in BOOLEAN
    BY DEF BackupInit
  <2>2. every \in {"daily", "weekly", "off"}
    BY DEF BackupInit
  <2>3. lastRun \in Nat \cup {Never} /\ clock \in Nat /\ checks \in Nat \ {0}
    BY DEF BackupInit
  <2>4. files \subseteq [day : Nat, n : Nat] /\ latest \in [day : Nat, n : Nat] \cup {NoFile}
    BY DEF BackupInit
  <2>5. excuse \in BOOLEAN /\ failed \in BOOLEAN /\ runs \in Nat
    BY DEF BackupInit
  <2> QED BY <2>1, <2>2, <2>3, <2>4, <2>5 DEF BackupTypeOK
<1>3. FilesPast
  BY DEF BackupInit, FilesPast
<1> QED BY <1>1, <1>2, <1>3 DEF BackupInv

LEMMA BackupSteps == BackupInv /\ [BackupNext]_backupVars => BackupInv'
<1> SUFFICES ASSUME BackupInv, [BackupNext]_backupVars PROVE BackupInv'
  OBVIOUS
<1> USE BackupAssumption DEF BackupInv
<1>1. CASE CheckDisabled
  BY <1>1 DEF CheckDisabled, BackupTypeOK, FilesPast
<1>2. CASE CheckNotDue \/ BackupFails
  BY <1>2 DEF CheckNotDue, BackupFails, NextCheck, BackupTypeOK, FilesPast
<1>3. CASE Backup
  <2> DEFINE all == files \cup {Name}
  <2>1. Name.day = Today /\ Name.n \in Nat /\ Today \in Nat /\ Name = [day |-> Today, n |-> Name.n]
    BY FreeName DEF Name
  <2>2. IsFiniteSet(all) /\ all \subseteq [day : Nat, n : Nat]
    BY <2>1, FS_AddElement DEF BackupTypeOK
  <2>3. files' \subseteq all /\ (files' = all \/ files' = Pruned(all))
    BY <1>3 DEF Backup, Pruned
  <2>4. IsFiniteSet(files')
    BY <2>2, <2>3, FS_Subset
  <2>5. BackupTypeOK'
    <3>1. /\ files' \subseteq [day : Nat, n : Nat] /\ latest' \in [day : Nat, n : Nat]
          /\ lastRun' \in {lastRun, clock} /\ excuse' \in {excuse, TRUE} /\ failed' \in BOOLEAN
          /\ runs' = runs + 1 /\ UNCHANGED <<wanted, every, clock, checks>>
      BY <1>3, <2>1, <2>2, <2>3 DEF Backup, Counted, NextCheck
    <3>2. excuse' \in BOOLEAN
      BY <3>1 DEF BackupTypeOK
    <3>3. lastRun' \in Nat \cup {Never} /\ runs' \in Nat
      BY <3>1 DEF BackupTypeOK
    <3> QED BY <3>1, <3>2, <3>3 DEF BackupTypeOK
  <2>6. ASSUME ~ excuse', ~ excuse PROVE lastRun' <= clock' /\ latest' \in files' /\ lastRun' # Never
                                         /\ \A f \in files' : f.day <= lastRun' \div DayParts
    <3>1. lastRun' = clock /\ clock' = clock /\ latest' = Name /\ clock \in Nat
      BY <1>3, <2>6 DEF Backup, BackupTypeOK
    <3>2. \A f \in files : f.day \in Nat /\ f.day < Today
      <4>1. CASE lastRun = Never
        BY <2>6, <4>1 DEF FilesPast
      <4>2. CASE lastRun # Never
        <5>1. lastRun \in Nat /\ clock >= lastRun + DayParts
          <6>1. lastRun \in Nat /\ clock - lastRun >= Days[every] * DayParts
            BY <1>3, <4>2 DEF Backup, ShouldRun, BackupTypeOK
          <6>2. Days[every] \in {1, 7} /\ every # "off"
            BY <1>3 DEF Backup, ShouldRun, Days, BackupTypeOK
          <6>3. DayParts \in Nat /\ Days[every] * DayParts >= DayParts
            BY <6>2
          <6> QED BY <3>1, <6>1, <6>2, <6>3
        <5>2. lastRun \div DayParts \in Nat /\ Today > lastRun \div DayParts
          BY <3>1, <5>1, DayOf DEF Today
        <5> QED BY <2>1, <2>6, <4>2, <5>2 DEF FilesPast, BackupTypeOK
      <4> QED BY <4>1, <4>2
    <3>3. {g \in all : Before(Name, g)} = {}
      BY <2>1, <3>2 DEF Before
    <3>4. Name \in Pruned(all)
      BY <3>3, FS_EmptySet DEF Pruned
    <3>5. \A f \in all : f.day <= Today
      BY <2>1, <3>2
    <3> QED BY <2>3, <3>1, <3>4, <3>5 DEF Today, Never
  <2>7. FilesPast'
    BY <1>3, <2>6 DEF Backup, FilesPast
  <2> QED BY <2>4, <2>5, <2>7
<1>4. CASE ChangeSettings
  BY <1>4 DEF ChangeSettings, Counted, BackupTypeOK, FilesPast
<1>5. CASE StartAgain
  <2>1. /\ checks' = 1 /\ runs' = runs + 1 /\ excuse' \in {excuse, TRUE}
        /\ lastRun' = lastRun \/ lastRun' \in {Never} \cup 0..clock
        /\ UNCHANGED <<wanted, every, clock, files, latest, failed>>
    BY <1>5 DEF StartAgain, Counted
  <2>3. excuse' \in BOOLEAN
    BY <2>1 DEF BackupTypeOK
  <2>4. lastRun' \in Nat \cup {Never} /\ runs' \in Nat /\ checks' \in Nat \ {0}
    BY <2>1 DEF BackupTypeOK
  <2>5. BackupTypeOK'
    BY <2>1, <2>3, <2>4 DEF BackupTypeOK
  <2>2. FilesPast'
    BY <1>5 DEF StartAgain, FilesPast
  <2> QED BY <2>1, <2>2, <2>5
<1>6. CASE TimePasses
  BY <1>6 DEF TimePasses, BackupTypeOK, FilesPast
<1>7. CASE TurnBack
  BY <1>7 DEF TurnBack, Counted, BackupTypeOK, FilesPast
<1>8. CASE UNCHANGED backupVars
  BY <1>8 DEF backupVars, BackupTypeOK, FilesPast
<1> QED BY <1>1, <1>2, <1>3, <1>4, <1>5, <1>6, <1>7, <1>8 DEF BackupNext, CheckBackup

LEMMA BackupInvariance == BackupSpec => []BackupInv
BY BackupStarts, BackupSteps, PTL DEF BackupSpec

\* A check is always pending, whatever was toggled and whatever failed.
THEOREM BackupTypeCorrect == BackupSpec => []BackupTypeOK
<1>1. BackupInv => BackupTypeOK
  BY DEF BackupInv
<1> QED BY <1>1, BackupInvariance, PTL

\* Pruning by name spares the backup that was just made, for any number of
\* backups kept and any intervals, unless a run went unrecorded or the clock
\* went back.
THEOREM BackupLatestKept == BackupSpec => []LatestKept
<1>1. BackupInv => LatestKept
  BY DEF BackupInv, FilesPast, LatestKept
<1> QED BY <1>1, BackupInvariance, PTL

\* The name a backup is given is free: a backup is never written over another.
THEOREM BackupNamesFree == BackupSpec => [](Name \notin files)
<1>1. BackupInv => Name \notin files
  BY FreeName DEF BackupInv
<1> QED BY <1>1, BackupInvariance, PTL

----------------------------------------------------------------------------
(* Background work: _ACTIVE counts the workers that work and those that    *)
(* are about to leave, so a pump that finds it at zero has left nobody.    *)

\* The workers that have not put their result, one by one.
AtWork == UNION {{<<w, i>> : i \in 1..working[w]} : w \in Widgets}

ActiveCounts == IsFiniteSet(AtWork) /\ active = Cardinality(AtWork) + leaving

PumpSees ==
    /\ main.at # "loop" => main.of \in Widgets
    /\ main.at = "look" /\ ~ main.some => active = 0

UiInv == UiTypeOK /\ ActiveCounts /\ PumpSees /\ ResultHasPump

LEMMA AtWorkIs ==
    /\ \A p : p \in AtWork <=> \E w \in Widgets : \E i \in 1..working[w] : p = <<w, i>>
    /\ \A p : p \in AtWork' <=> \E w \in Widgets : \E i \in 1..working'[w] : p = <<w, i>>
BY DEF AtWork

\* One more worker, one less, and none.
LEMMA OneMore ==
    ASSUME UiTypeOK, ActiveCounts, NEW w \in Widgets, working' = [working EXCEPT ![w] = @ + 1]
    PROVE  IsFiniteSet(AtWork') /\ Cardinality(AtWork') = Cardinality(AtWork) + 1
<1> DEFINE new == <<w, working[w] + 1>>
<1>1. working[w] \in Nat /\ \A v \in Widgets : working[v] \in Nat
                                  /\ working'[v] = IF v = w THEN working[w] + 1 ELSE working[v]
  BY DEF UiTypeOK
<1>2. new \notin AtWork
  BY <1>1, AtWorkIs
<1>3. \A p : p \in AtWork' <=> p \in AtWork \/ p = new
  <2>1. ASSUME NEW p, NEW v \in Widgets, NEW i \in 1..working'[v], p = <<v, i>>
        PROVE  p \in AtWork \/ p = new
    <3>1. i \in 1..working[v] \/ (v = w /\ i = working[w] + 1)
      BY <1>1, <2>1
    <3> QED BY <2>1, <3>1, AtWorkIs
  <2>2. ASSUME NEW v \in Widgets, NEW i \in 1..working[v]
        PROVE  i \in 1..working'[v]
    BY <1>1
  <2>3. working[w] + 1 \in 1..working'[w]
    BY <1>1
  <2> QED BY <2>1, <2>2, <2>3, AtWorkIs
<1>4. AtWork' = AtWork \cup {new}
  BY <1>3
<1> QED BY <1>2, <1>4, FS_AddElement DEF ActiveCounts

LEMMA OneLess ==
    ASSUME UiTypeOK, ActiveCounts, NEW w \in Widgets, working[w] > 0,
           working' = [working EXCEPT ![w] = @ - 1]
    PROVE  IsFiniteSet(AtWork') /\ Cardinality(AtWork') = Cardinality(AtWork) - 1
<1> DEFINE old == <<w, working[w]>>
<1>1. working[w] \in Nat /\ \A v \in Widgets : working[v] \in Nat
                                  /\ working'[v] = IF v = w THEN working[w] - 1 ELSE working[v]
  BY DEF UiTypeOK
<1>2. old \in AtWork
  BY <1>1, AtWorkIs
<1>3. \A p : p \in AtWork' <=> p \in AtWork /\ p # old
  <2>1. ASSUME NEW v \in Widgets, NEW i \in 1..working'[v]
        PROVE  i \in 1..working[v] /\ <<v, i>> # old
    BY <1>1
  <2>2. ASSUME NEW v \in Widgets, NEW i \in 1..working[v], <<v, i>> # old
        PROVE  i \in 1..working'[v]
    BY <1>1, <2>2
  <2> QED BY <2>1, <2>2, AtWorkIs
<1>4. AtWork' = AtWork \ {old}
  BY <1>3
<1> QED BY <1>2, <1>4, FS_RemoveElement DEF ActiveCounts

LEMMA NobodyLeft ==
    ASSUME UiTypeOK, ActiveCounts
    PROVE  /\ active = 0 => leaving = 0 /\ \A w \in Widgets : working[w] = 0
           /\ leaving > 0 => active > 0
<1>1. Cardinality(AtWork) \in Nat /\ (Cardinality(AtWork) = 0 <=> AtWork = {})
  BY FS_CardinalityType, FS_EmptySet DEF ActiveCounts
<1>2. ASSUME NEW w \in Widgets, AtWork = {} PROVE working[w] = 0
  <2>1. working[w] \in Nat /\ 1 \notin 1..working[w]
    BY <1>2, AtWorkIs DEF UiTypeOK
  <2> QED BY <2>1
<1> QED BY <1>1, <1>2 DEF ActiveCounts, UiTypeOK

LEMMA UiStarts == UiInit => UiInv
<1> SUFFICES ASSUME UiInit PROVE UiInv
  OBVIOUS
<1>1. UiTypeOK
  <2>1. pump \in [Widgets -> BOOLEAN] /\ alive \in [Widgets -> BOOLEAN] /\ stranded \in BOOLEAN
    BY DEF UiInit
  <2>2. working \in [Widgets -> Nat] /\ queue \in Seq(Widgets)
    BY DEF UiInit
  <2>3. main \in [at : {"loop", "drain", "count", "look"}, of : Widgets \cup {"none"}, some : BOOLEAN]
    BY DEF UiInit, NoPump
  <2> QED BY <2>1, <2>2, <2>3 DEF UiInit, UiTypeOK
<1>2. AtWork = {}
  BY AtWorkIs DEF UiInit
<1>3. ActiveCounts
  BY <1>2, FS_EmptySet DEF ActiveCounts, UiInit
<1>4. PumpSees /\ ResultHasPump
  BY DEF PumpSees, ResultHasPump, Owed, UiInit, NoPump
<1> QED BY <1>1, <1>3, <1>4 DEF UiInv

\* New work, with what it leaves to the caller.
LEMMA GivesWork ==
    ASSUME UiTypeOK, ActiveCounts, NEW w \in Widgets, Given(w), UNCHANGED leaving
    PROVE  /\ active' \in Nat /\ given' \in Nat /\ stranded' = FALSE
           /\ pump' \in [Widgets -> BOOLEAN] /\ pump'[w] /\ working' \in [Widgets -> Nat]
           /\ ActiveCounts'
<1>1. /\ active' = active + 1 /\ given' = given + 1 /\ stranded' = FALSE
      /\ pump' = [pump EXCEPT ![w] = TRUE] /\ working' = [working EXCEPT ![w] = @ + 1]
  BY DEF Given
<1>2. Cardinality(AtWork) \in Nat
  BY FS_CardinalityType DEF ActiveCounts
<1>3. IsFiniteSet(AtWork') /\ Cardinality(AtWork') = Cardinality(AtWork) + 1
  BY <1>1, OneMore
<1>4. ActiveCounts'
  BY <1>1, <1>2, <1>3 DEF ActiveCounts, UiTypeOK
<1> QED BY <1>1, <1>4 DEF UiTypeOK

LEMMA UiSteps == UiInv /\ [UiNext]_uiVars => UiInv'
<1> SUFFICES ASSUME UiInv, [UiNext]_uiVars PROVE UiInv'
  OBVIOUS
<1> USE DEF UiInv
<1>1. ASSUME NEW w \in Widgets, RunBackground(w) PROVE UiInv'
  <2>1. main.at = "loop" /\ Given(w) /\ UNCHANGED <<queue, alive, leaving, main, hidden>>
    BY <1>1 DEF RunBackground
  <2>2. UiTypeOK'
    BY <2>1, GivesWork DEF UiTypeOK
  <2> QED BY <2>1, <2>2, GivesWork DEF PumpSees, ResultHasPump
<1>2. ASSUME NEW w \in Widgets, CancelPump(w) \/ Destroy(w) PROVE UiInv'
  <2>1. /\ main.at = "loop" /\ stranded' = (stranded \/ pump[w]) /\ pump' = [pump EXCEPT ![w] = FALSE]
        /\ UNCHANGED <<queue, active, working, leaving, main, given>>
        /\ hidden' \in {hidden, hidden + 1} /\ alive' \in {alive, [alive EXCEPT ![w] = FALSE]}
    BY <1>2 DEF CancelPump, Destroy, Removed, Unset
  <2>2. UiTypeOK'
    <3>1. stranded' \in BOOLEAN /\ pump' \in [Widgets -> BOOLEAN] /\ alive' \in [Widgets -> BOOLEAN]
      BY <2>1 DEF UiTypeOK
    <3> QED BY <2>1, <3>1 DEF UiTypeOK
  <2>3. ActiveCounts' /\ PumpSees'
    BY <2>1 DEF ActiveCounts, AtWork, PumpSees
  <2>4. ResultHasPump'
    BY <2>1 DEF ResultHasPump, Owed, UiTypeOK
  <2> QED BY <2>2, <2>3, <2>4
<1>3. ASSUME NEW w \in Widgets, Put(w) PROVE UiInv'
  <2>1. /\ working[w] > 0 /\ working' = [working EXCEPT ![w] = @ - 1] /\ queue' = Append(queue, w)
        /\ leaving' = leaving + 1
        /\ UNCHANGED <<active, pump, alive, main, stranded, given, hidden>>
    BY <1>3 DEF Put
  <2>2. UiTypeOK'
    BY <2>1 DEF UiTypeOK
  <2>3. Cardinality(AtWork) \in Nat
    BY FS_CardinalityType DEF ActiveCounts
  <2>6. IsFiniteSet(AtWork') /\ Cardinality(AtWork') = Cardinality(AtWork) - 1
    BY <2>1, OneLess
  <2>4. ActiveCounts'
    BY <2>1, <2>3, <2>6 DEF ActiveCounts, UiTypeOK
  <2>5. PumpSees' /\ ResultHasPump'
    BY <2>1 DEF PumpSees, ResultHasPump, Owed
  <2> QED BY <2>2, <2>4, <2>5
<1>4. CASE Leave
  <2>1. /\ leaving > 0 /\ leaving' = leaving - 1 /\ active' = active - 1
        /\ UNCHANGED <<queue, pump, alive, working, main, stranded, given, hidden>>
    BY <1>4 DEF Leave
  <2>2. active > 0
    BY <2>1, NobodyLeft
  <2>3. UiTypeOK'
    BY <2>1, <2>2 DEF UiTypeOK
  <2>4. Cardinality(AtWork) \in Nat /\ AtWork' = AtWork
    BY <2>1, FS_CardinalityType DEF ActiveCounts, AtWork
  <2>5. ActiveCounts'
    BY <2>1, <2>4 DEF ActiveCounts, UiTypeOK
  <2>6. PumpSees' /\ ResultHasPump'
    BY <2>1, <2>2 DEF PumpSees, ResultHasPump, Owed
  <2> QED BY <2>3, <2>5, <2>6
<1>5. ASSUME NEW w \in Widgets, PumpFires(w) PROVE UiInv'
  <2>1. main' = [at |-> "drain", of |-> w, some |-> FALSE] /\ pump' = [pump EXCEPT ![w] = FALSE]
        /\ UNCHANGED <<queue, active, alive, working, leaving, stranded, given, hidden>>
    BY <1>5 DEF PumpFires, NoPump
  <2>2. UiTypeOK'
    BY <2>1 DEF UiTypeOK
  <2> QED BY <2>1, <2>2 DEF ActiveCounts, AtWork, PumpSees, ResultHasPump
<1>6. CASE Drain
  <2>1. /\ main.at = "drain" /\ queue # <<>> /\ queue' = Tail(queue)
        /\ UNCHANGED <<leaving, main, hidden>>
    BY <1>6 DEF Drain
  <2>2. Head(queue) \in Widgets /\ queue' \in Seq(Widgets)
    BY <2>1 DEF UiTypeOK
  <2>3. CASE UNCHANGED <<active, pump, alive, working, stranded, given>>
    BY <2>1, <2>2, <2>3 DEF UiTypeOK, ActiveCounts, AtWork, PumpSees, ResultHasPump
  <2>4. CASE Given(Head(queue)) /\ UNCHANGED alive
    <3>1. UiTypeOK'
      BY <2>1, <2>2, <2>4, GivesWork DEF UiTypeOK
    <3> QED BY <2>1, <2>2, <2>4, <3>1, GivesWork DEF PumpSees, ResultHasPump
  <2>5. ASSUME NEW w \in Widgets, Removed(w) PROVE UiInv'
    <3>1. /\ stranded' = (stranded \/ pump[w]) /\ pump' = [pump EXCEPT ![w] = FALSE]
          /\ alive' = [alive EXCEPT ![w] = FALSE] /\ UNCHANGED <<active, working, given>>
      BY <2>5 DEF Removed, Unset
    <3>2. UiTypeOK'
      <4>1. stranded' \in BOOLEAN /\ pump' \in [Widgets -> BOOLEAN] /\ alive' \in [Widgets -> BOOLEAN]
        BY <3>1 DEF UiTypeOK
      <4> QED BY <2>1, <2>2, <3>1, <4>1 DEF UiTypeOK
    <3> QED BY <2>1, <3>1, <3>2 DEF ActiveCounts, AtWork, PumpSees, ResultHasPump
  <2> QED BY <1>6, <2>3, <2>4, <2>5 DEF Drain
<1>7. CASE Drained \/ CountActive
  <2>1. /\ UNCHANGED <<queue, active, pump, alive, working, leaving, stranded, given, hidden>>
        /\ main.at # "loop" /\ main'.of = main.of /\ main'.at \in {"count", "look"}
        /\ main' \in [at : {"count", "look"}, of : Widgets \cup {"none"}, some : BOOLEAN]
        /\ main'.at = "look" => main'.some = (active > 0)
    <3>1. main \in [at : {"loop", "drain", "count", "look"}, of : Widgets \cup {"none"}, some : BOOLEAN]
      BY DEF UiTypeOK
    <3>2. CASE Drained
      BY <3>1, <3>2 DEF Drained
    <3>3. CASE CountActive
      <4>1. main' = [main EXCEPT !.at = "look", !.some = active > 0]
        BY <3>3 DEF CountActive
      <4>2. main'.at = "look" /\ main'.of = main.of /\ main'.some = (active > 0)
        BY <3>1, <4>1
      <4>3. main' \in [at : {"count", "look"}, of : Widgets \cup {"none"}, some : BOOLEAN]
        <5>1. ASSUME NEW b \in BOOLEAN
              PROVE  [main EXCEPT !.at = "look", !.some = b]
                       \in [at : {"count", "look"}, of : Widgets \cup {"none"}, some : BOOLEAN]
          BY <3>1
        <5>2. CASE active > 0
          <6>1. main' = [main EXCEPT !.at = "look", !.some = TRUE]
            BY <4>1, <5>2
          <6> QED BY <5>1, <6>1
        <5>3. CASE ~ (active > 0)
          <6>1. main' = [main EXCEPT !.at = "look", !.some = FALSE]
            <7>1. (active > 0) = FALSE
              BY <5>3
            <7> QED BY <4>1, <7>1, Zenon
          <6> QED BY <5>1, <6>1
        <5> QED BY <5>2, <5>3
      <4> QED BY <3>3, <4>2, <4>3 DEF CountActive
    <3> QED BY <1>7, <3>2, <3>3
  <2>2. UiTypeOK'
    BY <2>1 DEF UiTypeOK
  <2>3. PumpSees' /\ ResultHasPump'
    BY <2>1 DEF PumpSees, ResultHasPump, UiTypeOK
  <2> QED BY <2>1, <2>2, <2>3 DEF ActiveCounts, AtWork
<1>8. CASE Reschedule
  <2> DEFINE again == main.some \/ queue # <<>>
             set == again /\ alive[main.of]
  <2>1. /\ main.at = "look" /\ main' = NoPump /\ main.of \in Widgets
        /\ pump' = IF set THEN [pump EXCEPT ![main.of] = TRUE] ELSE pump
        /\ stranded' = ((stranded \/ again) /\ ~ set)
        /\ UNCHANGED <<queue, active, alive, working, leaving, given, hidden>>
    BY <1>8 DEF Reschedule, Again, PumpSees
  <2>2. pump' \in [Widgets -> BOOLEAN] /\ stranded' \in BOOLEAN
    BY <2>1 DEF UiTypeOK
  <2>3. UiTypeOK'
    BY <2>1, <2>2 DEF UiTypeOK, NoPump
  <2>4. ASSUME set PROVE pump'[main.of]
    BY <2>1, <2>4 DEF UiTypeOK
  <2>5. ASSUME ~ again PROVE ~ Owed'
    BY <2>1, <2>5, NobodyLeft DEF PumpSees, Owed
  <2>7. ASSUME again, ~ set PROVE stranded'
    BY <2>1, <2>7
  <2>6. ResultHasPump'
    BY <2>1, <2>4, <2>5, <2>7 DEF ResultHasPump
  <2> QED BY <2>1, <2>3, <2>6 DEF ActiveCounts, AtWork, PumpSees, NoPump
<1>9. CASE UNCHANGED uiVars
  BY <1>9 DEF uiVars, UiTypeOK, ActiveCounts, AtWork, PumpSees, ResultHasPump, Owed
<1> QED BY <1>1, <1>2, <1>3, <1>4, <1>5, <1>6, <1>7, <1>8, <1>9 DEF UiNext, PumpStep

LEMMA UiInvariance == UiSpec => []UiInv
BY UiStarts, UiSteps, PTL DEF UiSpec

\* While a result is in the queue or in the making a pump is set or running,
\* unless the last one was cancelled: for any widgets and any amount of work.
THEOREM UiResultHasPump == UiSpec => []ResultHasPump
<1>1. UiInv => ResultHasPump
  BY DEF UiInv
<1> QED BY <1>1, UiInvariance, PTL

\* _ACTIVE is the number of workers at work and about to leave; in particular
\* it never falls below zero.
THEOREM UiActiveCounts == UiSpec => [](UiTypeOK /\ ActiveCounts)
<1>1. UiInv => UiTypeOK /\ ActiveCounts
  BY DEF UiInv
<1> QED BY <1>1, UiInvariance, PTL

----------------------------------------------------------------------------
(* The control list: a thread that rewrites used.txt alone knows all codes *)
(* that are in it, and only while a thread is between truncating the file  *)
(* and writing it are codes missing.                                       *)

Threads ==
    [pc : {"wait", "read", "arrive", "apply", "merge", "truncate", "fill", "check"}, at : 1..5,
     got : [Lists -> SUBSET Codes], todo : SUBSET Codes, seen : SUBSET Codes, clean : BOOLEAN]

\* Where a thread is in Sections; 5 is that of an activation.
Places ==
    \A t \in Readers :
        /\ reader[t].pc = "arrive" => reader[t].at = 1
        /\ reader[t].pc \in {"read", "apply"} => reader[t].at \in 1..4
        /\ reader[t].pc \in {"merge", "truncate", "fill"} => reader[t].at \in {3, 5}

KeptBurns == burned \ lost

CleanAlone ==
    \A t \in Readers : Marking(t) /\ reader[t].clean =>
        /\ KeptBurns \subseteq reader[t].seen
        /\ \A u \in Readers \ {t} : ~ Marking(u)

OnlyFillLacks ==
    (\A t \in Readers : reader[t].pc # "fill") => KeptBurns \subseteq local["used"]

ListInv == ListTypeOK /\ Places /\ CleanAlone /\ OnlyFillLacks

LEMMA SectionsAre ==
    /\ Sections[1] = "revoked" /\ Sections[2] = "banned" /\ Sections[3] = "used"
    /\ Sections[4] = "passcodes" /\ DOMAIN Sections = 1..4
    /\ Lists = {"revoked", "banned", "used", "passcodes"}
BY DEF Sections, Lists

LEMMA ListTypes ==
    ListTypeOK <=>
        /\ published \in [Lists -> SUBSET Codes] /\ local \in [Lists -> SUBSET Codes]
        /\ reader \in [Readers -> Threads]
        /\ \A t \in Readers : reader[t].pc = "apply" => reader[t].at \in DOMAIN Sections
        /\ running \in BOOLEAN /\ burned \subseteq Codes /\ lost \subseteq Codes
        /\ kind \in {"key", "passcode"}
        /\ events \in Nat /\ errands \in Nat
BY DEF ListTypeOK, Threads

LEMMA WaitingIs ==
    /\ Waiting \in Threads /\ Waiting.pc = "wait"
    /\ \A p \in {"read", "check", "wait"} :
          /\ [Waiting EXCEPT !.pc = p] \in Threads /\ [Waiting EXCEPT !.pc = p].pc = p
          /\ [Waiting EXCEPT !.pc = p].at \in 1..4
<1>1. Empty \in [Lists -> SUBSET Codes]
  BY DEF Empty
<1>2. Waiting \in Threads /\ Waiting.pc = "wait" /\ Waiting.at = 1
  BY <1>1 DEF Waiting, Threads
<1> QED BY <1>2 DEF Threads

LEMMA MarksOne ==
    ASSUME NEW c \in Codes
    PROVE  LET q == [Waiting EXCEPT !.pc = "merge", !.at = 5, !.todo = {c}]
           IN  q \in Threads /\ q.pc = "merge" /\ q.at = 5
<1>1. 5 \in 1..5 /\ {c} \in SUBSET Codes
  OBVIOUS
<1>2. \A w \in Threads : LET q == [w EXCEPT !.pc = "merge", !.at = 5, !.todo = {c}]
                         IN  q \in Threads /\ q.pc = "merge" /\ q.at = 5
  BY <1>1 DEF Threads
<1> QED BY <1>2, WaitingIs

LEMMA OverIs ==
    ASSUME NEW t \in Readers
    PROVE  Over(t) \in Threads /\ Over(t).pc \in {"check", "wait"}
<1>1. Over(t) = [Waiting EXCEPT !.pc = "check"] \/ Over(t) = [Waiting EXCEPT !.pc = "wait"]
  BY DEF Over
<1> QED BY <1>1, WaitingIs

\* What comes after a section.
LEMMA AfterIs ==
    ASSUME ListTypeOK, NEW t \in Readers, NEW i \in 1..5
    PROVE  /\ After(t, i) \in Threads /\ After(t, i).pc \in {"apply", "check", "wait"}
           /\ After(t, i).pc = "apply" => After(t, i).at \in 1..4
<1>1. CASE i < 4
  <2> DEFINE q == [reader[t] EXCEPT !.pc = "apply", !.at = i + 1]
  <2>1. reader[t] \in Threads
    BY ListTypes
  <2>2. i + 1 \in 1..5
    BY <1>1
  <2>4. q \in Threads /\ q.pc = "apply" /\ q.at = i + 1
    BY <2>1, <2>2 DEF Threads
  <2>3. After(t, i) = q
    BY <1>1 DEF After
  <2> QED BY <1>1, <2>3, <2>4
<1>2. CASE i >= 4
  <2>1. After(t, i) = Over(t)
    BY <1>2 DEF After
  <2> QED BY <2>1, OverIs
<1> QED BY <1>1, <1>2

LEMMA ListStarts == ListInit => ListInv
<1> SUFFICES ASSUME ListInit PROVE ListInv
  OBVIOUS
<1>1. \A t \in Readers : reader[t] = Waiting
  BY DEF ListInit
<1>2. Empty \in [Lists -> SUBSET Codes]
  BY DEF Empty
<1>3. ListTypeOK
  BY <1>1, <1>2, WaitingIs, ListTypes DEF ListInit
<1>4. Places /\ CleanAlone
  BY <1>1, WaitingIs DEF Places, CleanAlone, Marking
<1>5. OnlyFillLacks
  BY DEF OnlyFillLacks, KeptBurns, ListInit
<1> QED BY <1>3, <1>4, <1>5 DEF ListInv

\* A thread that goes on without touching used.txt or joining those that do.
LEMMA OtherStep ==
    ASSUME ListInv, NEW t \in Readers, NEW q \in Threads, reader' = [reader EXCEPT ![t] = q],
           ~ Marking(t), q.pc \notin {"truncate", "fill"},
           q.pc = "arrive" => q.at = 1, q.pc \in {"read", "apply"} => q.at \in 1..4,
           q.pc = "merge" => q.at \in {3, 5},
           published' \in [Lists -> SUBSET Codes], local' \in [Lists -> SUBSET Codes],
           local'["used"] = local["used"], UNCHANGED <<burned, lost, kind>>,
           running' \in BOOLEAN, events' \in Nat, errands' \in Nat
    PROVE  ListInv'
<1> USE DEF ListInv
<1>1. reader' \in [Readers -> Threads]
  BY ListTypes
<1>2. \A u \in Readers : IF u = t THEN reader'[u] = q ELSE reader'[u] = reader[u]
  BY ListTypes
<1>3. Places'
  BY <1>2 DEF Places
<1>4. \A u \in Readers : Marking(u)' => u # t /\ Marking(u)
  BY <1>2 DEF Marking
<1>5. CleanAlone'
  BY <1>2, <1>4 DEF CleanAlone, KeptBurns, Marking
<1>6. OnlyFillLacks'
  BY <1>2 DEF OnlyFillLacks, KeptBurns, Marking
<1>7. ListTypeOK'
  BY <1>1, <1>3, SectionsAre, ListTypes DEF Places, ListTypeOK, Threads
<1> QED BY <1>3, <1>5, <1>6, <1>7

LEMMA ListSteps == ListInv /\ [ListNext]_listVars => ListInv'
<1> SUFFICES ASSUME ListInv, [ListNext]_listVars PROVE ListInv'
  OBVIOUS
<1> USE DEF ListInv
<1>1. ASSUME NEW s \in Lists, NEW c \in Codes, Publish(s, c) \/ Withdraw(s, c) PROVE ListInv'
  <2>1. published' \in [Lists -> SUBSET Codes] /\ events' = events + 1
        /\ UNCHANGED <<local, reader, running, burned, lost, errands, kind>>
    BY <1>1 DEF Publish, Withdraw, Event, ListTypeOK
  <2> QED BY <2>1 DEF ListTypeOK, Places, CleanAlone, OnlyFillLacks, KeptBurns, Marking
<1>2. ASSUME NEW t \in Readers, StartFetch(t) PROVE ListInv'
  <2> DEFINE q == [Waiting EXCEPT !.pc = "read"]
  <2>1. q \in Threads /\ q.pc = "read" /\ q.at \in 1..4
    BY WaitingIs
  <2>2. errands' \in Nat
    BY <1>2 DEF StartFetch, Errand, ListTypeOK
  <2>3. /\ reader' = [reader EXCEPT ![t] = q] /\ reader[t].pc = "wait"
        /\ UNCHANGED <<published, local, running, burned, lost, events, kind>>
    BY <1>2 DEF StartFetch
  <2> HIDE DEF q
  <2>4. ~ Marking(t)
    BY <2>3 DEF Marking
  <2> QED BY <2>1, <2>2, <2>3, <2>4, OtherStep DEF ListTypeOK
<1>3. ASSUME NEW t \in Others, NEW c \in Codes, StartMark(t, c) PROVE ListInv'
  <2> DEFINE q == [Waiting EXCEPT !.pc = "merge", !.at = 5, !.todo = {c}]
  <2>1. q \in Threads /\ q.pc = "merge" /\ q.at = 5
    BY MarksOne
  <2>5. errands' \in Nat /\ events' \in Nat
    BY <1>3 DEF StartMark, Errand, Event, ListTypeOK
  <2>2. published' \in [Lists -> SUBSET Codes]
    BY <1>3 DEF StartMark, ListTypeOK
  <2>3. /\ reader' = [reader EXCEPT ![t] = q] /\ reader[t].pc = "wait" /\ t \in Readers
        /\ UNCHANGED <<local, running, burned, lost, kind>>
    BY <1>3 DEF StartMark, Readers
  <2> HIDE DEF q
  <2>4. ~ Marking(t)
    BY <2>3 DEF Marking
  <2> QED BY <2>1, <2>2, <2>3, <2>4, <2>5, OtherStep DEF ListTypeOK
<1>4. ASSUME NEW t \in Readers, ReadList(t) PROVE ListInv'
  <2> DEFINE i == reader[t].at
             g == [reader[t].got EXCEPT ![Sections[i]] = published[Sections[i]]]
             q == [reader[t] EXCEPT !.got = g,
                                    !.at = IF i = 4 THEN 1 ELSE i + 1,
                                    !.pc = IF i = 4 THEN "arrive" ELSE "read"]
  <2>1. reader[t] \in Threads /\ i \in 1..4 /\ reader[t].pc = "read"
    BY <1>4, ListTypes DEF ReadList, Places
  <2>2. Sections[i] \in Lists
    BY <2>1 DEF Lists
  <2>3. reader' = [reader EXCEPT ![t] = q]
    BY <1>4, ListTypes DEF ReadList, Threads
  <2>4. g \in [Lists -> SUBSET Codes]
    BY <2>1, <2>2 DEF Threads, ListTypeOK
  <2>5. (IF i = 4 THEN 1 ELSE i + 1) \in 1..4
    BY <2>1
  <2>6. /\ q \in Threads /\ q.pc \in {"arrive", "read"} /\ q.at \in 1..4
        /\ q.pc = "arrive" => q.at = 1
    <3> DEFINE p == IF i = 4 THEN "arrive" ELSE "read"
               j == IF i = 4 THEN 1 ELSE i + 1
    <3>1. p \in {"arrive", "read"} /\ (p = "arrive" => j = 1)
      OBVIOUS
    <3>2. j \in 1..4 /\ j \in 1..5
      BY <2>5
    <3> HIDE DEF g, p, j
    <3>3. LET r == [reader[t] EXCEPT !.got = g, !.at = j, !.pc = p]
          IN  r \in Threads /\ r.pc = p /\ r.at = j
      BY <2>1, <2>4, <3>1, <3>2 DEF Threads
    <3> QED BY <3>1, <3>2, <3>3 DEF p, j
  <2>7. UNCHANGED <<published, local, running, burned, lost, events, errands, kind>>
    BY <1>4 DEF ReadList
  <2> HIDE DEF q
  <2>8. ~ Marking(t)
    BY <2>1 DEF Marking
  <2> QED BY <2>3, <2>6, <2>7, <2>8, OtherStep DEF ListTypeOK
<1>5. ASSUME NEW t \in Readers, Arrive(t) \/ StartMerge(t) PROVE ListInv'
  <2>1. reader[t] \in Threads /\ reader[t].pc \in {"arrive", "apply"}
    BY <1>5, ListTypes DEF Arrive, StartMerge
  <2>2. \E q \in Threads : /\ reader' = [reader EXCEPT ![t] = q] /\ q.pc \in {"apply", "merge"}
                           /\ q.pc = "apply" => q.at \in 1..4
                           /\ q.pc = "merge" => q.at \in {3, 5}
    <3>1. CASE Arrive(t)
      <4> DEFINE q == [reader[t] EXCEPT !.pc = "apply"]
      <4>1. q \in Threads /\ q.pc = "apply" /\ q.at \in 1..4
        BY <2>1, <3>1 DEF Arrive, Places, Threads
      <4>2. reader' = [reader EXCEPT ![t] = q]
        BY <3>1, ListTypes DEF Arrive, To
      <4> HIDE DEF q
      <4> QED BY <4>1, <4>2
    <3>2. CASE StartMerge(t)
      <4> DEFINE g == [reader[t].got EXCEPT !["used"] = {}]
                 q == [reader[t] EXCEPT !.pc = "merge", !.todo = reader[t].got["used"], !.got = g]
      <4>1. reader[t].at = 3
        BY <3>2, SectionsAre DEF StartMerge, Places
      <4>4. g \in [Lists -> SUBSET Codes] /\ reader[t].got["used"] \in SUBSET Codes
        BY <2>1, SectionsAre DEF Threads
      <4>2. q \in Threads /\ q.pc = "merge" /\ q.at = 3
        <5> HIDE DEF g
        <5> QED BY <2>1, <4>1, <4>4 DEF Threads
      <4>3. reader' = [reader EXCEPT ![t] = q]
        BY <3>2, ListTypes DEF StartMerge, Threads
      <4> HIDE DEF q
      <4> QED BY <4>2, <4>3
    <3> QED BY <1>5, <3>1, <3>2
  <2>3. UNCHANGED <<published, local, running, burned, lost, events, errands, kind>>
    BY <1>5 DEF Arrive, StartMerge
  <2>4. ~ Marking(t)
    BY <2>1 DEF Marking
  <2> QED BY <2>2, <2>3, <2>4, OtherStep DEF ListTypeOK
<1>6. ASSUME NEW t \in Readers, FetchFails(t) PROVE ListInv'
  <2> DEFINE q == Over(t)
  <2>1. q \in Threads /\ q.pc \in {"check", "wait"}
    BY OverIs
  <2>3. reader' = [reader EXCEPT ![t] = q]
    BY <1>6 DEF FetchFails
  <2> HIDE DEF q
  <2>2. UNCHANGED <<published, local, running, burned, lost, events, errands, kind>> /\ ~ Marking(t)
    BY <1>6 DEF FetchFails, Marking
  <2> QED BY <2>1, <2>2, <2>3, OtherStep DEF ListTypeOK
<1>7. ASSUME NEW t \in Readers, ReplaceList(t) \/ MergeDone(t) PROVE ListInv'
  <2> DEFINE q == After(t, reader[t].at)
  <2>1. /\ q \in Threads /\ q.pc \in {"apply", "check", "wait"}
        /\ q.pc = "apply" => q.at \in 1..4
    BY ListTypes, AfterIs DEF Threads
  <2>2. reader' = [reader EXCEPT ![t] = q] /\ ~ Marking(t)
        /\ UNCHANGED <<published, running, burned, lost, events, errands, kind>>
    BY <1>7 DEF ReplaceList, MergeDone, Marking
  <2>3. local' \in [Lists -> SUBSET Codes] /\ local'["used"] = local["used"]
    BY <1>7, ListTypes, SectionsAre DEF ReplaceList, MergeDone, Threads
  <2> HIDE DEF q
  <2> QED BY <2>1, <2>2, <2>3, OtherStep DEF ListTypeOK
<1>16. ASSUME NEW t \in Readers, ReplaceFails(t) PROVE ListInv'
  <2>1. \E q \in Threads : /\ reader' = [reader EXCEPT ![t] = q] /\ q.pc \in {"apply", "check", "wait"}
                           /\ q.pc = "apply" => q.at \in 1..4
    <3>1. \/ reader' = [reader EXCEPT ![t] = Over(t)]
          \/ reader' = [reader EXCEPT ![t] = After(t, reader[t].at)]
      BY <1>16 DEF ReplaceFails
    <3>2. reader[t].at \in 1..5
      BY ListTypes DEF Threads
    <3> QED BY <3>1, <3>2, OverIs, AfterIs
  <2>2. events' \in Nat /\ ~ Marking(t) /\ UNCHANGED <<published, running, burned, lost, errands, kind>>
    BY <1>16 DEF ReplaceFails, Event, Marking, ListTypeOK
  <2>3. local' \in [Lists -> SUBSET Codes] /\ local'["used"] = local["used"]
    <3>1. Sections[reader[t].at] # "used" /\ \E s \in {Sections[reader[t].at]} :
                local' \in {local, [local EXCEPT ![s] = {}]}
      BY <1>16 DEF ReplaceFails
    <3> QED BY <3>1, SectionsAre DEF ListTypeOK
  <2> QED BY <2>1, <2>2, <2>3, OtherStep DEF ListTypeOK
<1>17. ASSUME NEW t \in Readers, NEW known \in SUBSET Codes, NEW alone \in BOOLEAN,
             reader[t].pc = "merge", events' \in Nat,
             alone => known = local["used"] /\ \A v \in Readers : ~ Marking(v),
             reader' = [u \in Readers |->
                IF u = t THEN [reader[t] EXCEPT !.pc = "truncate", !.seen = known, !.clean = alone]
                ELSE IF Marking(u) THEN [reader[u] EXCEPT !.clean = FALSE] ELSE reader[u]],
             UNCHANGED <<published, local, running, burned, lost, errands, kind>>
      PROVE  ListInv'
  <2> DEFINE q == [reader[t] EXCEPT !.pc = "truncate", !.seen = known, !.clean = alone]
             stale(u) == [reader[u] EXCEPT !.clean = FALSE]
  <2>1. \A u \in Readers : reader[u] \in Threads
    BY ListTypes
  <2>2. /\ q \in Threads /\ q.pc = "truncate" /\ q.at = reader[t].at /\ q.seen = known
        /\ q.clean = alone
    BY <2>1 DEF Threads
  <2>3. \A u \in Readers : /\ stale(u) \in Threads /\ stale(u).pc = reader[u].pc
                           /\ stale(u).at = reader[u].at /\ stale(u).clean = FALSE
    BY <2>1 DEF Threads
  <2>4. reader' = [u \in Readers |-> IF u = t THEN q ELSE IF Marking(u) THEN stale(u) ELSE reader[u]]
    BY <1>17
  <2> HIDE DEF q, stale
  <2>5. reader' \in [Readers -> Threads]
    BY <2>1, <2>2, <2>3, <2>4
  <2>6. Places'
    BY <1>17, <2>2, <2>3, <2>4 DEF Places
  <2>7. ASSUME alone PROVE KeptBurns \subseteq known /\ \A v \in Readers : ~ Marking(v)
    BY <1>17, <2>7 DEF OnlyFillLacks, Marking
  <2>8. \A u \in Readers \ {t} : Marking(u)' => ~ reader'[u].clean /\ Marking(u)
    BY <2>3, <2>4 DEF Marking
  <2>9. CleanAlone'
    <3>1. KeptBurns' = KeptBurns
      BY <1>17 DEF KeptBurns
    <3>2. ASSUME NEW u \in Readers, Marking(u)', reader'[u].clean PROVE u = t /\ alone
      BY <2>2, <2>4, <2>8, <3>2
    <3>3. reader'[t].seen = known
      BY <2>2, <2>4
    <3> QED BY <2>7, <2>8, <3>1, <3>2, <3>3 DEF CleanAlone
  <2>10. OnlyFillLacks'
    <3>1. \A u \in Readers : reader[u].pc = "fill" => reader'[u].pc = "fill"
      BY <1>17, <2>3, <2>4
    <3> QED BY <1>17, <3>1 DEF OnlyFillLacks, KeptBurns
  <2>11. ListTypeOK'
    BY <1>17, <2>5, <2>6, SectionsAre, ListTypes DEF Places, ListTypeOK, Threads
  <2> QED BY <2>6, <2>9, <2>10, <2>11
<1>8. ASSUME NEW t \in Readers, ReadUsed(t) \/ ReadFails(t) PROVE ListInv'
  <2> DEFINE alone == \A v \in Readers : ~ Marking(v)
  <2>1. local["used"] \in SUBSET Codes /\ {} \in SUBSET Codes /\ alone \in BOOLEAN
    BY SectionsAre DEF ListTypeOK
  <2>2. CASE ReadUsed(t)
    BY <1>17, <2>1, <2>2 DEF ReadUsed, ListTypeOK
  <2>3. CASE ReadFails(t)
    <3>1. events' \in Nat
      BY <2>3 DEF ReadFails, Event, ListTypeOK
    <3> QED BY <1>17, <2>1, <2>3, <3>1 DEF ReadFails
  <2> QED BY <1>8, <2>2, <2>3
<1>9. ASSUME NEW t \in Readers, TruncateUsed(t) PROVE ListInv'
  <2> DEFINE q == [reader[t] EXCEPT !.pc = "fill"]
  <2>1. reader[t] \in Threads /\ reader[t].pc = "truncate"
    BY <1>9, ListTypes DEF TruncateUsed
  <2>2. /\ q \in Threads /\ q.pc = "fill" /\ q.at = reader[t].at /\ q.seen = reader[t].seen
        /\ q.clean = reader[t].clean
    BY <2>1 DEF Threads
  <2>3. /\ reader' = [reader EXCEPT ![t] = q] /\ local' = [local EXCEPT !["used"] = {}]
        /\ UNCHANGED <<published, running, burned, lost, events, errands, kind>>
    BY <1>9, ListTypes DEF TruncateUsed, To, Threads
  <2> HIDE DEF q
  <2>4. \A u \in Readers : IF u = t THEN reader'[u] = q ELSE reader'[u] = reader[u]
    BY <2>3, ListTypes
  <2>5. Places'
    BY <2>1, <2>2, <2>4 DEF Places
  <2>6. CleanAlone'
    BY <2>1, <2>2, <2>3, <2>4 DEF CleanAlone, KeptBurns, Marking
  <2>7. OnlyFillLacks'
    BY <2>2, <2>4 DEF OnlyFillLacks
  <2>8. ListTypeOK'
    BY <2>2, <2>3, <2>5, SectionsAre, ListTypes DEF Places, ListTypeOK, Threads
  <2> QED BY <2>5, <2>6, <2>7, <2>8
<1>10. ASSUME NEW t \in Readers, WriteUsed(t) PROVE ListInv'
  <2> PICK c \in reader[t].todo :
        /\ local' = [local EXCEPT !["used"] = reader[t].seen \cup {c}]
        /\ burned' = burned \cup {c}
        /\ lost' = IF reader[t].clean THEN lost \ {c} ELSE burned'
        /\ reader' = [reader EXCEPT ![t].pc = "merge", ![t].todo = @ \ {c}, ![t].seen = {}]
    BY <1>10 DEF WriteUsed
  <2> DEFINE q == [reader[t] EXCEPT !.pc = "merge", !.todo = @ \ {c}, !.seen = {}]
  <2>1. reader[t] \in Threads /\ reader[t].pc = "fill" /\ c \in Codes
        /\ UNCHANGED <<published, running, events, errands, kind>>
    BY <1>10, ListTypes DEF WriteUsed, Threads
  <2>2. q \in Threads /\ q.pc = "merge" /\ q.at = reader[t].at
    BY <2>1 DEF Threads
  <2>3. reader' = [reader EXCEPT ![t] = q]
    BY ListTypes DEF Threads
  <2> HIDE DEF q
  <2>4. \A u \in Readers : IF u = t THEN reader'[u] = q ELSE reader'[u] = reader[u]
    BY <2>3, ListTypes
  <2>5. Places'
    BY <2>1, <2>2, <2>4 DEF Places
  <2>6. local'["used"] = reader[t].seen \cup {c} /\ local' \in [Lists -> SUBSET Codes]
    BY <2>1, SectionsAre DEF ListTypeOK, Threads
  <2>7. ASSUME reader[t].clean PROVE CleanAlone' /\ OnlyFillLacks'
    <3>1. \A u \in Readers : ~ Marking(u)'
      BY <2>1, <2>2, <2>4, <2>7 DEF CleanAlone, Marking
    <3>2. KeptBurns' \subseteq local'["used"]
      BY <2>1, <2>6, <2>7 DEF CleanAlone, KeptBurns, Marking
    <3> QED BY <3>1, <3>2 DEF CleanAlone, OnlyFillLacks
  <2>8. ASSUME ~ reader[t].clean PROVE CleanAlone' /\ OnlyFillLacks'
    <3>1. KeptBurns' = {}
      BY <2>8 DEF KeptBurns
    <3>2. \A u \in Readers : Marking(u)' => Marking(u) /\ u # t /\ reader'[u].clean = reader[u].clean
      BY <2>2, <2>4 DEF Marking
    <3>3. \A u \in Readers : Marking(u)' => ~ reader'[u].clean
      BY <2>1, <3>2 DEF CleanAlone, Marking
    <3> QED BY <3>1, <3>3 DEF CleanAlone, OnlyFillLacks
  <2>9. ListTypeOK'
    BY <2>1, <2>2, <2>3, <2>5, <2>6, SectionsAre, ListTypes DEF Places, ListTypeOK, Threads
  <2> QED BY <2>5, <2>7, <2>8, <2>9
<1>18. ASSUME NEW t \in Readers, WriteFails(t) PROVE ListInv'
  <2> PICK c \in reader[t].todo :
        /\ IF reader[t].pc = "truncate" THEN UNCHANGED <<local, lost>>
           ELSE /\ \E kept \in SUBSET (reader[t].seen \cup {c}) :
                        local' = [local EXCEPT !["used"] = kept]
                /\ lost' = burned
        /\ reader' = [reader EXCEPT ![t].pc = "merge", ![t].todo = @ \ {c}, ![t].seen = {}]
    BY <1>18 DEF WriteFails
  <2> DEFINE q == [reader[t] EXCEPT !.pc = "merge", !.todo = @ \ {c}, !.seen = {}]
  <2>1. reader[t] \in Threads /\ Marking(t) /\ c \in Codes /\ events' \in Nat
        /\ UNCHANGED <<published, running, burned, errands, kind>>
    BY <1>18, ListTypes DEF WriteFails, Event, Threads, ListTypeOK
  <2>2. q \in Threads /\ q.pc = "merge" /\ q.at = reader[t].at
    BY <2>1 DEF Threads
  <2>3. reader' = [reader EXCEPT ![t] = q]
    BY ListTypes DEF Threads
  <2> HIDE DEF q
  <2>4. \A u \in Readers : IF u = t THEN reader'[u] = q ELSE reader'[u] = reader[u]
    BY <2>3, ListTypes
  <2>5. Places'
    BY <2>1, <2>2, <2>4 DEF Places, Marking
  <2>6. local' \in [Lists -> SUBSET Codes] /\ lost' \subseteq Codes
    BY <2>1, SectionsAre DEF ListTypeOK, Threads
  <2>7. ASSUME reader[t].pc = "truncate" PROVE CleanAlone' /\ OnlyFillLacks'
    <3>1. KeptBurns' = KeptBurns /\ local' = local
      BY <2>1, <2>7 DEF KeptBurns
    <3>2. \A u \in Readers : Marking(u)' => u # t /\ Marking(u) /\ reader'[u] = reader[u]
      BY <2>2, <2>4 DEF Marking
    <3>3. CleanAlone'
      BY <3>1, <3>2 DEF CleanAlone
    <3>4. \A u \in Readers : reader[u].pc = "fill" => reader'[u].pc = "fill"
      BY <2>4, <2>7
    <3>5. OnlyFillLacks'
      BY <3>1, <3>4 DEF OnlyFillLacks
    <3> QED BY <3>3, <3>5
  <2>8. ASSUME reader[t].pc # "truncate" PROVE CleanAlone' /\ OnlyFillLacks'
    <3>1. KeptBurns' = {}
      BY <2>1, <2>8 DEF KeptBurns
    <3>2. \A u \in Readers : Marking(u)' => Marking(u) /\ u # t /\ reader'[u] = reader[u]
      BY <2>2, <2>4 DEF Marking
    <3>3. \A u \in Readers : Marking(u)' => ~ reader'[u].clean
      BY <2>1, <3>2 DEF CleanAlone
    <3> QED BY <3>1, <3>3 DEF CleanAlone, OnlyFillLacks
  <2>9. ListTypeOK'
    BY <2>1, <2>2, <2>3, <2>5, <2>6, SectionsAre, ListTypes DEF Places, ListTypeOK, Threads
  <2> QED BY <2>5, <2>7, <2>8, <2>9
<1>11. ASSUME Dies, errands' \in Nat, UNCHANGED <<published, local, burned, events, kind>> PROVE ListInv'
  <2>1. reader' = [t \in Readers |-> Waiting] /\ running' = FALSE
    BY <1>11 DEF Dies
  <2>2. lost' \subseteq Codes /\ KeptBurns' \subseteq local["used"]
    BY <1>11 DEF Dies, Cut, KeptBurns, OnlyFillLacks, ListTypeOK
  <2>3. Places' /\ CleanAlone' /\ OnlyFillLacks'
    BY <1>11, <2>1, <2>2, WaitingIs DEF Places, CleanAlone, OnlyFillLacks, Marking
  <2>4. ListTypeOK'
    BY <1>11, <2>1, <2>2, WaitingIs, ListTypes DEF ListTypeOK, Threads
  <2> QED BY <2>3, <2>4
<1>12. CASE Check
  <2>1. CASE Dies
    BY <1>11, <1>12, <2>1 DEF Check, ListTypeOK
  <2>2. CASE reader' = [reader EXCEPT ![Loop] = Waiting] /\ UNCHANGED <<running, lost>>
    <3>1. Loop \in Readers /\ ~ Marking(Loop)
      BY <1>12 DEF Check, Readers, Marking
    <3> QED BY <1>12, <2>2, <3>1, WaitingIs, OtherStep DEF Check, ListTypeOK
  <2> QED BY <1>12, <2>1, <2>2 DEF Check
<1>19. CASE CheckMisses
  <2>1. Loop \in Readers /\ ~ Marking(Loop) /\ events' \in Nat
    BY <1>19 DEF CheckMisses, Event, Readers, Marking, ListTypeOK
  <2> QED BY <1>19, <2>1, WaitingIs, OtherStep DEF CheckMisses, ListTypeOK
<1>13. CASE Quit
  <2>1. Dies /\ errands' \in Nat /\ UNCHANGED <<published, local, burned, events, kind>>
    BY <1>13 DEF Quit, ListTypeOK
  <2> QED BY <1>11, <2>1
<1>14. CASE StartApp
  BY <1>14 DEF StartApp, ListTypeOK, Places, CleanAlone, OnlyFillLacks, KeptBurns, Marking
<1>15. CASE UNCHANGED listVars
  BY <1>15 DEF listVars, ListTypeOK, Places, CleanAlone, OnlyFillLacks, KeptBurns, Marking
<1> QED
  BY <1>1, <1>2, <1>3, <1>4, <1>5, <1>6, <1>7, <1>8, <1>9, <1>10, <1>12, <1>13, <1>14, <1>15,
     <1>16, <1>18, <1>19
  DEF ListNext, FetchStep

LEMMA ListInvariance == ListSpec => []ListInv
BY ListStarts, ListSteps, PTL DEF ListSpec

\* The lists and the threads that fetch them are well-typed.
THEOREM ListTypeCorrect == ListSpec => []ListTypeOK
<1>1. ListInv => ListTypeOK
  BY DEF ListInv
<1> QED BY <1>1, ListInvariance, PTL

\* A burned code stays in used.txt, however many threads merge lists and mark
\* codes, unless two rewrote the file at once, one rewrote it unread, or it was
\* truncated and not written: the write failed or the app ended.
THEOREM ListBurnedStays == ListSpec => []BurnedStays
<1>1. ListInv => BurnedStays
  BY DEF ListInv, OnlyFillLacks, BurnedStays, Quiet, Marking, KeptBurns
<1> QED BY <1>1, ListInvariance, PTL

----------------------------------------------------------------------------
(* The upgrade of the database.                                            *)

Numbers == {1, 2, 4, 6, 10, 18}

Full == [there |-> TRUE, new |-> TRUE, rows |-> Relics]

Tables == {Gone, Made, Legacy, Full}

UpgradeFiles ==
    [recorded : SUBSET Numbers,
     list : Tables, aside : Tables, prices : Tables, spare : Tables,
     vault : SUBSET Relics, moved : [Relics -> 0..2],
     index : {"none", "stale", "fresh"}, triggers : BOOLEAN, ids : BOOLEAN,
     columns : SUBSET SyncTables, stamped : SUBSET SyncTables,
     filled : SUBSET SyncTables, named : SUBSET SyncTables]

\* The statements that touch no row that is moved.
Harmless ==
    {<<"begin", "all">>, <<"commit", "all">>, <<"ensure", "index">>, <<"fill", "ids">>,
     <<"drop", "triggers">>, <<"make", "triggers">>, <<"empty", "index">>, <<"fill", "index">>}
        \cup ({"alter", "stamp", "name"} \X SyncTables) \cup ({"record"} \X Numbers)

\* The statements of the moves, from each of them on.
DropAside == <<<<"drop", "aside">>>>
CopyList == <<<<"copy", "list">>>> \o DropAside
MakeList == <<<<"make", "list">>>> \o CopyList
MoveList == <<<<"shelve", "list">>>> \o MakeList
RecoverList == <<<<"recover", "list">>>> \o MoveList
BeginMove == <<<<"begin", "all">>>> \o MoveList
BeginRecover == <<<<"begin", "all">>>> \o RecoverList
EmptyVault == <<<<"empty", "vault">>>>
CopyVault == <<<<"copy", "vault">>>> \o EmptyVault
RenameSpare == <<<<"rename", "spare">>>>
DropPrices == <<<<"drop", "prices">>>> \o RenameSpare
CopyPrices == <<<<"copy", "prices">>>> \o DropPrices
MakeSpare == <<<<"make", "spare">>>> \o CopyPrices

RowMoves ==
    ({"recover", "shelve", "make", "copy"} \X {"list"}) \cup ({"drop"} \X {"aside", "prices"})
        \cup ({"copy", "empty"} \X {"vault"}) \cup ({"make", "rename"} \X {"spare"})
        \cup ({"copy"} \X {"prices"})

Known == Harmless \cup RowMoves

\* What is left of the migration is p and then nothing that moves a row.
Ahead(p) == \E s \in Seq(Harmless) : start.left = p \o s

KeptList(f) ==
    \/ f.list \in {Legacy, Full} /\ f.aside = Gone
    \/ f.list \in {Made, Gone} /\ f.aside = Legacy
KeptVault(f) ==
    \/ f.vault = Relics /\ f.moved = [r \in Relics |-> 0]
    \/ f.vault = {} /\ f.moved = [r \in Relics |-> 1]
KeptPrices(f) == f.prices \in {Legacy, Full} /\ f.spare \in {Gone, Made}
Kept(f) == KeptList(f) /\ KeptVault(f) /\ KeptPrices(f)

\* What the connection sees, by what it has still to do.
MovesOfList ==
    /\ KeptVault(work) /\ KeptPrices(work)
    /\ \/ work.list \in {Made, Gone} /\ work.aside = Legacy /\ (Ahead(BeginRecover) \/ Ahead(RecoverList))
       \/ work.list = Legacy /\ work.aside = Gone /\ (Ahead(BeginMove) \/ Ahead(MoveList))
       \/ work.list = Gone /\ work.aside = Legacy /\ Ahead(MakeList)
       \/ work.list = Made /\ work.aside = Legacy /\ Ahead(CopyList)
       \/ work.list = Full /\ work.aside = Legacy /\ Ahead(DropAside)

VaultMoves ==
    /\ KeptList(work) /\ KeptPrices(work)
    /\ work.vault = Relics
    /\ \/ work.moved = [r \in Relics |-> 0] /\ Ahead(CopyVault)
       \/ work.moved = [r \in Relics |-> 1] /\ Ahead(EmptyVault)

PricesMove ==
    /\ KeptList(work) /\ KeptVault(work)
    /\ \/ work.prices = Legacy /\ work.spare \in {Gone, Made} /\ Ahead(MakeSpare)
       \/ work.prices = Legacy /\ work.spare = Made /\ Ahead(CopyPrices)
       \/ work.prices = Legacy /\ work.spare = Full /\ tx /\ Ahead(DropPrices)
       \/ work.prices = Gone /\ work.spare = Full /\ tx /\ Ahead(RenameSpare)

Moves == \/ Kept(work) /\ start.left \in Seq(Harmless)
         \/ MovesOfList
         \/ VaultMoves
         \/ PricesMove

KeptTypes ==
    /\ stored \in UpgradeFiles /\ work \in UpgradeFiles /\ tx \in BOOLEAN
    /\ start \in [pc : {"off", "runs", "ready", "failed"}, place : 0..7, left : Seq(Known)]
    /\ start.left # <<>> => start.pc = "runs" /\ start.place \in 1..7

KeptInv == KeptTypes /\ Kept(stored) /\ Moves

LEMMA HarmlessEffect ==
    ASSUME NEW f \in UpgradeFiles, NEW s \in Harmless, s # <<"begin", "all">>, s # Commits
    PROVE  /\ Effect(s, f) \in UpgradeFiles
           /\ Effect(s, f).list = f.list /\ Effect(s, f).aside = f.aside
           /\ Effect(s, f).prices = f.prices /\ Effect(s, f).spare = f.spare
           /\ Effect(s, f).vault = f.vault /\ Effect(s, f).moved = f.moved
<1>1. CASE s = <<"ensure", "index">>
  BY <1>1 DEF Effect, UpgradeFiles
<1>2. CASE s = <<"fill", "ids">>
  BY <1>2 DEF Effect, UpgradeFiles
<1>3. CASE s = <<"drop", "triggers">>
  BY <1>3 DEF Effect, UpgradeFiles
<1>4. CASE s = <<"make", "triggers">>
  BY <1>4 DEF Effect, UpgradeFiles
<1>5. CASE s = <<"empty", "index">>
  BY <1>5 DEF Effect, UpgradeFiles
<1>6. CASE s = <<"fill", "index">>
  BY <1>6 DEF Effect, UpgradeFiles
<1>7. CASE s \in {"alter", "stamp", "name"} \X SyncTables
  <2>1. PICK t \in SyncTables : s \in {<<"alter", t>>, <<"stamp", t>>, <<"name", t>>}
    BY <1>7
  <2>2. t \notin {"list", "aside", "index", "triggers", "ids", "vault", "spare", "prices"}
    BY DEF SyncTables
  <2>3. CASE s = <<"alter", t>>
    <3>1. Effect(s, f) = [f EXCEPT !.columns = @ \cup {t}]
      BY <2>2, <2>3 DEF Effect
    <3> QED BY <3>1 DEF UpgradeFiles
  <2>4. CASE s = <<"stamp", t>>
    <3>1. Effect(s, f) = [f EXCEPT !.stamped = @ \cup {t}]
      BY <2>2, <2>4 DEF Effect
    <3> QED BY <3>1 DEF UpgradeFiles
  <2>5. CASE s = <<"name", t>>
    <3>1. Effect(s, f) = [f EXCEPT !.named = @ \cup {t}]
      BY <2>2, <2>5 DEF Effect
    <3> QED BY <3>1 DEF UpgradeFiles
  <2> QED BY <2>1, <2>3, <2>4, <2>5
<1>8. CASE s \in {"record"} \X Numbers
  <2>1. PICK v \in Numbers : s = <<"record", v>>
    BY <1>8
  <2>2. Effect(s, f) = [f EXCEPT !.recorded = @ \cup {v}]
    BY <2>1 DEF Effect
  <2> QED BY <2>2 DEF UpgradeFiles
<1> QED BY <1>1, <1>2, <1>3, <1>4, <1>5, <1>6, <1>7, <1>8 DEF Harmless, Commits

LEMMA MovingEffect ==
    ASSUME NEW f \in UpgradeFiles
    PROVE  /\ Effect(<<"recover", "list">>, f) = [f EXCEPT !.list = f.aside, !.aside = Gone]
           /\ Effect(<<"shelve", "list">>, f) = [f EXCEPT !.aside = f.list, !.list = Gone]
           /\ Effect(<<"make", "list">>, f) = [f EXCEPT !.list = Made]
           /\ Effect(<<"copy", "list">>, f) = [f EXCEPT !.list.rows = f.aside.rows]
           /\ Effect(<<"drop", "aside">>, f) = [f EXCEPT !.aside = Gone]
           /\ Effect(<<"copy", "vault">>, f) =
                [f EXCEPT !.moved = [r \in Relics |-> IF r \in f.vault THEN @[r] + 1 ELSE @[r]]]
           /\ Effect(<<"empty", "vault">>, f) = [f EXCEPT !.vault = {}]
           /\ Effect(<<"make", "spare">>, f) = [f EXCEPT !.spare = Made]
           /\ Effect(<<"copy", "prices">>, f) = [f EXCEPT !.spare.rows = f.prices.rows]
           /\ Effect(<<"drop", "prices">>, f) = [f EXCEPT !.prices = Gone]
           /\ Effect(<<"rename", "spare">>, f) = [f EXCEPT !.prices = f.spare, !.spare = Gone]
BY DEF Effect

LEMMA MovesNamed ==
    /\ <<"recover", "list">> \in RowMoves /\ <<"shelve", "list">> \in RowMoves
    /\ <<"make", "list">> \in RowMoves /\ <<"copy", "list">> \in RowMoves /\ <<"drop", "aside">> \in RowMoves
    /\ <<"copy", "vault">> \in RowMoves /\ <<"empty", "vault">> \in RowMoves
    /\ <<"make", "spare">> \in RowMoves /\ <<"copy", "prices">> \in RowMoves
    /\ <<"drop", "prices">> \in RowMoves /\ <<"rename", "spare">> \in RowMoves
BY DEF RowMoves

\* A move is not harmless.
LEMMA MovingApart ==
    /\ \A s \in RowMoves : s \notin Harmless
    /\ <<"begin", "all">> \in Harmless /\ Commits \in Harmless
<1>1. <<"begin", "all">> \in Harmless /\ Commits \in Harmless
  BY DEF Harmless, Commits
<1>2. ASSUME NEW s \in Harmless
      PROVE  \/ s[1] \in {"begin", "commit", "ensure", "fill", "alter", "stamp", "name", "record"}
             \/ s[1] \in {"make", "drop"} /\ s[2] = "triggers"
             \/ s[1] = "empty" /\ s[2] = "index"
  BY DEF Harmless
<1>3. ASSUME NEW s \in RowMoves
      PROVE  \/ s[1] \in {"recover", "shelve", "copy", "rename"}
             \/ s[1] \in {"make", "drop", "empty"} /\ s[2] \in {"list", "aside", "vault", "spare", "prices"}
  BY DEF RowMoves
<1> QED BY <1>1, <1>2, <1>3

LEMMA Lead ==
    ASSUME NEW S, NEW a \in S, NEW p \in Seq(S), NEW s \in Seq(S)
    PROVE  /\ <<a>> \o s # <<>> /\ Head(<<a>> \o s) = a /\ Tail(<<a>> \o s) = s
           /\ <<a>> \o s \in Seq(S)
           /\ (<<a>> \o p) \o s = <<a>> \o (p \o s)
<1>1. <<a>> \in Seq(S) /\ Len(<<a>>) = 1 /\ <<a>>[1] = a
  OBVIOUS
<1>2. <<a>> \o s \in Seq(S) /\ Len(<<a>> \o s) = Len(s) + 1 /\ (<<a>> \o s)[1] = a
      /\ \A i \in 1..Len(s) : (<<a>> \o s)[i + 1] = s[i]
  <2>1. Len(s) \in Nat
    OBVIOUS
  <2> QED BY <1>1, <2>1, ConcatProperties
<1> DEFINE r == <<a>> \o s
<1>3. r \in Seq(S) /\ Len(r) = Len(s) + 1 /\ r[1] = a
      /\ \A i \in 1..Len(s) : r[i + 1] = s[i]
  BY <1>2
<1> HIDE DEF r
<1>4. r # <<>> /\ Head(r) = a
  BY <1>3
<1>5. Tail(r) \in Seq(S) /\ Len(Tail(r)) = Len(s) /\ \A i \in 1..Len(s) : Tail(r)[i] = r[i + 1]
  BY <1>3, <1>4, HeadTailProperties
<1>6. Tail(r) = s
  BY <1>3, <1>5, SeqEqual
<1>7. (<<a>> \o p) \o s = <<a>> \o (p \o s)
  BY <1>1, ConcatAssociative
<1>8. <<a>> \o s # <<>> /\ Head(<<a>> \o s) = a /\ Tail(<<a>> \o s) = s
  BY <1>4, <1>6 DEF r
<1> QED BY <1>2, <1>7, <1>8

LEMMA Single == ASSUME NEW S, NEW a \in S PROVE <<a>> \in Seq(S) /\ <<a>> \o <<>> = <<a>>
OBVIOUS

LEMMA MovesAreKnown ==
    /\ <<>> \in Seq(Known)
    /\ {DropAside, CopyList, MakeList, MoveList, RecoverList, BeginMove, BeginRecover} \subseteq Seq(Known)
    /\ {EmptyVault, CopyVault} \subseteq Seq(Known)
    /\ {RenameSpare, DropPrices, CopyPrices, MakeSpare} \subseteq Seq(Known)
<1>1. RowMoves \subseteq Known /\ <<"begin", "all">> \in Known /\ <<>> \in Seq(Known)
  BY MovingApart DEF Known
<1>2. MoveList \in Seq(Known) /\ MakeList \in Seq(Known) /\ CopyList \in Seq(Known) /\ DropAside \in Seq(Known)
  <2>1. DropAside \in Seq(Known)
    BY <1>1, Single DEF DropAside, RowMoves
  <2>2. CopyList \in Seq(Known)
    BY <1>1, <2>1, Lead DEF CopyList, RowMoves
  <2>3. MakeList \in Seq(Known)
    BY <1>1, <2>2, Lead DEF MakeList, RowMoves
  <2>4. MoveList \in Seq(Known)
    BY <1>1, <2>3, Lead DEF MoveList, RowMoves
  <2> QED BY <2>1, <2>2, <2>3, <2>4
<1>3. RecoverList \in Seq(Known)
  BY <1>1, <1>2, Lead DEF RecoverList, RowMoves
<1>4. BeginMove \in Seq(Known) /\ BeginRecover \in Seq(Known)
  BY <1>1, <1>2, <1>3, Lead DEF BeginMove, BeginRecover
<1>5. EmptyVault \in Seq(Known) /\ RenameSpare \in Seq(Known)
  BY <1>1, Single DEF EmptyVault, RenameSpare, RowMoves
<1>6. CopyVault \in Seq(Known) /\ DropPrices \in Seq(Known)
  BY <1>1, <1>5, Lead DEF CopyVault, DropPrices, RowMoves
<1>7. CopyPrices \in Seq(Known)
  BY <1>1, <1>6, Lead DEF CopyPrices, RowMoves
<1>8. MakeSpare \in Seq(Known)
  BY <1>1, <1>7, Lead DEF MakeSpare, RowMoves
<1> QED BY <1>1, <1>2, <1>3, <1>4, <1>5, <1>6, <1>7, <1>8

\* A statement is executed: the next one is the first.
LEMMA AheadSteps ==
    ASSUME NEW a \in Known, NEW p \in Seq(Known), Ahead(<<a>> \o p)
    PROVE  /\ start.left # <<>> /\ Statement = a
           /\ \E s \in Seq(Harmless) : Tail(start.left) = p \o s
<1>1. PICK s \in Seq(Harmless) : start.left = (<<a>> \o p) \o s
  BY DEF Ahead
<1>2. s \in Seq(Known)
  BY DEF Known
<1>3. p \o s \in Seq(Known)
  BY <1>2, ConcatProperties
<1>4. start.left = <<a>> \o (p \o s)
  BY <1>1, <1>2, Lead, SMTT(30)
<1>5. start.left # <<>> /\ Head(start.left) = a /\ Tail(start.left) = p \o s
  BY <1>3, <1>4, Lead
<1> QED BY <1>5 DEF Statement

LEMMA AheadEnds ==
    ASSUME NEW a \in Known, Ahead(<<a>>)
    PROVE  start.left # <<>> /\ Statement = a /\ Tail(start.left) \in Seq(Harmless)
<1>1. PICK s \in Seq(Harmless) : start.left = <<a>> \o s
  BY DEF Ahead
<1>2. s \in Seq(Known) /\ <<>> \in Seq(Known)
  BY DEF Known
<1>3. start.left # <<>> /\ Head(start.left) = a /\ Tail(start.left) = s
  BY <1>1, <1>2, Lead
<1> QED BY <1>3 DEF Statement

\* A statement that is neither a begin nor a commit.
Executes ==
    /\ start.left # <<>> /\ Statement \notin {<<"begin", "all">>, Commits} /\ ~ Refused
    /\ work' = Effect(Statement, work) /\ Executed
    /\ IF ChangesRows(Statement) THEN tx' = TRUE /\ stored' = stored
       ELSE tx' = tx /\ stored' = IF tx THEN stored ELSE work'

StartTypes ==
    [pc : {"off", "runs", "ready", "failed"}, place : 0..7, left : Seq(Known)]

LEMMA ExecutedTypes ==
    ASSUME KeptTypes, start.left # <<>>, Executed
    PROVE  /\ start' \in StartTypes /\ start'.left = Tail(start.left)
           /\ start'.left # <<>> => start'.pc = "runs" /\ start'.place \in 1..7
<1>1. start \in StartTypes /\ start.pc = "runs" /\ start.place \in 1..7
  BY DEF KeptTypes, StartTypes
<1>2. Tail(start.left) \in Seq(Known)
  BY <1>1, HeadTailProperties DEF StartTypes
<1> QED BY <1>1, <1>2 DEF Executed, StartTypes

TableStates == [there : BOOLEAN, new : BOOLEAN, rows : SUBSET Relics]

LEMMA SameTable ==
    ASSUME NEW a \in TableStates, NEW b \in TableStates,
           a.there <=> b.there, a.new <=> b.new, a.rows = b.rows
    PROVE  a = b
BY DEF TableStates

LEMMA TablesApart ==
    /\ Gone # Made /\ Gone # Legacy /\ Gone # Full /\ Made # Legacy /\ Made # Full /\ Legacy # Full
    /\ ~ Gone.there /\ Made.there /\ Legacy.there /\ Full.there
    /\ ~ Gone.new /\ Made.new /\ ~ Legacy.new /\ Full.new
    /\ Full.rows = Relics /\ Legacy.rows = Relics /\ Gone.rows = {} /\ Made.rows = {}
    /\ Full = [Made EXCEPT !.rows = Relics]
<1>1. /\ ~ Gone.there /\ Made.there /\ Legacy.there /\ Full.there
      /\ ~ Gone.new /\ Made.new /\ ~ Legacy.new /\ Full.new
      /\ Full.rows = Relics /\ Legacy.rows = Relics /\ Gone.rows = {} /\ Made.rows = {}
  BY DEF Gone, Made, Legacy, Full
<1>2. Made # Full
  BY <1>1, UpgradeAssumption
<1>3. Full = [Made EXCEPT !.rows = Relics]
  <2> DEFINE filled == [Made EXCEPT !.rows = Relics]
  <2>1. Made \in TableStates /\ Full \in TableStates
    BY DEF Made, Full, TableStates
  <2>2. filled \in TableStates
    BY <2>1 DEF TableStates
  <2>3. filled.rows = Full.rows /\ (filled.there <=> Full.there) /\ (filled.new <=> Full.new)
    BY <1>1, <2>1 DEF TableStates
  <2> HIDE DEF filled
  <2>4. filled = Full
    BY <2>1, <2>2, <2>3, SameTable
  <2> QED BY <2>4 DEF filled
<1>4. Gone # Made /\ Gone # Legacy /\ Gone # Full /\ Made # Legacy /\ Legacy # Full
  BY <1>1
<1> QED BY <1>1, <1>2, <1>3, <1>4

\* A statement that moves no row.
LEMMA HarmlessRuns ==
    ASSUME KeptTypes, Kept(stored), Kept(work), start.left \in Seq(Harmless), Executes
    PROVE  KeptInv'
<1>1. Statement \in Harmless /\ Tail(start.left) \in Seq(Harmless)
  BY HeadTailProperties DEF Executes, Statement
<1>2. /\ work' \in UpgradeFiles
      /\ work'.list = work.list /\ work'.aside = work.aside
      /\ work'.prices = work.prices /\ work'.spare = work.spare
      /\ work'.vault = work.vault /\ work'.moved = work.moved
  BY <1>1, HarmlessEffect DEF Executes, KeptTypes
<1>3. Kept(work)'
  BY <1>2 DEF Kept, KeptList, KeptVault, KeptPrices
<1>4. stored' \in UpgradeFiles /\ Kept(stored)' /\ tx' \in BOOLEAN
  BY <1>2, <1>3 DEF Executes, KeptTypes
<1>5. KeptTypes'
  BY <1>2, <1>4, ExecutedTypes DEF KeptTypes, Executes, StartTypes
<1>6. Moves'
  BY <1>1, <1>3, ExecutedTypes DEF Moves, Executes
<1> QED BY <1>4, <1>5, <1>6 DEF KeptInv

LEMMA AheadStatements ==
    ASSUME KeptTypes
    PROVE  /\ Ahead(RecoverList) => Statement = <<"recover", "list">>
           /\ Ahead(BeginRecover) \/ Ahead(BeginMove) => Statement = <<"begin", "all">>
           /\ Ahead(MoveList) => Statement = <<"shelve", "list">>
           /\ Ahead(MakeList) => Statement = <<"make", "list">>
           /\ Ahead(CopyList) => Statement = <<"copy", "list">>
           /\ Ahead(DropAside) => Statement = <<"drop", "aside">>
           /\ Ahead(CopyVault) => Statement = <<"copy", "vault">>
           /\ Ahead(EmptyVault) => Statement = <<"empty", "vault">>
           /\ Ahead(MakeSpare) => Statement = <<"make", "spare">>
           /\ Ahead(CopyPrices) => Statement = <<"copy", "prices">>
           /\ Ahead(DropPrices) => Statement = <<"drop", "prices">>
           /\ Ahead(RenameSpare) => Statement = <<"rename", "spare">>
<1>1. RowMoves \subseteq Known /\ <<"begin", "all">> \in Known
  BY MovingApart DEF Known
<1>2. /\ Ahead(RecoverList) => Statement = <<"recover", "list">>
      /\ Ahead(MoveList) => Statement = <<"shelve", "list">>
      /\ Ahead(MakeList) => Statement = <<"make", "list">>
      /\ Ahead(CopyList) => Statement = <<"copy", "list">>
      /\ Ahead(DropAside) => Statement = <<"drop", "aside">>
  BY <1>1, AheadSteps, AheadEnds, MovesAreKnown DEF RecoverList, MoveList, MakeList, CopyList, DropAside, RowMoves
<1>3. Ahead(BeginRecover) \/ Ahead(BeginMove) => Statement = <<"begin", "all">>
  BY <1>1, AheadSteps, MovesAreKnown DEF BeginRecover, BeginMove
<1>4. /\ Ahead(CopyVault) => Statement = <<"copy", "vault">>
      /\ Ahead(EmptyVault) => Statement = <<"empty", "vault">>
  BY <1>1, AheadSteps, AheadEnds, MovesAreKnown DEF CopyVault, EmptyVault, RowMoves
<1>5. /\ Ahead(MakeSpare) => Statement = <<"make", "spare">>
      /\ Ahead(CopyPrices) => Statement = <<"copy", "prices">>
      /\ Ahead(DropPrices) => Statement = <<"drop", "prices">>
      /\ Ahead(RenameSpare) => Statement = <<"rename", "spare">>
  BY <1>1, AheadSteps, AheadEnds, MovesAreKnown DEF MakeSpare, CopyPrices, DropPrices, RenameSpare, RowMoves
<1> QED BY <1>2, <1>3, <1>4, <1>5

\* Where a move is executed, the next one follows.
LEMMA FollowsIs ==
    ASSUME KeptTypes, Executed
    PROVE  /\ Ahead(BeginRecover) => Ahead(RecoverList)'
           /\ Ahead(BeginMove) \/ Ahead(RecoverList) => Ahead(MoveList)'
           /\ Ahead(MoveList) => Ahead(MakeList)'
           /\ Ahead(MakeList) => Ahead(CopyList)'
           /\ Ahead(CopyList) => Ahead(DropAside)'
           /\ Ahead(CopyVault) => Ahead(EmptyVault)'
           /\ Ahead(MakeSpare) => Ahead(CopyPrices)'
           /\ Ahead(CopyPrices) => Ahead(DropPrices)'
           /\ Ahead(DropPrices) => Ahead(RenameSpare)'
           /\ Ahead(DropAside) \/ Ahead(EmptyVault) \/ Ahead(RenameSpare) => start'.left \in Seq(Harmless)
<1>1. RowMoves \subseteq Known /\ <<"begin", "all">> \in Known
  BY MovingApart DEF Known
<1>2. ASSUME NEW a \in Known, NEW p \in Seq(Known), Ahead(<<a>> \o p)
      PROVE  Ahead(p)'
  BY <1>2, AheadSteps, ExecutedTypes DEF Ahead
<1>3. ASSUME NEW a \in Known, Ahead(<<a>>)
      PROVE  start'.left \in Seq(Harmless)
  BY <1>3, AheadEnds, ExecutedTypes
<1>4. /\ Ahead(BeginRecover) => Ahead(RecoverList)'
      /\ Ahead(BeginMove) \/ Ahead(RecoverList) => Ahead(MoveList)'
  BY <1>1, <1>2, MovesAreKnown DEF BeginRecover, BeginMove, RecoverList, RowMoves
<1>5. Ahead(MoveList) => Ahead(MakeList)'
  BY <1>1, <1>2, MovesAreKnown DEF MoveList, RowMoves
<1>6. Ahead(MakeList) => Ahead(CopyList)'
  BY <1>1, <1>2, MovesAreKnown DEF MakeList, RowMoves
<1>7. Ahead(CopyList) => Ahead(DropAside)'
  BY <1>1, <1>2, MovesAreKnown DEF CopyList, RowMoves
<1>8. Ahead(CopyVault) => Ahead(EmptyVault)'
  BY <1>1, <1>2, MovesAreKnown DEF CopyVault, RowMoves
<1>9. Ahead(MakeSpare) => Ahead(CopyPrices)'
  BY <1>1, <1>2, MovesAreKnown DEF MakeSpare, RowMoves
<1>10. Ahead(CopyPrices) => Ahead(DropPrices)'
  BY <1>1, <1>2, MovesAreKnown DEF CopyPrices, RowMoves
<1>11. Ahead(DropPrices) => Ahead(RenameSpare)'
  BY <1>1, <1>2, MovesAreKnown DEF DropPrices, RowMoves
<1>12. Ahead(DropAside) \/ Ahead(EmptyVault) \/ Ahead(RenameSpare) => start'.left \in Seq(Harmless)
  BY <1>1, <1>3 DEF DropAside, EmptyVault, RenameSpare, RowMoves
<1> QED BY <1>4, <1>5, <1>6, <1>7, <1>8, <1>9, <1>10, <1>11, <1>12

SameList(f, g) == g.list = f.list /\ g.aside = f.aside
SameVault(f, g) == g.vault = f.vault /\ g.moved = f.moved
SamePrices(f, g) == g.prices = f.prices /\ g.spare = f.spare

\* What a move makes of the list of renewals.
LEMMA ListMoved ==
    ASSUME NEW f \in UpgradeFiles, NEW g
    PROVE  /\ f.aside = Legacy /\ g = Effect(<<"recover", "list">>, f) =>
                g \in UpgradeFiles /\ g.list = Legacy /\ g.aside = Gone
                /\ SameVault(f, g) /\ SamePrices(f, g)
           /\ f.list = Legacy /\ g = Effect(<<"shelve", "list">>, f) =>
                g \in UpgradeFiles /\ g.list = Gone /\ g.aside = Legacy
                /\ SameVault(f, g) /\ SamePrices(f, g)
           /\ g = Effect(<<"make", "list">>, f) =>
                g \in UpgradeFiles /\ g.list = Made /\ g.aside = f.aside
                /\ SameVault(f, g) /\ SamePrices(f, g)
           /\ f.list = Made /\ f.aside = Legacy /\ g = Effect(<<"copy", "list">>, f) =>
                g \in UpgradeFiles /\ g.list = Full /\ g.aside = Legacy
                /\ SameVault(f, g) /\ SamePrices(f, g)
           /\ g = Effect(<<"drop", "aside">>, f) =>
                g \in UpgradeFiles /\ g.list = f.list /\ g.aside = Gone
                /\ SameVault(f, g) /\ SamePrices(f, g)
<1>1. ASSUME f.aside = Legacy, g = Effect(<<"recover", "list">>, f)
      PROVE  g \in UpgradeFiles /\ g.list = Legacy /\ g.aside = Gone /\ SameVault(f, g) /\ SamePrices(f, g)
  <2>1. g = [f EXCEPT !.list = f.aside, !.aside = Gone]
    BY <1>1, MovingEffect
  <2> QED BY <1>1, <2>1 DEF UpgradeFiles, Tables, SameList, SameVault, SamePrices
<1>2. ASSUME f.list = Legacy, g = Effect(<<"shelve", "list">>, f)
      PROVE  g \in UpgradeFiles /\ g.list = Gone /\ g.aside = Legacy /\ SameVault(f, g) /\ SamePrices(f, g)
  <2>1. g = [f EXCEPT !.aside = f.list, !.list = Gone]
    BY <1>2, MovingEffect
  <2> QED BY <1>2, <2>1 DEF UpgradeFiles, Tables, SameList, SameVault, SamePrices
<1>3. ASSUME g = Effect(<<"make", "list">>, f)
      PROVE  g \in UpgradeFiles /\ g.list = Made /\ g.aside = f.aside /\ SameVault(f, g) /\ SamePrices(f, g)
  <2>1. g = [f EXCEPT !.list = Made]
    BY <1>3, MovingEffect
  <2> QED BY <1>3, <2>1 DEF UpgradeFiles, Tables, SameList, SameVault, SamePrices
<1>4. ASSUME f.list = Made, f.aside = Legacy, g = Effect(<<"copy", "list">>, f)
      PROVE  g \in UpgradeFiles /\ g.list = Full /\ g.aside = Legacy /\ SameVault(f, g) /\ SamePrices(f, g)
  <2>1. g = [f EXCEPT !.list = [@ EXCEPT !.rows = Relics]]
    BY <1>4, MovingEffect, TablesApart
  <2>2. g = [f EXCEPT !.list = Full]
    BY <1>4, <2>1, TablesApart
  <2> QED BY <1>4, <2>2 DEF UpgradeFiles, Tables, SameList, SameVault, SamePrices
<1>5. ASSUME g = Effect(<<"drop", "aside">>, f)
      PROVE  g \in UpgradeFiles /\ g.list = f.list /\ g.aside = Gone /\ SameVault(f, g) /\ SamePrices(f, g)
  <2>1. g = [f EXCEPT !.aside = Gone]
    BY <1>5, MovingEffect
  <2> QED BY <1>5, <2>1 DEF UpgradeFiles, Tables, SameList, SameVault, SamePrices
<1> QED BY <1>1, <1>2, <1>3, <1>4, <1>5

\* What a move makes of the vault.
LEMMA VaultMoved ==
    ASSUME NEW f \in UpgradeFiles, NEW g
    PROVE  /\ f.vault = Relics /\ f.moved = [r \in Relics |-> 0] /\ g = Effect(<<"copy", "vault">>, f) =>
                g \in UpgradeFiles /\ g.vault = Relics /\ g.moved = [r \in Relics |-> 1]
                /\ SameList(f, g) /\ SamePrices(f, g)
           /\ g = Effect(<<"empty", "vault">>, f) =>
                g \in UpgradeFiles /\ g.vault = {} /\ g.moved = f.moved
                /\ SameList(f, g) /\ SamePrices(f, g)
<1>1. ASSUME f.vault = Relics, f.moved = [r \in Relics |-> 0], g = Effect(<<"copy", "vault">>, f)
      PROVE  g \in UpgradeFiles /\ g.vault = Relics /\ g.moved = [r \in Relics |-> 1] /\ SameList(f, g) /\ SamePrices(f, g)
  <2>1. g = [f EXCEPT !.moved = [r \in Relics |-> IF r \in f.vault THEN @[r] + 1 ELSE @[r]]]
    BY <1>1, MovingEffect
  <2> QED BY <1>1, <2>1 DEF UpgradeFiles, Tables, SameList, SameVault, SamePrices
<1>2. ASSUME g = Effect(<<"empty", "vault">>, f)
      PROVE  g \in UpgradeFiles /\ g.vault = {} /\ g.moved = f.moved /\ SameList(f, g) /\ SamePrices(f, g)
  <2>1. g = [f EXCEPT !.vault = {}]
    BY <1>2, MovingEffect
  <2> QED BY <1>2, <2>1 DEF UpgradeFiles, Tables, SameList, SameVault, SamePrices
<1> QED BY <1>1, <1>2

\* What a move makes of the prices.
LEMMA PricesMoved ==
    ASSUME NEW f \in UpgradeFiles, NEW g
    PROVE  /\ g = Effect(<<"make", "spare">>, f) =>
                g \in UpgradeFiles /\ g.prices = f.prices /\ g.spare = Made
                /\ SameList(f, g) /\ SameVault(f, g)
           /\ f.prices = Legacy /\ f.spare = Made /\ g = Effect(<<"copy", "prices">>, f) =>
                g \in UpgradeFiles /\ g.prices = Legacy /\ g.spare = Full
                /\ SameList(f, g) /\ SameVault(f, g)
           /\ g = Effect(<<"drop", "prices">>, f) =>
                g \in UpgradeFiles /\ g.prices = Gone /\ g.spare = f.spare
                /\ SameList(f, g) /\ SameVault(f, g)
           /\ f.spare = Full /\ g = Effect(<<"rename", "spare">>, f) =>
                g \in UpgradeFiles /\ g.prices = Full /\ g.spare = Gone
                /\ SameList(f, g) /\ SameVault(f, g)
<1>1. ASSUME g = Effect(<<"make", "spare">>, f)
      PROVE  g \in UpgradeFiles /\ g.prices = f.prices /\ g.spare = Made /\ SameList(f, g) /\ SameVault(f, g)
  <2>1. g = [f EXCEPT !.spare = Made]
    BY <1>1, MovingEffect
  <2> QED BY <1>1, <2>1 DEF UpgradeFiles, Tables, SameList, SameVault, SamePrices
<1>2. ASSUME f.prices = Legacy, f.spare = Made, g = Effect(<<"copy", "prices">>, f)
      PROVE  g \in UpgradeFiles /\ g.prices = Legacy /\ g.spare = Full /\ SameList(f, g) /\ SameVault(f, g)
  <2>1. g = [f EXCEPT !.spare = [@ EXCEPT !.rows = Relics]]
    BY <1>2, MovingEffect, TablesApart
  <2>2. g = [f EXCEPT !.spare = Full]
    BY <1>2, <2>1, TablesApart
  <2> QED BY <1>2, <2>2 DEF UpgradeFiles, Tables, SameList, SameVault, SamePrices
<1>3. ASSUME g = Effect(<<"drop", "prices">>, f)
      PROVE  g \in UpgradeFiles /\ g.prices = Gone /\ g.spare = f.spare /\ SameList(f, g) /\ SameVault(f, g)
  <2>1. g = [f EXCEPT !.prices = Gone]
    BY <1>3, MovingEffect
  <2> QED BY <1>3, <2>1 DEF UpgradeFiles, Tables, SameList, SameVault, SamePrices
<1>4. ASSUME f.spare = Full, g = Effect(<<"rename", "spare">>, f)
      PROVE  g \in UpgradeFiles /\ g.prices = Full /\ g.spare = Gone /\ SameList(f, g) /\ SameVault(f, g)
  <2>1. g = [f EXCEPT !.prices = f.spare, !.spare = Gone]
    BY <1>4, MovingEffect
  <2> QED BY <1>4, <2>1 DEF UpgradeFiles, Tables, SameList, SameVault, SamePrices
<1> QED BY <1>1, <1>2, <1>3, <1>4

LEMMA MovesKept ==
    ASSUME KeptInv
    PROVE  start.left = <<>> => Kept(work)
<1>1. RowMoves \subseteq Known /\ <<"begin", "all">> \in Known
  BY MovingApart DEF Known
<1>2. ASSUME NEW a \in Known, NEW p \in Seq(Known), Ahead(<<a>> \o p) PROVE start.left # <<>>
  BY <1>2, AheadSteps
<1>3. ASSUME NEW a \in Known, Ahead(<<a>>) PROVE start.left # <<>>
  BY <1>3, AheadEnds
<1>4. MovesOfList => start.left # <<>>
  BY <1>1, <1>2, <1>3, MovesAreKnown
     DEF MovesOfList, BeginRecover, BeginMove, RecoverList, MoveList, MakeList, CopyList, DropAside, RowMoves
<1>5. VaultMoves => start.left # <<>>
  BY <1>1, <1>2, <1>3, MovesAreKnown DEF VaultMoves, CopyVault, EmptyVault, RowMoves
<1>6. PricesMove => start.left # <<>>
  BY <1>1, <1>2, <1>3, MovesAreKnown DEF PricesMove, MakeSpare, CopyPrices, DropPrices, RenameSpare, RowMoves
<1> QED BY <1>4, <1>5, <1>6 DEF KeptInv, Moves

\* Which of the moves change rows, in a transaction.
LEMMA MovesChange ==
    /\ \A o \in {"list", "vault", "prices"} : ChangesRows(<<"copy", o>>)
    /\ ChangesRows(<<"empty", "vault">>)
    /\ ~ ChangesRows(<<"recover", "list">>) /\ ~ ChangesRows(<<"shelve", "list">>)
    /\ ~ ChangesRows(<<"make", "list">>) /\ ~ ChangesRows(<<"drop", "aside">>)
    /\ ~ ChangesRows(<<"make", "spare">>) /\ ~ ChangesRows(<<"drop", "prices">>)
    /\ ~ ChangesRows(<<"rename", "spare">>)
BY DEF ChangesRows

LEMMA RunsKeep ==
    ASSUME KeptTypes, Kept(stored), Executes, work' \in UpgradeFiles, Moves',
           stored' = stored \/ Kept(work)'
    PROVE  KeptInv'
<1>1. stored' \in {stored, work'} /\ tx' \in BOOLEAN
  BY DEF Executes, KeptTypes
<1>2. stored' = work' => Kept(work)' \/ stored' = stored
  OBVIOUS
<1>3. Kept(stored)'
  <2>1. CASE stored' = stored
    BY <2>1 DEF Kept, KeptList, KeptVault, KeptPrices
  <2>2. CASE stored' = work' /\ Kept(work)'
    BY <2>2 DEF Kept, KeptList, KeptVault, KeptPrices
  <2> QED BY <1>1, <2>1, <2>2
<1>4. KeptTypes'
  BY <1>1, ExecutedTypes DEF KeptTypes, Executes, StartTypes
<1> QED BY <1>3, <1>4 DEF KeptInv

\* A statement of the move of the list of renewals.
LEMMA ListRuns ==
    ASSUME KeptTypes, Kept(stored), MovesOfList, Executes
    PROVE  KeptInv'
<1> USE DEF Executes
<1>0. KeptVault(work) /\ KeptPrices(work)
  BY DEF MovesOfList
<1>1. CASE work.list \in {Made, Gone} /\ work.aside = Legacy /\ Ahead(RecoverList)
  <2>1. work' \in UpgradeFiles /\ work'.list = Legacy /\ work'.aside = Gone
        /\ SameVault(work, work') /\ SamePrices(work, work')
    BY <1>1, AheadStatements, ListMoved DEF KeptTypes
  <2>2. Moves'
    BY <1>0, <1>1, <2>1, FollowsIs DEF Moves, MovesOfList, KeptList, KeptVault, KeptPrices, SameVault, SamePrices
  <2>3. Kept(work)'
    BY <1>0, <2>1 DEF Kept, KeptList, KeptVault, KeptPrices, SameVault, SamePrices
  <2> QED BY <2>1, <2>2, <2>3, RunsKeep
<1>2. CASE work.list = Legacy /\ work.aside = Gone /\ Ahead(MoveList)
  <2>1. work' \in UpgradeFiles /\ work'.list = Gone /\ work'.aside = Legacy
        /\ SameVault(work, work') /\ SamePrices(work, work')
    BY <1>2, AheadStatements, ListMoved DEF KeptTypes
  <2>2. Moves'
    BY <1>0, <1>2, <2>1, FollowsIs DEF Moves, MovesOfList, KeptList, KeptVault, KeptPrices, SameVault, SamePrices
  <2>3. Kept(work)'
    BY <1>0, <2>1 DEF Kept, KeptList, KeptVault, KeptPrices, SameVault, SamePrices
  <2> QED BY <2>1, <2>2, <2>3, RunsKeep
<1>3. CASE work.list = Gone /\ work.aside = Legacy /\ Ahead(MakeList)
  <2>1. work' \in UpgradeFiles /\ work'.list = Made /\ work'.aside = Legacy
        /\ SameVault(work, work') /\ SamePrices(work, work')
    BY <1>3, AheadStatements, ListMoved DEF KeptTypes
  <2>2. Moves'
    BY <1>0, <1>3, <2>1, FollowsIs DEF Moves, MovesOfList, KeptList, KeptVault, KeptPrices, SameVault, SamePrices
  <2>3. Kept(work)'
    BY <1>0, <2>1 DEF Kept, KeptList, KeptVault, KeptPrices, SameVault, SamePrices
  <2> QED BY <2>1, <2>2, <2>3, RunsKeep
<1>4. CASE work.list = Made /\ work.aside = Legacy /\ Ahead(CopyList)
  <2>1. work' \in UpgradeFiles /\ work'.list = Full /\ work'.aside = Legacy
        /\ SameVault(work, work') /\ SamePrices(work, work')
    BY <1>4, AheadStatements, ListMoved DEF KeptTypes
  <2>2. Moves'
    BY <1>0, <1>4, <2>1, FollowsIs DEF Moves, MovesOfList, KeptList, KeptVault, KeptPrices, SameVault, SamePrices
  <2>3. stored' = stored
    BY <1>4, AheadStatements, MovesChange
  <2> QED BY <2>1, <2>2, <2>3, RunsKeep
<1>5. CASE work.list = Full /\ work.aside = Legacy /\ Ahead(DropAside)
  <2>1. work' \in UpgradeFiles /\ work'.list = Full /\ work'.aside = Gone
        /\ SameVault(work, work') /\ SamePrices(work, work')
    BY <1>5, AheadStatements, ListMoved DEF KeptTypes
  <2>2. Kept(work)'
    BY <1>0, <2>1 DEF Kept, KeptList, KeptVault, KeptPrices, SameVault, SamePrices
  <2>3. Moves'
    BY <1>5, <2>2, FollowsIs DEF Moves
  <2> QED BY <2>1, <2>2, <2>3, RunsKeep
<1>6. ~ Ahead(BeginRecover) /\ ~ Ahead(BeginMove)
  BY AheadStatements
<1> QED BY <1>1, <1>2, <1>3, <1>4, <1>5, <1>6 DEF MovesOfList

\* A statement of the move of the vault.
LEMMA VaultRuns ==
    ASSUME KeptTypes, Kept(stored), VaultMoves, Executes
    PROVE  KeptInv'
<1> USE DEF Executes
<1>0. KeptList(work) /\ KeptPrices(work)
  BY DEF VaultMoves
<1>1. CASE work.vault = Relics /\ work.moved = [r \in Relics |-> 0] /\ Ahead(CopyVault)
  <2>1. work' \in UpgradeFiles /\ work'.vault = Relics /\ work'.moved = [r \in Relics |-> 1]
        /\ SameList(work, work') /\ SamePrices(work, work')
    BY <1>1, AheadStatements, VaultMoved DEF KeptTypes
  <2>2. Moves'
    BY <1>0, <1>1, <2>1, FollowsIs DEF Moves, VaultMoves, KeptList, KeptVault, KeptPrices, SameList, SamePrices
  <2>3. stored' = stored
    BY <1>1, AheadStatements, MovesChange
  <2> QED BY <2>1, <2>2, <2>3, RunsKeep
<1>2. CASE work.vault = Relics /\ work.moved = [r \in Relics |-> 1] /\ Ahead(EmptyVault)
  <2>1. work' \in UpgradeFiles /\ work'.vault = {} /\ work'.moved = [r \in Relics |-> 1]
        /\ SameList(work, work') /\ SamePrices(work, work')
    BY <1>2, AheadStatements, VaultMoved DEF KeptTypes
  <2>2. Kept(work)'
    BY <1>0, <2>1 DEF Kept, KeptList, KeptVault, KeptPrices, SameList, SamePrices
  <2>3. Moves'
    BY <1>2, <2>2, FollowsIs DEF Moves
  <2> QED BY <2>1, <2>2, <2>3, RunsKeep
<1> QED BY <1>1, <1>2 DEF VaultMoves

\* A statement of the move of the prices.
LEMMA PricesRun ==
    ASSUME KeptTypes, Kept(stored), PricesMove, Executes
    PROVE  KeptInv'
<1> USE DEF Executes
<1>0. KeptList(work) /\ KeptVault(work)
  BY DEF PricesMove
<1>1. CASE work.prices = Legacy /\ work.spare \in {Gone, Made} /\ Ahead(MakeSpare)
  <2>1. work' \in UpgradeFiles /\ work'.prices = Legacy /\ work'.spare = Made
        /\ SameList(work, work') /\ SameVault(work, work')
    BY <1>1, AheadStatements, PricesMoved DEF KeptTypes
  <2>2. Moves'
    BY <1>0, <1>1, <2>1, FollowsIs DEF Moves, PricesMove, KeptList, KeptVault, KeptPrices, SameList, SameVault
  <2>3. Kept(work)'
    BY <1>0, <2>1 DEF Kept, KeptList, KeptVault, KeptPrices, SameList, SameVault
  <2> QED BY <2>1, <2>2, <2>3, RunsKeep
<1>2. CASE work.prices = Legacy /\ work.spare = Made /\ Ahead(CopyPrices)
  <2>1. work' \in UpgradeFiles /\ work'.prices = Legacy /\ work'.spare = Full
        /\ SameList(work, work') /\ SameVault(work, work')
    BY <1>2, AheadStatements, PricesMoved DEF KeptTypes
  <2>2. Moves'
    BY <1>0, <1>2, <2>1, FollowsIs, AheadStatements, MovesChange DEF Moves, PricesMove, KeptList, KeptVault, KeptPrices, SameList, SameVault
  <2>3. stored' = stored
    BY <1>2, AheadStatements, MovesChange
  <2> QED BY <2>1, <2>2, <2>3, RunsKeep
<1>3. CASE work.prices = Legacy /\ work.spare = Full /\ tx /\ Ahead(DropPrices)
  <2>1. work' \in UpgradeFiles /\ work'.prices = Gone /\ work'.spare = Full
        /\ SameList(work, work') /\ SameVault(work, work')
    BY <1>3, AheadStatements, PricesMoved DEF KeptTypes
  <2>2. Moves'
    BY <1>0, <1>3, <2>1, FollowsIs, AheadStatements, MovesChange DEF Moves, PricesMove, KeptList, KeptVault, KeptPrices, SameList, SameVault
  <2>3. stored' = stored
    BY <1>3, AheadStatements, MovesChange
  <2> QED BY <2>1, <2>2, <2>3, RunsKeep
<1>4. CASE work.prices = Gone /\ work.spare = Full /\ tx /\ Ahead(RenameSpare)
  <2>1. work' \in UpgradeFiles /\ work'.prices = Full /\ work'.spare = Gone
        /\ SameList(work, work') /\ SameVault(work, work')
    BY <1>4, AheadStatements, PricesMoved DEF KeptTypes
  <2>2. Kept(work)'
    BY <1>0, <2>1 DEF Kept, KeptList, KeptVault, KeptPrices, SameList, SameVault
  <2>3. Moves'
    BY <1>4, <2>2, FollowsIs DEF Moves
  <2> QED BY <2>1, <2>2, <2>3, RunsKeep
<1> QED BY <1>1, <1>2, <1>3, <1>4 DEF PricesMove

\* A list that is written out, one statement after the other.
LEMMA FrontIs ==
    ASSUME NEW S, NEW a \in S, NEW s \in Seq(S), NEW r \in Seq(S),
           Len(r) = Len(s) + 1, r[1] = a, \A i \in 1..Len(s) : r[i + 1] = s[i]
    PROVE  r = <<a>> \o s
<1>1. <<a>> \in Seq(S) /\ Len(<<a>>) = 1 /\ <<a>>[1] = a
  OBVIOUS
<1>2. Len(s) \in Nat
  OBVIOUS
<1>3. <<a>> \o s \in Seq(S) /\ Len(<<a>> \o s) = Len(s) + 1 /\ (<<a>> \o s)[1] = a
      /\ \A i \in 1..Len(s) : (<<a>> \o s)[i + 1] = s[i]
  BY <1>1, <1>2, ConcatProperties
<1> DEFINE q == <<a>> \o s
<1>4. q \in Seq(S) /\ Len(q) = Len(s) + 1 /\ q[1] = a /\ \A i \in 1..Len(s) : q[i + 1] = s[i]
  BY <1>3
<1> HIDE DEF q
<1>5. \A i \in 1..Len(r) : r[i] = q[i]
  <2> SUFFICES ASSUME NEW i \in 1..Len(r) PROVE r[i] = q[i]
    OBVIOUS
  <2>1. CASE i = 1
    BY <1>4, <2>1
  <2>2. CASE i # 1
    <3>1. i - 1 \in 1..Len(s) /\ (i - 1) + 1 = i
      BY <1>2, <2>2
    <3> QED BY <1>4, <3>1
  <2> QED BY <2>1, <2>2
<1>6. r = q
  BY <1>4, <1>5, SeqEqual
<1> QED BY <1>6 DEF q

LEMMA PairIs ==
    ASSUME NEW a, NEW b PROVE <<a, b>> = <<a>> \o <<b>>
<1> DEFINE S == {a, b}
<1>1. a \in S /\ <<b>> \in Seq(S) /\ <<a, b>> \in Seq(S)
  OBVIOUS
<1>2. Len(<<b>>) = 1 /\ Len(<<a, b>>) = 2 /\ <<a, b>>[1] = a /\ <<a, b>>[2] = b /\ <<b>>[1] = b
  OBVIOUS
<1>3. \A i \in 1..1 : <<a, b>>[i + 1] = <<b>>[i]
  BY <1>2
<1>4. Len(<<a, b>>) = Len(<<b>>) + 1 /\ \A i \in 1..Len(<<b>>) : <<a, b>>[i + 1] = <<b>>[i]
  BY <1>2, <1>3
<1> QED BY <1>1, <1>2, <1>4, FrontIs

LEMMA WrittenOut ==
    ASSUME NEW S, NEW a \in S, NEW b \in S, NEW c \in S, NEW d \in S, NEW e \in S
    PROVE  /\ <<a, b>> = <<a>> \o <<b>>
           /\ <<a, b, c>> = <<a>> \o <<b, c>>
           /\ <<a, b, c, d>> = <<a>> \o <<b, c, d>>
           /\ <<a, b, c, d, e>> = <<a>> \o <<b, c, d, e>>
           /\ {<<a>>, <<a, b>>, <<a, b, c>>, <<a, b, c, d>>, <<a, b, c, d, e>>} \subseteq Seq(S)
<1>1. {<<a>>, <<b>>, <<a, b>>, <<b, c>>, <<a, b, c>>, <<b, c, d>>, <<a, b, c, d>>, <<b, c, d, e>>,
       <<a, b, c, d, e>>} \subseteq Seq(S)
  OBVIOUS
<1>2. <<a, b>> = <<a>> \o <<b>>
  BY PairIs
<1>3. <<a, b, c>> = <<a>> \o <<b, c>>
  BY <1>1, FrontIs
<1>4. <<a, b, c, d>> = <<a>> \o <<b, c, d>>
  BY <1>1, FrontIs
<1>5. <<a, b, c, d, e>> = <<a>> \o <<b, c, d, e>>
  BY <1>1, FrontIs
<1> QED BY <1>1, <1>2, <1>3, <1>4, <1>5

HarmlessLists == Seq(Harmless)

LEMMA HarmlessJoin ==
    /\ <<>> \in HarmlessLists
    /\ \A p \in HarmlessLists, q \in HarmlessLists : p \o q \in HarmlessLists
    /\ \A a \in Harmless : <<a>> \in HarmlessLists
    /\ \A a \in Harmless, b \in Harmless : <<a, b>> \in HarmlessLists
BY DEF HarmlessLists

Recorded(v) == When(v # 0, <<<<"record", v>>, Commits>>)

LEMMA RecordedHarmless ==
    ASSUME NEW v \in {0, 1, 2, 4, 6, 10, 18} PROVE Recorded(v) \in HarmlessLists
<1>1. v # 0 => <<"record", v>> \in Harmless
  BY DEF Harmless, Numbers
<1> QED BY <1>1, MovingApart, HarmlessJoin DEF Recorded, When

LEMMA ColumnsHarmless ==
    ASSUME NEW t \in SyncTables, NEW f PROVE Columns(t, f) \in HarmlessLists
<1>1. <<"alter", t>> \in Harmless /\ <<"stamp", t>> \in Harmless /\ <<"name", t>> \in Harmless
  BY DEF Harmless
<1>2. When(t \notin f.columns, <<<<"alter", t>>, <<"stamp", t>>>>) \in HarmlessLists
  BY <1>1, HarmlessJoin DEF When
<1>3. When(t \in f.filled \ f.named, <<<<"name", t>>>>) \in HarmlessLists
  BY <1>1, HarmlessJoin DEF When
<1> QED BY <1>2, <1>3, HarmlessJoin DEF Columns

\* The migrations that move no row.
LEMMA StatementsHarmless ==
    ASSUME NEW v \in {0, 2, 10, 18}, NEW f PROVE Statements(v, f) \in HarmlessLists
<1> DEFINE drop == <<"drop", "triggers">>
           make == <<"make", "triggers">>
           emptied == <<"empty", "index">>
           filled == <<"fill", "index">>
           ids == <<"fill", "ids">>
<1>1. /\ drop \in Harmless /\ make \in Harmless /\ emptied \in Harmless /\ filled \in Harmless
      /\ ids \in Harmless /\ Commits \in Harmless
  BY MovingApart DEF Harmless
<1>2. v = 0 => Statements(v, f) = <<make>>
  BY DEF Statements
<1>3. v = 2 => Statements(v, f) = (<<drop>> \o When(~ f.ids, <<ids>>)) \o <<make, filled, Commits>>
  BY DEF Statements
<1>4. v = 10 => Statements(v, f) = <<drop, emptied, filled, make, Commits>>
  BY DEF Statements
<1>5. v = 18 => Statements(v, f) = (Columns("first", f) \o Columns("second", f)) \o <<Commits>>
  BY DEF Statements
<1> HIDE DEF drop, make, emptied, filled, ids
<1>6. v = 0 => Statements(v, f) \in HarmlessLists
  BY <1>1, <1>2, HarmlessJoin
<1>7. v = 2 => Statements(v, f) \in HarmlessLists
  <2>1. When(~ f.ids, <<ids>>) \in HarmlessLists
    BY <1>1, HarmlessJoin DEF When
  <2>2. <<drop>> \o When(~ f.ids, <<ids>>) \in HarmlessLists
    BY <1>1, <2>1, HarmlessJoin
  <2>3. <<make, filled, Commits>> \in HarmlessLists
    BY <1>1, WrittenOut DEF HarmlessLists
  <2> QED BY <1>3, <2>2, <2>3, HarmlessJoin
<1>8. v = 10 => Statements(v, f) \in HarmlessLists
  <2>1. <<drop, emptied, filled, make, Commits>> \in Seq(Harmless)
    BY <1>1, WrittenOut
  <2> QED BY <1>4, <2>1 DEF HarmlessLists
<1>9. v = 18 => Statements(v, f) \in HarmlessLists
  <2>1. Columns("first", f) \in HarmlessLists /\ Columns("second", f) \in HarmlessLists
    BY ColumnsHarmless DEF SyncTables
  <2>2. Columns("first", f) \o Columns("second", f) \in HarmlessLists
    BY <2>1, HarmlessJoin
  <2>3. <<Commits>> \in HarmlessLists
    BY <1>1, HarmlessJoin
  <2> QED BY <1>5, <2>2, <2>3, HarmlessJoin
<1> QED BY <1>6, <1>7, <1>8, <1>9

LEMMA MovesWritten ==
    /\ RenewList = MoveList
    /\ MoveVault = CopyVault \o <<Commits>>
    /\ <<<<"make", "spare">>, <<"copy", "prices">>, <<"drop", "prices">>, <<"rename", "spare">>, Commits>>
        = MakeSpare \o <<Commits>>
<1>1. RowMoves \subseteq Known /\ Commits \in Known
  BY MovingApart DEF Known
<1>2. RenewList = MoveList
  <2> DEFINE a == <<"shelve", "list">>
             b == <<"make", "list">>
             c == <<"copy", "list">>
             d == <<"drop", "aside">>
  <2>1. a \in Known /\ b \in Known /\ c \in Known /\ d \in Known
    BY <1>1 DEF RowMoves
  <2>2. MoveList = <<a>> \o (<<b>> \o (<<c>> \o <<d>>))
    BY DEF MoveList, MakeList, CopyList, DropAside
  <2> HIDE DEF a, b, c, d
  <2>3. <<a, b, c, d>> = <<a>> \o (<<b>> \o (<<c>> \o <<d>>))
    <3>1. <<a, b, c, d>> = <<a>> \o <<b, c, d>>
      BY <2>1, WrittenOut
    <3>2. <<b, c, d>> = <<b>> \o <<c, d>>
      BY <2>1, WrittenOut
    <3>3. <<c, d>> = <<c>> \o <<d>>
      BY PairIs
    <3> QED BY <3>1, <3>2, <3>3
  <2> QED BY <2>2, <2>3 DEF RenewList, a, b, c, d
<1>3. MoveVault = CopyVault \o <<Commits>>
  <2> DEFINE a == <<"copy", "vault">>
             b == <<"empty", "vault">>
  <2>1. a \in Known /\ b \in Known
    BY <1>1 DEF RowMoves
  <2>2. CopyVault = <<a>> \o <<b>> /\ MoveVault = <<a, b, Commits>>
    BY DEF CopyVault, EmptyVault, MoveVault
  <2> HIDE DEF a, b
  <2>3. <<a, b, Commits>> = <<a>> \o (<<b>> \o <<Commits>>)
    <3>1. <<a, b, Commits>> = <<a>> \o <<b, Commits>>
      BY <1>1, <2>1, WrittenOut
    <3>2. <<b, Commits>> = <<b>> \o <<Commits>>
      BY PairIs
    <3> QED BY <3>1, <3>2
  <2>4. (<<a>> \o <<b>>) \o <<Commits>> = <<a>> \o (<<b>> \o <<Commits>>)
    BY <1>1, <2>1, Single, ConcatAssociative
  <2> QED BY <2>2, <2>3, <2>4
<1>4. <<<<"make", "spare">>, <<"copy", "prices">>, <<"drop", "prices">>, <<"rename", "spare">>, Commits>>
        = MakeSpare \o <<Commits>>
  <2> DEFINE a == <<"make", "spare">>
             b == <<"copy", "prices">>
             c == <<"drop", "prices">>
             d == <<"rename", "spare">>
             e == <<Commits>>
  <2>1. a \in Known /\ b \in Known /\ c \in Known /\ d \in Known
    BY <1>1 DEF RowMoves
  <2>2. MakeSpare = <<a>> \o (<<b>> \o (<<c>> \o <<d>>))
    BY DEF MakeSpare, CopyPrices, DropPrices, RenameSpare
  <2> HIDE DEF a, b, c, d
  <2>3. <<a, b, c, d, Commits>> = <<a>> \o (<<b>> \o (<<c>> \o (<<d>> \o e)))
    <3>1. <<a, b, c, d, Commits>> = <<a>> \o <<b, c, d, Commits>>
      BY <1>1, <2>1, WrittenOut
    <3>2. <<b, c, d, Commits>> = <<b>> \o <<c, d, Commits>>
      BY <1>1, <2>1, WrittenOut
    <3>3. <<c, d, Commits>> = <<c>> \o <<d, Commits>>
      BY <1>1, <2>1, WrittenOut
    <3>4. <<d, Commits>> = <<d>> \o <<Commits>>
      BY PairIs
    <3> QED BY <3>1, <3>2, <3>3, <3>4
  <2>4. e \in Seq(Known) /\ <<d>> \in Seq(Known) /\ <<c>> \o <<d>> \in Seq(Known)
        /\ <<b>> \o (<<c>> \o <<d>>) \in Seq(Known)
    <3>1. e \in Seq(Known) /\ <<d>> \in Seq(Known)
      BY <1>1, <2>1, Single
    <3>2. <<c>> \o <<d>> \in Seq(Known)
      BY <2>1, <3>1, Lead
    <3> QED BY <2>1, <3>1, <3>2, Lead
  <2> HIDE DEF e
  <2>5. (<<c>> \o <<d>>) \o e = <<c>> \o (<<d>> \o e)
    BY <2>1, <2>4, Lead
  <2>6. (<<b>> \o (<<c>> \o <<d>>)) \o e = <<b>> \o ((<<c>> \o <<d>>) \o e)
    BY <2>1, <2>4, Lead
  <2>7. (<<a>> \o (<<b>> \o (<<c>> \o <<d>>))) \o e = <<a>> \o ((<<b>> \o (<<c>> \o <<d>>)) \o e)
    BY <2>1, <2>4, Lead
  <2> QED BY <2>2, <2>3, <2>5, <2>6, <2>7 DEF a, b, c, d, e
<1> QED BY <1>2, <1>3, <1>4

LEMMA KeptTables ==
    ASSUME NEW f, Kept(f)
    PROVE  /\ f.aside.there => f.aside = Legacy /\ f.list \in {Made, Gone}
           /\ ~ f.aside.there => f.aside = Gone /\ f.list \in {Legacy, Full}
           /\ f.list.there /\ ~ f.list.new => f.list = Legacy /\ f.aside = Gone
           /\ f.vault # {} => f.vault = Relics /\ f.moved = [r \in Relics |-> 0]
           /\ ~ f.prices.new => f.prices = Legacy
BY TablesApart DEF Kept, KeptList, KeptVault, KeptPrices

\* What the first migration does: with the list aside, with the old list in
\* its place, and otherwise.
LEMMA FirstStatements ==
    ASSUME NEW f
    PROVE  LET rest == <<<<"ensure", "index">>, Commits>> IN
           /\ f.aside.there => Statements(1, f) = BeginRecover \o rest
           /\ ~ f.aside.there /\ f.list.there /\ ~ f.list.new => Statements(1, f) = BeginMove \o rest
           /\ ~ f.aside.there /\ ~ (f.list.there /\ ~ f.list.new) => Statements(1, f) \in HarmlessLists
<1> DEFINE rest == <<<<"ensure", "index">>, Commits>>
           begin == <<<<"begin", "all">>>>
           recover == <<<<"recover", "list">>>>
<1>1. begin \in Seq(Known) /\ recover \in Seq(Known) /\ begin \in HarmlessLists /\ rest \in HarmlessLists
  <2>1. RowMoves \subseteq Known /\ <<"begin", "all">> \in Known /\ <<"ensure", "index">> \in Harmless
    BY MovingApart DEF Known, Harmless
  <2> QED BY <2>1, Single, MovingApart, HarmlessJoin DEF RowMoves
<1>2. Statements(1, f) =
        ((begin \o When(f.aside.there, recover))
            \o When(f.aside.there \/ (f.list.there /\ ~ f.list.new), MoveList)) \o rest
  <2>1. Statements(1, f) = Renewals(f)
    BY DEF Statements
  <2> QED BY <2>1, MovesWritten DEF Renewals
<1>3. BeginMove = begin \o MoveList /\ RecoverList = recover \o MoveList /\ BeginRecover = begin \o RecoverList
  BY DEF BeginMove, BeginRecover, RecoverList
<1> HIDE DEF rest, begin, recover
<1>4. ASSUME f.aside.there PROVE Statements(1, f) = BeginRecover \o rest
  <2>1. Statements(1, f) = ((begin \o recover) \o MoveList) \o rest
    BY <1>2, <1>4 DEF When
  <2>2. MoveList \in Seq(Known)
    BY MovesAreKnown
  <2>3. (begin \o recover) \o MoveList = begin \o (recover \o MoveList)
    BY <1>1, <2>2, ConcatAssociative
  <2> QED BY <1>3, <2>1, <2>3
<1>5. ASSUME ~ f.aside.there PROVE begin \o When(f.aside.there, recover) = begin
  BY <1>1, <1>5, ConcatEmptySeq DEF When
<1>6. ASSUME ~ f.aside.there, f.list.there, ~ f.list.new PROVE Statements(1, f) = BeginMove \o rest
  <2>1. Statements(1, f) = (begin \o MoveList) \o rest
    BY <1>2, <1>5, <1>6 DEF When
  <2> QED BY <1>3, <2>1
<1>7. ASSUME ~ f.aside.there, ~ (f.list.there /\ ~ f.list.new) PROVE Statements(1, f) \in HarmlessLists
  <2>1. Statements(1, f) = (begin \o <<>>) \o rest
    BY <1>2, <1>5, <1>7 DEF When
  <2>2. begin \o <<>> = begin
    BY <1>1, ConcatEmptySeq
  <2> QED BY <1>1, <2>1, <2>2, HarmlessJoin
<1> QED BY <1>4, <1>6, <1>7 DEF rest

\* What a migration has before it, when it begins.
LEMMA MigrationMoves ==
    ASSUME KeptTypes, Kept(work), NEW v \in {0, 1, 2, 4, 6, 10, 18},
           start'.left = Migration(v), work' = work
    PROVE  Moves' /\ start'.left \in Seq(Known)
<1>1. /\ KeptList(work)' /\ KeptVault(work)' /\ KeptPrices(work)' /\ Kept(work)'
      /\ KeptList(work) /\ KeptVault(work) /\ KeptPrices(work)
  BY DEF Kept, KeptList, KeptVault, KeptPrices
<1>2. Recorded(v) \in HarmlessLists /\ HarmlessLists \subseteq Seq(Known)
  BY RecordedHarmless DEF HarmlessLists, Known
<1>3. <<"ensure", "index">> \in Harmless /\ Commits \in Harmless
  BY MovingApart DEF Harmless
<1>4. start'.left = IF v \in work.recorded THEN <<>> ELSE Statements(v, work) \o Recorded(v)
  BY DEF Migration, Recorded
<1>5. ASSUME start'.left \in HarmlessLists PROVE Moves' /\ start'.left \in Seq(Known)
  BY <1>1, <1>2, <1>5 DEF Moves, HarmlessLists
<1>6. ASSUME Statements(v, work) \in HarmlessLists PROVE start'.left \in HarmlessLists
  BY <1>2, <1>4, <1>6, HarmlessJoin
<1>7. ASSUME NEW p \in Seq(Known), NEW q \in HarmlessLists, v \notin work.recorded,
             Statements(v, work) = p \o q
      PROVE  Ahead(p)' /\ start'.left \in Seq(Known)
  <2>1. start'.left = p \o (q \o Recorded(v))
    BY <1>2, <1>4, <1>7, ConcatAssociative
  <2>2. q \o Recorded(v) \in HarmlessLists
    BY <1>2, HarmlessJoin
  <2>3. p \o (q \o Recorded(v)) \in Seq(Known)
    BY <1>2, <2>2, ConcatProperties
  <2> QED BY <2>1, <2>2, <2>3 DEF Ahead, HarmlessLists
<1>8. CASE v \in work.recorded
  BY <1>4, <1>5, <1>8, HarmlessJoin
<1>9. CASE v \in {0, 2, 10, 18}
  BY <1>5, <1>6, <1>9, StatementsHarmless
<1>10. CASE v = 1 /\ v \notin work.recorded
  <2> DEFINE rest == <<<<"ensure", "index">>, Commits>>
  <2>1. rest \in HarmlessLists
    BY <1>3, HarmlessJoin
  <2> HIDE DEF rest
  <2>2. CASE work.aside.there
    <3>1. Statements(v, work) = BeginRecover \o rest
      BY <1>10, <2>2, FirstStatements DEF rest
    <3>2. Ahead(BeginRecover)' /\ start'.left \in Seq(Known)
      BY <1>7, <1>10, <2>1, <3>1, MovesAreKnown
    <3> QED BY <1>1, <2>2, <3>2, KeptTables DEF Moves, MovesOfList
  <2>3. CASE ~ work.aside.there /\ work.list.there /\ ~ work.list.new
    <3>1. Statements(v, work) = BeginMove \o rest
      BY <1>10, <2>3, FirstStatements DEF rest
    <3>2. Ahead(BeginMove)' /\ start'.left \in Seq(Known)
      BY <1>7, <1>10, <2>1, <3>1, MovesAreKnown
    <3> QED BY <1>1, <2>3, <3>2, KeptTables DEF Moves, MovesOfList
  <2>4. CASE ~ work.aside.there /\ ~ (work.list.there /\ ~ work.list.new)
    BY <1>5, <1>6, <1>10, <2>4, FirstStatements
  <2> QED BY <2>2, <2>3, <2>4
<1>11. CASE v = 4 /\ v \notin work.recorded
  <2>1. CASE work.vault # {}
    <3>1. Statements(v, work) = CopyVault \o <<Commits>>
      BY <1>11, <2>1, MovesWritten DEF Statements, When
    <3>2. Ahead(CopyVault)' /\ start'.left \in Seq(Known)
      BY <1>3, <1>7, <1>11, <3>1, MovesAreKnown, HarmlessJoin
    <3> QED BY <1>1, <2>1, <3>2, KeptTables DEF Moves, VaultMoves
  <2>2. CASE work.vault = {}
    <3>1. Statements(v, work) = <<>>
      BY <1>11, <2>2 DEF Statements, When
    <3> QED BY <1>5, <1>6, <3>1, HarmlessJoin
  <2> QED BY <2>1, <2>2
<1>12. CASE v = 6 /\ v \notin work.recorded
  <2>1. CASE ~ work.prices.new
    <3>1. Statements(v, work) =
            <<<<"make", "spare">>, <<"copy", "prices">>, <<"drop", "prices">>, <<"rename", "spare">>, Commits>>
      BY <1>12, <2>1 DEF Statements, When
    <3>2. Statements(v, work) = MakeSpare \o <<Commits>>
      BY <3>1, MovesWritten
    <3>3. Ahead(MakeSpare)' /\ start'.left \in Seq(Known)
      BY <1>3, <1>7, <1>12, <3>2, MovesAreKnown, HarmlessJoin
    <3> QED BY <1>1, <2>1, <3>3, KeptTables DEF Moves, PricesMove, KeptPrices
  <2>2. CASE work.prices.new
    <3>1. Statements(v, work) = <<>>
      BY <1>12, <2>2 DEF Statements, When
    <3> QED BY <1>5, <1>6, <3>1, HarmlessJoin
  <2> QED BY <2>1, <2>2
<1> QED BY <1>8, <1>9, <1>10, <1>11, <1>12

LEMMA KeptInit == UpgradeInit => KeptInv
<1> SUFFICES ASSUME UpgradeInit PROVE KeptInv
  OBVIOUS
<1>1. stored \in UpgradeFiles /\ stored.moved = [r \in Relics |-> 0] /\ stored.vault = Relics
      /\ stored.prices = Legacy /\ stored.spare = Gone /\ stored.list \in {Legacy, Made, Gone}
      /\ stored.aside \in {Legacy, Gone} /\ (stored.aside = Legacy <=> stored.list # Legacy)
  BY DEF UpgradeInit, OlderFiles, UpgradeFiles, Tables
<1>2. Kept(stored) /\ work = stored
  BY <1>1, TablesApart DEF UpgradeInit, Kept, KeptList, KeptVault, KeptPrices
<1>3. start = Off /\ tx = FALSE
  BY DEF UpgradeInit
<1>4. KeptTypes
  <2>1. start \in StartTypes /\ start.left = <<>>
    BY <1>3 DEF Off, StartTypes
  <2> QED BY <1>1, <1>2, <1>3, <2>1 DEF KeptTypes, StartTypes
<1>5. Moves
  BY <1>2, <1>3 DEF Moves, Off
<1> QED BY <1>2, <1>4, <1>5 DEF KeptInv

\* The app that is not running, or has failed, sees what is stored.
LEMMA RestKeeps ==
    ASSUME KeptInv, stored' = stored, work' = stored, tx' = FALSE, start'.left = <<>>,
           start' \in StartTypes
    PROVE  KeptInv'
<1>1. Kept(stored)' /\ Kept(work)'
  BY DEF KeptInv, Kept, KeptList, KeptVault, KeptPrices
<1>2. KeptTypes'
  BY DEF KeptInv, KeptTypes, StartTypes
<1>3. Moves'
  BY <1>1 DEF Moves
<1> QED BY <1>1, <1>2, <1>3 DEF KeptInv

LEMMA KeptNext == KeptInv /\ [UpgradeNext]_upgradeVars => KeptInv'
<1> SUFFICES ASSUME KeptInv, [UpgradeNext]_upgradeVars PROVE KeptInv'
  OBVIOUS
<1>0. KeptTypes /\ Kept(stored) /\ Moves /\ start \in StartTypes
  BY DEF KeptInv, KeptTypes, StartTypes
<1>1. CASE StartUpgrade
  <2>1. start.left = <<>> /\ start'.left = <<>> /\ start' \in StartTypes
    BY <1>0, <1>1 DEF StartUpgrade, KeptTypes, StartTypes, Off
  <2>2. Kept(work)' /\ Kept(stored)'
    BY <1>0, <1>1, <2>1, MovesKept DEF StartUpgrade, Kept, KeptList, KeptVault, KeptPrices
  <2>3. KeptTypes'
    BY <1>0, <1>1, <2>1 DEF StartUpgrade, KeptTypes, StartTypes
  <2> QED BY <2>1, <2>2, <2>3 DEF KeptInv, Moves
<1>2. CASE NextMigration
  <2>1. Kept(work) /\ Kept(stored)' /\ Kept(work)' /\ UNCHANGED <<stored, work, tx>>
    BY <1>0, <1>2, MovesKept DEF NextMigration, Kept, KeptList, KeptVault, KeptPrices
  <2>2. Len(Order) = 7 /\ \A i \in 1..7 : Order[i] \in {0, 1, 2, 4, 6, 10, 18}
    BY DEF Order
  <2>3. CASE start.place = 7
    <3>1. start'.left = <<>> /\ start' \in StartTypes
      BY <1>0, <1>2, <2>2, <2>3 DEF NextMigration, StartTypes
    <3>2. KeptTypes'
      BY <1>0, <2>1, <3>1 DEF KeptTypes, StartTypes
    <3> QED BY <2>1, <3>1, <3>2 DEF KeptInv, Moves
  <2>4. CASE start.place # 7
    <3>1. start.place + 1 \in 1..7
      BY <1>0, <2>4 DEF StartTypes
    <3>2. start'.left = Migration(Order[start.place + 1]) /\ start'.place = start.place + 1
          /\ start'.pc = "runs" /\ start' = [start EXCEPT !.place = start'.place, !.left = start'.left]
      BY <1>0, <1>2, <2>2, <2>4 DEF NextMigration, StartTypes
    <3>3. Moves' /\ start'.left \in Seq(Known)
      BY <1>0, <2>1, <2>2, <3>1, <3>2, MigrationMoves
    <3>4. start' \in StartTypes
      BY <1>0, <3>1, <3>2, <3>3 DEF StartTypes
    <3>5. KeptTypes'
      BY <1>0, <2>1, <3>1, <3>2, <3>4 DEF KeptTypes, StartTypes
    <3> QED BY <2>1, <3>3, <3>5 DEF KeptInv
  <2> QED BY <2>3, <2>4
<1>3. CASE BeginWork
  <2>1. UNCHANGED <<stored, work>> /\ tx' = TRUE /\ Executed /\ start.left # <<>>
        /\ Statement = <<"begin", "all">> /\ Statement \notin RowMoves
    BY <1>3, MovingApart DEF BeginWork
  <2>2. Kept(stored)' /\ KeptTypes'
    BY <1>0, <2>1, ExecutedTypes DEF KeptTypes, StartTypes, Kept, KeptList, KeptVault, KeptPrices
  <2>3. Moves'
    <3>1. CASE Kept(work) /\ start.left \in Seq(Harmless)
      <4>1. Tail(start.left) \in Seq(Harmless)
        BY <2>1, <3>1, HeadTailProperties
      <4> QED BY <1>0, <2>1, <3>1, <4>1, ExecutedTypes DEF Moves, Kept, KeptList, KeptVault, KeptPrices
    <3>2. CASE MovesOfList
      <4>1. /\ ~ Ahead(RecoverList) /\ ~ Ahead(MoveList) /\ ~ Ahead(MakeList) /\ ~ Ahead(CopyList)
            /\ ~ Ahead(DropAside)
        BY <1>0, <2>1, AheadStatements DEF RowMoves
      <4>2. MovesOfList'
        BY <1>0, <2>1, <3>2, <4>1, FollowsIs DEF MovesOfList, KeptVault, KeptPrices
      <4> QED BY <4>2 DEF Moves
    <3>3. CASE VaultMoves
      BY <1>0, <2>1, <3>3, AheadStatements DEF VaultMoves, RowMoves
    <3>4. CASE PricesMove
      BY <1>0, <2>1, <3>4, AheadStatements DEF PricesMove, RowMoves
    <3> QED BY <1>0, <3>1, <3>2, <3>3, <3>4 DEF Moves
  <2> QED BY <2>2, <2>3 DEF KeptInv
<1>4. CASE Commit
  <2>1. stored' = work /\ work' = work /\ tx' = FALSE /\ Executed /\ start.left # <<>>
        /\ Statement = Commits /\ Statement \notin RowMoves
    BY <1>4, MovingApart DEF Commit
  <2>2. Statement # <<"begin", "all">>
    BY <2>1 DEF Commits
  <2>3. MovesOfList => Statement \in RowMoves \/ Statement = <<"begin", "all">>
    BY <1>0, AheadStatements, MovesNamed DEF MovesOfList
  <2>4. VaultMoves \/ PricesMove => Statement \in RowMoves
    BY <1>0, AheadStatements, MovesNamed DEF VaultMoves, PricesMove
  <2>5. Kept(work) /\ Tail(start.left) \in Seq(Harmless)
    BY <1>0, <2>1, <2>2, <2>3, <2>4, HeadTailProperties DEF Moves
  <2>6. Kept(work)' /\ Kept(stored)'
    BY <2>1, <2>5 DEF Kept, KeptList, KeptVault, KeptPrices
  <2>7. KeptTypes'
    BY <1>0, <2>1, ExecutedTypes DEF KeptTypes, StartTypes
  <2>8. Moves'
    BY <1>0, <2>1, <2>5, <2>6, ExecutedTypes DEF Moves
  <2> QED BY <2>6, <2>7, <2>8 DEF KeptInv
<1>5. CASE ChangeRows \/ ChangeTables
  <2>1. Executes
    <3>1. CASE ChangeRows
      <4>1. ~ ChangesRows(<<"begin", "all">>) /\ ~ ChangesRows(Commits) /\ ~ ChangesRows(<<"make", "spare">>)
        BY DEF ChangesRows, Commits
      <4> QED BY <3>1, <4>1 DEF ChangeRows, Executes, Refused
    <3>2. CASE ChangeTables
      BY <3>2 DEF ChangeTables, Executes
    <3> QED BY <1>5, <3>1, <3>2
  <2> QED BY <1>0, <2>1, HarmlessRuns, ListRuns, VaultRuns, PricesRun DEF Moves
<1>6. CASE Fail
  <2>1. start'.left = <<>> /\ start' \in StartTypes
    <3>1. start' = [start EXCEPT !.pc = "failed", !.left = <<>>]
      BY <1>6 DEF Fail
    <3> QED BY <1>0, <3>1, MovesAreKnown DEF StartTypes
  <2>2. stored' = stored /\ work' = stored /\ tx' = FALSE
    BY <1>6 DEF Fail
  <2> QED BY <2>1, <2>2, RestKeeps
<1>7. CASE EndStart
  <2>1. start'.left = <<>> /\ start' \in StartTypes
    <3>1. start' = Off
      BY <1>7 DEF EndStart
    <3> QED BY <3>1, MovesAreKnown DEF Off, StartTypes
  <2>2. stored' = stored /\ work' = stored /\ tx' = FALSE
    BY <1>7 DEF EndStart
  <2> QED BY <2>1, <2>2, RestKeeps
<1>8. CASE UNCHANGED upgradeVars
  <2>1. UNCHANGED <<stored, work, tx, start>>
    BY <1>8 DEF upgradeVars
  <2>2. KeptTypes' /\ Kept(stored)' /\ (Kept(work)' <=> Kept(work))
    BY <1>0, <2>1 DEF KeptTypes, Kept, KeptList, KeptVault, KeptPrices
  <2>3. \A p : Ahead(p)' <=> Ahead(p)
    BY <2>1 DEF Ahead
  <2>4. MovesOfList => MovesOfList'
    BY <2>1, <2>3 DEF MovesOfList, KeptVault, KeptPrices
  <2>5. (VaultMoves => VaultMoves') /\ (PricesMove => PricesMove')
    BY <2>1, <2>3 DEF VaultMoves, PricesMove, KeptList, KeptVault, KeptPrices
  <2> QED BY <1>0, <2>1, <2>2, <2>4, <2>5 DEF KeptInv, Moves
<1> QED BY <1>1, <1>2, <1>3, <1>4, <1>5, <1>6, <1>7, <1>8 DEF UpgradeNext

\* However often the app ends during its start, each row that a migration
\* moves from one table to another is on disk in one of them, and only once.
THEOREM UpgradeKeptOnce == UpgradeSpec => []KeptOnce
<1>1. KeptInv => KeptOnce
  <2> SUFFICES ASSUME KeptInv PROVE KeptOnce
    OBVIOUS
  <2>1. \A s \in Relics : stored.moved[s] = IF s \in stored.vault THEN 0 ELSE 1
    BY DEF KeptInv, Kept, KeptVault
  <2>2. Relics \in {stored.list.rows, stored.aside.rows} /\ stored.prices.rows = Relics
    BY TablesApart DEF KeptInv, Kept, KeptList, KeptPrices
  <2> QED BY <2>1, <2>2 DEF KeptOnce
<1> QED BY <1>1, KeptInit, KeptNext, PTL DEF UpgradeSpec

LEMMA UpgradeTypesAre ==
    ASSUME KeptInv, ~ tx => work = stored, cut \subseteq {0, 1, 2, 4, 6, 10, 18}, ends \in 0..MaxEnds
    PROVE  UpgradeTypeOK
<1>1. stored.moved \in [Relics -> 0..1]
  BY DEF KeptInv, Kept, KeptVault
<1>2. Len(Order) = 7
  BY DEF Order
<1> QED BY <1>1, <1>2 DEF KeptInv, KeptTypes, UpgradeFiles, Numbers, UpgradeTypeOK

\* The types, and that a connection without a transaction sees what is stored.
THEOREM UpgradeTypeCorrect == UpgradeSpec => []UpgradeTypeOK
<1> DEFINE TypeInv ==
        KeptInv /\ (~ tx => work = stored) /\ cut \subseteq {0, 1, 2, 4, 6, 10, 18} /\ ends \in 0..MaxEnds
<1>1. UpgradeInit => TypeInv
  BY KeptInit, UpgradeAssumption DEF UpgradeInit
<1>2. TypeInv /\ [UpgradeNext]_upgradeVars => TypeInv'
  <2> SUFFICES ASSUME TypeInv, [UpgradeNext]_upgradeVars PROVE TypeInv'
    OBVIOUS
  <2>1. KeptInv'
    BY KeptNext
  <2>2. (~ tx => work = stored)'
    BY DEF UpgradeNext, upgradeVars, StartUpgrade, NextMigration, BeginWork, Commit, ChangeRows, ChangeTables,
           Fail, EndStart
  <2>3. cut' \subseteq {0, 1, 2, 4, 6, 10, 18} /\ ends' \in 0..MaxEnds
    <3>1. CASE EndStart
      <4>1. start.left # <<>> => Order[start.place] \in {0, 1, 2, 4, 6, 10, 18}
        <5>1. \A i \in 1..7 : Order[i] \in {0, 1, 2, 4, 6, 10, 18}
          BY DEF Order
        <5> QED BY <5>1 DEF KeptInv, KeptTypes
      <4>2. cut' \in {cut, cut \cup {Order[start.place]}} /\ (start.left = <<>> => cut' = cut)
        BY <3>1 DEF EndStart
      <4>3. cut' \subseteq {0, 1, 2, 4, 6, 10, 18}
        BY <4>1, <4>2
      <4>4. ends' \in 0..MaxEnds
        BY <3>1, UpgradeAssumption DEF EndStart
      <4> QED BY <4>3, <4>4
    <3>2. CASE UNCHANGED <<cut, ends>>
      BY <3>2
    <3> QED BY <3>1, <3>2 DEF UpgradeNext, upgradeVars, StartUpgrade, NextMigration, BeginWork, Commit, ChangeRows,
                              ChangeTables, Fail, Executed
  <2> QED BY <2>1, <2>2, <2>3
<1>3. TypeInv => UpgradeTypeOK
  BY UpgradeTypesAre
<1> QED BY <1>1, <1>2, <1>3, PTL DEF UpgradeSpec

----------------------------------------------------------------------------
(* What the next start makes good.  The aims of the migrations are named   *)
(* by the statement that reaches them, whatever ran or was cut off before. *)

Triggers == <<"make", "triggers">>
Aims ==
    {<<"drop", "aside">>, <<"fill", "ids">>, <<"empty", "vault">>, <<"rename", "spare">>, <<"fill", "index">>}
        \cup ({"name", "stamp"} \X SyncTables)

\* The migration that has the aim.
Of(a) ==
    CASE a = <<"drop", "aside">> -> 1
      [] a = <<"fill", "ids">> -> 2
      [] a = <<"empty", "vault">> -> 4
      [] a = <<"rename", "spare">> -> 6
      [] a = <<"fill", "index">> -> 10
      [] a[1] \in {"name", "stamp"} -> 18

Achieved(a, f) ==
    CASE a = <<"drop", "aside">> -> f.list.new /\ ~ f.aside.there
      [] a = <<"fill", "ids">> -> f.ids
      [] a = <<"empty", "vault">> -> f.vault = {}
      [] a = <<"rename", "spare">> -> f.prices.new /\ ~ f.spare.there
      [] a = <<"fill", "index">> -> f.index = "fresh"
      [] a = Triggers -> f.triggers
      [] a[1] = "name" -> a[2] \in f.filled => a[2] \in f.named
      [] a[1] = "stamp" -> a[2] \in f.stamped

\* The statements that may undo it.
Undoes(a) ==
    CASE a = <<"drop", "aside">> -> {"recover", "shelve", "make", "copy"} \X {"list"}
      [] a = <<"rename", "spare">> ->
            {<<"make", "spare">>, <<"copy", "prices">>, <<"drop", "prices">>}
      [] a = <<"fill", "index">> -> {<<"empty", "index">>}
      [] a = Triggers -> {<<"drop", "triggers">>}
      [] OTHER -> {}

\* Nothing in X is left in s; a is, and nothing in X after it.
Untouched(s, X) == \A i \in 1..Len(s) : s[i] \notin X
Secured(s, X, a) == \E i \in 1..Len(s) : s[i] = a /\ \A j \in i + 1..Len(s) : s[j] \notin X

Stays(a, f, s) == Achieved(a, f) /\ Untouched(s, Undoes(a))
Bound(a, f, s) == Stays(a, f, s) \/ Secured(s, Undoes(a), a)

\* The one aim that may be missed for ever.
Missed(a) == a[1] = "stamp" /\ 18 \in cut

\* What is left of migration v: its record comes last, and is committed.
Shaped(s, v, recorded) ==
    IF v = 0 THEN s = <<Triggers>>
    ELSE /\ Len(s) > 0 /\ s[Len(s)] = Commits
         /\ IF v \in recorded THEN Len(s) = 1
            ELSE /\ Len(s) > 1 /\ s[Len(s) - 1] = <<"record", v>>
                 /\ \A i \in 1..Len(s) - 2, w \in Numbers : s[i] # <<"record", w>>

Under(v) == start.left # <<>> /\ Order[start.place] = v

\* Migrations run in their order, and what has run is recorded.
InOrder ==
    /\ start.pc \in {"runs", "ready"} =>
        \A i \in 1..start.place : Order[i] \in work.recorded \cup {0} \/ (i = start.place /\ start.left # <<>>)
    /\ start.pc = "ready" => start.place = 7
    /\ start.left # <<>> => Shaped(start.left, Order[start.place], work.recorded)
    /\ ~ tx => work = stored
    /\ tx => start.left # <<>> /\ Order[start.place] # 0

\* What is recorded has been achieved, and what runs will be.
AimsReached ==
    /\ \A a \in Aims : ~ Missed(a) =>
        /\ Of(a) \in stored.recorded => Achieved(a, stored)
        /\ Of(a) \in work.recorded => Stays(a, work, start.left)
        /\ Under(Of(a)) /\ Of(a) \notin work.recorded => Bound(a, work, start.left)
    /\ start.pc \in {"runs", "ready"} /\ start.place >= 2 => Bound(Triggers, work, start.left)

\* A second price table is there only while it is filled, or since a start
\* was cut off there; and so is a column without its stamps.
SpareWhy(f) == f.spare.there => ~ f.prices.new /\ (6 \in cut \/ Under(6))
ColumnsWhy(f) == f.columns \subseteq f.stamped \/ 18 \in cut \/ Under(18)
LeftoversHaveCause ==
    /\ SpareWhy(stored) /\ SpareWhy(work) /\ ColumnsWhy(stored) /\ ColumnsWhy(work)
    /\ \A i \in 1..Len(start.left) :
        /\ start.left[i] = <<"make", "spare">> =>
            i = 1 /\ Under(6) /\ (work.spare.there => 6 \in cut)
        /\ start.left[i][1] = "alter" => Under(18)
    /\ start.pc = "failed" => 6 \in cut

LEMMA AimsAre ==
    /\ Of(<<"drop", "aside">>) = 1 /\ Of(<<"fill", "ids">>) = 2 /\ Of(<<"empty", "vault">>) = 4
    /\ Of(<<"rename", "spare">>) = 6 /\ Of(<<"fill", "index">>) = 10
    /\ Undoes(<<"drop", "aside">>) = {"recover", "shelve", "make", "copy"} \X {"list"}
    /\ Undoes(<<"rename", "spare">>) = {<<"make", "spare">>, <<"copy", "prices">>, <<"drop", "prices">>}
    /\ Undoes(<<"fill", "index">>) = {<<"empty", "index">>}
    /\ Undoes(Triggers) = {<<"drop", "triggers">>}
    /\ Undoes(<<"fill", "ids">>) = {} /\ Undoes(<<"empty", "vault">>) = {}
    /\ \A t \in SyncTables : /\ Of(<<"name", t>>) = 18 /\ Of(<<"stamp", t>>) = 18
                             /\ Undoes(<<"name", t>>) = {} /\ Undoes(<<"stamp", t>>) = {}
BY DEF Of, Undoes, Triggers

LEMMA AimsMean ==
    ASSUME NEW f
    PROVE  /\ Achieved(<<"drop", "aside">>, f) <=> f.list.new /\ ~ f.aside.there
           /\ Achieved(<<"fill", "ids">>, f) <=> f.ids
           /\ Achieved(<<"empty", "vault">>, f) <=> f.vault = {}
           /\ Achieved(<<"rename", "spare">>, f) <=> f.prices.new /\ ~ f.spare.there
           /\ Achieved(<<"fill", "index">>, f) <=> f.index = "fresh"
           /\ Achieved(Triggers, f) <=> f.triggers
           /\ \A t \in SyncTables : /\ Achieved(<<"name", t>>, f) <=> (t \in f.filled => t \in f.named)
                                    /\ Achieved(<<"stamp", t>>, f) <=> t \in f.stamped
BY DEF Achieved, Triggers

LEMMA AimCases ==
    ASSUME NEW a \in Aims \cup {Triggers}
    PROVE  \/ a \in {<<"drop", "aside">>, <<"fill", "ids">>, <<"empty", "vault">>, <<"rename", "spare">>,
                     <<"fill", "index">>, Triggers}
           \/ \E t \in SyncTables : a \in {<<"name", t>>, <<"stamp", t>>}
BY DEF Aims

\* An aim is no record and no commit, and these undo none.
LEMMA AimsApart ==
    ASSUME NEW a \in Aims \cup {Triggers}
    PROVE  /\ a # Commits /\ a # <<"begin", "all">> /\ Commits \notin Undoes(a)
           /\ <<"begin", "all">> \notin Undoes(a) /\ a \in Known
           /\ \A v : a # <<"record", v>> /\ <<"record", v>> \notin Undoes(a)
<1>1. a \in Known
  <2>1. {<<"fill", "ids">>, <<"fill", "index">>, Triggers} \subseteq Harmless
    BY DEF Harmless, Triggers
  <2>2. \A t \in SyncTables : <<"name", t>> \in Harmless /\ <<"stamp", t>> \in Harmless
    BY DEF Harmless
  <2> QED BY <2>1, <2>2, MovesNamed, AimCases DEF Known
<1>2. a[1] \notin {"record", "begin", "commit"}
  BY AimCases DEF Triggers
<1>3. ASSUME NEW s \in Undoes(a) PROVE s[1] \notin {"record", "begin", "commit"}
  <2>1. CASE a = <<"drop", "aside">>
    BY <1>3, <2>1, AimsAre
  <2>2. CASE a \in {<<"rename", "spare">>, <<"fill", "index">>, Triggers}
    <3>1. s \in {<<"make", "spare">>, <<"copy", "prices">>, <<"drop", "prices">>, <<"empty", "index">>,
                 <<"drop", "triggers">>}
      BY <1>3, <2>2, AimsAre
    <3> QED BY <3>1
  <2>3. CASE a \in {<<"fill", "ids">>, <<"empty", "vault">>} \/ \E t \in SyncTables : a \in {<<"name", t>>, <<"stamp", t>>}
    BY <1>3, <2>3, AimsAre
  <2> QED BY <2>1, <2>2, <2>3, AimCases
<1> QED BY <1>1, <1>2, <1>3 DEF Commits

LEMMA ClearTail ==
    ASSUME NEW S, NEW s \in Seq(S), s # <<>>, NEW X, Untouched(s, X)
    PROVE  Head(s) \notin X /\ Untouched(Tail(s), X)
<1>1. Len(s) \in Nat \ {0} /\ Head(s) = s[1]
  BY EmptySeq, LenProperties
<1>2. Len(Tail(s)) = Len(s) - 1 /\ \A i \in 1..Len(Tail(s)) : Tail(s)[i] = s[i + 1]
  BY HeadTailProperties
<1> QED BY <1>1, <1>2 DEF Untouched

LEMMA SecuredTail ==
    ASSUME NEW S, NEW s \in Seq(S), s # <<>>, NEW X, NEW a, Secured(s, X, a)
    PROVE  (Head(s) = a /\ Untouched(Tail(s), X)) \/ Secured(Tail(s), X, a)
<1>1. Len(s) \in Nat \ {0} /\ Head(s) = s[1]
  BY EmptySeq, LenProperties
<1>2. Len(Tail(s)) = Len(s) - 1 /\ \A i \in 1..Len(Tail(s)) : Tail(s)[i] = s[i + 1]
  BY HeadTailProperties
<1>3. PICK i \in 1..Len(s) : s[i] = a /\ \A j \in i + 1..Len(s) : s[j] \notin X
  BY DEF Secured
<1>4. CASE i = 1
  BY <1>1, <1>2, <1>3, <1>4 DEF Untouched
<1>5. CASE i # 1
  <2>1. i - 1 \in 1..Len(Tail(s)) /\ Tail(s)[i - 1] = a
    BY <1>1, <1>2, <1>3, <1>5
  <2>2. \A j \in (i - 1) + 1..Len(Tail(s)) : Tail(s)[j] \notin X
    BY <1>1, <1>2, <1>3, <1>5
  <2> QED BY <2>1, <2>2 DEF Secured
<1> QED BY <1>4, <1>5

LEMMA ClearJoin ==
    ASSUME NEW S, NEW p \in Seq(S), NEW q \in Seq(S), NEW X, Untouched(p, X), Untouched(q, X)
    PROVE  Untouched(p \o q, X)
<1>1. Len(p) \in Nat /\ Len(q) \in Nat
  BY LenProperties
<1>2. /\ Len(p \o q) = Len(p) + Len(q)
      /\ \A i \in 1..Len(p) + Len(q) : (p \o q)[i] = IF i <= Len(p) THEN p[i] ELSE q[i - Len(p)]
  BY ConcatProperties
<1> QED BY <1>1, <1>2 DEF Untouched

LEMMA SecuredJoin ==
    ASSUME NEW S, NEW p \in Seq(S), NEW q \in Seq(S), NEW X, NEW a,
           Secured(q, X, a) \/ (Secured(p, X, a) /\ Untouched(q, X))
    PROVE  Secured(p \o q, X, a)
<1>1. Len(p) \in Nat /\ Len(q) \in Nat
  BY LenProperties
<1>2. /\ Len(p \o q) = Len(p) + Len(q)
      /\ \A i \in 1..Len(p) + Len(q) : (p \o q)[i] = IF i <= Len(p) THEN p[i] ELSE q[i - Len(p)]
  BY ConcatProperties
<1> DEFINE r == p \o q
<1>3. /\ Len(r) = Len(p) + Len(q)
      /\ \A i \in 1..Len(p) + Len(q) : r[i] = IF i <= Len(p) THEN p[i] ELSE q[i - Len(p)]
  BY <1>2
<1> HIDE DEF r
<1>4. CASE Secured(q, X, a)
  <2>1. PICK i \in 1..Len(q) : q[i] = a /\ \A j \in i + 1..Len(q) : q[j] \notin X
    BY <1>4 DEF Secured
  <2>2. i + Len(p) \in 1..Len(r) /\ r[i + Len(p)] = a
    BY <1>1, <1>3, <2>1
  <2>3. \A j \in (i + Len(p)) + 1..Len(r) : r[j] \notin X
    BY <1>1, <1>3, <2>1
  <2>4. Secured(r, X, a)
    BY <2>2, <2>3 DEF Secured
  <2> QED BY <2>4 DEF r
<1>5. CASE Secured(p, X, a) /\ Untouched(q, X)
  <2>1. PICK i \in 1..Len(p) : p[i] = a /\ \A j \in i + 1..Len(p) : p[j] \notin X
    BY <1>5 DEF Secured
  <2>2. i \in 1..Len(r) /\ r[i] = a
    BY <1>1, <1>3, <2>1
  <2>3. \A j \in i + 1..Len(r) : r[j] \notin X
    BY <1>1, <1>3, <1>5, <2>1 DEF Untouched
  <2>4. Secured(r, X, a)
    BY <2>2, <2>3 DEF Secured
  <2> QED BY <2>4 DEF r
<1> QED BY <1>4, <1>5

LEMMA ClearOf ==
    ASSUME NEW S, NEW s \in Seq(S), NEW X, S \cap X = {}
    PROVE  Untouched(s, X)
<1>1. \A i \in 1..Len(s) : s[i] \in S
  BY ElementOfSeq
<1> QED BY <1>1 DEF Untouched

LEMMA ClearSingle ==
    ASSUME NEW a, NEW X
    PROVE  Untouched(<<>>, X) /\ (a \notin X => Untouched(<<a>>, X)) /\ Secured(<<a>>, X, a) /\ ~ Secured(<<>>, X, a)
BY DEF Untouched, Secured

\* A statement, a begin or a commit, as far as the tables are concerned.
Does(s, f) == IF s \in {<<"begin", "all">>, Commits} THEN f ELSE Effect(s, f)

ListStatements == ({"recover", "shelve", "make", "copy"} \X {"list"}) \cup {<<"drop", "aside">>}
PriceStatements ==
    {<<"make", "spare">>, <<"copy", "prices">>, <<"drop", "prices">>, <<"rename", "spare">>}

LEMMA MoveIs ==
    ASSUME NEW s \in RowMoves
    PROVE  \/ s \in {<<"recover", "list">>, <<"shelve", "list">>, <<"make", "list">>, <<"copy", "list">>}
           \/ s \in {<<"drop", "aside">>, <<"drop", "prices">>} \/ s \in {<<"copy", "vault">>, <<"empty", "vault">>}
           \/ s \in {<<"make", "spare">>, <<"rename", "spare">>} \/ s = <<"copy", "prices">>
<1>1. ASSUME s \in {"recover", "shelve", "make", "copy"} \X {"list"}
      PROVE  s \in {<<"recover", "list">>, <<"shelve", "list">>, <<"make", "list">>, <<"copy", "list">>}
  <2> DEFINE verbs == {"recover", "shelve", "make", "copy"}
  <2>1. s \in verbs \X {"list"}
    BY <1>1
  <2> HIDE DEF verbs
  <2>2. PICK x \in verbs : s = <<x, "list">>
    BY <2>1
  <2> QED BY <2>2 DEF verbs
<1>2. ASSUME s \in {"drop"} \X {"aside", "prices"} PROVE s \in {<<"drop", "aside">>, <<"drop", "prices">>}
  <2>1. PICK x \in {"aside", "prices"} : s = <<"drop", x>>
    BY <1>2
  <2> QED BY <2>1
<1>3. ASSUME s \in {"copy", "empty"} \X {"vault"} PROVE s \in {<<"copy", "vault">>, <<"empty", "vault">>}
  <2>1. PICK x \in {"copy", "empty"} : s = <<x, "vault">>
    BY <1>3
  <2> QED BY <2>1
<1>4. ASSUME s \in {"make", "rename"} \X {"spare"} PROVE s \in {<<"make", "spare">>, <<"rename", "spare">>}
  <2>1. PICK x \in {"make", "rename"} : s = <<x, "spare">>
    BY <1>4
  <2> QED BY <2>1
<1>5. ASSUME s \in {"copy"} \X {"prices"} PROVE s = <<"copy", "prices">>
  BY <1>5
<1> QED BY <1>1, <1>2, <1>3, <1>4, <1>5 DEF RowMoves

\* A move touches its own tables.
LEMMA MovesLeave ==
    ASSUME NEW f \in UpgradeFiles, NEW s \in RowMoves, NEW g, g = Effect(s, f)
    PROVE  /\ g.recorded = f.recorded /\ g.index = f.index /\ g.triggers = f.triggers /\ g.ids = f.ids
           /\ g.columns = f.columns /\ g.stamped = f.stamped /\ g.filled = f.filled /\ g.named = f.named
           /\ s \notin ListStatements => SameList(f, g)
           /\ s \notin PriceStatements => SamePrices(f, g)
           /\ f.vault = {} \/ s = <<"empty", "vault">> => g.vault = {}
           /\ s = <<"drop", "aside">> => g.list = f.list /\ g.aside = Gone
           /\ s = <<"make", "spare">> => g.prices = f.prices
           /\ s = <<"copy", "prices">> => g.prices = f.prices /\ (g.spare.there <=> f.spare.there)
           /\ s = <<"drop", "prices">> => g.prices = Gone /\ g.spare = f.spare
           /\ s = <<"rename", "spare">> => g.prices = f.spare /\ g.spare = Gone
<1> USE DEF UpgradeFiles, SameList, SamePrices, ListStatements, PriceStatements
<1>1. CASE s = <<"recover", "list">>
  <2>1. g = [f EXCEPT !.list = f.aside, !.aside = Gone]
    BY <1>1, MovingEffect
  <2> QED BY <1>1, <2>1
<1>2. CASE s = <<"shelve", "list">>
  <2>1. g = [f EXCEPT !.aside = f.list, !.list = Gone]
    BY <1>2, MovingEffect
  <2> QED BY <1>2, <2>1
<1>3. CASE s = <<"make", "list">>
  <2>1. g = [f EXCEPT !.list = Made]
    BY <1>3, MovingEffect
  <2> QED BY <1>3, <2>1
<1>4. CASE s = <<"copy", "list">>
  <2>1. g = [f EXCEPT !.list.rows = f.aside.rows]
    BY <1>4, MovingEffect
  <2> QED BY <1>4, <2>1
<1>5. CASE s = <<"drop", "aside">>
  <2>1. g = [f EXCEPT !.aside = Gone]
    BY <1>5, MovingEffect
  <2> QED BY <1>5, <2>1
<1>6. CASE s = <<"copy", "vault">>
  <2>1. g = [f EXCEPT !.moved = [r \in Relics |-> IF r \in f.vault THEN @[r] + 1 ELSE @[r]]]
    BY <1>6, MovingEffect
  <2> QED BY <1>6, <2>1
<1>7. CASE s = <<"empty", "vault">>
  <2>1. g = [f EXCEPT !.vault = {}]
    BY <1>7, MovingEffect
  <2> QED BY <1>7, <2>1
<1>8. CASE s = <<"make", "spare">>
  <2>1. g = [f EXCEPT !.spare = Made]
    BY <1>8, MovingEffect
  <2> QED BY <1>8, <2>1
<1>9. CASE s = <<"copy", "prices">>
  <2>1. g = [f EXCEPT !.spare.rows = f.prices.rows]
    BY <1>9, MovingEffect
  <2>2. f.spare \in TableStates
    <3>1. Gone \in TableStates /\ Made \in TableStates /\ Legacy \in TableStates /\ Full \in TableStates
      BY DEF TableStates, Gone, Made, Legacy, Full
    <3>2. f.spare \in Tables
      OBVIOUS
    <3> QED BY <3>1, <3>2 DEF Tables
  <2>3. g.spare = [f.spare EXCEPT !.rows = f.prices.rows]
    BY <2>1
  <2>4. g.spare.there <=> f.spare.there
    BY <2>2, <2>3 DEF TableStates
  <2> QED BY <1>9, <2>1, <2>4
<1>10. CASE s = <<"drop", "prices">>
  <2>1. g = [f EXCEPT !.prices = Gone]
    BY <1>10, MovingEffect
  <2> QED BY <1>10, <2>1
<1>11. CASE s = <<"rename", "spare">>
  <2>1. g = [f EXCEPT !.prices = f.spare, !.spare = Gone]
    BY <1>11, MovingEffect
  <2> QED BY <1>11, <2>1
<1> QED BY <1>1, <1>2, <1>3, <1>4, <1>5, <1>6, <1>7, <1>8, <1>9, <1>10, <1>11, MoveIs

\* What the others do to the rest of the file.
LEMMA OthersDo ==
    ASSUME NEW f \in UpgradeFiles, NEW s \in Harmless, s # <<"begin", "all">>, s # Commits,
           NEW g, g = Effect(s, f)
    PROVE  /\ g.filled = f.filled
           /\ f.ids \/ s = <<"fill", "ids">> => g.ids
           /\ (f.triggers /\ s # <<"drop", "triggers">>) \/ s = Triggers => g.triggers
           /\ (f.index = "fresh" /\ s # <<"empty", "index">>) \/ s = <<"fill", "index">> => g.index = "fresh"
           /\ \A t \in SyncTables :
                /\ t \in f.named \/ s = <<"name", t>> => t \in g.named
                /\ t \in f.stamped \/ s = <<"stamp", t>> => t \in g.stamped
           /\ s[1] # "alter" => g.columns = f.columns
           /\ s[1] = "alter" => g.stamped = f.stamped
           /\ \A v \in Numbers : s = <<"record", v>> => g.recorded = f.recorded \cup {v}
           /\ (\A v \in Numbers : s # <<"record", v>>) => g.recorded = f.recorded
<1> USE DEF UpgradeFiles, Triggers
<1>1. CASE s = <<"ensure", "index">>
  <2>1. g = [f EXCEPT !.triggers = TRUE, !.index = IF @ = "none" THEN "fresh" ELSE @]
    BY <1>1 DEF Effect
  <2> QED BY <1>1, <2>1
<1>2. CASE s = <<"fill", "ids">>
  <2>1. g = [f EXCEPT !.ids = TRUE]
    BY <1>2 DEF Effect
  <2> QED BY <1>2, <2>1
<1>3. CASE s = <<"drop", "triggers">>
  <2>1. g = [f EXCEPT !.triggers = FALSE]
    BY <1>3 DEF Effect
  <2> QED BY <1>3, <2>1
<1>4. CASE s = <<"make", "triggers">>
  <2>1. g = [f EXCEPT !.triggers = TRUE]
    BY <1>4 DEF Effect
  <2> QED BY <1>4, <2>1
<1>5. CASE s = <<"empty", "index">>
  <2>1. g = [f EXCEPT !.index = "stale"]
    BY <1>5 DEF Effect
  <2> QED BY <1>5, <2>1
<1>6. CASE s = <<"fill", "index">>
  <2>1. g = [f EXCEPT !.index = "fresh"]
    BY <1>6 DEF Effect
  <2> QED BY <1>6, <2>1
<1>7. CASE s \in {"alter", "stamp", "name"} \X SyncTables
  <2>1. PICK u \in SyncTables : s \in {<<"alter", u>>, <<"stamp", u>>, <<"name", u>>}
    BY <1>7
  <2>2. u \notin {"list", "aside", "index", "triggers", "ids", "vault", "spare", "prices"}
    BY DEF SyncTables
  <2>3. CASE s = <<"alter", u>>
    <3>1. g = [f EXCEPT !.columns = @ \cup {u}]
      BY <2>2, <2>3 DEF Effect
    <3> QED BY <2>3, <3>1
  <2>4. CASE s = <<"stamp", u>>
    <3>1. g = [f EXCEPT !.stamped = @ \cup {u}]
      BY <2>2, <2>4 DEF Effect
    <3> QED BY <2>4, <3>1
  <2>5. CASE s = <<"name", u>>
    <3>1. g = [f EXCEPT !.named = @ \cup {u}]
      BY <2>2, <2>5 DEF Effect
    <3> QED BY <2>5, <3>1
  <2> QED BY <2>1, <2>3, <2>4, <2>5
<1>8. CASE s \in {"record"} \X Numbers
  <2>1. PICK v \in Numbers : s = <<"record", v>>
    BY <1>8
  <2>2. g = [f EXCEPT !.recorded = @ \cup {v}]
    BY <2>1 DEF Effect
  <2> QED BY <2>1, <2>2
<1> QED BY <1>1, <1>2, <1>3, <1>4, <1>5, <1>6, <1>7, <1>8 DEF Harmless, Commits

\* An aim is undone by no other statement.
LEMMA AchievedStays ==
    ASSUME NEW f \in UpgradeFiles, NEW s \in Known, NEW g, g = Does(s, f),
           NEW a \in Aims \cup {Triggers}, s # a, s \notin Undoes(a), Achieved(a, f)
    PROVE  Achieved(a, g)
<1>1. CASE s \in {<<"begin", "all">>, Commits}
  BY <1>1 DEF Does
<1>2. CASE s \in RowMoves
  <2>1. g = Effect(s, f)
    BY <1>2, MovingApart DEF Does
  <2>2. /\ g.index = f.index /\ g.triggers = f.triggers /\ g.ids = f.ids
        /\ g.stamped = f.stamped /\ g.filled = f.filled /\ g.named = f.named
        /\ s \notin ListStatements => SameList(f, g)
        /\ s \notin PriceStatements => SamePrices(f, g)
        /\ f.vault = {} => g.vault = {}
    BY <1>2, <2>1, MovesLeave
  <2>3. CASE a = <<"drop", "aside">>
    <3>1. f.list.new /\ ~ f.aside.there
      BY <2>3, AimsMean
    <3>2. s \notin ListStatements
      BY <2>3, AimsAre DEF ListStatements
    <3>3. g.list.new /\ ~ g.aside.there
      BY <2>2, <3>1, <3>2 DEF SameList
    <3> QED BY <2>3, <3>3, AimsMean
  <2>4. CASE a = <<"rename", "spare">>
    <3>1. f.prices.new /\ ~ f.spare.there
      BY <2>4, AimsMean
    <3>2. s \notin PriceStatements
      BY <2>4, AimsAre DEF PriceStatements
    <3> QED BY <2>2, <2>4, <3>1, <3>2, AimsMean DEF SamePrices
  <2>5. CASE a \in {<<"fill", "ids">>, <<"empty", "vault">>, <<"fill", "index">>, Triggers}
    BY <2>2, <2>5, AimsMean
  <2>6. CASE \E t \in SyncTables : a \in {<<"name", t>>, <<"stamp", t>>}
    BY <2>2, <2>6, AimsMean
  <2> QED BY <2>3, <2>4, <2>5, <2>6, AimCases
<1>3. CASE s \in Harmless /\ s \notin {<<"begin", "all">>, Commits}
  <2>1. g = Effect(s, f)
    BY <1>3 DEF Does
  <2>2. /\ g.list = f.list /\ g.aside = f.aside /\ g.prices = f.prices /\ g.spare = f.spare
        /\ g.vault = f.vault
    BY <1>3, <2>1, HarmlessEffect
  <2>3. /\ g.filled = f.filled
        /\ f.ids => g.ids
        /\ f.triggers /\ s # <<"drop", "triggers">> => g.triggers
        /\ f.index = "fresh" /\ s # <<"empty", "index">> => g.index = "fresh"
        /\ \A t \in SyncTables : (t \in f.named => t \in g.named) /\ (t \in f.stamped => t \in g.stamped)
    BY <1>3, <2>1, OthersDo
  <2>4. CASE a \in {<<"drop", "aside">>, <<"rename", "spare">>, <<"empty", "vault">>, <<"fill", "ids">>}
    BY <2>2, <2>3, <2>4, AimsMean
  <2>5. CASE a = Triggers
    BY <2>3, <2>5, AimsMean, AimsAre
  <2>6. CASE a = <<"fill", "index">>
    BY <2>3, <2>6, AimsMean, AimsAre
  <2>7. CASE \E t \in SyncTables : a \in {<<"name", t>>, <<"stamp", t>>}
    BY <2>3, <2>7, AimsMean
  <2> QED BY <2>4, <2>5, <2>6, <2>7, AimCases
<1> QED BY <1>1, <1>2, <1>3 DEF Known

LEMMA AimReached ==
    ASSUME NEW f \in UpgradeFiles, NEW a \in Aims \cup {Triggers}, NEW g, g = Does(a, f),
           a = <<"drop", "aside">> => f.list = Full, a = <<"rename", "spare">> => f.spare = Full
    PROVE  Achieved(a, g)
<1>1. g = Effect(a, f)
  BY AimsApart DEF Does
<1>2. CASE a = <<"drop", "aside">>
  <2>1. a \in RowMoves
    BY <1>2, MovesNamed
  <2>2. g.list = f.list /\ g.aside = Gone
    BY <1>1, <1>2, <2>1, MovesLeave
  <2>3. f.list = Full /\ Full.new /\ ~ Gone.there
    BY <1>2, TablesApart
  <2>4. g.list.new /\ ~ g.aside.there
    BY <2>2, <2>3
  <2> QED BY <1>2, <2>4, AimsMean
<1>3. CASE a = <<"rename", "spare">>
  <2>1. a \in RowMoves
    BY <1>3, MovesNamed
  <2>2. g.prices = f.spare /\ g.spare = Gone
    BY <1>1, <1>3, <2>1, MovesLeave
  <2>3. f.spare = Full /\ Full.new /\ ~ Gone.there
    BY <1>3, TablesApart
  <2>4. g.prices.new /\ ~ g.spare.there
    BY <2>2, <2>3
  <2> QED BY <1>3, <2>4, AimsMean
<1>4. CASE a = <<"empty", "vault">>
  <2>1. g.vault = {}
    BY <1>1, <1>4, MovesNamed, MovesLeave
  <2> QED BY <1>4, <2>1, AimsMean
<1>5. CASE a \in {<<"fill", "ids">>, <<"fill", "index">>, Triggers}
  <2>1. a \in Harmless /\ a # <<"begin", "all">> /\ a # Commits
    BY <1>5, AimsApart DEF Harmless, Triggers
  <2> QED BY <1>1, <1>5, <2>1, OthersDo, AimsMean
<1>6. CASE \E t \in SyncTables : a \in {<<"name", t>>, <<"stamp", t>>}
  <2>1. PICK t \in SyncTables : a \in {<<"name", t>>, <<"stamp", t>>}
    BY <1>6
  <2>2. a \in Harmless /\ a # <<"begin", "all">> /\ a # Commits
    BY <2>1, AimsApart DEF Harmless
  <2>3. (a = <<"name", t>> => t \in g.named) /\ (a = <<"stamp", t>> => t \in g.stamped)
    BY <1>1, <2>2, OthersDo
  <2> QED BY <2>1, <2>3, AimsMean
<1> QED BY <1>2, <1>3, <1>4, <1>5, <1>6, AimCases

\* The next statement is executed.
LEMMA BoundTail ==
    ASSUME NEW f \in UpgradeFiles, NEW s \in Seq(Known), s # <<>>, NEW g, g = Does(Head(s), f),
           NEW a \in Aims \cup {Triggers},
           Head(s) = <<"drop", "aside">> => f.list = Full,
           Head(s) = <<"rename", "spare">> => f.spare = Full
    PROVE  /\ Stays(a, f, s) => Stays(a, g, Tail(s))
           /\ Bound(a, f, s) => Bound(a, g, Tail(s))
<1>1. Head(s) \in Known
  BY HeadTailProperties
<1>2. Head(s) = a => Achieved(a, g)
  BY AimReached
<1>3. Achieved(a, f) /\ Head(s) \notin Undoes(a) => Achieved(a, g)
  BY <1>1, <1>2, AchievedStays
<1>4. Stays(a, f, s) => Stays(a, g, Tail(s))
  BY <1>3, ClearTail DEF Stays
<1>5. Secured(s, Undoes(a), a) => Bound(a, g, Tail(s))
  BY <1>2, SecuredTail DEF Bound, Stays
<1> QED BY <1>4, <1>5 DEF Bound

\* What the next statement makes of the shape.
NextShape(s, v, old, new) ==
    /\ Tail(s) # <<>> => Shaped(Tail(s), v, new)
    /\ Tail(s) = <<>> => IF v = 0 THEN Head(s) = Triggers ELSE Head(s) = Commits /\ v \in old
    /\ Head(s) = <<"record", v>> => s[2] = Commits /\ Len(s) = 2 /\ v \notin old
    /\ \A w \in Numbers : Head(s) = <<"record", w>> => w = v
    /\ v = 0 => s = <<Triggers>> /\ Tail(s) = <<>>

LEMMA ShapedTail ==
    ASSUME NEW S, NEW s \in Seq(S), s # <<>>, NEW v \in Numbers \cup {0}, NEW old, NEW new,
           Shaped(s, v, old), new = old \cup {w \in Numbers : Head(s) = <<"record", w>>}
    PROVE  NextShape(s, v, old, new)
<1> USE DEF NextShape
<1>1. Len(s) \in Nat \ {0} /\ Head(s) = s[1]
  BY EmptySeq, LenProperties
<1>2. /\ Tail(s) \in Seq(S) /\ Len(Tail(s)) = Len(s) - 1
      /\ \A i \in 1..Len(Tail(s)) : Tail(s)[i] = s[i + 1]
  BY HeadTailProperties
<1>3. Tail(s) = <<>> <=> Len(s) = 1
  <2>1. Tail(s) = <<>> <=> Len(Tail(s)) = 0
    BY <1>2, EmptySeq
  <2> QED BY <1>1, <1>2, <2>1
<1>0. (\A w \in Numbers : Head(s) # <<"record", w>>) => new = old
  OBVIOUS
<1>4. \A w : Commits # <<"record", w>> /\ Triggers # <<"record", w>>
  BY DEF Commits, Triggers
<1>5. CASE v = 0
  <2>1. Len(s) = 1 /\ s[1] = Triggers
    BY <1>5 DEF Shaped
  <2> QED BY <1>1, <1>3, <1>4, <1>5, <2>1 DEF Shaped
<1>6. CASE v # 0 /\ v \in old
  <2>1. Len(s) = 1 /\ s[1] = Commits
    BY <1>1, <1>6 DEF Shaped
  <2> QED BY <1>1, <1>3, <1>4, <1>6, <2>1
<1>7. CASE v # 0 /\ v \notin old
  <2>1. /\ Len(s) > 1 /\ s[Len(s)] = Commits /\ s[Len(s) - 1] = <<"record", v>>
        /\ \A i \in 1..Len(s) - 2, w \in Numbers : s[i] # <<"record", w>>
    BY <1>1, <1>7 DEF Shaped
  <2>2. v \in Numbers
    BY <1>7
  <2>3. \A w \in Numbers : <<"record", w>> = <<"record", v>> => w = v
    OBVIOUS
  <2>4. CASE Len(s) = 2
    <3>1. Head(s) = <<"record", v>> /\ v \in new
      <4>1. Head(s) = <<"record", v>>
        BY <1>1, <2>1, <2>4
      <4> QED BY <2>2, <4>1
    <3>2. Len(Tail(s)) = 1 /\ Tail(s)[1] = Commits
      <4>1. Len(Tail(s)) = 1 /\ s[2] = Commits
        BY <1>1, <1>2, <2>1, <2>4
      <4>2. 1 \in 1..Len(Tail(s)) /\ 1 + 1 = 2
        BY <4>1
      <4> QED BY <1>2, <4>1, <4>2
    <3>3. Shaped(Tail(s), v, new)
      BY <1>7, <3>1, <3>2 DEF Shaped
    <3> QED BY <1>3, <1>7, <2>1, <2>3, <2>4, <3>1, <3>3
  <2>5. CASE Len(s) > 2
    <3>1. (\A w \in Numbers : Head(s) # <<"record", w>>) /\ new = old
      BY <1>0, <1>1, <2>1, <2>5
    <3>2. Len(Tail(s)) > 1 /\ Tail(s)[Len(Tail(s))] = Commits /\ Tail(s)[Len(Tail(s)) - 1] = <<"record", v>>
      BY <1>1, <1>2, <2>1, <2>5
    <3>3. \A i \in 1..Len(Tail(s)) - 2, w \in Numbers : Tail(s)[i] # <<"record", w>>
      BY <1>1, <1>2, <2>1, <2>5
    <3>4. Shaped(Tail(s), v, new)
      BY <1>7, <3>1, <3>2, <3>3 DEF Shaped
    <3>5. Len(Tail(s)) # 0
      BY <3>2
    <3>6. Tail(s) # <<>>
      BY <1>2, <3>5, EmptySeq, Zenon
    <3> QED BY <1>7, <2>2, <3>1, <3>4, <3>6, Zenon
  <2>6. Len(s) = 2 \/ Len(s) > 2
    <3>1. Len(s) \in Nat /\ Len(s) > 1
      BY <1>1, <2>1
    <3> DEFINE n == Len(s)
    <3> HIDE DEF n
    <3>2. n \in Nat /\ n > 1 => n = 2 \/ n > 2
      OBVIOUS
    <3> QED BY <3>1, <3>2 DEF n
  <2> QED BY <2>4, <2>5, <2>6, Zenon
<1> QED BY <1>5, <1>6, <1>7

HealInv == KeptInv /\ InOrder /\ AimsReached /\ LeftoversHaveCause

\* A statement, a begin or a commit.
Steps ==
    /\ start.left # <<>> /\ Executed
    /\ work' = Does(Statement, work) /\ stored' \in {stored, work'}
    /\ tx' \in BOOLEAN /\ (~ tx' => stored' = work')
    /\ Statement = Commits => ~ tx'
    /\ Statement = Triggers /\ ~ tx => ~ tx'

LEMMA StepsAre ==
    ASSUME KeptTypes, BeginWork \/ Commit \/ ChangeRows \/ ChangeTables PROVE Steps
<1>1. tx \in BOOLEAN
  BY DEF KeptTypes
<1>2. ~ ChangesRows(<<"begin", "all">>) /\ ~ ChangesRows(Commits) /\ ~ ChangesRows(Triggers)
      /\ Commits # <<"begin", "all">> /\ Triggers # Commits /\ Triggers # <<"begin", "all">>
  BY DEF ChangesRows, Commits, Triggers
<1>3. CASE BeginWork
  BY <1>2, <1>3 DEF BeginWork, Steps, Does
<1>4. CASE Commit
  BY <1>2, <1>4 DEF Commit, Steps, Does
<1>5. CASE ChangeRows
  <2>1. Statement \notin {<<"begin", "all">>, Commits, Triggers}
    BY <1>2, <1>5 DEF ChangeRows
  <2> QED BY <1>5, <2>1 DEF ChangeRows, Steps, Does
<1>6. CASE ChangeTables
  BY <1>1, <1>6 DEF ChangeTables, Steps, Does
<1> QED BY <1>3, <1>4, <1>5, <1>6

\* Where a statement that finishes a move is next.
LEMMA MoveNext ==
    ASSUME KeptInv, start.left # <<>>
    PROVE  /\ Statement \in Known /\ (Statement \notin RowMoves => Statement \in Harmless)
           /\ Statement = <<"drop", "aside">> => work.list = Full
           /\ Statement = <<"rename", "spare">> => work.spare = Full
           /\ Statement = <<"make", "spare">> => work.prices = Legacy
           /\ Statement = <<"copy", "prices">> => work.prices = Legacy
<1>1. KeptTypes /\ Moves
  BY DEF KeptInv
<1>2. Statement \in Known
  BY <1>1, HeadTailProperties DEF KeptTypes, Statement
<1>3. CASE start.left \in Seq(Harmless)
  <2>1. Statement \in Harmless
    BY <1>3, HeadTailProperties DEF Statement
  <2> QED BY <1>2, <2>1, MovesNamed, MovingApart
<1>4. CASE MovesOfList
  <2>1. \/ Statement = <<"begin", "all">> \/ Statement = <<"recover", "list">>
        \/ Statement = <<"shelve", "list">> \/ Statement = <<"make", "list">>
        \/ Statement = <<"copy", "list">>
        \/ Statement = <<"drop", "aside">> /\ work.list = Full
    BY <1>1, <1>4, AheadStatements DEF MovesOfList
  <2>2. Statement = <<"drop", "aside">> => work.list = Full
    BY <2>1
  <2>3. Statement # <<"rename", "spare">>
    BY <2>1
  <2>4. Statement # <<"make", "spare">> /\ Statement # <<"copy", "prices">>
    BY <2>1
  <2> QED BY <1>2, <2>2, <2>3, <2>4 DEF Known
<1>5. CASE VaultMoves
  <2>1. Statement = <<"copy", "vault">> \/ Statement = <<"empty", "vault">>
    BY <1>1, <1>5, AheadStatements DEF VaultMoves
  <2>2. Statement # <<"rename", "spare">> /\ Statement # <<"make", "spare">> /\ Statement # <<"copy", "prices">>
        /\ Statement # <<"drop", "aside">>
    BY <2>1
  <2> QED BY <1>2, <2>2 DEF Known
<1>6. CASE PricesMove
  <2>1. \/ Statement = <<"make", "spare">> /\ work.prices = Legacy
        \/ Statement = <<"copy", "prices">> /\ work.prices = Legacy
        \/ Statement = <<"drop", "prices">>
        \/ Statement = <<"rename", "spare">> /\ work.spare = Full
    BY <1>1, <1>6, AheadStatements DEF PricesMove
  <2>2. /\ Statement # <<"drop", "aside">>
        /\ Statement = <<"rename", "spare">> => work.spare = Full
        /\ Statement = <<"make", "spare">> => work.prices = Legacy
        /\ Statement = <<"copy", "prices">> => work.prices = Legacy
    BY <2>1
  <2> QED BY <1>2, <2>2 DEF Known
<1> QED BY <1>1, <1>3, <1>4, <1>5, <1>6 DEF Moves

\* What a statement does to the record, and to what is left.
LEMMA StepShape ==
    ASSUME KeptInv, InOrder, Steps, NEW v, v = Order[start.place]
    PROVE  /\ v \in Numbers \cup {0} /\ start.pc = "runs" /\ start.place \in 1..7
           /\ start'.pc = start.pc /\ start'.place = start.place /\ start'.left = Tail(start.left)
           /\ start'.left \in Seq(Known) /\ cut' = cut
           /\ start'.left # <<>> => Shaped(start'.left, v, work'.recorded)
           /\ start'.left = <<>> => ~ tx' /\ work' = stored' /\ v \in work'.recorded \cup {0}
           /\ start'.left = <<>> /\ v # 0 => Statement = Commits /\ work' = work /\ v \in work.recorded
           /\ tx' => v # 0
           /\ work.recorded \subseteq work'.recorded
           /\ \A w \in Numbers : w \in work'.recorded \ work.recorded =>
                /\ w = v /\ Statement = <<"record", w>>
                /\ Len(start.left) = 2 /\ start.left[2] = Commits
<1>1. /\ KeptTypes /\ start.left # <<>> /\ start.left \in Seq(Known) /\ start.pc = "runs" /\ start.place \in 1..7
      /\ work \in UpgradeFiles
  BY DEF KeptInv, KeptTypes, Steps
<1>2. v \in Numbers \cup {0}
  <2>1. \A i \in 1..7 : Order[i] \in {0, 1, 2, 4, 6, 10, 18}
    BY DEF Order
  <2> QED BY <1>1, <2>1 DEF Numbers
<1>3. start'.left = Tail(start.left) /\ start'.pc = start.pc /\ start'.place = start.place /\ cut' = cut
      /\ start'.left \in Seq(Known)
  <2>1. start' = [start EXCEPT !.left = Tail(@)] /\ cut' = cut
    BY DEF Steps, Executed
  <2>2. start \in StartTypes
    BY <1>1 DEF KeptTypes, StartTypes
  <2> QED BY <1>1, <2>1, <2>2, HeadTailProperties DEF StartTypes
<1>4. Statement \in Known /\ (Statement \notin RowMoves => Statement \in Harmless)
  BY <1>1, MoveNext
<1>5. /\ \A w \in Numbers : Statement = <<"record", w>> => work'.recorded = work.recorded \cup {w}
      /\ (\A w \in Numbers : Statement # <<"record", w>>) => work'.recorded = work.recorded
  <2>1. CASE Statement \in {<<"begin", "all">>, Commits}
    BY <2>1 DEF Steps, Does, Commits
  <2>2. CASE Statement \notin {<<"begin", "all">>, Commits} /\ Statement \in RowMoves
    <3>1. work' = Effect(Statement, work)
      BY <2>2 DEF Steps, Does
    <3>2. \A w \in Numbers : <<"record", w>> \in Harmless
      BY DEF Harmless
    <3> QED BY <1>1, <2>2, <3>1, <3>2, MovesLeave, MovingApart
  <2>3. CASE Statement \notin {<<"begin", "all">>, Commits} /\ Statement \in Harmless
    <3>1. work' = Effect(Statement, work)
      BY <2>3 DEF Steps, Does
    <3> QED BY <1>1, <2>3, <3>1, OthersDo
  <2> QED BY <1>4, <2>1, <2>2, <2>3
<1>6. work'.recorded = work.recorded \cup {w \in Numbers : Statement = <<"record", w>>}
  <2>1. CASE \E w \in Numbers : Statement = <<"record", w>>
    <3>1. PICK w \in Numbers : Statement = <<"record", w>>
      BY <2>1
    <3>2. {u \in Numbers : Statement = <<"record", u>>} = {w}
      BY <3>1
    <3> QED BY <1>5, <3>1, <3>2
  <2>2. CASE \A w \in Numbers : Statement # <<"record", w>>
    BY <1>5, <2>2
  <2> QED BY <2>1, <2>2
<1>7. Shaped(start.left, v, work.recorded)
  BY <1>1 DEF InOrder
<1>8. /\ start'.left # <<>> => Shaped(start'.left, v, work'.recorded)
      /\ start'.left = <<>> => IF v = 0 THEN Statement = Triggers ELSE Statement = Commits /\ v \in work.recorded
      /\ Statement = <<"record", v>> => start.left[2] = Commits /\ Len(start.left) = 2 /\ v \notin work.recorded
      /\ \A w \in Numbers : Statement = <<"record", w>> => w = v
      /\ v = 0 => Tail(start.left) = <<>>
  <2> DEFINE s == start.left
             old == work.recorded
             new == work'.recorded
  <2>1. Statement = Head(s) /\ s # <<>> /\ s \in Seq(Known) /\ Shaped(s, v, old)
    BY <1>1, <1>7 DEF Statement
  <2>2. new = old \cup {w \in Numbers : Head(s) = <<"record", w>>}
    BY <1>6, <2>1
  <2> HIDE DEF s, old, new
  <2>3. NextShape(s, v, old, new)
    BY <1>2, <2>1, <2>2, ShapedTail
  <2> QED BY <1>3, <2>1, <2>3 DEF s, old, new, NextShape
<1>9. v = 0 => start'.left = <<>>
  BY <1>3, <1>8
<1>10. start'.left = <<>> => ~ tx' /\ work' = stored'
  BY <1>8 DEF Steps, InOrder
<1>11. start'.left = <<>> /\ v # 0 => Statement = Commits /\ work' = work /\ v \in work.recorded
  BY <1>8 DEF Steps, Does
<1>12. work.recorded \subseteq work'.recorded
  BY <1>5
<1> QED BY <1>1, <1>2, <1>3, <1>5, <1>8, <1>9, <1>10, <1>11, <1>12

LEMMA InOrderSteps ==
    ASSUME KeptInv, InOrder, Steps PROVE InOrder'
<1> DEFINE v == Order[start.place]
<1>1. /\ v \in Numbers \cup {0} /\ start.pc = "runs" /\ start.place \in 1..7
      /\ start'.pc = start.pc /\ start'.place = start.place
      /\ start'.left # <<>> => Shaped(start'.left, v, work'.recorded)
      /\ start'.left = <<>> => ~ tx' /\ work' = stored' /\ v \in work'.recorded \cup {0}
      /\ tx' => v # 0
      /\ work.recorded \subseteq work'.recorded
  BY StepShape
<1>2. start'.pc \in {"runs", "ready"} =>
        \A i \in 1..start'.place :
            Order[i] \in work'.recorded \cup {0} \/ (i = start'.place /\ start'.left # <<>>)
  <2>1. \A i \in 1..start.place : Order[i] \in work.recorded \cup {0} \/ i = start.place
    BY <1>1 DEF InOrder
  <2> QED BY <1>1, <2>1
<1>3. ~ tx' => work' = stored'
  BY DEF Steps
<1>4. start'.left # <<>> => Shaped(start'.left, Order[start'.place], work'.recorded)
  BY <1>1
<1>5. tx' => start'.left # <<>> /\ Order[start'.place] # 0
  BY <1>1
<1>6. start'.pc # "ready"
  BY <1>1
<1> QED BY <1>2, <1>3, <1>4, <1>5, <1>6 DEF InOrder

\* The record is made when the aim is reached, and nothing that is left undoes it.
LEMMA AimsSteps ==
    ASSUME KeptInv, InOrder, AimsReached, Steps PROVE AimsReached'
<1> DEFINE v == Order[start.place]
           left == start.left
<1>1. /\ v \in Numbers \cup {0} /\ start.pc = "runs" /\ start.place \in 1..7
      /\ start'.pc = start.pc /\ start'.place = start.place /\ start'.left = Tail(left)
      /\ cut' = cut /\ work.recorded \subseteq work'.recorded
      /\ \A w \in Numbers : w \in work'.recorded \ work.recorded =>
            w = v /\ Statement = <<"record", w>> /\ Len(left) = 2 /\ left[2] = Commits
  BY StepShape
<1>2. left \in Seq(Known) /\ left # <<>> /\ work \in UpgradeFiles /\ Statement = Head(left)
      /\ work' = Does(Statement, work)
  BY DEF KeptInv, KeptTypes, Steps, Statement
<1>3. /\ Statement = <<"drop", "aside">> => work.list = Full
      /\ Statement = <<"rename", "spare">> => work.spare = Full
  BY <1>2, MoveNext
<1>4. ASSUME NEW a \in Aims \cup {Triggers}
      PROVE  /\ Stays(a, work, left) => Stays(a, work', Tail(left))
             /\ Bound(a, work, left) => Bound(a, work', Tail(left))
  BY <1>2, <1>3, BoundTail
<1> HIDE DEF left
<1>5. start'.pc \in {"runs", "ready"} /\ start'.place >= 2 => Bound(Triggers, work', start'.left)
  BY <1>1, <1>4 DEF AimsReached, left
<1>6. ASSUME NEW a \in Aims, ~ Missed(a)'
      PROVE  /\ Of(a) \in work'.recorded => Stays(a, work', start'.left)
             /\ Under(Of(a))' /\ Of(a) \notin work'.recorded => Bound(a, work', start'.left)
             /\ Of(a) \in stored'.recorded => Achieved(a, stored')
  <2>1. ~ Missed(a) /\ Of(a) \in Numbers
    <3>1. Of(a) \in Numbers
      <4>1. \/ a \in {<<"drop", "aside">>, <<"fill", "ids">>, <<"empty", "vault">>, <<"rename", "spare">>,
                    <<"fill", "index">>}
            \/ \E t \in SyncTables : a \in {<<"name", t>>, <<"stamp", t>>}
        BY DEF Aims
      <4> QED BY <4>1, AimsAre DEF Numbers
    <3> QED BY <1>1, <1>6, <3>1 DEF Missed
  <2>2. Under(Of(a)) <=> Of(a) = v
    BY <1>2 DEF Under, left
  <2>3. /\ Of(a) \in stored.recorded => Achieved(a, stored)
        /\ Of(a) \in work.recorded => Stays(a, work, left)
        /\ Of(a) = v /\ Of(a) \notin work.recorded => Bound(a, work, left)
    BY <2>1, <2>2 DEF AimsReached, left
  <2>4. Of(a) \in work'.recorded => Stays(a, work', start'.left)
    <3>1. CASE Of(a) \in work.recorded
      BY <1>1, <1>4, <2>3, <3>1
    <3>2. CASE Of(a) \in work'.recorded \ work.recorded
      <4>1. Of(a) = v /\ Statement = <<"record", v>> /\ Len(left) = 2 /\ left[2] = Commits /\ left[1] = Statement
        BY <1>1, <1>2, <2>1, <3>2
      <4>2. left[1] # a /\ left[2] # a
        BY <4>1, AimsApart
      <4>3. ~ Secured(left, Undoes(a), a)
        BY <4>1, <4>2 DEF Secured
      <4>4. Stays(a, work, left)
        BY <2>3, <3>2, <4>1, <4>3 DEF Bound
      <4> QED BY <1>1, <1>4, <4>4
    <3> QED BY <3>1, <3>2
  <2>5. Under(Of(a))' /\ Of(a) \notin work'.recorded => Bound(a, work', start'.left)
    <3>1. Under(Of(a))' => Of(a) = v
      BY <1>1 DEF Under
    <3> QED BY <1>1, <1>4, <2>3, <3>1
  <2>6. stored' \in {stored, work'}
    BY DEF Steps
  <2>7. Of(a) \in stored'.recorded => Achieved(a, stored')
    BY <2>3, <2>4, <2>6 DEF Stays
  <2> QED BY <2>4, <2>5, <2>7
<1> QED BY <1>5, <1>6 DEF AimsReached

\* A spare table and an unstamped column that a statement leaves behind.
LEMMA LeftoversSteps ==
    ASSUME KeptInv, InOrder, AimsReached, LeftoversHaveCause, Steps PROVE LeftoversHaveCause'
<1> DEFINE v == Order[start.place]
           left == start.left
<1>1. /\ v \in Numbers \cup {0} /\ start.pc = "runs" /\ start.place \in 1..7
      /\ start'.pc = start.pc /\ start'.place = start.place /\ start'.left = Tail(left)
      /\ cut' = cut
      /\ start'.left = <<>> => ~ tx' /\ work' = stored'
      /\ start'.left = <<>> /\ v # 0 => Statement = Commits /\ work' = work /\ v \in work.recorded
  BY StepShape
<1>2. left \in Seq(Known) /\ left # <<>> /\ work \in UpgradeFiles /\ Statement = Head(left)
      /\ work' = Does(Statement, work) /\ stored' \in {stored, work'}
  BY DEF KeptInv, KeptTypes, Steps, Statement
<1>3. /\ Len(left) \in Nat \ {0} /\ Statement = left[1] /\ Len(Tail(left)) = Len(left) - 1
      /\ \A i \in 1..Len(Tail(left)) : Tail(left)[i] = left[i + 1]
  BY <1>2, EmptySeq, LenProperties, HeadTailProperties
<1>4. /\ \A w : Under(w) <=> w = v
      /\ \A w : Under(w)' <=> w = v /\ start'.left # <<>>
  BY <1>1, <1>2 DEF Under
<1>5. /\ Statement = <<"make", "spare">> => Under(6)
      /\ Statement[1] = "alter" => Under(18)
  BY <1>3 DEF LeftoversHaveCause
<1> HIDE DEF left, v
<1>6. SpareWhy(work)'
  <2> SUFFICES ASSUME work'.spare.there PROVE ~ work'.prices.new /\ (6 \in cut' \/ Under(6)')
    BY DEF SpareWhy
  <2>1. /\ Statement \in Known /\ (Statement \notin RowMoves => Statement \in Harmless)
        /\ Statement = <<"make", "spare">> => work.prices = Legacy
        /\ Statement = <<"copy", "prices">> => work.prices = Legacy
    BY <1>2, MoveNext DEF left
  <2>2. ASSUME work.spare.there, ~ work'.prices.new PROVE ~ work'.prices.new /\ (6 \in cut' \/ Under(6)')
    <3>1. ~ work.prices.new /\ (6 \in cut \/ Under(6))
      BY <2>2 DEF LeftoversHaveCause, SpareWhy
    <3>2. CASE 6 \in cut
      BY <1>1, <2>2, <3>2
    <3>3. CASE Under(6) /\ start'.left = <<>>
      <4>1. v = 6 /\ 6 \in work.recorded
        BY <1>1, <1>4, <3>3
      <4>2. <<"rename", "spare">> \in Aims /\ ~ Missed(<<"rename", "spare">>) /\ Of(<<"rename", "spare">>) = 6
        BY AimsAre DEF Aims, Missed
      <4>3. Achieved(<<"rename", "spare">>, work)
        BY <4>1, <4>2 DEF AimsReached, Stays
      <4> QED BY <2>2, <4>3, AimsMean
    <3>4. CASE Under(6) /\ start'.left # <<>>
      BY <1>4, <2>2, <3>4
    <3> QED BY <3>1, <3>2, <3>3, <3>4
  <2>3. CASE Statement \in {<<"begin", "all">>, Commits}
    <3>1. work' = work
      BY <1>2, <2>3 DEF Does
    <3>2. ~ work'.prices.new
      BY <3>1 DEF LeftoversHaveCause, SpareWhy
    <3> QED BY <2>2, <3>1, <3>2
  <2>4. CASE Statement \notin {<<"begin", "all">>, Commits} /\ Statement \in Harmless
    <3>1. work' = Effect(Statement, work)
      BY <1>2, <2>4 DEF Does
    <3>2. work'.spare = work.spare /\ work'.prices = work.prices
      BY <1>2, <2>4, <3>1, HarmlessEffect
    <3>3. ~ work'.prices.new
      BY <3>2 DEF LeftoversHaveCause, SpareWhy
    <3> QED BY <2>2, <3>2, <3>3
  <2>5. CASE Statement \notin {<<"begin", "all">>, Commits} /\ Statement \in RowMoves
    <3>1. work' = Effect(Statement, work)
      BY <1>2, <2>5 DEF Does
    <3>2. /\ Statement \notin PriceStatements => SamePrices(work, work')
          /\ Statement = <<"make", "spare">> => work'.prices = work.prices
          /\ Statement = <<"copy", "prices">> => work'.prices = work.prices /\ (work'.spare.there <=> work.spare.there)
          /\ Statement = <<"drop", "prices">> => work'.prices = Gone /\ work'.spare = work.spare
          /\ Statement = <<"rename", "spare">> => work'.spare = Gone
      <4> DEFINE s == Statement
                 g == work'
      <4>1. s \in RowMoves /\ g = Effect(s, work)
        BY <2>5, <3>1
      <4> HIDE DEF s, g
      <4>2. /\ s \notin PriceStatements => SamePrices(work, g)
            /\ s = <<"make", "spare">> => g.prices = work.prices
            /\ s = <<"copy", "prices">> => g.prices = work.prices /\ (g.spare.there <=> work.spare.there)
            /\ s = <<"drop", "prices">> => g.prices = Gone /\ g.spare = work.spare
            /\ s = <<"rename", "spare">> => g.spare = Gone
        BY <1>2, <4>1, MovesLeave
      <4> QED BY <4>2 DEF s, g
    <3>3. CASE Statement \notin PriceStatements
      <4>1. work'.spare = work.spare /\ work'.prices = work.prices
        BY <3>2, <3>3 DEF SamePrices
      <4>2. ~ work'.prices.new
        BY <4>1 DEF LeftoversHaveCause, SpareWhy
      <4> QED BY <2>2, <4>1, <4>2
    <3>4. CASE Statement = <<"make", "spare">>
      <4>1. ~ work'.prices.new
        BY <2>1, <3>2, <3>4, TablesApart
      <4>2. Under(6) /\ v = 6
        BY <1>4, <1>5, <3>4
      <4>3. start'.left # <<>>
        BY <1>1, <3>4, <4>2 DEF Commits
      <4> QED BY <1>4, <4>1, <4>2, <4>3
    <3>5. CASE Statement = <<"copy", "prices">>
      <4>1. ~ work'.prices.new /\ work.spare.there
        BY <2>1, <3>2, <3>5, TablesApart
      <4> QED BY <2>2, <4>1
    <3>6. CASE Statement = <<"drop", "prices">>
      <4>1. ~ work'.prices.new /\ work.spare.there
        BY <3>2, <3>6, TablesApart
      <4> QED BY <2>2, <4>1
    <3>7. CASE Statement = <<"rename", "spare">>
      BY <3>2, <3>7, TablesApart
    <3> QED BY <3>3, <3>4, <3>5, <3>6, <3>7 DEF PriceStatements
  <2> QED BY <2>1, <2>3, <2>4, <2>5
<1>7. ColumnsWhy(work)'
  <2>1. /\ Statement \in Known /\ (Statement \notin RowMoves => Statement \in Harmless)
    BY <1>2, MoveNext DEF left
  <2>2. CASE Statement[1] = "alter"
    <3>1. Under(18) /\ v = 18
      BY <1>4, <1>5, <2>2
    <3>2. start'.left # <<>>
      BY <1>1, <2>2, <3>1 DEF Commits
    <3> QED BY <1>4, <3>1, <3>2 DEF ColumnsWhy
  <2>3. CASE Statement[1] # "alter"
    <3>1. work'.columns = work.columns /\ work.columns \subseteq SyncTables
          /\ \A t \in SyncTables : t \in work.stamped => t \in work'.stamped
      <4>1. work.columns \subseteq SyncTables
        BY <1>2 DEF UpgradeFiles
      <4>2. CASE Statement \in {<<"begin", "all">>, Commits}
        BY <1>2, <4>1, <4>2 DEF Does
      <4>3. CASE Statement \notin {<<"begin", "all">>, Commits} /\ Statement \in Harmless
        <5>1. work' = Effect(Statement, work)
          BY <1>2, <4>3 DEF Does
        <5> QED BY <1>2, <2>3, <4>1, <4>3, <5>1, OthersDo
      <4>4. CASE Statement \notin {<<"begin", "all">>, Commits} /\ Statement \in RowMoves
        <5>1. work' = Effect(Statement, work)
          BY <1>2, <4>4 DEF Does
        <5> QED BY <1>2, <4>1, <4>4, <5>1, MovesLeave
      <4> QED BY <2>1, <4>2, <4>3, <4>4
    <3>2. CASE work.columns \subseteq work.stamped
      BY <3>1, <3>2 DEF ColumnsWhy
    <3>3. CASE 18 \in cut
      BY <1>1, <3>3 DEF ColumnsWhy
    <3>4. CASE Under(18) /\ start'.left # <<>>
      BY <1>4, <3>4 DEF ColumnsWhy
    <3>5. CASE Under(18) /\ start'.left = <<>> /\ 18 \notin cut
      <4>1. v = 18 /\ 18 \in work.recorded
        BY <1>1, <1>4, <3>5
      <4>2. ASSUME NEW t \in SyncTables PROVE t \in work.stamped
        <5>1. <<"stamp", t>> \in Aims /\ ~ Missed(<<"stamp", t>>) /\ Of(<<"stamp", t>>) = 18
          BY <3>5, AimsAre DEF Aims, Missed
        <5>2. Achieved(<<"stamp", t>>, work)
          BY <4>1, <5>1 DEF AimsReached, Stays
        <5> QED BY <5>2, AimsMean
      <4> QED BY <3>1, <4>2 DEF ColumnsWhy
    <3> QED BY <3>2, <3>3, <3>4, <3>5 DEF LeftoversHaveCause, ColumnsWhy
  <2> QED BY <2>2, <2>3
<1>8. SpareWhy(stored)' /\ ColumnsWhy(stored)'
  <2>1. CASE stored' = work'
    BY <1>6, <1>7, <2>1 DEF SpareWhy, ColumnsWhy
  <2>2. CASE stored' = stored /\ start'.left # <<>>
    <3>1. \A w : Under(w) => Under(w)'
      BY <1>4, <2>2
    <3> QED BY <1>1, <2>2, <3>1 DEF LeftoversHaveCause, SpareWhy, ColumnsWhy
  <2> QED BY <1>1, <1>2, <2>1, <2>2
<1>9. ASSUME NEW i \in 1..Len(start'.left)
      PROVE  start'.left[i] # <<"make", "spare">> /\ (start'.left[i][1] = "alter" => Under(18)')
  <2>1. start'.left[i] = left[i + 1] /\ i + 1 \in 1..Len(left) /\ i + 1 # 1
    BY <1>1, <1>3, <1>9
  <2>2. left[i + 1] # <<"make", "spare">> /\ (left[i + 1][1] = "alter" => Under(18))
    BY <2>1 DEF LeftoversHaveCause, left
  <2>3. start'.left # <<>>
    BY <1>9
  <2> QED BY <1>4, <2>1, <2>2, <2>3
<1>10. start'.pc # "failed"
  BY <1>1
<1> QED BY <1>6, <1>7, <1>8, <1>9, <1>10 DEF LeftoversHaveCause

\* The app is started, fails, or ends; nothing is left to do.
Rests ==
    /\ stored' = stored /\ work' = stored /\ ~ tx' /\ start'.left = <<>>
    /\ cut \subseteq cut' /\ (start.left # <<>> => Order[start.place] \in cut')
    /\ \/ start'.pc \in {"off", "runs"} /\ start'.place = 0
       \/ start'.pc = "failed" /\ 6 \in cut'

LEMMA RestsAre ==
    ASSUME KeptInv, InOrder, LeftoversHaveCause, StartUpgrade \/ Fail \/ EndStart PROVE Rests
<1>1. CASE StartUpgrade
  <2>1. start.left = <<>> /\ start' = [Off EXCEPT !.pc = "runs"]
    BY <1>1 DEF StartUpgrade, KeptInv, KeptTypes
  <2>2. start'.left = <<>> /\ start'.pc = "runs" /\ start'.place = 0
    BY <2>1 DEF Off
  <2>3. ~ tx /\ work = stored
    BY <2>1 DEF InOrder
  <2> QED BY <1>1, <2>1, <2>2, <2>3 DEF StartUpgrade, Rests
<1>2. CASE Fail
  <2>1. start.left # <<>> /\ start.left \in Seq(Known) /\ Statement = <<"make", "spare">> /\ work.spare.there
    BY <1>2 DEF Fail, Refused, KeptInv, KeptTypes
  <2>2. start.left[1] = <<"make", "spare">> /\ 1 \in 1..Len(start.left)
    BY <2>1, EmptySeq, LenProperties DEF Statement
  <2>3. Order[start.place] = 6 /\ 6 \in cut
    BY <2>1, <2>2 DEF LeftoversHaveCause, Under
  <2>4. start'.left = <<>> /\ start'.pc = "failed"
    <3>1. start' = [start EXCEPT !.pc = "failed", !.left = <<>>] /\ start \in StartTypes
      BY <1>2 DEF Fail, KeptInv, KeptTypes, StartTypes
    <3> QED BY <3>1 DEF StartTypes
  <2> QED BY <1>2, <2>3, <2>4 DEF Fail, Rests
<1>3. CASE EndStart
  <2>1. start'.left = <<>> /\ start'.pc = "off" /\ start'.place = 0
    BY <1>3 DEF EndStart, Off
  <2>2. cut \subseteq cut' /\ (start.left # <<>> => Order[start.place] \in cut')
    BY <1>3 DEF EndStart
  <2> QED BY <1>3, <2>1, <2>2 DEF EndStart, Rests
<1> QED BY <1>1, <1>2, <1>3

LEMMA NothingLeft == \A X : Untouched(<<>>, X) /\ \A a : ~ Secured(<<>>, X, a)
BY DEF Untouched, Secured

LEMMA RestHeals ==
    ASSUME InOrder, AimsReached, LeftoversHaveCause, Rests
    PROVE  InOrder' /\ AimsReached' /\ LeftoversHaveCause'
<1>1. InOrder'
  BY DEF Rests, InOrder
<1>2. AimsReached'
  <2>1. ASSUME NEW a \in Aims, ~ Missed(a)'
        PROVE  /\ Of(a) \in stored'.recorded => Achieved(a, stored')
               /\ Of(a) \in work'.recorded => Stays(a, work', start'.left)
               /\ Under(Of(a))' /\ Of(a) \notin work'.recorded => Bound(a, work', start'.left)
    <3>1. ~ Missed(a)
      BY <2>1 DEF Missed, Rests
    <3>2. Of(a) \in stored.recorded => Achieved(a, stored)
      BY <3>1 DEF AimsReached
    <3>3. ~ Under(Of(a))'
      BY DEF Under, Rests
    <3>4. stored' = stored /\ work' = stored /\ start'.left = <<>>
      BY DEF Rests
    <3> QED BY <3>2, <3>3, <3>4, NothingLeft DEF Stays
  <2>2. ~ (start'.pc \in {"runs", "ready"} /\ start'.place >= 2)
    BY DEF Rests
  <2> QED BY <2>1, <2>2 DEF AimsReached
<1>3. LeftoversHaveCause'
  <2>1. \A w \in {6, 18} : w \in cut \/ Under(w) => w \in cut'
    BY DEF Under, Rests
  <2>2. SpareWhy(stored)' /\ SpareWhy(work)' /\ ColumnsWhy(stored)' /\ ColumnsWhy(work)'
    BY <2>1 DEF LeftoversHaveCause, SpareWhy, ColumnsWhy, Rests
  <2>3. Len(start'.left) = 0 /\ (start'.pc = "failed" => 6 \in cut')
    BY DEF Rests
  <2> QED BY <2>2, <2>3 DEF LeftoversHaveCause
<1> QED BY <1>1, <1>2, <1>3

\* All migrations have run.
LEMMA ReadyHeals ==
    ASSUME KeptTypes, InOrder, AimsReached, LeftoversHaveCause,
           start.pc = "runs", start.left = <<>>, start.place = 7,
           start' = [start EXCEPT !.pc = "ready"], UNCHANGED <<stored, work, tx, cut>>
    PROVE  InOrder' /\ AimsReached' /\ LeftoversHaveCause'
<1>1. start'.pc = "ready" /\ start'.left = start.left /\ start'.place = start.place
  BY DEF KeptTypes
<1>2. \A w : Under(w)' <=> Under(w)
  BY <1>1 DEF Under
<1>3. InOrder'
  BY <1>1 DEF InOrder
<1>4. AimsReached'
  BY <1>1, <1>2 DEF AimsReached, Missed
<1>5. LeftoversHaveCause'
  BY <1>1, <1>2 DEF LeftoversHaveCause, SpareWhy, ColumnsWhy
<1> QED BY <1>3, <1>4, <1>5

\* The statements of each migration, with those that it may leave out.
Body(v) ==
    CASE v = 0 -> {Triggers}
      [] v = 1 -> ListStatements \cup {<<"begin", "all">>, <<"ensure", "index">>, Commits}
      [] v = 2 -> {<<"drop", "triggers">>, <<"fill", "ids">>, Triggers, <<"fill", "index">>, Commits}
      [] v = 4 -> {<<"copy", "vault">>, <<"empty", "vault">>, Commits}
      [] v = 6 -> PriceStatements \cup {Commits}
      [] v = 10 -> {<<"drop", "triggers">>, <<"empty", "index">>, <<"fill", "index">>, Triggers, Commits}
      [] v = 18 -> ({"alter", "stamp", "name"} \X SyncTables) \cup {Commits}

BodyOf(v) == Body(v) \cup {<<"record", v>>, Commits}

LEMMA BodiesAre ==
    /\ Body(0) = {Triggers}
    /\ Body(1) = ListStatements \cup {<<"begin", "all">>, <<"ensure", "index">>, Commits}
    /\ Body(2) = {<<"drop", "triggers">>, <<"fill", "ids">>, Triggers, <<"fill", "index">>, Commits}
    /\ Body(4) = {<<"copy", "vault">>, <<"empty", "vault">>, Commits}
    /\ Body(6) = PriceStatements \cup {Commits}
    /\ Body(10) = {<<"drop", "triggers">>, <<"empty", "index">>, <<"fill", "index">>, Triggers, Commits}
    /\ Body(18) = ({"alter", "stamp", "name"} \X SyncTables) \cup {Commits}
BY DEF Body

\* The two words of a statement tell whose it is.
LEMMA BodyWords ==
    ASSUME NEW v \in Numbers \cup {0}, NEW s \in BodyOf(v)
    PROVE  /\ v # 1 /\ s[1] # "record" => s[2] \notin {"list", "aside"}
           /\ v # 6 /\ s[1] # "record" => s[2] \notin {"spare", "prices"}
           /\ s[1] = "alter" => v = 18
           /\ s = <<"empty", "index">> => v = 10
           /\ s = <<"drop", "triggers">> => v \in {2, 10}
           /\ s \in Body(v) => s[1] # "record"
<1>1. CASE s \in {<<"record", v>>, Commits}
  <2>2. s[1] # "record" => s[2] = "all"
    BY <1>1 DEF Commits
  <2>3. s[1] \in {"record", "commit"}
    BY <1>1 DEF Commits
  <2>4. s \in Body(v) => s[1] # "record"
    <3>1. SUFFICES ASSUME s \in Body(v), s[1] = "record" PROVE FALSE
      OBVIOUS
    <3>2. v \in {0, 2, 4, 6, 10} => FALSE
      BY <3>1, BodiesAre DEF PriceStatements, Triggers, Commits
    <3>3. v = 1 => FALSE
      BY <3>1, BodiesAre DEF ListStatements, Commits
    <3>4. v = 18 => FALSE
      BY <3>1, BodiesAre DEF Commits
    <3> QED BY <3>2, <3>3, <3>4 DEF Numbers
  <2> QED BY <2>2, <2>3, <2>4
<1>2. CASE s \in Body(v) /\ s # Commits
  <2>1. CASE v \in {0, 2, 4, 10}
    BY <1>2, <2>1, BodiesAre DEF Triggers
  <2>2. CASE v = 1
    <3>1. s \in ListStatements \/ s \in {<<"begin", "all">>, <<"ensure", "index">>}
      BY <1>2, <2>2, BodiesAre
    <3>2. s[2] \in {"list", "aside", "all", "index"} /\ s[1] \in {"recover", "shelve", "make", "copy", "drop", "begin", "ensure"}
      BY <3>1 DEF ListStatements
    <3>3. s # <<"empty", "index">> /\ s # <<"drop", "triggers">>
      BY <3>2
    <3> QED BY <2>2, <3>2, <3>3
  <2>3. CASE v = 6
    BY <1>2, <2>3, BodiesAre DEF PriceStatements
  <2>4. CASE v = 18
    <3>1. s \in {"alter", "stamp", "name"} \X SyncTables
      BY <1>2, <2>4, BodiesAre
    <3>2. s[2] \in {"first", "second"} /\ s[1] \in {"alter", "stamp", "name"}
      BY <3>1 DEF SyncTables
    <3>3. s # <<"empty", "index">> /\ s # <<"drop", "triggers">>
      BY <3>2
    <3> QED BY <2>4, <3>2, <3>3
  <2> QED BY <2>1, <2>2, <2>3, <2>4 DEF Numbers
<1> QED BY <1>1, <1>2 DEF BodyOf

LEMMA BodyApart ==
    ASSUME NEW v \in Numbers \cup {0}
    PROVE  /\ \A a \in Aims : Of(a) # v => BodyOf(v) \cap Undoes(a) = {}
           /\ v \notin {2, 10} => BodyOf(v) \cap Undoes(Triggers) = {}
<1>1. ASSUME NEW a \in Aims, Of(a) # v, NEW s \in BodyOf(v), s \in Undoes(a) PROVE FALSE
  <2>1. CASE a = <<"drop", "aside">>
    <3>1. s \in {"recover", "shelve", "make", "copy"} \X {"list"} /\ v # 1
      BY <1>1, <2>1, AimsAre
    <3>2. s[2] = "list" /\ s[1] # "record"
      BY <3>1
    <3> QED BY <1>1, <3>1, <3>2, BodyWords
  <2>2. CASE a = <<"rename", "spare">>
    <3>1. s[2] \in {"spare", "prices"} /\ s[1] # "record" /\ v # 6
      BY <1>1, <2>2, AimsAre
    <3> QED BY <1>1, <3>1, BodyWords
  <2>3. CASE a = <<"fill", "index">>
    BY <1>1, <2>3, AimsAre, BodyWords
  <2>4. CASE a \in {<<"fill", "ids">>, <<"empty", "vault">>}
    BY <1>1, <2>4, AimsAre
  <2>5. CASE \E t \in SyncTables : a \in {<<"name", t>>, <<"stamp", t>>}
    BY <1>1, <2>5, AimsAre
  <2>6. a # Triggers
    BY DEF Aims, Triggers
  <2> QED BY <2>1, <2>2, <2>3, <2>4, <2>5, <2>6, AimCases
<1>2. ASSUME v \notin {2, 10}, NEW s \in BodyOf(v), s \in Undoes(Triggers) PROVE FALSE
  BY <1>2, AimsAre, BodyWords
<1> QED BY <1>1, <1>2

LEMMA ListsJoin ==
    ASSUME NEW S
    PROVE  /\ <<>> \in Seq(S)
           /\ \A p \in Seq(S), q \in Seq(S) : p \o q \in Seq(S)
           /\ \A a \in S : <<a>> \in Seq(S)
           /\ \A a \in S, b \in S : <<a, b>> \in Seq(S)
           /\ \A c \in BOOLEAN, p \in Seq(S) : When(c, p) \in Seq(S)
BY DEF When

LEMMA ColumnsIn == ASSUME NEW t \in SyncTables, NEW f PROVE Columns(t, f) \in Seq(Body(18))
<1> DEFINE S == Body(18)
           a == <<"alter", t>>
           b == <<"stamp", t>>
           c == <<"name", t>>
<1>1. a \in S /\ b \in S /\ c \in S
  BY BodiesAre
<1>2. Columns(t, f) = When(t \notin f.columns, <<a, b>>) \o When(t \in f.filled \ f.named, <<c>>)
  BY DEF Columns
<1> HIDE DEF S, a, b, c
<1>3. <<a, b>> \in Seq(S) /\ <<c>> \in Seq(S)
  BY <1>1, ListsJoin
<1>4. When(t \notin f.columns, <<a, b>>) \in Seq(S) /\ When(t \in f.filled \ f.named, <<c>>) \in Seq(S)
  BY <1>3, ListsJoin DEF When
<1>5. Columns(t, f) \in Seq(S)
  BY <1>2, <1>4, ListsJoin
<1> QED BY <1>5 DEF S

\* The migrations that join lists: 1, 2, 18.
LEMMA FirstIn == ASSUME NEW f PROVE Statements(1, f) \in Seq(Body(1))
<1> DEFINE S == Body(1)
           begin == <<<<"begin", "all">>>>
           recover == <<<<"recover", "list">>>>
           rest == <<<<"ensure", "index">>, Commits>>
           c == f.aside.there
           d == f.aside.there \/ (f.list.there /\ ~ f.list.new)
<1>1. /\ <<"begin", "all">> \in S /\ <<"recover", "list">> \in S /\ <<"ensure", "index">> \in S /\ Commits \in S
      /\ <<"shelve", "list">> \in S /\ <<"make", "list">> \in S /\ <<"copy", "list">> \in S
      /\ <<"drop", "aside">> \in S
  BY BodiesAre DEF ListStatements
<1>2. Statements(1, f) = ((begin \o When(c, recover)) \o When(d, RenewList)) \o rest
  BY DEF Statements, Renewals
<1> HIDE DEF S
<1>3. RenewList \in Seq(S)
  BY <1>1, WrittenOut DEF RenewList
<1>4. begin \in Seq(S) /\ recover \in Seq(S) /\ rest \in Seq(S)
  BY <1>1, ListsJoin
<1> HIDE DEF begin, recover, rest, c, d
<1>5. When(c, recover) \in Seq(S) /\ When(d, RenewList) \in Seq(S)
  BY <1>3, <1>4, ListsJoin DEF When
<1>6. begin \o When(c, recover) \in Seq(S)
  BY <1>4, <1>5, ListsJoin
<1>7. (begin \o When(c, recover)) \o When(d, RenewList) \in Seq(S)
  BY <1>5, <1>6, ListsJoin
<1>8. Statements(1, f) \in Seq(S)
  BY <1>2, <1>4, <1>7, ListsJoin
<1> QED BY <1>8 DEF S

LEMMA StatementsIn ==
    ASSUME NEW v \in Numbers \cup {0}, NEW f PROVE Statements(v, f) \in Seq(Body(v))
<1>1. CASE v = 0
  <2>1. Statements(0, f) = <<Triggers>> /\ Triggers \in Body(0)
    BY BodiesAre DEF Statements, Triggers
  <2> QED BY <1>1, <2>1, ListsJoin
<1>2. CASE v = 1
  BY <1>2, FirstIn
<1>3. CASE v = 2
  <2> DEFINE S == Body(2)
             drop == <<"drop", "triggers">>
             ids == <<"fill", "ids">>
             fill == <<"fill", "index">>
  <2>1. drop \in S /\ ids \in S /\ fill \in S /\ Triggers \in S /\ Commits \in S
    BY BodiesAre
  <2>2. Statements(2, f) = (<<drop>> \o When(~ f.ids, <<ids>>)) \o <<Triggers, fill, Commits>>
    BY DEF Statements, Triggers
  <2> HIDE DEF S, drop, ids, fill
  <2>3. <<drop>> \in Seq(S) /\ When(~ f.ids, <<ids>>) \in Seq(S) /\ <<Triggers, fill, Commits>> \in Seq(S)
    BY <2>1, ListsJoin, WrittenOut
  <2>4. <<drop>> \o When(~ f.ids, <<ids>>) \in Seq(S)
    BY <2>3, ListsJoin
  <2>5. Statements(2, f) \in Seq(S)
    BY <2>2, <2>3, <2>4, ListsJoin
  <2> QED BY <1>3, <2>5 DEF S
<1>4. CASE v = 4
  <2> DEFINE S == Body(4)
  <2>1. <<"copy", "vault">> \in S /\ <<"empty", "vault">> \in S /\ Commits \in S
    BY BodiesAre
  <2>2. Statements(4, f) = When(f.vault # {}, MoveVault)
    BY DEF Statements
  <2> HIDE DEF S
  <2>3. MoveVault \in Seq(S)
    BY <2>1, WrittenOut DEF MoveVault
  <2>4. Statements(4, f) \in Seq(S)
    BY <2>2, <2>3, ListsJoin
  <2> QED BY <1>4, <2>4 DEF S
<1>5. CASE v = 6
  <2> DEFINE S == Body(6)
             p == <<<<"make", "spare">>, <<"copy", "prices">>, <<"drop", "prices">>, <<"rename", "spare">>, Commits>>
  <2>1. /\ <<"make", "spare">> \in S /\ <<"copy", "prices">> \in S /\ <<"drop", "prices">> \in S
        /\ <<"rename", "spare">> \in S /\ Commits \in S
    BY BodiesAre DEF PriceStatements
  <2>2. Statements(6, f) = When(~ f.prices.new, p)
    BY DEF Statements
  <2> HIDE DEF S
  <2>3. p \in Seq(S)
    BY <2>1, WrittenOut
  <2> HIDE DEF p
  <2>4. Statements(6, f) \in Seq(S)
    BY <2>2, <2>3, ListsJoin DEF When
  <2> QED BY <1>5, <2>4 DEF S
<1>6. CASE v = 10
  <2> DEFINE S == Body(10)
             drop == <<"drop", "triggers">>
             emptied == <<"empty", "index">>
             fill == <<"fill", "index">>
  <2>1. drop \in S /\ emptied \in S /\ fill \in S /\ Triggers \in S /\ Commits \in S
    BY BodiesAre
  <2>2. Statements(10, f) = <<drop, emptied, fill, Triggers, Commits>>
    BY DEF Statements, Triggers
  <2> HIDE DEF S, drop, emptied, fill
  <2>3. <<drop, emptied, fill, Triggers, Commits>> \in Seq(S)
    BY <2>1, WrittenOut
  <2>4. Statements(10, f) \in Seq(S)
    BY <2>2, <2>3
  <2> QED BY <1>6, <2>4 DEF S
<1>7. CASE v = 18
  <2>1. Statements(18, f) = (Columns("first", f) \o Columns("second", f)) \o <<Commits>>
    BY DEF Statements
  <2>2. Columns("first", f) \in Seq(Body(18)) /\ Columns("second", f) \in Seq(Body(18))
    BY ColumnsIn DEF SyncTables
  <2>3. <<Commits>> \in Seq(Body(18))
    BY BodiesAre, ListsJoin
  <2>4. Columns("first", f) \o Columns("second", f) \in Seq(Body(18))
    BY <2>2, ListsJoin
  <2>5. (Columns("first", f) \o Columns("second", f)) \o <<Commits>> \in Seq(Body(18))
    BY <2>3, <2>4, ListsJoin
  <2> QED BY <1>7, <2>1, <2>5
<1> QED BY <1>1, <1>2, <1>3, <1>4, <1>5, <1>6, <1>7 DEF Numbers

\* A whole migration; its record is the last but one.
LEMMA WrittenIn ==
    ASSUME NEW v \in Numbers \cup {0}, NEW f, NEW s, s = Statements(v, f) \o Recorded(v)
    PROVE  /\ s \in Seq(BodyOf(v)) /\ s # <<>> /\ Recorded(v) \in Seq(BodyOf(v))
           /\ Statements(v, f) \in Seq(BodyOf(v))
           /\ \A recorded : v \notin recorded => Shaped(s, v, recorded)
<1> DEFINE S == BodyOf(v)
           p == Statements(v, f)
           n == Len(p)
<1>1. p \in Seq(Body(v)) /\ Body(v) \subseteq S /\ <<"record", v>> \in S /\ Commits \in S
  BY StatementsIn DEF BodyOf
<1>2. p \in Seq(S)
  BY <1>1
<1>3. Recorded(v) \in Seq(S)
  <2>1. v = 0 => Recorded(v) = <<>>
    BY DEF Recorded, When
  <2>2. v # 0 => Recorded(v) = <<<<"record", v>>, Commits>>
    BY DEF Recorded, When
  <2> QED BY <1>1, <2>1, <2>2, ListsJoin
<1>4. s = p \o Recorded(v)
  OBVIOUS
<1>5. \A i \in 1..n : p[i] \in Body(v)
  BY <1>1, ElementOfSeq
<1>6. v = 0 => p = <<Triggers>>
  BY DEF Statements, Triggers
<1> HIDE DEF S, p
<1>7. s \in Seq(S)
  BY <1>2, <1>3, <1>4, ListsJoin
<1>8. CASE v = 0
  <2>1. s = <<Triggers>>
    BY <1>4, <1>6, <1>8 DEF Recorded, When
  <2>2. s # <<>> /\ \A recorded : Shaped(s, v, recorded)
    <3>1. s # <<>>
      BY <2>1
    <3>2. \A recorded : Shaped(s, v, recorded)
      BY <1>8, <2>1 DEF Shaped
    <3> QED BY <3>1, <3>2
  <2> QED BY <1>2, <1>3, <1>7, <2>2 DEF S, p
<1>9. CASE v # 0
  <2> DEFINE q == <<<<"record", v>>, Commits>>
  <2>1. Recorded(v) = q /\ q \in Seq(S) /\ Len(q) = 2 /\ q[1] = <<"record", v>> /\ q[2] = Commits
    BY <1>3, <1>9 DEF Recorded, When
  <2> HIDE DEF q
  <2>2. n \in Nat
    BY <1>2, LenProperties
  <2>3. Len(s) = n + 2 /\ \A i \in 1..n + 2 : s[i] = IF i <= n THEN p[i] ELSE q[i - n]
    <3>1. /\ Len(p \o q) = Len(p) + Len(q)
          /\ \A i \in 1..Len(p) + Len(q) : (p \o q)[i] = IF i <= Len(p) THEN p[i] ELSE q[i - Len(p)]
      BY <1>2, <2>1, ConcatProperties
    <3> QED BY <1>4, <2>1, <3>1
  <2> HIDE DEF n
  <2>4. n + 1 \in 1..n + 2 /\ ~ (n + 1 <= n) /\ (n + 1) - n = 1 /\ n + 2 \in 1..n + 2 /\ ~ (n + 2 <= n) /\ (n + 2) - n = 2
    BY <2>2
  <2>5. s[n + 1] = <<"record", v>> /\ s[n + 2] = Commits
    BY <2>1, <2>3, <2>4
  <2>6. \A i \in 1..n : s[i] \in Body(v)
    <3>1. \A i \in 1..n : i \in 1..n + 2 /\ i <= n
      BY <2>2
    <3> QED BY <1>5, <2>3, <3>1
  <2>7. \A i \in 1..n, w \in Numbers : s[i] # <<"record", w>>
    <3>1. \A i \in 1..n : s[i][1] # "record"
      BY <2>6, BodyWords DEF BodyOf
    <3>2. \A w : <<"record", w>>[1] = "record"
      OBVIOUS
    <3> QED BY <3>1, <3>2, Zenon
  <2>8. Len(s) > 1 /\ Len(s) - 1 = n + 1 /\ Len(s) - 2 = n /\ Len(s) > 0
    BY <2>2, <2>3
  <2>9. \A recorded : v \notin recorded => Shaped(s, v, recorded)
    BY <1>9, <2>3, <2>5, <2>7, <2>8 DEF Shaped
  <2>10. s # <<>>
    BY <2>8
  <2> QED BY <1>2, <1>3, <1>7, <2>9, <2>10 DEF S, p
<1> QED BY <1>8, <1>9

\* The aim of a migration is reached already, or by what it writes.
LEMMA ListAim ==
    ASSUME NEW f, Kept(f)
    PROVE  Bound(<<"drop", "aside">>, f, Statements(1, f))
<1> DEFINE a == <<"drop", "aside">>
           X == Undoes(a)
           rest == <<<<"ensure", "index">>, Commits>>
<1>1. X = {"recover", "shelve", "make", "copy"} \X {"list"}
  BY AimsAre
<1>2. \A s \in Harmless : s \notin X
  <2>1. \A s \in X : s \in RowMoves
    BY <1>1 DEF RowMoves
  <2> QED BY <2>1, MovingApart
<1>3. <<"begin", "all">> \in Known /\ <<"ensure", "index">> \in Harmless /\ Commits \in Harmless
      /\ <<"recover", "list">> \in Known /\ Harmless \subseteq Known
  BY MovesNamed, MovingApart DEF Known, Harmless, RowMoves
<1>4. rest \in Seq(Known) /\ Untouched(rest, X)
  <2>1. rest \in Seq(Harmless)
    BY <1>3, ListsJoin
  <2>2. Harmless \cap X = {}
    BY <1>2
  <2> HIDE DEF rest, X
  <2>3. Untouched(rest, X)
    BY <2>1, <2>2, ClearOf
  <2> QED BY <1>3, <2>1, <2>3
<1>5. Secured(MoveList, X, a)
  <2> DEFINE b == <<"shelve", "list">>
             c == <<"make", "list">>
             d == <<"copy", "list">>
  <2>1. MoveList = <<b, c, d, a>>
    BY MovesWritten DEF RenewList
  <2> HIDE DEF a, b, c, d, X
  <2>2. Len(<<b, c, d, a>>) = 4 /\ <<b, c, d, a>>[4] = a
    OBVIOUS
  <2>3. 4 \in 1..4 /\ 4 + 1..4 = {}
    OBVIOUS
  <2>4. Secured(<<b, c, d, a>>, X, a)
    BY <2>2, <2>3 DEF Secured
  <2> QED BY <2>1, <2>4
<1> HIDE DEF rest, a, X
<1>6. ASSUME NEW p \in Seq(Known), Secured(p, X, a) PROVE Secured(p \o rest, X, a)
  BY <1>4, <1>6, SecuredJoin
<1>7. ASSUME NEW s \in Known, NEW p \in Seq(Known), Secured(p, X, a)
      PROVE  Secured(<<s>> \o p, X, a) /\ <<s>> \o p \in Seq(Known)
  <2>1. <<s>> \in Seq(Known)
    BY ListsJoin
  <2> QED BY <1>7, <2>1, SecuredJoin, ListsJoin
<1>8. MoveList \in Seq(Known)
  BY MovesAreKnown
<1>9. CASE f.aside.there
  <2>1. Statements(1, f) = BeginRecover \o rest
    BY <1>9, FirstStatements DEF rest
  <2>2. Secured(RecoverList, X, a) /\ RecoverList \in Seq(Known)
    BY <1>3, <1>5, <1>7, <1>8 DEF RecoverList
  <2>3. Secured(BeginRecover, X, a) /\ BeginRecover \in Seq(Known)
    BY <1>3, <1>7, <2>2 DEF BeginRecover
  <2> QED BY <1>6, <2>1, <2>3 DEF Bound, X, a
<1>10. CASE ~ f.aside.there /\ f.list.there /\ ~ f.list.new
  <2>1. Statements(1, f) = BeginMove \o rest
    BY <1>10, FirstStatements DEF rest
  <2>2. Secured(BeginMove, X, a) /\ BeginMove \in Seq(Known)
    BY <1>3, <1>5, <1>7, <1>8 DEF BeginMove
  <2> QED BY <1>6, <2>1, <2>2 DEF Bound, X, a
<1>11. CASE ~ f.aside.there /\ ~ (f.list.there /\ ~ f.list.new)
  <2>1. Statements(1, f) \in Seq(Harmless)
    BY <1>11, FirstStatements DEF HarmlessLists
  <2>2. Harmless \cap X = {}
    BY <1>2
  <2>3. Untouched(Statements(1, f), X)
    BY <2>1, <2>2, ClearOf
  <2>4. f.list = Full
    BY <1>11, KeptTables, TablesApart
  <2>5. Achieved(a, f)
    BY <1>11, <2>4, AimsMean, TablesApart DEF a
  <2> QED BY <2>3, <2>5 DEF Bound, Stays, X, a
<1> QED BY <1>9, <1>10, <1>11

LEMMA SearchAims ==
    ASSUME NEW f
    PROVE  /\ Bound(<<"fill", "ids">>, f, Statements(2, f))
           /\ Secured(Statements(2, f), Undoes(Triggers), Triggers)
           /\ Secured(Statements(10, f), Undoes(Triggers), Triggers)
           /\ Bound(<<"fill", "index">>, f, Statements(10, f))
<1> DEFINE drop == <<"drop", "triggers">>
           ids == <<"fill", "ids">>
           emptied == <<"empty", "index">>
           fill == <<"fill", "index">>
           S == {drop, ids, emptied, fill, Triggers, Commits}
<1>1. /\ Statements(2, f) = (<<drop>> \o When(~ f.ids, <<ids>>)) \o <<Triggers, fill, Commits>>
      /\ Statements(10, f) = <<drop, emptied, fill, Triggers, Commits>>
  BY DEF Statements, Triggers
<1>2. Undoes(Triggers) = {drop} /\ Undoes(fill) = {emptied} /\ Undoes(ids) = {}
  BY AimsAre
<1>3. drop # fill /\ drop # Commits /\ drop # Triggers /\ emptied # fill /\ emptied # Triggers /\ emptied # Commits
  BY DEF Triggers, Commits
<1>4. f.ids => Achieved(ids, f)
  BY AimsMean
<1>5. drop \in S /\ ids \in S /\ emptied \in S /\ fill \in S /\ Triggers \in S /\ Commits \in S
  OBVIOUS
<1> HIDE DEF drop, ids, emptied, fill, S
<1> DEFINE rest == <<Triggers, fill, Commits>>
           offered == <<drop>> \o When(~ f.ids, <<ids>>)
<1>6. rest \in Seq(S) /\ <<drop>> \in Seq(S) /\ <<ids>> \in Seq(S)
  BY <1>5, WrittenOut
<1>7. When(~ f.ids, <<ids>>) \in Seq(S)
  BY <1>6, ListsJoin DEF When
<1>8. offered \in Seq(S)
  BY <1>6, <1>7, ListsJoin
<1>9. Secured(rest, {drop}, Triggers)
  <2>1. Len(rest) = 3 /\ rest[1] = Triggers /\ rest[2] = fill /\ rest[3] = Commits
    OBVIOUS
  <2> HIDE DEF rest
  <2>2. 1 \in 1..3 /\ \A j \in 1 + 1..3 : j = 2 \/ j = 3
    OBVIOUS
  <2> QED BY <1>3, <2>1, <2>2 DEF Secured
<1>10. Secured(Statements(10, f), {drop}, Triggers) /\ Secured(Statements(10, f), {emptied}, fill)
  <2> DEFINE p == <<drop, emptied, fill, Triggers, Commits>>
  <2>1. Len(p) = 5 /\ p[3] = fill /\ p[4] = Triggers /\ p[5] = Commits
    OBVIOUS
  <2> HIDE DEF p
  <2>2. /\ 4 \in 1..5 /\ \A j \in 4 + 1..5 : j = 5
        /\ 3 \in 1..5 /\ \A j \in 3 + 1..5 : j = 4 \/ j = 5
    OBVIOUS
  <2>3. Secured(p, {drop}, Triggers)
    BY <1>3, <2>1, <2>2 DEF Secured
  <2>4. Secured(p, {emptied}, fill)
    BY <1>3, <2>1, <2>2 DEF Secured
  <2> QED BY <1>1, <2>3, <2>4 DEF p
<1>11. ~ f.ids => Secured(Statements(2, f), {}, ids)
  <2> SUFFICES ASSUME ~ f.ids PROVE Secured(Statements(2, f), {}, ids)
    OBVIOUS
  <2>1. Secured(When(~ f.ids, <<ids>>), {}, ids)
    BY ClearSingle DEF When
  <2>2. Secured(offered, {}, ids)
    BY <1>6, <1>7, <2>1, SecuredJoin
  <2>3. Untouched(rest, {})
    BY DEF Untouched
  <2> HIDE DEF rest, offered
  <2>4. Secured(offered \o rest, {}, ids)
    BY <1>6, <1>8, <2>2, <2>3, SecuredJoin
  <2> QED BY <1>1, <2>4 DEF rest, offered
<1>12. Secured(Statements(2, f), {drop}, Triggers)
  <2> HIDE DEF rest, offered
  <2>1. Secured(offered \o rest, {drop}, Triggers)
    BY <1>6, <1>8, <1>9, SecuredJoin
  <2> QED BY <1>1, <2>1 DEF rest, offered
<1>13. Untouched(Statements(2, f), {})
  BY DEF Untouched
<1>14. Bound(ids, f, Statements(2, f))
  BY <1>2, <1>4, <1>11, <1>13 DEF Bound, Stays
<1> QED BY <1>2, <1>10, <1>12, <1>14 DEF Bound, drop, ids, emptied, fill

LEMMA VaultAim == ASSUME NEW f PROVE Bound(<<"empty", "vault">>, f, Statements(4, f))
<1> DEFINE a == <<"copy", "vault">>
           b == <<"empty", "vault">>
           p == <<a, b, Commits>>
<1>1. Statements(4, f) = When(f.vault # {}, p)
  BY DEF Statements, MoveVault
<1>2. Undoes(b) = {} /\ (f.vault = {} => Achieved(b, f))
  BY AimsAre, AimsMean
<1> HIDE DEF a, b
<1>3. Len(p) = 3 /\ p[2] = b /\ 2 \in 1..3
  OBVIOUS
<1> HIDE DEF p
<1>4. Secured(p, {}, b)
  BY <1>3 DEF Secured
<1>5. Untouched(Statements(4, f), {})
  BY DEF Untouched
<1>6. Bound(b, f, Statements(4, f))
  BY <1>1, <1>2, <1>4, <1>5 DEF Bound, Stays, When
<1> QED BY <1>6 DEF b

LEMMA PricesAim ==
    ASSUME NEW f, f.prices.new => ~ f.spare.there
    PROVE  /\ Bound(<<"rename", "spare">>, f, Statements(6, f))
           /\ \A i \in 1..Len(Statements(6, f)) : Statements(6, f)[i] = <<"make", "spare">> => i = 1 /\ ~ f.prices.new
<1> DEFINE a == <<"make", "spare">>
           b == <<"copy", "prices">>
           c == <<"drop", "prices">>
           d == <<"rename", "spare">>
           p == <<a, b, c, d, Commits>>
<1>1. Statements(6, f) = When(~ f.prices.new, p)
  BY DEF Statements
<1>2. Undoes(d) = {a, b, c} /\ (f.prices.new => Achieved(d, f))
  BY AimsAre, AimsMean
<1>3. a # b /\ a # c /\ a # d /\ Commits \notin {a, b, c}
  BY DEF Commits
<1> HIDE DEF a, b, c, d
<1>4. Len(p) = 5 /\ p[1] = a /\ p[2] = b /\ p[3] = c /\ p[4] = d /\ p[5] = Commits
  OBVIOUS
<1> HIDE DEF p
<1>5. 4 \in 1..5 /\ (\A j \in 4 + 1..5 : j = 5) /\ \A j \in 1..5 : j \in {1, 2, 3, 4, 5}
  OBVIOUS
<1>6. Secured(p, {a, b, c}, d)
  BY <1>3, <1>4, <1>5 DEF Secured
<1>7. \A i \in 1..Len(p) : p[i] = a => i = 1
  BY <1>3, <1>4, <1>5
<1>8. CASE f.prices.new
  <2>1. Statements(6, f) = <<>> /\ Len(<<>>) = 0
    BY <1>1, <1>8 DEF When
  <2>2. Stays(d, f, Statements(6, f))
    BY <1>2, <1>8, <2>1, NothingLeft DEF Stays
  <2> QED BY <2>1, <2>2 DEF Bound, d
<1>9. CASE ~ f.prices.new
  <2>1. Statements(6, f) = p
    BY <1>1, <1>9 DEF When
  <2> QED BY <1>2, <1>6, <1>7, <1>9, <2>1 DEF Bound, d, a
<1> QED BY <1>8, <1>9

LEMMA ColumnAims ==
    ASSUME NEW f, NEW t \in SyncTables
    PROVE  /\ Bound(<<"name", t>>, f, Statements(18, f))
           /\ f.columns \subseteq f.stamped => Bound(<<"stamp", t>>, f, Statements(18, f))
<1> DEFINE a == <<"alter", t>>
           b == <<"stamp", t>>
           c == <<"name", t>>
           S == Body(18)
           one == Columns("first", f)
           two == Columns("second", f)
<1>1. Columns(t, f) = When(t \notin f.columns, <<a, b>>) \o When(t \in f.filled \ f.named, <<c>>)
  BY DEF Columns
<1>2. Statements(18, f) = (one \o two) \o <<Commits>>
  BY DEF Statements
<1>3. one \in Seq(S) /\ two \in Seq(S) /\ t \in {"first", "second"}
  BY ColumnsIn DEF SyncTables
<1>4. Undoes(b) = {} /\ Undoes(c) = {}
      /\ (t \in f.stamped => Achieved(b, f)) /\ ((t \in f.filled => t \in f.named) => Achieved(c, f))
  BY AimsAre, AimsMean
<1>5. a \in S /\ b \in S /\ c \in S /\ Commits \in S
  BY BodiesAre
<1>6. Columns(t, f) = one \/ Columns(t, f) = two
  BY <1>3
<1>7. \A p : Untouched(p, {})
  BY DEF Untouched
<1> HIDE DEF a, b, c, S, one, two
<1>8. <<a, b>> \in Seq(S) /\ <<c>> \in Seq(S) /\ <<Commits>> \in Seq(S) /\ one \o two \in Seq(S)
  BY <1>3, <1>5, ListsJoin
<1>9. ASSUME NEW x, Secured(Columns(t, f), {}, x) PROVE Secured(Statements(18, f), {}, x)
  <2>1. Secured(one, {}, x) \/ Secured(two, {}, x)
    BY <1>6, <1>9
  <2>2. Secured(one \o two, {}, x)
    BY <1>3, <1>7, <2>1, SecuredJoin
  <2>3. Secured((one \o two) \o <<Commits>>, {}, x)
    BY <1>7, <1>8, <2>2, SecuredJoin
  <2> QED BY <1>2, <2>3
<1> DEFINE added == When(t \notin f.columns, <<a, b>>)
           named == When(t \in f.filled \ f.named, <<c>>)
<1>10. added \in Seq(S) /\ named \in Seq(S)
  BY <1>8, ListsJoin DEF When
<1>11. t \in f.filled \ f.named => Secured(Columns(t, f), {}, c)
  <2>1. t \in f.filled \ f.named => Secured(named, {}, c)
    BY ClearSingle DEF When
  <2> HIDE DEF added, named
  <2>2. Secured(named, {}, c) => Secured(added \o named, {}, c)
    BY <1>10, SecuredJoin
  <2> QED BY <1>1, <2>1, <2>2 DEF added, named
<1>12. t \notin f.columns => Secured(Columns(t, f), {}, b)
  <2>1. Secured(<<a, b>>, {}, b)
    <3>1. Len(<<a, b>>) = 2 /\ <<a, b>>[2] = b /\ 2 \in 1..2
      OBVIOUS
    <3> DEFINE p == <<a, b>>
    <3>2. Len(p) = 2 /\ p[2] = b /\ 2 \in 1..2
      BY <3>1
    <3> HIDE DEF p
    <3>3. Secured(p, {}, b)
      BY <3>2 DEF Secured
    <3> QED BY <3>3 DEF p
  <2>2. t \notin f.columns => Secured(added, {}, b)
    BY <2>1 DEF When
  <2> HIDE DEF added, named
  <2>3. Secured(added, {}, b) => Secured(added \o named, {}, b)
    BY <1>7, <1>10, SecuredJoin
  <2> QED BY <1>1, <2>2, <2>3 DEF added, named
<1>13. Bound(c, f, Statements(18, f))
  BY <1>4, <1>7, <1>9, <1>11 DEF Bound, Stays
<1>14. f.columns \subseteq f.stamped => Bound(b, f, Statements(18, f))
  <2>1. CASE t \in f.columns
    BY <1>4, <1>7, <2>1 DEF Bound, Stays
  <2>2. CASE t \notin f.columns
    BY <1>4, <1>9, <1>12, <2>2 DEF Bound
  <2> QED BY <2>1, <2>2
<1> QED BY <1>13, <1>14 DEF b, c

LEMMA BoundJoin ==
    ASSUME NEW S, NEW p \in Seq(S), NEW q \in Seq(S), NEW a, NEW f, Untouched(q, Undoes(a))
    PROVE  /\ Bound(a, f, p) => Bound(a, f, p \o q)
           /\ Secured(p, Undoes(a), a) => Secured(p \o q, Undoes(a), a)
<1> DEFINE X == Undoes(a)
           r == p \o q
<1>1. Untouched(q, X)
  OBVIOUS
<1> HIDE DEF X
<1>2. Untouched(p, X) => Untouched(r, X)
  BY <1>1, ClearJoin
<1>3. Secured(p, X, a) => Secured(r, X, a)
  BY <1>1, SecuredJoin
<1> HIDE DEF r
<1>4. Stays(a, f, p) => Stays(a, f, r)
  BY <1>2 DEF Stays, X
<1>5. Bound(a, f, p) => Bound(a, f, r)
  BY <1>3, <1>4 DEF Bound, X
<1> QED BY <1>3, <1>5 DEF X, r

\* A record undoes nothing.
LEMMA RecordLeaves ==
    ASSUME NEW v \in Numbers \cup {0}, NEW a \in Aims \cup {Triggers}
    PROVE  Untouched(Recorded(v), Undoes(a))
<1> DEFINE S == {<<"record", v>>, Commits}
           X == Undoes(a)
<1>1. Recorded(v) \in Seq(S)
  <2>1. <<"record", v>> \in S /\ Commits \in S
    OBVIOUS
  <2> HIDE DEF S
  <2>2. <<<<"record", v>>, Commits>> \in Seq(S)
    BY <2>1, ListsJoin
  <2> QED BY <2>2, ListsJoin DEF Recorded, When
<1>2. S \cap X = {}
  BY AimsApart
<1> HIDE DEF S, X
<1>3. Untouched(Recorded(v), X)
  BY <1>1, <1>2, ClearOf
<1> QED BY <1>3 DEF X

\* The aims, when migration v has written its statements s for the file f.
Aimed(v, f, s) ==
    /\ \A a \in Aims : Of(a) = v /\ (a[1] = "stamp" => f.columns \subseteq f.stamped) => Bound(a, f, s)
    /\ \A a \in Aims : Of(a) # v => Untouched(s, Undoes(a))
    /\ f.triggers \/ v \in {0, 2, 10} => Bound(Triggers, f, s)
    /\ \A i \in 1..Len(s) :
        /\ s[i] = <<"make", "spare">> => i = 1 /\ v = 6 /\ ~ f.prices.new
        /\ s[i][1] = "alter" => v = 18

LEMMA MigrationAims ==
    ASSUME NEW v \in Numbers \cup {0}, NEW f, Kept(f), f.prices.new => ~ f.spare.there,
           NEW s, s = Statements(v, f) \o Recorded(v)
    PROVE  Aimed(v, f, s)
<1> DEFINE S == BodyOf(v)
           p == Statements(v, f)
           q == Recorded(v)
<1>1. p \in Seq(S) /\ q \in Seq(S) /\ s \in Seq(S) /\ s = p \o q
  BY WrittenIn
<1>2. \A a \in Aims \cup {Triggers} : Untouched(q, Undoes(a))
  BY RecordLeaves
<1>3. /\ \A a \in Aims : Of(a) # v => S \cap Undoes(a) = {}
      /\ v \notin {2, 10} => S \cap Undoes(Triggers) = {}
  BY BodyApart
<1>4. /\ v = 0 => p = <<Triggers>>
      /\ v \in {2, 10} => Secured(p, Undoes(Triggers), Triggers)
  <2>1. v = 0 => p = <<Triggers>>
    BY DEF Statements, Triggers
  <2> QED BY <2>1, SearchAims
<1>5. ASSUME NEW a \in Aims, Of(a) = v, a[1] = "stamp" => f.columns \subseteq f.stamped
      PROVE  Bound(a, f, p)
  <2>1. CASE a = <<"drop", "aside">>
    BY <1>5, <2>1, AimsAre, ListAim
  <2>2. CASE a = <<"fill", "ids">>
    BY <1>5, <2>2, AimsAre, SearchAims
  <2>3. CASE a = <<"empty", "vault">>
    BY <1>5, <2>3, AimsAre, VaultAim
  <2>4. CASE a = <<"rename", "spare">>
    BY <1>5, <2>4, AimsAre, PricesAim
  <2>5. CASE a = <<"fill", "index">>
    BY <1>5, <2>5, AimsAre, SearchAims
  <2>6. CASE \E t \in SyncTables : a \in {<<"name", t>>, <<"stamp", t>>}
    <3>1. PICK t \in SyncTables : a \in {<<"name", t>>, <<"stamp", t>>}
      BY <2>6
    <3>2. v = 18 /\ (a = <<"stamp", t>> => f.columns \subseteq f.stamped)
      <4>1. Of(a) = 18
        BY <3>1, AimsAre
      <4>2. a = <<"stamp", t>> => a[1] = "stamp"
        OBVIOUS
      <4> QED BY <1>5, <4>1, <4>2
    <3> QED BY <3>1, <3>2, ColumnAims
  <2>7. a # Triggers
    BY DEF Aims, Triggers
  <2> QED BY <2>1, <2>2, <2>3, <2>4, <2>5, <2>6, <2>7, AimCases
<1>6. \A i \in 1..Len(p) : v = 6 /\ p[i] = <<"make", "spare">> => i = 1 /\ ~ f.prices.new
  BY PricesAim
<1>7. \A x \in S : (x = <<"make", "spare">> => v = 6) /\ (x[1] = "alter" => v = 18)
  <2>1. <<"make", "spare">>[1] # "record" /\ <<"make", "spare">>[2] = "spare"
    OBVIOUS
  <2> QED BY <2>1, BodyWords
<1>8. <<"make", "spare">> \notin {<<"record", v>>, Commits}
  BY DEF Commits
<1>9. Secured(<<Triggers>>, Undoes(Triggers), Triggers)
  BY ClearSingle
<1> HIDE DEF S, p
<1>10. ASSUME NEW a \in Aims, Of(a) = v, a[1] = "stamp" => f.columns \subseteq f.stamped
       PROVE  Bound(a, f, s)
  BY <1>1, <1>2, <1>5, <1>10, BoundJoin
<1>11. ASSUME NEW a \in Aims, Of(a) # v PROVE Untouched(s, Undoes(a))
  <2> DEFINE X == Undoes(a)
  <2>1. S \cap X = {}
    BY <1>3, <1>11
  <2> HIDE DEF X
  <2>2. Untouched(s, X)
    BY <1>1, <2>1, ClearOf
  <2> QED BY <2>2 DEF X
<1>12. ASSUME f.triggers \/ v \in {0, 2, 10} PROVE Bound(Triggers, f, s)
  <2>1. CASE v \in {0, 2, 10}
    <3>1. Secured(p, Undoes(Triggers), Triggers)
      BY <1>4, <1>9, <2>1
    <3>2. Secured(p \o q, Undoes(Triggers), Triggers)
      BY <1>1, <1>2, <3>1, BoundJoin
    <3> QED BY <1>1, <3>2 DEF Bound
  <2>2. CASE v \notin {0, 2, 10}
    <3> DEFINE X == Undoes(Triggers)
    <3>1. S \cap X = {}
      BY <1>3, <2>2
    <3> HIDE DEF X
    <3>2. Untouched(s, X)
      BY <1>1, <3>1, ClearOf
    <3>3. Achieved(Triggers, f)
      BY <1>12, <2>2, AimsMean
    <3> QED BY <3>2, <3>3 DEF Bound, Stays, X
  <2> QED BY <2>1, <2>2
<1>13. ASSUME NEW i \in 1..Len(s)
       PROVE  /\ s[i] = <<"make", "spare">> => i = 1 /\ v = 6 /\ ~ f.prices.new
              /\ s[i][1] = "alter" => v = 18
  <2>1. s[i] \in S
    BY <1>1, ElementOfSeq
  <2>2. ASSUME s[i] = <<"make", "spare">> PROVE i = 1 /\ v = 6 /\ ~ f.prices.new
    <3>1. v = 6
      BY <1>7, <2>1, <2>2
    <3>2. Recorded(6) = <<<<"record", 6>>, Commits>>
      BY DEF Recorded, When
    <3>3. Len(q) = 2 /\ q[1] \in {<<"record", v>>, Commits} /\ q[2] \in {<<"record", v>>, Commits}
      BY <3>1, <3>2
    <3> HIDE DEF q
    <3> DEFINE n == Len(p)
    <3>4. n \in Nat /\ Len(s) = n + 2 /\ s[i] = IF i <= n THEN p[i] ELSE q[i - n]
      <4>1. Len(p) \in Nat
        BY <1>1, LenProperties
      <4>2. /\ Len(p \o q) = Len(p) + Len(q)
            /\ \A j \in 1..Len(p) + Len(q) : (p \o q)[j] = IF j <= Len(p) THEN p[j] ELSE q[j - Len(p)]
        BY <1>1, ConcatProperties
      <4> QED BY <1>1, <3>3, <4>1, <4>2
    <3>5. CASE i <= n
      <4>1. i \in 1..n /\ p[i] = <<"make", "spare">>
        BY <2>2, <3>4, <3>5
      <4> QED BY <1>6, <3>1, <4>1
    <3>6. CASE ~ (i <= n)
      <4> HIDE DEF n
      <4>1. i - n \in {1, 2}
        BY <3>4, <3>6
      <4> QED BY <1>8, <2>2, <3>3, <3>4, <3>6, <4>1
    <3> QED BY <3>5, <3>6
  <2> QED BY <1>7, <2>1, <2>2
<1> QED BY <1>10, <1>11, <1>12, <1>13 DEF Aimed

\* A migration begins; nothing was left of the one before.
LEMMA MigrationHeals ==
    ASSUME KeptInv, InOrder, AimsReached, LeftoversHaveCause,
           start.pc = "runs", start.left = <<>>, start.place # 7,
           start' = [start EXCEPT !.place = @ + 1, !.left = Migration(Order[start.place + 1])],
           UNCHANGED <<stored, work, tx, cut>>
    PROVE  InOrder' /\ AimsReached' /\ LeftoversHaveCause'
<1> DEFINE v == Order[start.place + 1]
           s == start'.left
<1>1. /\ KeptTypes /\ Kept(stored) /\ work = stored /\ ~ tx
      /\ start \in [pc : {"off", "runs", "ready", "failed"}, place : 0..7, left : Seq(Known)]
      /\ work.recorded \subseteq Numbers
  <2>1. KeptTypes /\ Kept(stored) /\ work = stored /\ ~ tx
    BY DEF KeptInv, InOrder
  <2> QED BY <2>1 DEF KeptTypes, UpgradeFiles
<1>2. start.place \in 0..6 /\ start'.place = start.place + 1 /\ start'.pc = "runs" /\ s = Migration(v)
  BY <1>1
<1>3. v \in Numbers \cup {0} /\ Order[start'.place] = v /\ (start.place = 1 => v = 0) /\ 0 \notin Numbers
  <2>1. \A i \in 1..7 : Order[i] \in {0, 1, 2, 4, 6, 10, 18}
    BY DEF Order
  <2>2. Order[2] = 0
    BY DEF Order
  <2> QED BY <1>2, <2>1, <2>2 DEF Numbers
<1>4. /\ v \in work.recorded => s = <<>>
      /\ v \notin work.recorded => s = Statements(v, work) \o Recorded(v)
  BY <1>2 DEF Migration, Recorded
<1>5. /\ \A w : ~ Under(w)
      /\ \A w : Under(w)' <=> s # <<>> /\ w = v
  BY <1>3 DEF Under
<1> HIDE DEF v, s
<1>6. s # <<>> <=> v \notin work.recorded
  BY <1>3, <1>4, WrittenIn
<1>7. s # <<>> => Shaped(s, v, work.recorded) /\ Aimed(v, work, s)
  <2>1. work.prices.new => ~ work.spare.there
    BY DEF LeftoversHaveCause, SpareWhy
  <2> QED BY <1>1, <1>3, <1>4, <1>6, <2>1, WrittenIn, MigrationAims
<1>8. s = start'.left
  BY DEF s
<1>9. work' = work /\ stored' = stored /\ ~ tx' /\ cut' = cut
  BY <1>1
<1>10. InOrder'
  <2>1. ASSUME NEW i \in 1..start'.place
        PROVE  Order[i] \in work'.recorded \cup {0} \/ (i = start'.place /\ s # <<>>)
    <3>1. CASE i = start'.place
      BY <1>3, <1>6, <1>9, <3>1
    <3>2. CASE i # start'.place
      <4>1. i \in 1..start.place
        BY <1>2, <3>2
      <4> QED BY <1>9, <4>1 DEF InOrder
    <3> QED BY <3>1, <3>2
  <2>2. s # <<>> => Shaped(s, Order[start'.place], work'.recorded)
    BY <1>3, <1>7, <1>9
  <2> QED BY <1>1, <1>2, <1>8, <1>9, <2>1, <2>2 DEF InOrder
<1>11. AimsReached'
  <2>1. ASSUME NEW a \in Aims, ~ Missed(a)'
        PROVE  /\ Of(a) \in stored'.recorded => Achieved(a, stored')
               /\ Of(a) \in work'.recorded => Stays(a, work', s)
               /\ Under(Of(a))' /\ Of(a) \notin work'.recorded => Bound(a, work', s)
    <3>1. ~ Missed(a)
      BY <1>9, <2>1 DEF Missed
    <3>2. Of(a) \in stored.recorded => Achieved(a, stored)
      BY <3>1 DEF AimsReached
    <3>3. ASSUME Of(a) \in work.recorded PROVE Stays(a, work, s)
      <4>1. Achieved(a, work)
        BY <3>1, <3>3 DEF AimsReached, Stays
      <4>2. Untouched(s, Undoes(a))
        <5>1. CASE s = <<>>
          BY <5>1, NothingLeft
        <5>2. CASE s # <<>>
          <6>1. Of(a) # v
            BY <1>6, <3>3, <5>2
          <6> QED BY <1>7, <5>2, <6>1 DEF Aimed
        <5> QED BY <5>1, <5>2
      <4> QED BY <4>1, <4>2 DEF Stays
    <3>4. ASSUME Under(Of(a))' PROVE Bound(a, work, s)
      <4>1. s # <<>> /\ Of(a) = v
        BY <1>5, <3>4
      <4>2. a[1] = "stamp" => work.columns \subseteq work.stamped
        <5>1. a[1] = "stamp" => 18 \notin cut
          BY <3>1 DEF Missed
        <5> QED BY <1>5, <5>1 DEF LeftoversHaveCause, ColumnsWhy
      <4> QED BY <1>7, <4>1, <4>2 DEF Aimed
    <3> QED BY <1>9, <3>2, <3>3, <3>4
  <2>2. ASSUME start'.place >= 2 PROVE Bound(Triggers, work, s)
    <3>1. v \notin {0, 2, 10} \/ s = <<>> => work.triggers
      <4>1. SUFFICES ASSUME v \notin {0, 2, 10} \/ s = <<>> PROVE work.triggers
        OBVIOUS
      <4>2. start.place >= 2
        <5>1. start.place # 1
          BY <1>1, <1>3, <1>6, <4>1
        <5> QED BY <1>2, <2>2, <5>1
      <4>3. Bound(Triggers, work, <<>>)
        BY <4>2 DEF AimsReached
      <4> QED BY <4>3, NothingLeft, AimsMean DEF Bound, Stays
    <3>2. CASE s = <<>>
      BY <3>1, <3>2, NothingLeft, AimsMean DEF Bound, Stays
    <3>3. CASE s # <<>>
      BY <1>7, <3>1, <3>3 DEF Aimed
    <3> QED BY <3>2, <3>3
  <2> QED BY <1>8, <1>9, <2>1, <2>2 DEF AimsReached
<1>12. LeftoversHaveCause'
  <2>1. SpareWhy(stored)' /\ SpareWhy(work)' /\ ColumnsWhy(stored)' /\ ColumnsWhy(work)'
    BY <1>5, <1>9 DEF LeftoversHaveCause, SpareWhy, ColumnsWhy
  <2>2. ASSUME NEW i \in 1..Len(s)
        PROVE  /\ s[i] = <<"make", "spare">> => i = 1 /\ Under(6)' /\ (work.spare.there => 6 \in cut)
               /\ s[i][1] = "alter" => Under(18)'
    <3>1. s # <<>>
      BY <2>2
    <3>2. /\ s[i] = <<"make", "spare">> => i = 1 /\ v = 6
          /\ s[i][1] = "alter" => v = 18
      BY <1>7, <2>2, <3>1 DEF Aimed
    <3>3. work.spare.there => 6 \in cut
      BY <1>5 DEF LeftoversHaveCause, SpareWhy
    <3> QED BY <1>5, <3>1, <3>2, <3>3
  <2> QED BY <1>2, <1>8, <1>9, <2>1, <2>2 DEF LeftoversHaveCause
<1> QED BY <1>10, <1>11, <1>12

LEMMA HealInit == UpgradeInit => HealInv
<1> SUFFICES ASSUME UpgradeInit PROVE HealInv
  OBVIOUS
<1>1. KeptInv
  BY KeptInit
<1>2. /\ stored.recorded = {} /\ stored.spare = Gone /\ stored.columns = stored.stamped
      /\ work = stored /\ ~ tx /\ start.pc = "off" /\ start.place = 0 /\ start.left = <<>>
  <2>1. stored.recorded = {} /\ stored.spare = Gone /\ stored.columns = stored.stamped
    BY DEF UpgradeInit, OlderFiles
  <2> QED BY <2>1 DEF UpgradeInit, Off
<1>3. InOrder
  BY <1>2 DEF InOrder
<1>4. AimsReached
  BY <1>2 DEF AimsReached, Under
<1>5. LeftoversHaveCause
  <2>1. SpareWhy(stored) /\ ColumnsWhy(stored)
    BY <1>2 DEF SpareWhy, ColumnsWhy, Gone
  <2>2. Len(start.left) = 0
    BY <1>2
  <2> QED BY <1>2, <2>1, <2>2 DEF LeftoversHaveCause
<1> QED BY <1>1, <1>3, <1>4, <1>5 DEF HealInv

LEMMA HealNext == HealInv /\ [UpgradeNext]_upgradeVars => HealInv'
<1> SUFFICES ASSUME HealInv, [UpgradeNext]_upgradeVars PROVE HealInv'
  OBVIOUS
<1>1. KeptInv /\ KeptTypes /\ InOrder /\ AimsReached /\ LeftoversHaveCause
  BY DEF HealInv, KeptInv
<1>2. KeptInv'
  BY <1>1, KeptNext
<1>3. CASE BeginWork \/ Commit \/ ChangeRows \/ ChangeTables
  <2>1. Steps
    BY <1>1, <1>3, StepsAre
  <2>2. InOrder' /\ AimsReached' /\ LeftoversHaveCause'
    BY <1>1, <2>1, InOrderSteps, AimsSteps, LeftoversSteps
  <2> QED BY <1>2, <2>2 DEF HealInv
<1>4. CASE StartUpgrade \/ Fail \/ EndStart
  <2>1. Rests
    BY <1>1, <1>4, RestsAre
  <2>2. InOrder' /\ AimsReached' /\ LeftoversHaveCause'
    BY <1>1, <2>1, RestHeals
  <2> QED BY <1>2, <2>2 DEF HealInv
<1>5. CASE NextMigration
  <2>1. Len(Order) = 7
    BY DEF Order
  <2>2. start.pc = "runs" /\ start.left = <<>> /\ UNCHANGED <<stored, work, tx, cut>>
    BY <1>5 DEF NextMigration
  <2>3. CASE start.place = 7
    <3>1. start' = [start EXCEPT !.pc = "ready"]
      BY <1>5, <2>1, <2>3 DEF NextMigration
    <3>2. InOrder' /\ AimsReached' /\ LeftoversHaveCause'
      BY <1>1, <2>2, <2>3, <3>1, ReadyHeals
    <3> QED BY <1>2, <3>2 DEF HealInv
  <2>4. CASE start.place # 7
    <3>1. start' = [start EXCEPT !.place = @ + 1, !.left = Migration(Order[start.place + 1])]
      BY <1>5, <2>1, <2>4 DEF NextMigration
    <3>2. InOrder' /\ AimsReached' /\ LeftoversHaveCause'
      BY <1>1, <2>2, <2>4, <3>1, MigrationHeals
    <3> QED BY <1>2, <3>2 DEF HealInv
  <2> QED BY <2>3, <2>4
<1>6. CASE UNCHANGED upgradeVars
  <2>1. InOrder' /\ AimsReached' /\ LeftoversHaveCause'
    BY <1>1, <1>6 DEF upgradeVars, InOrder, AimsReached, LeftoversHaveCause, SpareWhy, ColumnsWhy, Under,
                      Missed
  <2> QED BY <1>2, <2>1 DEF HealInv
<1> QED BY <1>3, <1>4, <1>5, <1>6 DEF UpgradeNext

LEMMA HealedThen == HealInv => HealedUnlessCut
<1> SUFFICES ASSUME HealInv PROVE HealedUnlessCut
  OBVIOUS
<1>1. KeptTypes /\ InOrder /\ AimsReached /\ LeftoversHaveCause
  BY DEF HealInv, KeptInv
<1>2. start.pc = "failed" => 6 \in cut
  BY <1>1 DEF LeftoversHaveCause
<1>3. ASSUME start.pc = "ready"
      PROVE  /\ stored = work /\ stored.recorded = {1, 2, 4, 6, 10, 18}
             /\ stored.list.new /\ ~ stored.aside.there /\ stored.vault = {}
             /\ stored.prices.new /\ ~ stored.spare.there
             /\ stored.index = "fresh" /\ stored.triggers /\ stored.ids
             /\ stored.filled \subseteq stored.named
             /\ stored.filled \subseteq stored.stamped \/ 18 \in cut
  <2>1. start.left = <<>> /\ start.place = 7 /\ work = stored
    BY <1>1, <1>3 DEF KeptTypes, InOrder
  <2>2. stored.recorded = Numbers /\ stored.filled \subseteq SyncTables
    <3>1. \A i \in 1..7 : Order[i] \in stored.recorded \cup {0}
      BY <1>1, <1>3, <2>1 DEF InOrder
    <3>2. /\ Order[1] = 1 /\ Order[3] = 2 /\ Order[4] = 4 /\ Order[5] = 6 /\ Order[6] = 10 /\ Order[7] = 18
          /\ {1, 3, 4, 5, 6, 7} \subseteq 1..7
      BY DEF Order
    <3>3. {1, 2, 4, 6, 10, 18} \subseteq stored.recorded
      BY <3>1, <3>2
    <3> QED BY <1>1, <3>3 DEF KeptTypes, UpgradeFiles, Numbers
  <2>3. \A a \in Aims : ~ Missed(a) /\ Of(a) \in stored.recorded => Achieved(a, stored)
    BY <1>1 DEF AimsReached
  <2>4. {<<"drop", "aside">>, <<"fill", "ids">>, <<"empty", "vault">>, <<"rename", "spare">>,
         <<"fill", "index">>} \subseteq Aims
    BY DEF Aims
  <2>5. \A t \in SyncTables : <<"name", t>> \in Aims /\ <<"stamp", t>> \in Aims
    BY DEF Aims
  <2>6. \A w \in {1, 2, 4, 6, 10, 18} : w \in stored.recorded
    BY <2>2 DEF Numbers
  <2>7. /\ Achieved(<<"drop", "aside">>, stored) /\ Achieved(<<"fill", "ids">>, stored)
        /\ Achieved(<<"empty", "vault">>, stored) /\ Achieved(<<"rename", "spare">>, stored)
        /\ Achieved(<<"fill", "index">>, stored)
    BY <2>3, <2>4, <2>6, AimsAre DEF Missed
  <2>8. /\ \A t \in SyncTables : Achieved(<<"name", t>>, stored)
        /\ 18 \notin cut => \A t \in SyncTables : Achieved(<<"stamp", t>>, stored)
    BY <2>3, <2>5, <2>6, AimsAre DEF Missed
  <2>9. stored.triggers
    <3>1. Bound(Triggers, work, <<>>)
      BY <1>1, <1>3, <2>1 DEF AimsReached
    <3> QED BY <2>1, <3>1, NothingLeft, AimsMean DEF Bound, Stays
  <2>10. stored.filled \subseteq stored.named /\ (stored.filled \subseteq stored.stamped \/ 18 \in cut)
    BY <2>2, <2>8, AimsMean
  <2> QED BY <2>1, <2>2, <2>7, <2>9, <2>10, AimsMean DEF Numbers
<1> QED BY <1>2, <1>3 DEF HealedUnlessCut

\* From every file an older build may have left, and wherever the app was cut
\* off: once it is ready each migration is recorded and its aim reached, but
\* for the stamps of a column whose filling was cut off; and it fails only
\* after it was cut off while it made the second price table.
THEOREM UpgradeHealed == UpgradeSpec => []HealedUnlessCut
<1>1. UpgradeSpec => []HealInv
  BY HealInit, HealNext, PTL DEF UpgradeSpec
<1> QED BY <1>1, HealedThen, PTL

----------------------------------------------------------------------------
(* The composition of the five parts.  A step of the whole is a step of    *)
(* one part or leaves that part alone, so the whole behaves, seen from     *)
(* each part, as that part's own specification allows.                     *)

PartNames == {"sync", "list", "ui", "backup", "upgrade"}

StartOfEach == Init /\ ListInit /\ UiInit /\ BackupInit /\ UpgradeInit

\* What a step of the whole is to each part.
StepOfEach ==
    /\ [Next]_vars /\ [ListNext]_listVars /\ [UiNext]_uiVars
    /\ [BackupNext]_backupVars /\ [UpgradeNext]_upgradeVars

LEMMA DesktopStarts == DesktopInit => StartOfEach /\ part \in PartNames
BY DEF DesktopInit, StartOfEach, PartNames

LEMMA DesktopSteps == [DesktopNext]_desktopVars => StepOfEach /\ UNCHANGED part
<1> SUFFICES ASSUME [DesktopNext]_desktopVars PROVE StepOfEach /\ UNCHANGED part
  OBVIOUS
<1>1. CASE UNCHANGED desktopVars
  BY <1>1 DEF desktopVars, StepOfEach
<1>2. CASE SyncMoves /\ Next
  BY <1>2 DEF SyncMoves, StepOfEach
<1>3. CASE ListMoves /\ ListNext
  BY <1>3 DEF ListMoves, StepOfEach
<1>4. CASE UiMoves /\ UiNext
  BY <1>4 DEF UiMoves, StepOfEach
<1>5. CASE BackupMoves /\ BackupNext
  BY <1>5 DEF BackupMoves, StepOfEach
<1>6. CASE UpgradeMoves /\ UpgradeNext
  BY <1>6 DEF UpgradeMoves, StepOfEach
<1> QED BY <1>1, <1>2, <1>3, <1>4, <1>5, <1>6 DEF DesktopNext

\* Whichever part moves, automatic sync, the control list, background work,
\* automatic backup and the upgrade each do only what they do alone.
THEOREM DesktopImplementsEach ==
    DesktopSpec => Spec /\ ListSpec /\ UiSpec /\ BackupSpec /\ UpgradeSpec
<1>1. DesktopInit => StartOfEach
  BY DesktopStarts
<1>2. [DesktopNext]_desktopVars => StepOfEach
  BY DesktopSteps
<1> QED BY <1>1, <1>2, PTL
        DEF DesktopSpec, StartOfEach, StepOfEach, Spec, ListSpec, UiSpec, BackupSpec, UpgradeSpec

\* Which part moves is settled at the start.
LEMMA DesktopPart == DesktopSpec => [](part \in PartNames)
<1>1. DesktopInit => part \in PartNames
  BY DesktopStarts
<1>2. part \in PartNames /\ [DesktopNext]_desktopVars => (part \in PartNames)'
  BY DesktopSteps
<1> QED BY <1>1, <1>2, PTL DEF DesktopSpec

\* The state of every part keeps its types, for all values of the constants.
THEOREM DesktopTypes == DesktopSpec => []DesktopTypeOK
<1>1. part \in PartNames /\ TypeOK /\ ListTypeOK /\ UiTypeOK /\ BackupTypeOK /\ UpgradeTypeOK
      => DesktopTypeOK
  BY DEF PartNames, DesktopTypeOK
<1>2. UiSpec => []UiTypeOK
  BY UiActiveCounts, PTL
<1> QED BY <1>1, <1>2, DesktopImplementsEach, DesktopPart, AutoTypeOK, ListTypeCorrect,
           BackupTypeCorrect, UpgradeTypeCorrect, PTL

\* What each part keeps safe alone it keeps safe among the others.
THEOREM DesktopSafe ==
    DesktopSpec => [](/\ PullScheduled /\ UnpushedIsComing /\ BurnedStays /\ ResultHasPump
                      /\ LatestKept /\ KeptOnce /\ HealedUnlessCut)
BY DesktopImplementsEach, AutoPullScheduled, AutoUnpushedIsComing, ListBurnedStays,
   UiResultHasPump, BackupLatestKept, UpgradeKeptOnce, UpgradeHealed, PTL
====
