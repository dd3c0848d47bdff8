-------------------------- MODULE JobManagerProofs --------------------------
(***************************************************************************)
(* Proofs about JobManager for any number of saves and any set of contents *)
(* that load.                                                              *)
(***************************************************************************)
EXTENDS JobManager, TLAPS

(***************************************************************************)
(* Type correctness needs ReloadsAreEarned: it keeps gen + 1 in Gens.      *)
(***************************************************************************)
TypeInv == TypeOK /\ ReloadsAreEarned /\ noticed <= disk

LEMMA InitType == Init => TypeInv
<1> SUFFICES ASSUME Init PROVE TypeInv
  OBVIOUS
<1> USE EditsAssumption, ValidAssumption
<1>1. 0 \in Versions /\ 0 \in Gens
  BY DEF Versions, Gens
<1>2. task \in [Gens -> {"none", "live", "cancelled", "gone"}]
  BY DEF Init
<1>3. conf \in [Gens -> Valid] /\ browser \in [Gens -> {"none", "starting", "running", "leaked"}]
  BY DEF Init
<1>4. ReloadsAreEarned /\ noticed <= disk
  BY DEF Init, ReloadsAreEarned, Busy
<1>5. /\ events \in 0..MaxEdits /\ reloads \in 0..MaxEdits
      /\ mgr \in {"waiting", "debounce", "loading", "dropping", "killing",
                  "spawning", "stopped"}
      /\ phase \in {"up", "stopping", "teardown", "closed", "exited"}
  BY DEF Init
<1>6. TypeOK
  BY <1>1, <1>2, <1>3, <1>5 DEF Init, TypeOK
<1> QED
  BY <1>4, <1>6 DEF TypeInv

LEMMA TypeInductive == TypeInv /\ [Next]_vars => TypeInv'
<1> SUFFICES ASSUME TypeInv, [Next]_vars PROVE TypeInv'
  OBVIOUS
<1> USE EditsAssumption, ValidAssumption
    DEF TypeInv, TypeOK, ReloadsAreEarned, Versions, Gens, Busy
<1>1. CASE Edit \/ Replace
  BY <1>1 DEF Edit, Replace, mgrVars
<1>2. CASE WatchStarts \/ WatchFails
  BY <1>2 DEF WatchStarts, WatchFails, mgrVars
<1>3. CASE Notice
  BY <1>3 DEF Notice, mgrVars
<1>4. CASE TakeReload
  BY <1>4 DEF TakeReload, configVars
<1>5. CASE Break
  BY <1>5 DEF Break, CancelTasks, configVars
<1>6. CASE Drain
  BY <1>6 DEF Drain, configVars
<1>7. CASE Load
  BY <1>7 DEF Load, configVars
<1>8. CASE LoadFails
  BY <1>8 DEF LoadFails, configVars
<1>9. CASE DropHandles
  BY <1>9 DEF DropHandles, CancelTasks, configVars
<1>10. CASE KillBrowsers
  BY <1>10 DEF KillBrowsers, KillRegistered, configVars
<1>11. CASE Spawn
  <2>1. gen + 1 \in Gens
    BY <1>11 DEF Spawn
  <2> QED
    BY <1>11, <2>1 DEF Spawn, configVars
<1>12. ASSUME NEW g \in Gens, Launch(g) \/ Register(g) \/ CloseBrowser(g)
       PROVE  TypeInv'
  <2>1. UNCHANGED <<configVars, reloads, stop, mgrVars, task, phase, dbOpen>>
    BY <1>12 DEF Launch, Register, CloseBrowser
  <2>2. browser' \in [Gens -> {"none", "starting", "running", "leaked"}]
    BY <1>12 DEF Launch, Register, CloseBrowser
  <2> QED
    BY <2>1, <2>2 DEF configVars, mgrVars
<1>13. ASSUME NEW g \in Gens, DropTask(g) PROVE TypeInv'
  BY <1>13 DEF DropTask, configVars, mgrVars
<1>14. CASE SendStop \/ CloseDb
  BY <1>14 DEF SendStop, CloseDb, configVars, mgrVars
<1>15. CASE Teardown
  BY <1>15 DEF Teardown, KillRegistered, configVars, mgrVars
<1>16. CASE Exit
  BY <1>16 DEF Exit, configVars, mgrVars
<1>17. CASE UNCHANGED vars
  BY <1>17 DEF vars
<1> QED
  BY <1>1, <1>2, <1>3, <1>4, <1>5, <1>6, <1>7, <1>8, <1>9, <1>10, <1>11,
     <1>12, <1>13, <1>14, <1>15, <1>16, <1>17 DEF Next, Manager, Shutdown

LEMMA TypeInvariant == Spec => []TypeInv
  BY InitType, TypeInductive, PTL DEF Spec

(***************************************************************************)
(* JobManager is type correct, and there are no more generations than      *)
(* saves.                                                                  *)
(***************************************************************************)
THEOREM TypeCorrect == Spec => []TypeOK
<1>1. TypeInv => TypeOK
  BY DEF TypeInv
<1> QED
  BY <1>1, TypeInvariant, PTL

-----------------------------------------------------------------------------
(***************************************************************************)
(* One generation at a time, running until the next config has loaded.     *)
(* The two facts are inductive together: Spawn makes the new generation    *)
(* live, and only DropHandles and Break, which cancel the old one, lead    *)
(* away from the states in which it must be live.                          *)
(***************************************************************************)
JobsInv == OneGeneration /\ JobsKeepRunning

LEMMA InitJobs == Init => JobsInv
<1> SUFFICES ASSUME Init PROVE JobsInv
  OBVIOUS
<1>1. 0 \in Gens
  BY EditsAssumption DEF Gens
<1>2. OneGeneration
  BY <1>1 DEF Init, OneGeneration
<1>3. JobsKeepRunning
  BY <1>1 DEF Init, JobsKeepRunning
<1> QED
  BY <1>2, <1>3 DEF JobsInv

LEMMA JobsInductive == TypeInv /\ JobsInv /\ [Next]_vars => JobsInv'
<1> SUFFICES ASSUME TypeInv, JobsInv, [Next]_vars PROVE JobsInv'
  OBVIOUS
<1> USE DEF TypeInv, TypeOK, JobsInv, OneGeneration, JobsKeepRunning, Up
<1>1. CASE UNCHANGED <<mgr, gen, conf, listed, task, phase>>
  BY <1>1
<1>2. CASE Edit \/ Replace \/ WatchStarts \/ WatchFails \/ Notice
  BY <1>1, <1>2 DEF Edit, Replace, WatchStarts, WatchFails, Notice, mgrVars
<1>3. CASE TakeReload \/ Drain \/ Load \/ LoadFails
  BY <1>3 DEF TakeReload, Drain, Load, LoadFails, configVars
<1>4. CASE Break \/ DropHandles
  BY <1>4 DEF Break, DropHandles, CancelTasks, configVars
<1>5. CASE KillBrowsers
  BY <1>5 DEF KillBrowsers, configVars
<1>6. CASE Spawn
  <2>1. gen' = gen + 1 /\ gen + 1 \in Gens /\ gen \in Gens
    BY <1>6, EditsAssumption DEF Spawn, ReloadsAreEarned, Busy, Gens, Versions
  <2>2. task' = [task EXCEPT ![gen + 1] = "live"] /\ mgr = "spawning" /\ mgr' = "waiting"
    BY <1>6 DEF Spawn
  <2>3. OneGeneration'
    BY <2>1, <2>2
  <2>4. JobsKeepRunning'
    BY <1>6, <2>1, <2>2 DEF Spawn
  <2> QED
    BY <2>3, <2>4
<1>7. ASSUME NEW g \in Gens, Launch(g) \/ Register(g) \/ CloseBrowser(g)
      PROVE  JobsInv'
  BY <1>1, <1>7 DEF Launch, Register, CloseBrowser, mgrVars
<1>8. ASSUME NEW g \in Gens, DropTask(g) PROVE JobsInv'
  BY <1>8 DEF DropTask, mgrVars
<1>9. CASE SendStop \/ Teardown \/ CloseDb
  BY <1>9 DEF SendStop, Teardown, CloseDb, mgrVars
<1>10. CASE Exit
  BY <1>10 DEF Exit, mgrVars
<1>11. CASE UNCHANGED vars
  BY <1>1, <1>11 DEF vars
<1> QED
  BY <1>2, <1>3, <1>4, <1>5, <1>6, <1>7, <1>8, <1>9, <1>10, <1>11
  DEF Next, Manager, Shutdown

(***************************************************************************)
(* Never do the jobs of two config loads run side by side uncancelled.     *)
(***************************************************************************)
THEOREM OneGenerationHolds == Spec => []OneGeneration
<1>1. JobsInv => OneGeneration
  BY DEF JobsInv
<1> QED
  BY <1>1, InitJobs, JobsInductive, TypeInvariant, PTL DEF Spec

(***************************************************************************)
(* A config that does not load never stops the jobs that run, and the job  *)
(* list always describes them.                                             *)
(***************************************************************************)
THEOREM JobsKeepRunningHolds == Spec => []JobsKeepRunning
<1>1. JobsInv => JobsKeepRunning
  BY DEF JobsInv
<1> QED
  BY <1>1, InitJobs, JobsInductive, TypeInvariant, PTL DEF Spec

-----------------------------------------------------------------------------
(***************************************************************************)
(* NoticedIsPending is inductive: Drain empties the channel and then reads *)
(* the disk, so a save after the drain has a message of its own.           *)
(***************************************************************************)
LEMMA PendingInductive ==
    TypeInv /\ NoticedIsPending /\ [Next]_vars => NoticedIsPending'
<1> SUFFICES ASSUME TypeInv, NoticedIsPending, [Next]_vars
             PROVE  NoticedIsPending'
  OBVIOUS
<1> USE EditsAssumption DEF TypeInv, TypeOK, Versions, NoticedIsPending
<1>1. CASE UNCHANGED <<noticed, disk, events, reloads, mgr, conf, gen, base,
                       loaded>>
  BY <1>1
<1>2. CASE Edit \/ Replace
  BY <1>2 DEF Edit, Replace, mgrVars
<1>3. CASE WatchStarts \/ WatchFails
  BY <1>1, <1>3 DEF WatchStarts, WatchFails, mgrVars
<1>4. CASE Notice
  BY <1>4 DEF Notice, mgrVars
<1>5. CASE TakeReload
  BY <1>5 DEF TakeReload, configVars
<1>6. CASE Break
  BY <1>6 DEF Break, configVars
<1>7. CASE Drain
  BY <1>7 DEF Drain, configVars
<1>8. CASE Load
  BY <1>8 DEF Load, configVars
<1>9. CASE LoadFails
  BY <1>9 DEF LoadFails, configVars
<1>10. CASE DropHandles \/ KillBrowsers
  BY <1>10 DEF DropHandles, KillBrowsers, configVars
<1>11. CASE Spawn
  <2>1. gen + 1 \in Gens
    BY <1>11 DEF Spawn, ReloadsAreEarned, Busy, Gens
  <2> QED
    BY <1>11, <2>1 DEF Spawn, configVars
<1>12. ASSUME NEW g \in Gens,
              Launch(g) \/ Register(g) \/ CloseBrowser(g) \/ DropTask(g)
       PROVE  NoticedIsPending'
  BY <1>1, <1>12 DEF Launch, Register, CloseBrowser, DropTask, configVars, mgrVars
<1>13. CASE Shutdown
  BY <1>1, <1>13 DEF Shutdown, SendStop, Teardown, CloseDb, Exit, configVars, mgrVars
<1>14. CASE UNCHANGED vars
  BY <1>1, <1>14 DEF vars
<1> QED
  BY <1>2, <1>3, <1>4, <1>5, <1>6, <1>7, <1>8, <1>9, <1>10, <1>11, <1>12,
     <1>13, <1>14 DEF Next, Manager

(***************************************************************************)
(* No noticed save is lost between the watcher and the manager, whatever   *)
(* the timing of the debounce, the drain and the load.                     *)
(***************************************************************************)
THEOREM NoSaveIsLost == Spec => []NoticedIsPending
<1>1. Init => NoticedIsPending
  BY EditsAssumption DEF Init, NoticedIsPending, Gens
<1> QED
  BY <1>1, PendingInductive, TypeInvariant, PTL DEF Spec
=============================================================================
