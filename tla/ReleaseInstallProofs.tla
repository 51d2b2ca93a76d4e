------------------------ MODULE ReleaseInstallProofs ------------------------
(***************************************************************************)
(* Proofs about the release installer, for every number of versions and of *)
(* power cuts, with and without disk faults.                               *)
(***************************************************************************)
EXTENDS ReleaseInstall, TLAPS

USE DEF Versions, Factory, None, Units

(***************************************************************************)
(* Types                                                                   *)
(***************************************************************************)
\* What the launcher starts is a release or the factory application.
LEMMA LauncherType ==
  ASSUME NEW t, NEW l, NEW r \in Launcher(t, l)
  PROVE  r \in Versions \cup {Factory}
BY DEF Launcher

\* Types, with what makes them inductive: an admitted install has a version.
TypeInv == TypeOK /\ (pc["install"] \in Installing => ver \in Versions)

\* The installer starts well typed.
LEMMA TypeInvInit == Init => TypeInv
BY ConstantsAssumption DEF Init, TypeOK, NoScan, TypeInv, Installing, Labels

\* Every step of either unit, and a power cut, keeps the state well typed.
LEMMA TypeInvStep == TypeInv /\ [Next]_vars => TypeInv'
<1> SUFFICES ASSUME TypeInv, [Next]_vars PROVE TypeInv'
  OBVIOUS
<1> USE ConstantsAssumption DEF TypeOK, TypeInv, Installing, Labels, Goto, Fail
<1>1. ASSUME NEW u \in Units, StartUnit(u) PROVE TypeInv'
  BY <1>1 DEF StartUnit, disk, job
<1>2. ASSUME NEW u \in Units, RecoverScan(u) PROVE TypeInv'
  BY <1>2 DEF RecoverScan, Exists, disk, job, _symlink_version, _newest_version, _version_dirs
<1>3. ASSUME NEW u \in Units, RecoverStaging(u) PROVE TypeInv'
  <2>1. pc' \in [Units -> Labels] /\ staging' \subseteq {"live", "stale"}
    BY <1>3 DEF RecoverStaging
  <2>2. pc'["install"] \in Installing => ver' \in Versions
    BY <1>3 DEF RecoverStaging, job
  <2>3. QED
    BY <1>3, <2>1, <2>2 DEF RecoverStaging, job
<1>4. ASSUME NEW u \in Units, RecoverOrphan(u) PROVE TypeInv'
  BY <1>4 DEF RecoverOrphan, _rmtree, _version_dirs, job
<1>5. ASSUME NEW u \in Units, RecoverRepair(u) PROVE TypeInv'
  BY <1>5 DEF RecoverRepair, AfterRecover, NoScan, job
<1>6. CASE CheckReport
  BY <1>6 DEF CheckReport, disk, job
<1>7. CASE Refuse
  BY <1>7 DEF Refuse, disk, job
<1>8. CASE Admit
  BY <1>8 DEF Admit
<1>9. CASE Fetch
  BY <1>9 DEF Fetch, disk
<1>10. CASE Quiesce
  BY <1>10 DEF Quiesce, disk
<1>11. CASE Build
  BY <1>11 DEF Build, disk
<1>12. CASE Rename
  <2>1. tree' \in [Versions -> {"none", "part", "full"}] /\ pc' \in [Units -> Labels]
    BY <1>12 DEF Rename
  <2>2. saved' \in Versions \cup {Factory, None}
    BY <1>12 DEF Rename, Exists, _current_target
  <2>3. QED
    BY <1>12, <2>1, <2>2 DEF Rename
<1>13. CASE LinkPrevious
  BY <1>13 DEF LinkPrevious, job
<1>14. CASE LinkCurrent
  <2>1. current' \in Versions \cup {Factory, None} /\ pc' \in [Units -> Labels]
    BY <1>14 DEF LinkCurrent
  <2>2. flags' \subseteq {"forced", "quiesced", "activated"}
    BY <1>14 DEF LinkCurrent
  <2>3. QED
    BY <1>14, <2>1, <2>2 DEF LinkCurrent
<1>15. CASE Undo
  BY <1>15 DEF Undo, _rmtree
<1>16. CASE Restart
  BY <1>16, LauncherType DEF Restart, disk, job
<1>17. CASE WaitForHealth
  <2>1. keep' \subseteq Versions
    BY <1>17 DEF WaitForHealth, Serving
  <2>2. pc' \in [Units -> Labels]
    BY <1>17 DEF WaitForHealth, Serving
  <2>3. QED
    BY <1>17, <2>1, <2>2 DEF WaitForHealth, Serving, disk
<1>18. CASE Prune
  BY <1>18 DEF Prune, _rmtree, _version_dirs
<1>19. CASE Rollback
  BY <1>19 DEF Rollback, job
<1>20. CASE Rerestart
  BY <1>20, LauncherType DEF Rerestart, disk, job
<1>21. CASE RecordBad
  BY <1>21 DEF RecordBad
<1>22. CASE Finally
  BY <1>22, LauncherType DEF Finally, JobEnds
<1>23. CASE PowerCycle
  BY <1>23, LauncherType DEF PowerCycle, JobEnds, NoScan
<1>24. CASE UNCHANGED vars
  BY <1>24 DEF vars, disk, job
<1> QED
  BY <1>1, <1>2, <1>3, <1>4, <1>5, <1>6, <1>7, <1>8, <1>9, <1>10, <1>11,
     <1>12, <1>13, <1>14, <1>15, <1>16, <1>17, <1>18, <1>19, <1>20, <1>21,
     <1>22, <1>23, <1>24
  DEF Next, InstallStep, CheckStep, Recover, Switch, RollBack

\* Every reachable state of the installer is well typed, whatever the two units
\* do to each other.
THEOREM TypeCorrect == Spec => []TypeOK
<1>1. TypeInv => TypeOK
  BY DEF TypeInv
<1> QED
  BY <1>1, TypeInvInit, TypeInvStep, PTL DEF Spec

(***************************************************************************)
(* The release tree while the units do not overlap                         *)
(*                                                                         *)
(* LinkedReleasesIntact is not inductive: the deletions are guarded by     *)
(* values read several steps earlier.  The strengthening says of each of   *)
(* those values that it still covers the links when it is used.            *)
(***************************************************************************)
Linked == {current, previous} \cap Versions

\* At most one unit works, and the check unit only recovers and reports.
Separate ==
  /\ pc["check"] \in {"idle", "scan", "sweep", "orphans", "report"}
  /\ pc["check"] = "idle" \/ pc["install"] = "idle"

\* The scan of a recovery is still valid: it found nothing to repair and its
\* references cover both links.
ScanCovers ==
  \A u \in Units : pc[u] \in {"sweep", "orphans"} =>
    snap[u].target = None /\ Linked \subseteq snap[u].refs

\* The release that is being switched in is newer than the active one, complete
\* and not yet linked; the one that becomes `previous` is the active one.
SwitchReady ==
  /\ pc["install"] \in {"fetch", "quiesce", "build", "rename", "linkPrevious",
                        "linkCurrent"} => ver > _active_version
  /\ pc["install"] \in {"linkPrevious", "linkCurrent", "undo"} =>
       ver \notin {current, previous}
  /\ pc["install"] \in {"linkPrevious", "linkCurrent"} =>
       tree[ver] = "full" /\ saved = _active_version
  /\ pc["install"] = "linkCurrent" => previous = saved

PruneKeeps == pc["install"] = "prune" => Linked \subseteq keep

\* From the switch to the verdict the new release is the linked one, and after
\* the restart also the running one.
OnTrial ==
  /\ pc["install"] \in {"restart", "health", "prune"} => current = ver
  /\ pc["install"] \in {"health", "prune"} => running = ver
  /\ outcome = "installed" => pc["install"] = "finally" /\ running = ver

IInv ==
  /\ TypeInv
  /\ Separate
  /\ LinkedReleasesIntact
  /\ ScanCovers
  /\ SwitchReady
  /\ PruneKeeps
  /\ OnTrial

\* The strengthening holds on a device with the factory application only.
LEMMA IInvInit == Init => IInv
BY TypeInvInit DEF Init, IInv, Separate, LinkedReleasesIntact, ScanCovers,
   SwitchReady, PruneKeeps, OnTrial, Linked, _active_version

\* While the units do not overlap, every step preserves the strengthening.
LEMMA IInvStep ==
  ASSUME Overlap = FALSE
  PROVE  IInv /\ [Next]_vars => IInv'
<1> SUFFICES ASSUME IInv, [Next]_vars PROVE IInv'
  OBVIOUS
<1>0. TypeInv'
  BY TypeInvStep DEF IInv
<1> USE <1>0, ConstantsAssumption
    DEF IInv, TypeInv, TypeOK, Labels, Installing, Separate,
        LinkedReleasesIntact, ScanCovers, SwitchReady, PruneKeeps, OnTrial,
        Linked, Goto, _active_version
<1>1. ASSUME NEW u \in Units, StartUnit(u) PROVE IInv'
  BY <1>1 DEF StartUnit, disk, job
<1>2. ASSUME NEW u \in Units, RecoverScan(u) PROVE IInv'
  <2>1. pc[u] = "scan" /\ pc' = [pc EXCEPT ![u] = "sweep"] /\ UNCHANGED <<disk, running, job>>
    BY <1>2 DEF RecoverScan
  <2>2. current # None => Exists(current)
    BY DEF Exists
  <2>3. PICK N : snap' = [snap EXCEPT ![u] = [refs |-> _symlink_version \cup N,
                                              stagings |-> staging, target |-> None]]
    <3>1. ~(current # None /\ ~Exists(current))
      BY <2>2
    <3>2. QED
      BY ONLY <1>2, <3>1 DEF RecoverScan
  <2>4. Linked \subseteq _symlink_version
    BY DEF _symlink_version, _version_dirs
  <2>5. ScanCovers'
    BY <2>1, <2>3, <2>4 DEF disk
  <2>6. QED
    BY <2>1, <2>5 DEF disk, job
<1>3. ASSUME NEW u \in Units, RecoverStaging(u) PROVE IInv'
  BY <1>3 DEF RecoverStaging, job
<1>4. ASSUME NEW u \in Units, RecoverOrphan(u) PROVE IInv'
  <2>1. PICK v \in Versions : v \notin snap[u].refs /\ tree' = _rmtree(v)
    BY <1>4 DEF RecoverOrphan, _version_dirs
  <2>2. v \notin {current, previous} /\ pc["install"] \notin Installing
    BY <1>4, <2>1 DEF RecoverOrphan
  <2>3. LinkedReleasesIntact'
    BY <1>4, <2>1, <2>2 DEF RecoverOrphan, _rmtree
  <2>4. Separate' /\ ScanCovers' /\ SwitchReady' /\ PruneKeeps' /\ OnTrial'
    BY <1>4, <2>2 DEF RecoverOrphan, job
  <2>5. QED
    BY <2>3, <2>4
<1>5. ASSUME NEW u \in Units, RecoverRepair(u) PROVE IInv'
  BY <1>5 DEF RecoverRepair, AfterRecover, NoScan, job
<1>6. CASE CheckReport
  BY <1>6 DEF CheckReport, disk, job
<1>7. CASE Refuse
  BY <1>7 DEF Refuse, disk, job
<1>8. CASE Admit
  BY <1>8 DEF Admit
<1>9. CASE Fetch
  BY <1>9 DEF Fetch, Fail, disk
<1>10. CASE Quiesce
  BY <1>10 DEF Quiesce, Fail, disk
<1>11. CASE Build
  BY <1>11 DEF Build, Fail, disk
<1>12. CASE Rename
  BY <1>12 DEF Rename, Fail, Exists, _current_target
<1>13. CASE LinkPrevious
  BY <1>13 DEF LinkPrevious, job
<1>14. CASE LinkCurrent
  BY <1>14 DEF LinkCurrent
<1>15. CASE Undo
  BY <1>15 DEF Undo, Fail, _rmtree
<1>16. CASE Restart
  BY <1>16 DEF Restart, Launcher, disk, job
<1>17. CASE WaitForHealth
  <2>1. PruneKeeps'
    BY <1>17 DEF WaitForHealth, disk
  <2>2. Separate' /\ LinkedReleasesIntact' /\ ScanCovers' /\ SwitchReady' /\ OnTrial'
    BY <1>17 DEF WaitForHealth, disk
  <2>3. QED
    BY <2>1, <2>2
<1>18. CASE Prune
  BY <1>18 DEF Prune, _rmtree, _version_dirs
<1>19. CASE Rollback
  BY <1>19 DEF Rollback, Exists, job
<1>20. CASE Rerestart
  BY <1>20 DEF Rerestart, disk, job
<1>21. CASE RecordBad
  BY <1>21 DEF RecordBad
<1>22. CASE Finally
  BY <1>22 DEF Finally, JobEnds
<1>23. CASE PowerCycle
  BY <1>23 DEF PowerCycle, JobEnds, NoScan
<1>24. CASE UNCHANGED vars
  BY <1>24 DEF vars, disk, job
<1> QED
  BY <1>1, <1>2, <1>3, <1>4, <1>5, <1>6, <1>7, <1>8, <1>9, <1>10, <1>11, <1>12, <1>13, <1>14, <1>15, <1>16, <1>17, <1>18, <1>19, <1>20, <1>21, <1>22, <1>23, <1>24
  DEF Next, InstallStep, CheckStep, Recover, Switch, RollBack

\* While the units do not overlap, `current` and `previous` never name a missing
\* or half-deleted release directory, for any number of releases, failures and
\* power cuts.
THEOREM LinksStayIntact ==
  ASSUME Overlap = FALSE
  PROVE  Spec => []LinkedReleasesIntact
<1>1. IInv => LinkedReleasesIntact
  BY DEF IInv
<1> QED
  BY <1>1, IInvInit, IInvStep, PTL DEF Spec

\* An install reported as installed is the release the runtime executes.
THEOREM InstalledServes ==
  ASSUME Overlap = FALSE
  PROVE  Spec => []InstalledIsServing
<1>1. IInv => InstalledIsServing
  BY DEF IInv, OnTrial, InstalledIsServing
<1> QED
  BY <1>1, IInvInit, IInvStep, PTL DEF Spec

\* No step of either unit takes a release directory apart that a link names.
THEOREM LinkedNeverDismantled ==
  ASSUME Overlap = FALSE
  PROVE  Spec => NeverDismantlesLinked
<1> DEFINE Keeps == \A v \in Versions :
      tree[v] = "full" /\ tree'[v] # "full" => v \notin {current, previous}
<1>1. IInv /\ IInv' /\ [Next]_vars => [Keeps]_vars
  <2> SUFFICES ASSUME IInv, [Next]_vars, NEW v \in Versions,
                      tree[v] = "full", tree'[v] # "full"
               PROVE  v \notin {current, previous}
    OBVIOUS
  <2> USE DEF IInv, TypeInv, TypeOK, Installing, Linked
  <2>1. ASSUME NEW u \in Units, RecoverOrphan(u) PROVE v \notin {current, previous}
    BY <2>1 DEF RecoverOrphan, ScanCovers, _rmtree, _version_dirs
  <2>2. CASE Prune
    BY <2>2 DEF Prune, PruneKeeps, _rmtree, _version_dirs
  <2>3. CASE Undo
    BY <2>3 DEF Undo, SwitchReady, _rmtree
  <2>4. CASE Rename
    BY <2>4 DEF Rename
  <2>5. CASE UNCHANGED tree
    BY <2>5
  <2>6. QED
    BY <2>1, <2>2, <2>3, <2>4, <2>5
    DEF Next, InstallStep, CheckStep, Recover, Switch, RollBack, vars, disk,
        StartUnit, RecoverScan, RecoverStaging, RecoverRepair, CheckReport,
        Refuse, Admit, Fetch, Quiesce, Build, LinkPrevious, LinkCurrent,
        Restart, WaitForHealth, Rollback, Rerestart, RecordBad, Finally,
        PowerCycle
<1> QED
  BY <1>1, IInvInit, IInvStep, PTL DEF Spec, NeverDismantlesLinked

(***************************************************************************)
(* The atomic switch                                                       *)
(***************************************************************************)
\* The installer implements ActiveRelease: what the launcher would start changes
\* only by the switch to a newer release and by the rollback to the old one.
THEOREM SwitchIsAtomic ==
  ASSUME Overlap = FALSE
  PROVE  Spec => RefinesActiveRelease
<1> DEFINE avars == <<Runnable(current), Runnable(previous), Probation>>
<1>1. Init => Abstract!Init
  BY DEF Init, Abstract!Init, Runnable, Probation
<1>2. IInv /\ IInv' /\ [Next]_vars => [Abstract!Next]_avars
  <2> SUFFICES ASSUME IInv, IInv', [Next]_vars PROVE [Abstract!Next]_avars
    OBVIOUS
  <2> DEFINE active == IF current \in Versions THEN current ELSE Factory
             fallback == IF previous \in Versions THEN previous ELSE Factory
  <2>0. /\ Runnable(current) = active /\ Runnable(current)' = active'
        /\ Runnable(previous) = fallback /\ Runnable(previous)' = fallback'
    BY DEF IInv, TypeInv, TypeOK, LinkedReleasesIntact, Runnable
  <2>00. pc \in [Units -> Labels] /\ ver \in Versions \cup {Factory}
    BY DEF IInv, TypeInv, TypeOK
  <2> USE <2>00 DEF Installing, Probation, Goto
  <2>1. CASE LinkPrevious
    <3>1. UNCHANGED <<current, Probation>> /\ ~Probation
      BY <2>1 DEF LinkPrevious
    <3>2. fallback' = active \/ UNCHANGED previous
      BY <2>1 DEF LinkPrevious, IInv, SwitchReady, _active_version
    <3>3. QED
      BY <2>0, <3>1, <3>2 DEF Abstract!Next, Abstract!Prepare
  <2>2. CASE LinkCurrent
    <3>1. UNCHANGED previous /\ ~Probation
      BY <2>2 DEF LinkCurrent
    <3>2. \/ active' > active /\ fallback = active /\ Probation'
          \/ UNCHANGED <<current, Probation>>
      BY <2>2 DEF LinkCurrent, IInv, TypeInv, SwitchReady, _active_version
    <3>3. QED
      BY <2>0, <3>1, <3>2 DEF Abstract!Next, Abstract!Activate
  <2>3. CASE Rollback
    <3>1. UNCHANGED previous /\ Probation /\ ~Probation'
      BY <2>3 DEF Rollback
    <3>2. active' = fallback \/ UNCHANGED current
      BY <2>3 DEF Rollback, Exists, IInv, LinkedReleasesIntact
    <3>3. QED
      BY <2>0, <3>1, <3>2 DEF Abstract!Next, Abstract!RollBack, Abstract!Settle
  <2>4. CASE WaitForHealth \/ PowerCycle
    <3>1. UNCHANGED <<current, previous>>
      BY <2>4 DEF WaitForHealth, PowerCycle, disk
    <3>2. UNCHANGED Probation \/ (Probation /\ ~Probation')
      BY <2>4 DEF WaitForHealth, PowerCycle
    <3>3. QED
      BY <2>0, <3>1, <3>2 DEF Abstract!Next, Abstract!Settle
  <2>5. CASE UNCHANGED <<current, previous, Probation>>
    BY <2>0, <2>5
  <2>6. ASSUME NEW u \in Units, StartUnit(u) \/ Recover(u)
        PROVE  UNCHANGED <<current, previous, Probation>>
    <3>1. UNCHANGED <<current, previous>>
      BY <2>6 DEF StartUnit, Recover, RecoverScan, RecoverStaging, RecoverOrphan,
         RecoverRepair, IInv, ScanCovers, disk
    <3>2. pc[u] \in {"idle", "scan", "sweep", "orphans"}
      BY <2>6 DEF StartUnit, Recover, RecoverScan, RecoverStaging, RecoverOrphan,
         RecoverRepair
    <3>3. \E l \in {"scan", "sweep", "orphans", "admit", "report"} : pc' = [pc EXCEPT ![u] = l]
      BY <2>6 DEF StartUnit, Recover, RecoverScan, RecoverStaging, RecoverOrphan,
         RecoverRepair, AfterRecover
    <3>4. UNCHANGED Probation
      BY <3>2, <3>3
    <3>5. QED
      BY <3>1, <3>4
  <2>7. CASE CheckReport \/ Refuse \/ Admit \/ Fetch \/ Quiesce \/ Build
    <3>1. UNCHANGED <<current, previous>>
      BY <2>7 DEF CheckReport, Refuse, Admit, Fetch, Quiesce, Build, disk
    <3>2. UNCHANGED Probation
      BY <2>7 DEF CheckReport, Refuse, Admit, Fetch, Quiesce, Build, Fail
    <3>3. QED
      BY <2>5, <3>1, <3>2
  <2>8. CASE Rename \/ Undo \/ Restart \/ Prune
    <3>1. UNCHANGED <<current, previous>>
      BY <2>8 DEF Rename, Undo, Restart, Prune, disk
    <3>2. UNCHANGED Probation
      BY <2>8 DEF Rename, Undo, Restart, Prune, Fail
    <3>3. QED
      BY <2>5, <3>1, <3>2
  <2>9. CASE Rerestart \/ RecordBad \/ Finally \/ UNCHANGED vars
    <3>1. UNCHANGED <<current, previous>>
      BY <2>9 DEF Rerestart, RecordBad, Finally, vars, disk
    <3>2. UNCHANGED Probation
      BY <2>9 DEF Rerestart, RecordBad, Finally, vars
    <3>3. QED
      BY <2>5, <3>1, <3>2
  <2>10. QED
    BY <2>1, <2>2, <2>3, <2>4, <2>5, <2>6, <2>7, <2>8, <2>9
    DEF Next, InstallStep, CheckStep, Switch, RollBack
<1> QED
  BY <1>1, <1>2, IInvInit, IInvStep, PTL DEF Spec, RefinesActiveRelease, Abstract!Spec

(***************************************************************************)
(* The runtime comes back, overlap or not                                  *)
(*                                                                         *)
(* The finally block restarts the runtime exactly when `quiesced` is set   *)
(* and `activated` is not, so the strengthening ties the flags to the      *)
(* labels at which the runtime may be down.                                *)
(***************************************************************************)
DownInv ==
  /\ DownOnlyWhileInstalling
  /\ pc["install"] \notin Installing => flags = {}
  /\ pc["install"] \in {"fetch", "quiesce", "build", "rename", "linkPrevious",
                        "linkCurrent", "undo"} => "activated" \notin flags
  /\ pc["install"] \in {"build", "rename", "linkPrevious", "linkCurrent", "undo"} =>
       "quiesced" \in flags
  /\ pc["install"] = "finally" /\ running = None =>
       "quiesced" \in flags /\ "activated" \notin flags

\* The camera runtime is down only inside an install that stopped it, even when
\* the check unit deletes what the install is working on.
THEOREM RuntimeDownOnlyWhileInstalling == Spec => []DownOnlyWhileInstalling
<1>1. Init => DownInv
  BY DEF Init, DownInv, DownOnlyWhileInstalling, Installing
<1>2. TypeInv /\ DownInv /\ [Next]_vars => DownInv'
  <2> SUFFICES ASSUME TypeInv, DownInv, [Next]_vars PROVE DownInv'
    OBVIOUS
  <2>0. pc \in [Units -> Labels]
    BY DEF TypeInv, TypeOK
  <2> USE <2>0 DEF DownInv, DownOnlyWhileInstalling, Labels, Installing, Goto, Fail
  <2>1. ASSUME NEW u \in Units, StartUnit(u) \/ Recover(u) PROVE DownInv'
    <3>1. UNCHANGED <<running, flags>>
      BY <2>1 DEF StartUnit, Recover, RecoverScan, RecoverStaging, RecoverOrphan,
         RecoverRepair, job
    <3>2. pc["install"] = pc'["install"] \/ {pc["install"], pc'["install"]} \cap Installing = {}
      BY <2>1 DEF StartUnit, Recover, RecoverScan, RecoverStaging, RecoverOrphan,
         RecoverRepair, AfterRecover
    <3>3. QED
      BY <3>1, <3>2
  <2>2. CASE CheckReport \/ Refuse \/ Admit
    <3>1. CASE CheckReport \/ Refuse
      BY <2>2, <3>1 DEF CheckReport, Refuse, job
    <3>2. CASE Admit
      BY <2>2, <3>2 DEF Admit
    <3>3. QED
      BY <2>2, <3>1, <3>2
  <2>3. CASE Fetch \/ Build
    <3>1. CASE Fetch
      BY <3>1 DEF Fetch
    <3>2. CASE Build
      BY <3>2 DEF Build
    <3>3. QED
      BY <2>3, <3>1, <3>2
  <2>4. CASE Quiesce
    BY <2>4 DEF Quiesce
  <2>5. CASE Rename \/ LinkPrevious \/ Undo
    BY <2>5 DEF Rename, LinkPrevious, Undo, job
  <2>6. CASE LinkCurrent
    BY <2>6 DEF LinkCurrent
  <2>7. CASE Restart \/ Rerestart
    <3>1. running' # None
      BY <2>7 DEF Restart, Rerestart, Launcher
    <3>2. pc'["install"] \in {"health", "rollback", "recordBad"}
      BY <2>7 DEF Restart, Rerestart
    <3>3. QED
      BY <3>1, <3>2
  <2>8. CASE WaitForHealth \/ Prune \/ Rollback \/ RecordBad
    <3>1. UNCHANGED <<running, flags>> /\ running # None
      BY <2>8 DEF WaitForHealth, Prune, Rollback, RecordBad, job
    <3>2. pc'["install"] \in {"health", "prune", "rollback", "rerestart", "finally"}
      BY <2>8 DEF WaitForHealth, Prune, Rollback, RecordBad
    <3>3. QED
      BY <3>1, <3>2
  <2>9. CASE Finally \/ PowerCycle
    <3>1. pc'["install"] = "idle" /\ flags' = {}
      BY <2>9 DEF Finally, PowerCycle, JobEnds
    <3>2. running' # None
      BY <2>9, LauncherType DEF Finally, PowerCycle
    <3>3. QED
      BY <3>1, <3>2
  <2>10. CASE UNCHANGED vars
    BY <2>10 DEF vars, job
  <2>11. QED
    BY <2>1, <2>2, <2>3, <2>4, <2>5, <2>6, <2>7, <2>8, <2>9, <2>10
    DEF Next, InstallStep, CheckStep, Switch, RollBack
<1>3. DownInv => DownOnlyWhileInstalling
  BY DEF DownInv
<1> QED
  BY <1>1, <1>2, <1>3, TypeInvInit, TypeInvStep, PTL DEF Spec
=============================================================================
