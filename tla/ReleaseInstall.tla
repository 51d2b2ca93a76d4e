--------------------------- MODULE ReleaseInstall ---------------------------
(***************************************************************************)
(* The signed-release installer of app/updater_install.py: the release     *)
(* tree on the DATA partition, the two oneshot units that work on it       *)
(* (pibuddycam-updater-install and pibuddycam-updater), the launcher that  *)
(* picks what the camera runtime executes, and power cuts between any two  *)
(* of their steps.                                                         *)
(*                                                                         *)
(* A release version is a number (only the SemVer order matters); 0 is the *)
(* factory application, which lives outside the release tree.  What a      *)
(* release contains is abstracted to whether its directory is complete and *)
(* whether, once running, it answers the local health probe.               *)
(***************************************************************************)
EXTENDS Integers, FiniteSets

CONSTANTS
  MaxVersion,   \* the release versions are 1..MaxVersion
  MaxCuts,      \* bound on the number of power cuts
  Overlap,      \* may the two updater units run at the same time?
  DiskFaults    \* may a symlink or marker update fail with an OSError?

ASSUME ConstantsAssumption ==
  /\ MaxVersion \in Nat \ {0}
  /\ MaxCuts \in Nat
  /\ Overlap \in BOOLEAN
  /\ DiskFaults \in BOOLEAN

Versions == 1..MaxVersion
Factory == 0
None == -1      \* an absent symlink, or a stopped runtime
Units == {"install", "check"}

VARIABLES
  tree,      \* version directory -> "none", "part" (mid rmtree) or "full"
  staging,   \* staging directories on disk: of the running install, of dead ones
  current,   \* target of releases/current
  previous,  \* target of releases/previous
  bad,       \* versions with a .bad marker
  running,   \* what the launcher units execute, None while they are stopped
  serves,    \* the releases that answer the health probe (fixed, unknown to the code)
  pc,        \* where each unit is in its CLI command
  snap,      \* what each unit's recover_interrupted read before it deletes
  ver,       \* the version install_update works on
  flags,     \* which of install_update's force_reinstall, quiesced, activated are set
  saved,     \* switch_release's local `previous`
  keep,      \* default_prune's `protected`
  outcome,   \* outcome of the last install_update
  cuts       \* power cuts so far

disk == <<tree, staging, current, previous, bad>>
job == <<ver, flags, saved, keep, outcome>>
vars == <<disk, running, serves, pc, snap, job, cuts>>

(***************************************************************************)
(* Reading the release tree                                                *)
(***************************************************************************)
Exists(t) == t = Factory \/ (t \in Versions /\ tree[t] # "none")

_current_target == IF Exists(current) THEN current ELSE Factory

_active_version == IF current \in Versions THEN current ELSE Factory

_version_dirs == {v \in Versions : tree[v] # "none"}

\* Mutant: only the active release counts as referenced.
ActiveVersionOnly == {current} \cap _version_dirs

\* Versions a symlink refers to, counted only while the directory exists.
_symlink_version == {current, previous} \cap _version_dirs

\* The newest release present, as a set: empty when there is none.
_newest_version == {v \in _version_dirs : \A w \in _version_dirs : w <= v}

_rmtree(v) == [tree EXCEPT ![v] = IF @ = "full" THEN "part" ELSE "none"]

\* What launcher.sh may exec: the release behind `current` when its interpreter
\* and script are there, the factory application otherwise.
Launcher(t, l) ==
  IF l \in Versions /\ t[l] = "full" THEN {l}
  ELSE IF l \in Versions /\ t[l] = "part" THEN {l, Factory}
  ELSE {Factory}

Serving == running = Factory \/ running \in serves

NoScan == [refs |-> {}, stagings |-> {}, target |-> None]

Init ==
  /\ tree = [v \in Versions |-> "none"]
  /\ staging = {}
  /\ current = None
  /\ previous = None
  /\ bad = {}
  /\ running = Factory
  /\ serves \in SUBSET Versions
  /\ pc = [u \in Units |-> "idle"]
  /\ snap = [u \in Units |-> NoScan]
  /\ ver = Factory
  /\ flags = {}
  /\ saved = None
  /\ keep = {}
  /\ outcome = "none"
  /\ cuts = 0

Goto(u, l) == pc' = [pc EXCEPT ![u] = l]

\* The locals of install_update are gone once it returns.
JobEnds ==
  /\ ver' = Factory
  /\ flags' = {}
  /\ saved' = None
  /\ keep' = {}
  /\ outcome' = "none"

(***************************************************************************)
(* recover_interrupted, run by both units before their own command         *)
(***************************************************************************)
StartUnit(u) ==
  /\ pc[u] = "idle"
  /\ Overlap \/ \A w \in Units : pc[w] = "idle"
  /\ Goto(u, "scan")
  /\ UNCHANGED <<disk, running, serves, snap, job, cuts>>

RecoverScan(u) ==
  /\ pc[u] = "scan"
  /\ LET dangling == current # None /\ ~Exists(current)
         newest == IF dangling THEN _newest_version ELSE {}
     IN \E t \in IF ~dangling THEN {None}
                 ELSE IF newest = {} THEN {Factory} ELSE newest :
          snap' = [snap EXCEPT ![u] = [refs |-> _symlink_version \cup newest,
                                       stagings |-> staging,
                                       target |-> t]]
  /\ Goto(u, "sweep")
  /\ UNCHANGED <<disk, running, serves, job, cuts>>

RecoverStaging(u) ==
  /\ pc[u] = "sweep"
  /\ staging' = staging \ snap[u].stagings
  /\ Goto(u, "orphans")
  /\ UNCHANGED <<tree, current, previous, bad, running, serves, snap, job, cuts>>

RecoverOrphan(u) ==
  /\ pc[u] = "orphans"
  /\ \E v \in _version_dirs \ snap[u].refs : tree' = _rmtree(v)
  /\ UNCHANGED <<staging, current, previous, bad, running, serves, pc, snap, job, cuts>>

AfterRecover(u) == IF u = "install" THEN "admit" ELSE "report"

\* Mutant: the loop over the orphans ends early.
RecoverRepairEarly(u) ==
  /\ pc[u] = "orphans"
  /\ snap' = [snap EXCEPT ![u] = NoScan]
  /\ Goto(u, AfterRecover(u))
  /\ UNCHANGED <<disk, running, serves, job, cuts>>

RecoverRepair(u) ==
  /\ pc[u] = "orphans"
  /\ _version_dirs \subseteq snap[u].refs
  /\ \/ snap[u].target # None /\ current' = snap[u].target
     \/ (snap[u].target = None \/ DiskFaults) /\ current' = current
  /\ snap' = [snap EXCEPT ![u] = NoScan]
  /\ Goto(u, AfterRecover(u))
  /\ UNCHANGED <<tree, staging, previous, bad, running, serves, job, cuts>>

\* `check` only reports: it writes no part of the release tree.
CheckReport ==
  /\ pc["check"] = "report"
  /\ Goto("check", "idle")
  /\ UNCHANGED <<disk, running, serves, snap, job, cuts>>

(***************************************************************************)
(* install_update                                                          *)
(***************************************************************************)
\* The manifest could not be fetched, verified or parsed, is marked bad, needs a
\* newer image, or does not classify as an update.
Refuse ==
  /\ pc["install"] = "admit"
  /\ Goto("install", "idle")
  /\ UNCHANGED <<disk, running, serves, snap, cuts, job>>

Admit ==
  /\ pc["install"] = "admit"
  /\ \E v \in Versions, f \in SUBSET {"forced"} :
       /\ "forced" \in f \/ v \notin bad
       /\ v > _active_version
       /\ ver' = v
       /\ flags' = f
  /\ staging' = staging \cup {"live"}
  /\ Goto("install", "fetch")
  /\ UNCHANGED <<tree, current, previous, bad, running, serves, snap, cuts,
                 saved, keep, outcome>>

\* A failing step of install_update: the result is "failed" and the finally
\* block runs.
Fail ==
  /\ outcome' = "failed"
  /\ Goto("install", "finally")

\* Free space, download, signatures, size, digest and extraction.
Fetch ==
  /\ pc["install"] = "fetch"
  /\ \/ "live" \in staging /\ Goto("install", "quiesce") /\ UNCHANGED outcome
     \/ Fail
  /\ UNCHANGED <<disk, running, serves, snap, cuts, ver, flags, saved, keep>>

\* Mutant: quiesced is set only once the stop has succeeded.
QuiesceMarksAfter ==
  /\ pc["install"] = "quiesce"
  /\ \/ /\ running' = None
        /\ flags' = flags \cup {"quiesced"}
        /\ Goto("install", "build")
        /\ UNCHANGED outcome
     \/ running' \in {running, None} /\ Fail /\ UNCHANGED flags
  /\ UNCHANGED <<disk, serves, snap, cuts, ver, saved, keep>>

\* stop_services: a failing multi-unit stop may still have stopped the runtime.
Quiesce ==
  /\ pc["install"] = "quiesce"
  /\ flags' = flags \cup {"quiesced"}
  /\ \/ running' = None /\ Goto("install", "build") /\ UNCHANGED outcome
     \/ running' \in {running, None} /\ Fail
  /\ UNCHANGED <<disk, serves, snap, cuts, ver, saved, keep>>

\* build_venv and preflight.
Build ==
  /\ pc["install"] = "build"
  /\ \/ "live" \in staging /\ Goto("install", "rename") /\ UNCHANGED outcome
     \/ Fail
  /\ UNCHANGED <<disk, running, serves, snap, cuts, ver, flags, saved, keep>>

Rename ==
  /\ pc["install"] = "rename"
  /\ \/ /\ tree[ver] = "none"
        /\ "live" \in staging
        /\ saved' = _current_target
        /\ tree' = [tree EXCEPT ![ver] = "full"]
        /\ staging' = staging \ {"live"}
        /\ Goto("install", "linkPrevious")
        /\ UNCHANGED outcome
     \/ /\ tree[ver] # "none" \/ "live" \notin staging \/ DiskFaults
        /\ Fail
        /\ UNCHANGED <<tree, staging, saved>>
  /\ UNCHANGED <<current, previous, bad, running, serves, snap, cuts, ver,
                 flags, keep>>

LinkPrevious ==
  /\ pc["install"] = "linkPrevious"
  /\ \/ previous' = saved /\ Goto("install", "linkCurrent")
     \/ DiskFaults /\ Goto("install", "undo") /\ UNCHANGED previous
  /\ UNCHANGED <<tree, staging, current, bad, running, serves, snap, cuts, job>>

\* Mutant: the switch reports success without re-pointing `current`.
LinkCurrentSkipped ==
  /\ pc["install"] = "linkCurrent"
  /\ flags' = flags \cup {"activated"}
  /\ Goto("install", "restart")
  /\ UNCHANGED <<disk, running, serves, snap, cuts, ver, saved, keep, outcome>>

LinkCurrent ==
  /\ pc["install"] = "linkCurrent"
  /\ \/ /\ current' = ver
        /\ flags' = flags \cup {"activated"}
        /\ Goto("install", "restart")
     \/ /\ DiskFaults
        /\ Goto("install", "undo")
        /\ UNCHANGED <<current, flags>>
  /\ UNCHANGED <<tree, staging, previous, bad, running, serves, snap, cuts,
                 ver, saved, keep, outcome>>

\* A symlink failed: the renamed directory is removed again.
Undo ==
  /\ pc["install"] = "undo"
  /\ \/ tree[ver] # "none" /\ tree' = _rmtree(ver) /\ UNCHANGED <<pc, outcome>>
     \/ tree[ver] = "none" /\ Fail /\ UNCHANGED tree
  /\ UNCHANGED <<staging, current, previous, bad, running, serves, snap, cuts,
                 ver, flags, saved, keep>>

\* `systemctl restart` brings the units up through the launcher; a failing exit
\* code leads to the rollback.
Restart ==
  /\ pc["install"] = "restart"
  /\ running' \in Launcher(tree, current)
  /\ \/ Goto("install", "health")
     \/ Goto("install", "rollback")
  /\ UNCHANGED <<disk, serves, snap, cuts, job>>

\* Mutant: pruning protects the new release only.
WaitForHealthKeepsNew ==
  /\ pc["install"] = "health"
  /\ \/ Serving /\ keep' = {ver} /\ Goto("install", "prune")
     \/ Goto("install", "rollback") /\ UNCHANGED keep
  /\ UNCHANGED <<disk, running, serves, snap, cuts, ver, flags, saved,
                 outcome>>

\* The probe passes only when something answers; it may time out regardless.
WaitForHealth ==
  /\ pc["install"] = "health"
  /\ \/ /\ Serving
        /\ keep' = {ver} \cup ({saved, current, previous} \cap Versions)
        /\ Goto("install", "prune")
     \/ /\ Goto("install", "rollback")
        /\ UNCHANGED keep
  /\ UNCHANGED <<disk, running, serves, snap, cuts, ver, flags, saved,
                 outcome>>

Prune ==
  /\ pc["install"] = "prune"
  /\ \/ /\ \E v \in _version_dirs \ keep : tree' = _rmtree(v)
        /\ UNCHANGED <<pc, outcome>>
     \/ /\ _version_dirs \subseteq keep
        /\ outcome' = "installed"
        /\ Goto("install", "finally")
        /\ UNCHANGED tree
  /\ UNCHANGED <<staging, current, previous, bad, running, serves, snap, cuts,
                 ver, flags, saved, keep>>

\* Mutant: the rollback always falls back to the factory application.
RollbackToFactory ==
  /\ pc["install"] = "rollback"
  /\ current' = None
  /\ Goto("install", "rerestart")
  /\ UNCHANGED <<tree, staging, previous, bad, running, serves, snap, cuts, job>>

\* _rollback: back to `previous`, or to the factory application without one.
Rollback ==
  /\ pc["install"] = "rollback"
  /\ \/ current' = IF Exists(previous) THEN previous ELSE None
     \/ DiskFaults /\ Exists(previous) /\ current' = current
  /\ Goto("install", "rerestart")
  /\ UNCHANGED <<tree, staging, previous, bad, running, serves, snap, cuts, job>>

Rerestart ==
  /\ pc["install"] = "rerestart"
  /\ running' \in Launcher(tree, current)
  /\ Goto("install", "recordBad")
  /\ UNCHANGED <<disk, serves, snap, cuts, job>>

RecordBad ==
  /\ pc["install"] = "recordBad"
  /\ \/ bad' = bad \cup {ver}
     \/ DiskFaults /\ bad' = bad
  /\ outcome' = "rolled_back"
  /\ Goto("install", "finally")
  /\ UNCHANGED <<tree, staging, current, previous, running, serves, snap, cuts,
                 ver, flags, saved, keep>>

\* Mutant: the finally block only removes the staging directory.
FinallyLeavesDown ==
  /\ pc["install"] = "finally"
  /\ staging' = staging \ {"live"}
  /\ JobEnds
  /\ Goto("install", "idle")
  /\ UNCHANGED <<tree, current, previous, bad, running, serves, snap, cuts>>

\* The finally block: bring a quiesced runtime back up unless the switch
\* happened, and drop the staging directory.
Finally ==
  /\ pc["install"] = "finally"
  /\ IF "quiesced" \in flags /\ "activated" \notin flags
       THEN running' \in Launcher(tree, current)
       ELSE UNCHANGED running
  /\ staging' = staging \ {"live"}
  /\ JobEnds
  /\ Goto("install", "idle")
  /\ UNCHANGED <<tree, current, previous, bad, serves, snap, cuts>>

(***************************************************************************)
(* The device loses power and boots again: the units are gone, the DATA    *)
(* partition is as they left it, the launcher starts the runtime.          *)
(***************************************************************************)
PowerCycle ==
  /\ cuts < MaxCuts
  /\ cuts' = cuts + 1
  /\ pc' = [u \in Units |-> "idle"]
  /\ staging' = IF staging = {} THEN {} ELSE {"stale"}
  /\ running' \in Launcher(tree, current)
  /\ snap' = [u \in Units |-> NoScan]
  /\ JobEnds
  /\ UNCHANGED <<tree, current, previous, bad, serves>>

Recover(u) ==
  RecoverScan(u) \/ RecoverStaging(u) \/ RecoverOrphan(u) \/ RecoverRepair(u)

Switch == Rename \/ LinkPrevious \/ LinkCurrent \/ Undo

RollBack == Rollback \/ Rerestart \/ RecordBad

InstallStep ==
  \/ Recover("install") \/ Refuse \/ Admit \/ Fetch \/ Quiesce \/ Build
  \/ Switch \/ Restart \/ WaitForHealth \/ Prune \/ RollBack \/ Finally

CheckStep == Recover("check") \/ CheckReport

Next ==
  \/ \E u \in Units : StartUnit(u)
  \/ InstallStep
  \/ CheckStep
  \/ PowerCycle

Spec == Init /\ [][Next]_vars

(***************************************************************************)
(* A started unit runs to its end (oneshot units have no start timeout and *)
(* every external command they run is bounded), and the timer starts the   *)
(* check unit again and again.  Nobody is obliged to start an install.     *)
(***************************************************************************)
Fairness ==
  /\ WF_vars(InstallStep)
  /\ WF_vars(CheckStep)
  /\ WF_vars(StartUnit("check"))

FairSpec == Spec /\ Fairness
(***************************************************************************)
(* Properties                                                              *)
(***************************************************************************)
\* The labels of install_update once a manifest is admitted, and all labels.
Installing ==
  {"fetch", "quiesce", "build", "rename", "linkPrevious", "linkCurrent", "undo",
   "restart", "health", "prune", "rollback", "rerestart", "recordBad", "finally"}
Labels == {"idle", "scan", "sweep", "orphans", "report", "admit"} \cup Installing

\* The only type invariant of this module.
TypeOK ==
  /\ tree \in [Versions -> {"none", "part", "full"}]
  /\ staging \subseteq {"live", "stale"}
  /\ current \in Versions \cup {Factory, None}
  /\ previous \in Versions \cup {Factory, None}
  /\ bad \subseteq Versions
  /\ running \in Versions \cup {Factory, None}
  /\ serves \subseteq Versions
  /\ pc \in [Units -> Labels]
  /\ snap \in [Units -> [refs : SUBSET Versions,
                         stagings : SUBSET {"live", "stale"},
                         target : Versions \cup {Factory, None}]]
  /\ ver \in Versions \cup {Factory}
  /\ flags \subseteq {"forced", "quiesced", "activated"}
  /\ saved \in Versions \cup {Factory, None}
  /\ keep \subseteq Versions
  /\ outcome \in {"none", "failed", "installed", "rolled_back"}
  /\ cuts \in 0..MaxCuts

\* Whatever fails and whenever power is cut, `current` and `previous` name
\* complete release directories: recovery, undo and pruning delete only what
\* neither link refers to (recover_interrupted, switch_release, default_prune).
LinkedReleasesIntact ==
  \A l \in {current, previous} : l \in Versions => tree[l] = "full"

\* An install reported as installed is the release that is running: "a pass
\* proves the newly activated release is serving" (default_health_check).
InstalledIsServing ==
  outcome = "installed" /\ pc["install"] = "finally" => running = ver

\* A rolled-back install has left the failed release: neither `current` nor the
\* runtime is on it (_roll_back: "restored the previous release").
RolledBackLeavesRelease ==
  outcome = "rolled_back" /\ pc["install"] = "finally" =>
    current # ver /\ running # ver

\* The camera runtime is down only inside an install that stopped it: every way
\* out of install_update, failing or not, brings the runtime back up.
DownOnlyWhileInstalling ==
  running = None =>
    pc["install"] \in {"build", "rename", "linkPrevious", "linkCurrent",
                       "undo", "restart", "finally"}

\* A step that moves `current` onto a release marked bad is a forced reinstall
\* or the rollback to the release that was active before.
BadReleaseStaysOut ==
  [][current' # current /\ current' \in bad =>
       "forced" \in flags \/ pc["install"] = "rollback"]_vars

\* No step of either unit takes a complete release directory apart while
\* `current` or `previous` names it.
NeverDismantlesLinked ==
  [][\A v \in Versions :
       tree[v] = "full" /\ tree'[v] # "full" => v \notin {current, previous}]_vars

\* A stopped runtime is started again (the finally block, the restart after the
\* switch, the rollback's restart, or the next boot).
RuntimeReturns == running = None ~> running # None

\* A release directory that a power cut leaves behind and no link refers to is
\* reclaimed by a later recover_interrupted.
OrphanReclaimed ==
  \A v \in Versions :
    (tree[v] # "none" /\ v \notin {current, previous}) ~>
      (tree[v] = "none" \/ v \in {current, previous})

\* A release that does not answer its health probe does not stay the running
\* one: the device "rolls back automatically".
UnhealthyReleaseIsLeft ==
  (running \in Versions \ serves) ~> (running \notin Versions \ serves)

(***************************************************************************)
(* What the switch promises: see ActiveRelease.  Probation is the time     *)
(* between the switch and the verdict of the health check.                 *)
(***************************************************************************)
Runnable(t) == IF t \in Versions /\ tree[t] = "full" THEN t ELSE Factory
Probation == pc["install"] \in {"restart", "health", "rollback"}

Abstract == INSTANCE ActiveRelease
  WITH active <- Runnable(current), fallback <- Runnable(previous),
       probation <- Probation

\* What the launcher would start changes in one step from the old release to a
\* newer one, whose fallback is the old one, or in one step back to it; no
\* failure, power cut or clean-up changes it (switch_release, _rollback).
RefinesActiveRelease == Abstract!Spec
=============================================================================
