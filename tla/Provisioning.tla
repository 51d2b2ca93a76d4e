---------------------------- MODULE Provisioning ----------------------------
(***************************************************************************)
(* How a flashed card becomes a camera and how it stops being one: the     *)
(* persisted provisioning state (app/provisioning.py), the boot selector   *)
(* (app/boot_mode.py), the setup wizard (app/setup_wizard.py), recovery    *)
(* (app/recovery.py) and the factory reset (app/factory_reset.py), with    *)
(* power cuts at every step that touches the card.                         *)
(***************************************************************************)
EXTENDS Integers, Sequences, FiniteSets, FiniteSetsExt

CONSTANTS
  MaxCuts,       \* bound on power cuts
  MaxResets,     \* bound on factory resets
  MaxErrors,     \* bound on writes, commands and probes that fail
  ResetBreaks,   \* may a power cut or a failed removal end a reset half way?
  SetupResets    \* is a reset also asked for in setup mode, where the console leads
                 \* to its login once it refuses the wizard?

ASSUME ProvisioningAssumption ==
  /\ {MaxCuts, MaxResets, MaxErrors} \subseteq Nat
  /\ {ResetBreaks, SetupResets} \subseteq BOOLEAN

Chain == <<"factory", "storage_ready", "camera_validated", "unclaimed",
           "claimed", "configured", "running">>
CAMERA_STATES == {"claimed", "configured", "running"}
Files == {"device", "secrets", "provisioning"}
\* The order in which a reset deletes the files (sorted by path).
DeleteOrder == <<"device", "secrets", "provisioning">>

VARIABLES
  prov,       \* the state in provisioning.json, "missing" without the file
  files,      \* which of device.toml and secrets.toml exist
  tmp,        \* temporary files a power cut has left
  sentinel,   \* the recovery sentinel on BOOT
  backup,     \* the files in the backup directory of the last reset
  marker,     \* the pending-deletion marker
  deleted,    \* the files the last reset has deleted
  mode,       \* "off", "setup" (provisioning.service) or "camera" (the target)
  hotspot,    \* is the setup network up?
  wizard,     \* the WizardSession: steps done, what they found, and where it is
  reset,      \* the FactoryReset: "idle", "begun", "confirmed", or a step of execute
  stranded,   \* has restarting the hotspot failed?
  finished,   \* has the wizard reported a successful finish?
  cuts, resets, errors

disk == <<prov, files, tmp, sentinel, backup, marker, deleted>>
ghosts == <<stranded, finished>>
bounds == <<cuts, resets, errors>>
vars == <<disk, mode, hotspot, wizard, reset, ghosts, bounds>>

NewWizard == [at |-> "idle", done |-> {}, validated |-> FALSE, token |-> FALSE,
              persisted |-> FALSE, state |-> ""]

Init ==
  /\ prov = "missing" /\ files = {} /\ tmp = {} /\ sentinel = FALSE
  /\ backup = {} /\ marker = FALSE /\ deleted = {}
  /\ mode = "off" /\ hotspot = FALSE
  /\ wizard = NewWizard
  /\ reset = "idle"
  /\ stranded = FALSE /\ finished = FALSE
  /\ cuts = 0 /\ resets = 0 /\ errors = 0

Fail == errors < MaxErrors /\ errors' = errors + 1
NoError == UNCHANGED errors

(***************************************************************************)
(* The provisioning state                                                  *)
(***************************************************************************)
\* load: a missing file is `factory`.
load == IF prov = "missing" THEN "factory" ELSE prov

Index(s) == CHOOSE i \in DOMAIN Chain : Chain[i] = s

\* The furthest state the facts justify; storage is ready and the wizard has
\* written the password and the device document.
_milestone(validated, token, running) ==
  IF ~validated THEN "storage_ready"
  ELSE IF ~token THEN "claimed"
  ELSE IF ~running THEN "configured" ELSE "running"

\* Does advance move at all?  (A step back is never a legal transition.)
Advances(running) ==
  Index(_milestone(wizard.validated, wizard.token, running)) > Index(load)

\* write_atomic: a temporary file that is in the way makes the write fail once.
write_atomic(f) == f \notin tmp /\ UNCHANGED tmp /\ NoError
WriteFails(f) ==
  \/ f \in tmp /\ tmp' = tmp \ {f} /\ NoError
  \/ f \notin tmp /\ UNCHANGED tmp /\ Fail

\* advance: one edge along the chain, persisted before it counts.
advance(next) ==
  /\ \/ /\ write_atomic("provisioning")
        /\ prov' = Chain[Index(load) + 1]
        /\ wizard' = [wizard EXCEPT !.state = Chain[Index(load) + 1]]
     \/ /\ WriteFails("provisioning")
        /\ UNCHANGED prov
        /\ wizard' = [wizard EXCEPT !.at = next, !.state = load]
  /\ UNCHANGED <<files, sentinel, backup, marker, deleted>>

(***************************************************************************)
(* boot_mode                                                               *)
(***************************************************************************)
\* Mutant: a card without a state file falls through to the camera.
BootFailsOpen ==
  /\ mode = "off"
  /\ mode' = IF prov = "missing" \/ load \in CAMERA_STATES THEN "camera" ELSE "setup"
  /\ hotspot' = (mode' = "setup")
  /\ stranded' = FALSE
  /\ UNCHANGED <<disk, wizard, reset, finished, bounds>>

\* resolve_mode and start_unit; the setup unit brings the hotspot up first.
Boot ==
  /\ mode = "off"
  /\ mode' = IF load \in CAMERA_STATES THEN "camera" ELSE "setup"
  /\ hotspot' = (mode' = "setup")
  /\ stranded' = FALSE
  /\ UNCHANGED <<disk, wizard, reset, finished, bounds>>

(***************************************************************************)
(* The wizard                                                              *)
(***************************************************************************)
\* is_claimed: the password hash and a valid device document are stored.
Claimed == files = {"device", "secrets"}

SETUP_OPEN_STATES == {"factory", "storage_ready", "camera_validated", "unclaimed", "claimed"}
FINISH_WINDOW_STATES == {"storage_ready", "unclaimed", "claimed"}

\* The console refuses every /setup request unless the state on the card allows it.
\* (Without a file the console has loaded `factory`.)
_setup_available ==
  /\ mode = "setup"
  /\ load \in (IF Claimed THEN FINISH_WINDOW_STATES ELSE SETUP_OPEN_STATES)

\* (One worker runs the requests: no wizard step runs during a reset.)
InSetup(l) == mode = "setup" /\ wizard.at = l /\ reset \notin {"delete", "marker"}

\* A request the console hands to the wizard.
SetupRequest == InSetup("idle") /\ _setup_available

Go(l) == wizard' = [wizard EXCEPT !.at = l]

\* submit for the steps that only stage a value; the status step probes.
submit ==
  /\ SetupRequest
  /\ \/ \E ok \in BOOLEAN :
          /\ ok \/ errors < MaxErrors
          /\ errors' = IF ok THEN errors ELSE errors + 1
          /\ wizard' = [wizard EXCEPT !.done = @ \cup {"status"}, !.validated = ok]
     \/ /\ wizard' = [wizard EXCEPT !.done = @ \cup {"wifi"}] /\ NoError
     \/ /\ wizard' = [wizard EXCEPT !.done = @ \cup {"admin_password"}] /\ NoError
     \/ \E later \in BOOLEAN :
          wizard' = [wizard EXCEPT !.done = @ \cup {"prusa_token"}, !.token = ~later] /\ NoError
  /\ UNCHANGED <<disk, mode, hotspot, reset, ghosts, cuts, resets>>

\* The persist step is refused before Wi-Fi and the password are done.
Persist ==
  /\ SetupRequest
  /\ {"wifi", "admin_password"} \subseteq wizard.done
  /\ Go("save_device")
  /\ UNCHANGED <<disk, mode, hotspot, reset, ghosts, bounds>>

save_device ==
  /\ InSetup("save_device")
  /\ \/ write_atomic("device") /\ files' = files \cup {"device"} /\ Go("save_secrets")
     \/ WriteFails("device") /\ UNCHANGED files /\ Go("idle")
  /\ UNCHANGED <<prov, sentinel, backup, marker, deleted, mode, hotspot, reset, ghosts, cuts, resets>>

save_secrets ==
  /\ InSetup("save_secrets")
  /\ \/ /\ write_atomic("secrets") /\ files' = files \cup {"secrets"}
        /\ wizard' = [wizard EXCEPT !.at = "advance", !.persisted = TRUE]
     \/ WriteFails("secrets") /\ UNCHANGED files /\ Go("idle")
  /\ UNCHANGED <<prov, sentinel, backup, marker, deleted, mode, hotspot, reset, ghosts, cuts, resets>>

\* One turn of the loop that stops at `unclaimed`.
_advance_provisioning ==
  /\ InSetup("advance")
  /\ \/ load # "unclaimed" /\ Advances(FALSE) /\ advance("idle")
     \/ /\ load = "unclaimed" \/ ~Advances(FALSE)
        /\ wizard' = [wizard EXCEPT !.at = "idle", !.state = load]
        /\ UNCHANGED <<disk, errors>>
  /\ UNCHANGED <<mode, hotspot, reset, ghosts, cuts, resets>>

\* finish: refused unless persisted and in a state that allows the hand-off;
\* then the hotspot is stopped, which may fail.
finish ==
  /\ SetupRequest
  /\ wizard.persisted
  /\ wizard.state \in {Chain[i] : i \in 1..5}
  /\ \/ hotspot' = FALSE /\ Go("station") /\ NoError
     \/ UNCHANGED <<hotspot, wizard>> /\ Fail
  /\ UNCHANGED <<disk, mode, reset, ghosts, cuts, resets>>

\* Mutant: after a failed activation the wizard just returns.
StationNoRestart ==
  /\ InSetup("station")
  /\ \/ Go("camera") /\ NoError
     \/ Go("idle") /\ Fail
  /\ UNCHANGED <<disk, mode, hotspot, reset, ghosts, cuts, resets>>

_activate_station ==
  /\ InSetup("station")
  /\ \/ Go("camera") /\ NoError
     \/ Go("restart") /\ Fail
  /\ UNCHANGED <<disk, mode, hotspot, reset, ghosts, cuts, resets>>

\* Mutant: a target that does not start leaves the portal down.
StartNoRestart ==
  /\ InSetup("camera")
  /\ \/ Go("finalize") /\ NoError
     \/ Go("idle") /\ Fail
     \/ Go("late") /\ Fail
  /\ UNCHANGED <<disk, mode, hotspot, reset, ghosts, cuts, resets>>

\* start_camera: the target comes up, or it does not, or it comes up although
\* the wait for it has ended (systemd stops the wizard's own unit first).
start_camera ==
  /\ InSetup("camera")
  /\ \/ Go("finalize") /\ NoError
     \/ Go("restart") /\ Fail
     \/ Go("late") /\ Fail
  /\ UNCHANGED <<disk, mode, hotspot, reset, ghosts, cuts, resets>>

_restart_hotspot ==
  /\ InSetup("restart")
  /\ \/ hotspot' = TRUE /\ NoError /\ UNCHANGED stranded
     \/ UNCHANGED hotspot /\ Fail /\ stranded' = TRUE
  /\ Go("idle")
  /\ UNCHANGED <<disk, mode, reset, finished, cuts, resets>>

\* The wizard's unit is stopped (its ExecStopPost stops the hotspot) and the
\* camera target is active.
HandOver(ok) ==
  /\ mode' = "camera" /\ hotspot' = FALSE
  /\ wizard' = NewWizard
  /\ finished' = ok
  /\ UNCHANGED stranded

\* One turn of the loop that ends at `running`, or the hand-over after it.
_finalize_provisioning ==
  /\ InSetup("finalize")
  /\ \/ Advances(TRUE) /\ advance("handover") /\ UNCHANGED <<mode, hotspot, ghosts>>
     \/ ~Advances(TRUE) /\ HandOver(TRUE) /\ UNCHANGED <<disk, errors>>
  /\ UNCHANGED <<reset, cuts, resets>>

\* The remaining ways into the camera: finalize gave up, or a late target, which
\* also ends the hotspot that finish has restarted meanwhile.
Handover ==
  /\ mode = "setup"
  /\ \/ wizard.at = "handover" /\ HandOver(TRUE)
     \/ wizard.at = "late" /\ HandOver(FALSE)
  /\ UNCHANGED <<disk, reset, bounds>>

(***************************************************************************)
(* The console of a claimed device                                         *)
(***************************************************************************)
\* enter_setup_mode writes the sentinel; the user reboots.
enter_setup_mode ==
  /\ mode = "camera" /\ reset = "idle" /\ ~sentinel
  /\ sentinel' = TRUE
  /\ UNCHANGED <<prov, files, tmp, backup, marker, deleted, mode, hotspot, wizard, reset, ghosts, bounds>>

Reboot ==
  /\ mode # "off" /\ wizard.at = "idle" /\ reset \in {"idle", "begun", "confirmed"}
  /\ mode' = "off" /\ hotspot' = FALSE
  /\ wizard' = NewWizard /\ reset' = "idle"
  /\ UNCHANGED <<disk, ghosts, bounds>>

\* The reset routes of the console, behind the password that secrets.toml holds; its
\* own begun and confirmed flags agree with the ones of the FactoryReset.
ResetRoutes ==
  \/ mode = "camera"
  \/ SetupResets /\ InSetup("idle") /\ ~_setup_available /\ "secrets" \in files

begin ==
  /\ ResetRoutes /\ reset \in {"idle", "begun", "confirmed"} /\ resets < MaxResets
  /\ reset' = "begun"
  /\ UNCHANGED <<disk, mode, hotspot, wizard, ghosts, bounds>>

confirm ==
  /\ ResetRoutes /\ reset = "begun"
  /\ reset' = "confirmed"
  /\ UNCHANGED <<disk, mode, hotspot, wizard, ghosts, bounds>>

Stored == files \cup (IF prov = "missing" THEN {} ELSE {"provisioning"})

\* execute consumes the confirmation and copies everything first; a copy that
\* fails is removed again and nothing is deleted.
_create_backup ==
  /\ ResetRoutes /\ reset = "confirmed"
  /\ resets' = resets + 1
  /\ \/ /\ reset' = "delete" /\ backup' = Stored /\ deleted' = {} /\ NoError
     \/ /\ reset' = "idle" /\ Fail /\ UNCHANGED <<backup, deleted>>
  /\ UNCHANGED <<prov, files, tmp, sentinel, marker, mode, hotspot, wizard, ghosts, cuts>>

\* The next file in the order is deleted; one that cannot be ends the reset.
_delete_targets ==
  /\ reset = "delete"
  /\ LET left == {i \in DOMAIN DeleteOrder : DeleteOrder[i] \in Stored}
         f == DeleteOrder[Min(left)]
     IN IF left = {}
        THEN reset' = "marker" /\ NoError /\ UNCHANGED <<prov, files, deleted>>
        ELSE \/ /\ deleted' = deleted \cup {f}
                /\ files' = files \ {f}
                /\ prov' = IF f = "provisioning" THEN "missing" ELSE prov
                /\ NoError /\ UNCHANGED reset
             \/ ResetBreaks /\ reset' = "idle" /\ Fail /\ UNCHANGED <<prov, files, deleted>>
  /\ UNCHANGED <<tmp, sentinel, backup, marker, mode, hotspot, wizard, ghosts, cuts, resets>>

_write_pending_deletion ==
  /\ reset = "marker"
  /\ \/ marker' = TRUE /\ NoError
     \/ UNCHANGED marker /\ Fail
  /\ reset' = "idle"
  /\ UNCHANGED <<prov, files, tmp, sentinel, backup, deleted, mode, hotspot, wizard, ghosts, cuts, resets>>

(***************************************************************************)
(* Power                                                                   *)
(***************************************************************************)
\* The file being written keeps its old content; its temporary copy may stay.
Writing ==
  CASE wizard.at = "save_device" -> {"device"}
    [] wizard.at = "save_secrets" -> {"secrets"}
    [] wizard.at \in {"advance", "finalize"} -> {"provisioning"}
    [] OTHER -> {}

PowerCut ==
  /\ mode # "off" /\ cuts < MaxCuts
  /\ ResetBreaks \/ reset # "delete"
  /\ cuts' = cuts + 1
  /\ mode' = "off" /\ hotspot' = FALSE
  /\ wizard' = NewWizard /\ reset' = "idle"
  /\ \/ tmp' = tmp \cup Writing
     \/ UNCHANGED tmp
  /\ UNCHANGED <<prov, files, sentinel, backup, marker, deleted, ghosts, resets, errors>>

WizardStep ==
  \/ save_device \/ save_secrets \/ _advance_provisioning \/ _activate_station
  \/ start_camera \/ _restart_hotspot \/ _finalize_provisioning \/ Handover

Next ==
  \/ Boot \/ submit \/ Persist \/ finish \/ WizardStep
  \/ enter_setup_mode \/ Reboot \/ begin \/ confirm
  \/ _create_backup \/ _delete_targets \/ _write_pending_deletion
  \/ PowerCut

Spec == Init /\ [][Next]_vars

\* The selector runs at every boot, and a request that was accepted is carried out.
FairSpec ==
  /\ Spec
  /\ WF_vars(Boot) /\ WF_vars(WizardStep)
  /\ WF_vars(_create_backup \/ _delete_targets \/ _write_pending_deletion)

(***************************************************************************)
(* Properties                                                              *)
(***************************************************************************)
\* The only type invariant of this module.
TypeOK ==
  /\ prov \in {Chain[i] : i \in DOMAIN Chain} \cup {"missing"}
  /\ files \subseteq {"device", "secrets"}
  /\ tmp \subseteq Files /\ backup \subseteq Files /\ deleted \subseteq Files
  /\ sentinel \in BOOLEAN /\ marker \in BOOLEAN /\ hotspot \in BOOLEAN
  /\ mode \in {"off", "setup", "camera"}
  /\ wizard.at \in {"idle", "save_device", "save_secrets", "advance", "station", "camera",
                    "restart", "finalize", "handover", "late"}
  /\ wizard.state \in {Chain[i] : i \in DOMAIN Chain} \cup {""}
  /\ reset \in {"idle", "begun", "confirmed", "delete", "marker"}
  /\ cuts \in 0..MaxCuts /\ resets \in 0..MaxResets /\ errors \in 0..MaxErrors

\* The camera runtime is never started on a card without a password and a valid
\* device document: "A missing or corrupt /data also boots into setup, never into
\* a half-working camera" (docs/user-guide.md).
CameraNeedsClaim == [][mode # "camera" /\ mode' = "camera" => Claimed']_vars

\* A device in setup mode with nothing in progress has its portal, unless
\* restarting the hotspot itself has failed: no failure of the station or of the
\* camera target strands it.
NotStranded == mode = "setup" /\ wizard.at = "idle" => hotspot \/ stranded

\* A claimable device "in any other state is inconsistent (stale/tampered)"
\* (app/admin_http.py, FINISH_WINDOW_STATES): a device in setup mode whose files
\* nobody touched serves the wizard.
SetupServesWizard == InSetup("idle") => _setup_available

\* A started finish ends with the camera, the portal, or a power cut.
FinishEnds ==
  (mode = "setup" /\ ~hotspot) ~> (mode # "setup" \/ hotspot \/ stranded)

\* "A reboot after this returns running and selects the camera runtime"
\* (_finalize_provisioning): a wizard that reported success is not asked for again.
FinishedBootsCamera == mode = "off" /\ finished /\ resets = 0 => load \in CAMERA_STATES

\* "boot_mode.py starts the setup hotspot ... when the pibuddycam-recovery sentinel
\* is on BOOT" (docs/architecture.md).
SentinelBootsSetup == [][mode = "off" /\ mode' = "camera" => ~sentinel]_vars

\* The reset "writes a dated backup first and removes it after the next successful
\* boot" (docs/user-guide.md).
BackupIsRemoved ==
  (marker /\ mode = "off" /\ load \in CAMERA_STATES /\ Claimed) ~> backup = {}
=============================================================================
