------------------------ MODULE ProvisioningProofs -------------------------
(***************************************************************************)
(* Proofs about the way from a flashed card to a camera and back, for any  *)
(* number of power cuts, resets and failing writes, commands and probes    *)
(* (Provisioning), and about the change of the network of a camera that    *)
(* runs, for any networks, changes and failures (an instance of            *)
(* NetworkFallback).                                                       *)
(***************************************************************************)
EXTENDS Provisioning, TLAPS

USE ProvisioningAssumption

States == {"factory", "storage_ready", "camera_validated", "unclaimed",
           "claimed", "configured", "running"}
Places == {"idle", "save_device", "save_secrets", "advance", "station", "camera",
           "restart", "finalize", "handover", "late"}
Steps == {"status", "wifi", "admin_password", "prusa_token"}
Wizard == [at : Places, done : SUBSET Steps,
           validated : BOOLEAN, token : BOOLEAN, persisted : BOOLEAN, state : States \cup {""}]

\* What the proofs need of the types.
Typed ==
  /\ prov \in States \cup {"missing"}
  /\ files \subseteq {"device", "secrets"}
  /\ mode \in {"off", "setup", "camera"}
  /\ wizard \in Wizard
  /\ reset \in {"idle", "begun", "confirmed", "delete", "marker"}
  /\ hotspot \in BOOLEAN /\ stranded \in BOOLEAN

\* The wizard only lives in setup mode.
WizardInSetup == mode # "setup" => wizard = NewWizard

\* From the moment finish has stopped the hotspot until it is back or the mode ends.
HandingOff == {"station", "camera", "restart", "finalize", "handover", "late"}
PortalOrHandOff == mode = "setup" => hotspot \/ stranded \/ wizard.at \in HandingOff

PortalInv == Typed /\ WizardInSetup /\ PortalOrHandOff

-----------------------------------------------------------------------------
\* The chain has seven states, and a state's index is its place.
LEMMA ChainIndex ==
  /\ DOMAIN Chain = 1..7
  /\ \A i \in 1..7 : Chain[i] \in States
  /\ \A s \in States : Index(s) \in 1..7
<1>1. DOMAIN Chain = 1..7 /\ \A i \in 1..7 : Chain[i] \in States
  BY DEF Chain, States
<1>2. \A s \in States : \E i \in 1..7 : Chain[i] = s
  BY DEF Chain, States
<1>3. \A s \in States : Index(s) \in 1..7
  BY <1>1, <1>2 DEF Index
<1> QED
  BY <1>1, <1>3

\* An advance that is due has a next state to go to.
LEMMA AdvanceTyped ==
  ASSUME Typed, NEW running \in BOOLEAN, Advances(running), NEW next \in Places, advance(next)
  PROVE  /\ prov' \in States \cup {"missing"}
         /\ wizard' \in Wizard
         /\ wizard'.persisted = wizard.persisted /\ wizard'.at \in {wizard.at, next}
<1>1. load \in States
  BY DEF Typed, load, States
<1>2. _milestone(wizard.validated, wizard.token, running) \in States
  BY DEF _milestone, States
<1>3. Chain[Index(load) + 1] \in States
  BY <1>1, <1>2, ChainIndex DEF Advances
<1> QED
  BY <1>1, <1>3 DEF advance, Typed, Wizard

-----------------------------------------------------------------------------
\* A flashed card has no files and is off.
LEMMA PortalInit == Init => PortalInv
<1> SUFFICES ASSUME Init PROVE PortalInv
  OBVIOUS
<1>1. wizard \in Wizard
  BY DEF Init, NewWizard, Wizard, Places
<1> QED
  BY <1>1 DEF Init, PortalInv, Typed, WizardInSetup, PortalOrHandOff

\* Every step keeps the portal or is on its way to the camera.
LEMMA PortalStep == PortalInv /\ [Next]_vars => PortalInv'
<1> SUFFICES ASSUME PortalInv, [Next]_vars PROVE PortalInv'
  OBVIOUS
<1> USE DEF PortalInv, PortalOrHandOff, WizardInSetup, HandingOff, Places
<1>0. NewWizard \in Wizard /\ NewWizard.at = "idle"
  BY DEF NewWizard, Wizard
<1>1. CASE Boot
  BY <1>1 DEF Boot, Typed, disk, bounds
<1>2. CASE submit
  <2>1. mode = "setup" /\ UNCHANGED <<disk, mode, hotspot, reset, ghosts>>
    BY <1>2 DEF submit, SetupRequest, InSetup
  <2>2. \/ \E ok \in BOOLEAN : wizard' = [wizard EXCEPT !.done = @ \cup {"status"}, !.validated = ok]
        \/ wizard' = [wizard EXCEPT !.done = @ \cup {"wifi"}]
        \/ wizard' = [wizard EXCEPT !.done = @ \cup {"admin_password"}]
        \/ \E later \in BOOLEAN :
             wizard' = [wizard EXCEPT !.done = @ \cup {"prusa_token"}, !.token = ~later]
    BY <1>2 DEF submit
  <2>3. wizard' \in Wizard /\ wizard'.at = wizard.at
    <3>1. ASSUME NEW ok \in BOOLEAN,
                 wizard' = [wizard EXCEPT !.done = @ \cup {"status"}, !.validated = ok]
          PROVE  wizard' \in Wizard /\ wizard'.at = wizard.at
      BY <3>1 DEF Typed, Wizard, Steps
    <3>2. ASSUME NEW x \in Steps, wizard' = [wizard EXCEPT !.done = @ \cup {x}]
          PROVE  wizard' \in Wizard /\ wizard'.at = wizard.at
      BY <3>2 DEF Typed, Wizard
    <3>3. ASSUME NEW later \in BOOLEAN,
                 wizard' = [wizard EXCEPT !.done = @ \cup {"prusa_token"}, !.token = ~later]
          PROVE  wizard' \in Wizard /\ wizard'.at = wizard.at
      BY <3>3 DEF Typed, Wizard, Steps
    <3> QED
      BY <2>2, <3>1, <3>2, <3>3 DEF Steps
  <2> QED
    BY <2>1, <2>3 DEF Typed, disk, ghosts
<1>3. CASE Persist
  BY <1>3 DEF Persist, SetupRequest, InSetup, Go, Typed, Wizard, disk, ghosts
<1>4. CASE finish
  <2>1. mode = "setup" /\ mode' = mode /\ UNCHANGED <<disk, reset, ghosts>>
    BY <1>4 DEF finish, SetupRequest, InSetup
  <2>2. \/ hotspot' = FALSE /\ Go("station")
        \/ UNCHANGED <<hotspot, wizard>>
    BY <1>4 DEF finish
  <2> QED
    BY <2>1, <2>2 DEF Go, Typed, Wizard, disk, ghosts
<1>5. CASE WizardStep
  <2>1. CASE save_device
    <3>1. mode = "setup" /\ wizard.at = "save_device" /\ UNCHANGED <<prov, mode, hotspot, reset, ghosts>>
      BY <2>1 DEF save_device, InSetup
    <3>2. files' \subseteq files \cup {"device", "secrets"}
      BY <2>1 DEF save_device
    <3>3. wizard' \in Wizard
      BY <2>1 DEF save_device, Go, Typed, Wizard
    <3> QED
      BY <3>1, <3>2, <3>3 DEF Typed, ghosts
  <2>2. CASE save_secrets
    <3>1. mode = "setup" /\ wizard.at = "save_secrets" /\ UNCHANGED <<prov, mode, hotspot, reset, ghosts>>
      BY <2>2 DEF save_secrets, InSetup
    <3>2. files' \subseteq files \cup {"device", "secrets"}
      BY <2>2 DEF save_secrets
    <3>3. wizard' \in Wizard
      BY <2>2 DEF save_secrets, Go, Typed, Wizard
    <3> QED
      BY <3>1, <3>2, <3>3 DEF Typed, ghosts
  <2>3. CASE _advance_provisioning
    <3>1. CASE Advances(FALSE) /\ advance("idle")
      <4>1. mode = "setup" /\ wizard.at = "advance" /\ UNCHANGED <<mode, hotspot, reset, ghosts, files>>
        BY <2>3, <3>1 DEF _advance_provisioning, InSetup, advance
      <4> QED
        BY <3>1, <4>1, AdvanceTyped DEF Typed, ghosts
    <3>2. CASE wizard' = [wizard EXCEPT !.at = "idle", !.state = load] /\ UNCHANGED disk
      <4>1. mode = "setup" /\ wizard.at = "advance" /\ UNCHANGED <<mode, hotspot, reset, ghosts>>
        BY <2>3 DEF _advance_provisioning, InSetup
      <4>2. load \in States
        BY DEF Typed, load, States
      <4> QED
        BY <3>2, <4>1, <4>2 DEF Typed, Wizard, disk, ghosts
    <3> QED
      BY <2>3, <3>1, <3>2 DEF _advance_provisioning
  <2>4. CASE _activate_station
    BY <2>4 DEF _activate_station, InSetup, Go, Typed, Wizard, disk, ghosts
  <2>5. CASE start_camera
    <3>1. mode = "setup" /\ UNCHANGED <<disk, mode, hotspot, reset, ghosts>>
      BY <2>5 DEF start_camera, InSetup
    <3>2. \E l \in {"finalize", "restart", "late"} : wizard' = [wizard EXCEPT !.at = l]
      BY <2>5 DEF start_camera, Go
    <3>3. wizard' \in Wizard /\ wizard'.at \in {"finalize", "restart", "late"}
      BY <3>2 DEF Typed, Wizard, Places
    <3> QED
      BY <3>1, <3>3 DEF Typed, disk, ghosts
  <2>6. CASE _restart_hotspot
    BY <2>6 DEF _restart_hotspot, InSetup, Go, Typed, Wizard, disk
  <2>7. CASE _finalize_provisioning
    <3>1. CASE Advances(TRUE) /\ advance("handover") /\ UNCHANGED <<mode, hotspot, ghosts>>
      <4>1. mode = "setup" /\ wizard.at = "finalize" /\ UNCHANGED <<reset, files>>
        BY <2>7, <3>1 DEF _finalize_provisioning, InSetup, advance
      <4> QED
        BY <3>1, <4>1, AdvanceTyped DEF Typed, ghosts
    <3>2. CASE HandOver(TRUE) /\ UNCHANGED disk
      BY <1>0, <2>7, <3>2 DEF _finalize_provisioning, HandOver, Typed, disk
    <3> QED
      BY <2>7, <3>1, <3>2 DEF _finalize_provisioning
  <2>8. CASE Handover
    BY <1>0, <2>8 DEF Handover, HandOver, Typed, disk
  <2> QED
    BY <1>5, <2>1, <2>2, <2>3, <2>4, <2>5, <2>6, <2>7, <2>8 DEF WizardStep
<1>6. CASE enter_setup_mode
  BY <1>6 DEF enter_setup_mode, Typed, ghosts
<1>7. CASE Reboot
  BY <1>0, <1>7 DEF Reboot, Typed, disk, ghosts
<1>8. CASE begin \/ confirm
  BY <1>8 DEF begin, confirm, Typed, disk, ghosts
<1>9. CASE _create_backup
  BY <1>9 DEF _create_backup, Typed, ghosts
<1>10. CASE _delete_targets
  <2>1. UNCHANGED <<mode, hotspot, wizard, ghosts>>
    BY <1>10 DEF _delete_targets
  <2>2. prov' \in {prov, "missing"} /\ files' \subseteq files /\ reset' \in {reset, "marker", "idle"}
    BY <1>10 DEF _delete_targets
  <2> QED
    BY <2>1, <2>2 DEF Typed, ghosts
<1>11. CASE _write_pending_deletion
  BY <1>11 DEF _write_pending_deletion, Typed, ghosts
<1>12. CASE PowerCut
  BY <1>0, <1>12 DEF PowerCut, Typed, ghosts
<1>13. CASE UNCHANGED vars
  BY <1>13 DEF vars, Typed, disk, ghosts
<1> QED
  BY <1>1, <1>2, <1>3, <1>4, <1>5, <1>6, <1>7, <1>8, <1>9, <1>10, <1>11, <1>12, <1>13 DEF Next

\* A device in setup mode with nothing in progress has its portal, unless restarting the
\* hotspot has failed: every way out of finish (setup_wizard.py) that does not reach the
\* camera goes through _restart_hotspot.
THEOREM PortalReturns == Spec => []NotStranded
<1>1. PortalInv => NotStranded
  BY DEF PortalInv, PortalOrHandOff, HandingOff, NotStranded
<1> QED
  BY <1>1, PortalInit, PortalStep, PTL DEF Spec

-----------------------------------------------------------------------------
\* A reset is only under way while the camera runs.
ResetInCamera == reset # "idle" => mode = "camera"

\* Outside the deletion itself, a state that boots the camera comes with both files.
StateNeedsFiles == reset # "delete" /\ prov \in CAMERA_STATES => Claimed

\* What the wizard has persisted is on the card, and only then does it go on.
PersistedIsStored ==
  /\ wizard.persisted => Claimed
  /\ wizard.at \in HandingOff \cup {"advance"} => wizard.persisted
  /\ wizard.at = "save_secrets" => "device" \in files

ClaimInv == PortalInv /\ ResetInCamera /\ StateNeedsFiles /\ PersistedIsStored

\* Nothing is claimed on a flashed card.
LEMMA ClaimInit == Init => ClaimInv
<1> SUFFICES ASSUME Init PROVE ClaimInv
  OBVIOUS
<1>1. wizard.at = "idle" /\ wizard.persisted = FALSE
  BY DEF Init, NewWizard
<1> QED
  BY <1>1, PortalInit
     DEF Init, ClaimInv, ResetInCamera, StateNeedsFiles, PersistedIsStored, CAMERA_STATES, HandingOff

\* The claim survives every step, when no reset ends half way or starts in setup mode.
LEMMA ClaimStep ==
  ASSUME ResetBreaks = FALSE, SetupResets = FALSE, ClaimInv, [Next]_vars
  PROVE  ClaimInv'
<1>0. PortalInv'
  BY PortalStep DEF ClaimInv
<1>a. Typed /\ WizardInSetup
  BY DEF ClaimInv, PortalInv
<1> USE DEF ClaimInv, ResetInCamera, StateNeedsFiles, PersistedIsStored, Claimed, HandingOff
<1>b. NewWizard.at = "idle" /\ NewWizard.persisted = FALSE
  BY DEF NewWizard
<1>1. CASE Boot
  BY <1>0, <1>1 DEF Boot, disk
<1>2. CASE submit
  <2>1. wizard'.at = wizard.at /\ wizard'.persisted = wizard.persisted
    BY <1>2, <1>a DEF submit, Typed, Wizard
  <2> QED
    BY <1>0, <1>2, <2>1 DEF submit, disk
<1>3. CASE Persist
  BY <1>0, <1>3, <1>a DEF Persist, Go, Typed, Wizard, disk
<1>4. CASE finish
  <2>1. wizard.persisted /\ UNCHANGED <<disk, mode, reset>>
    BY <1>4 DEF finish
  <2>2. Go("station") \/ UNCHANGED wizard
    BY <1>4 DEF finish
  <2> QED
    BY <1>0, <1>a, <2>1, <2>2 DEF Go, Typed, Wizard, disk
<1>5. CASE WizardStep
  <2>1. CASE save_device
    <3>1. mode = "setup" /\ wizard.at = "save_device" /\ UNCHANGED <<prov, mode, reset>>
      BY <2>1 DEF save_device, InSetup
    <3>2. \/ files' = files \cup {"device"} /\ Go("save_secrets")
          \/ UNCHANGED files /\ Go("idle")
      BY <2>1 DEF save_device
    <3> QED
      BY <1>0, <1>a, <3>1, <3>2 DEF Go, Typed, Wizard
  <2>2. CASE save_secrets
    <3>1. mode = "setup" /\ wizard.at = "save_secrets" /\ UNCHANGED <<prov, mode, reset>>
      BY <2>2 DEF save_secrets, InSetup
    <3>2. \/ /\ files' = files \cup {"secrets"}
             /\ wizard' = [wizard EXCEPT !.at = "advance", !.persisted = TRUE]
          \/ UNCHANGED files /\ Go("idle")
      BY <2>2 DEF save_secrets
    <3>3. files \cup {"secrets"} = {"device", "secrets"}
      BY <1>a, <3>1 DEF Typed
    <3>4. \/ files' = {"device", "secrets"} /\ wizard'.at = "advance" /\ wizard'.persisted
          \/ files' = files /\ wizard'.at = "idle" /\ wizard'.persisted = wizard.persisted
      BY <1>a, <3>2, <3>3 DEF Go, Typed, Wizard
    <3> QED
      BY <1>0, <3>1, <3>4
  <2>3. CASE _advance_provisioning
    <3>1. wizard.persisted /\ UNCHANGED <<files, mode, reset>>
      BY <2>3 DEF _advance_provisioning, InSetup, advance, disk
    <3>2. wizard'.persisted = wizard.persisted /\ wizard'.at \in {"advance", "idle"}
      BY <1>a, <2>3 DEF _advance_provisioning, InSetup, advance, Typed, Wizard
    <3> QED
      BY <1>0, <3>1, <3>2
  <2>4. CASE _activate_station
    BY <1>0, <1>a, <2>4 DEF _activate_station, InSetup, Go, Typed, Wizard, disk
  <2>5. CASE start_camera
    BY <1>0, <1>a, <2>5 DEF start_camera, InSetup, Go, Typed, Wizard, disk
  <2>6. CASE _restart_hotspot
    BY <1>0, <1>a, <2>6 DEF _restart_hotspot, InSetup, Go, Typed, Wizard, disk
  <2>7. CASE _finalize_provisioning
    <3>1. mode = "setup" /\ wizard.persisted /\ UNCHANGED <<files, reset>>
      BY <2>7 DEF _finalize_provisioning, InSetup, advance, disk
    <3>2. CASE advance("handover") /\ UNCHANGED mode
      <4>1. wizard'.persisted = wizard.persisted /\ wizard'.at \in {wizard.at, "handover"}
        BY <1>a, <3>2 DEF advance, Typed, Wizard
      <4> QED
        BY <1>0, <3>1, <3>2, <4>1
    <3>3. CASE HandOver(TRUE)
      BY <1>0, <1>b, <3>1, <3>3 DEF HandOver
    <3> QED
      BY <2>7, <3>2, <3>3 DEF _finalize_provisioning
  <2>8. CASE Handover
    BY <1>0, <1>b, <2>8 DEF Handover, HandOver, disk
  <2> QED
    BY <1>5, <2>1, <2>2, <2>3, <2>4, <2>5, <2>6, <2>7, <2>8 DEF WizardStep
<1>6. CASE enter_setup_mode
  BY <1>0, <1>6 DEF enter_setup_mode
<1>7. CASE Reboot
  BY <1>0, <1>b, <1>7 DEF Reboot, disk
<1>8. CASE begin \/ confirm
  BY <1>0, <1>8 DEF begin, confirm, ResetRoutes, disk
<1>9. CASE _create_backup
  BY <1>0, <1>9 DEF _create_backup, ResetRoutes
<1>10. CASE _delete_targets
  <2>1. reset = "delete" /\ wizard = NewWizard /\ UNCHANGED <<mode, wizard>>
    BY <1>10, <1>a DEF _delete_targets, WizardInSetup
  <2>2. CASE reset' = reset
    BY <1>0, <1>b, <2>1, <2>2
  <2>3. CASE {i \in DOMAIN DeleteOrder : DeleteOrder[i] \in Stored} = {} /\ reset' = "marker"
             /\ UNCHANGED prov
    <3>1. 3 \in DOMAIN DeleteOrder /\ DeleteOrder[3] = "provisioning"
      BY DEF DeleteOrder
    <3>2. prov = "missing"
      BY <2>3, <3>1 DEF Stored
    <3> QED
      BY <1>0, <1>b, <2>1, <2>3, <3>2 DEF CAMERA_STATES
  <2> QED
    BY <1>10, <2>2, <2>3 DEF _delete_targets
<1>11. CASE _write_pending_deletion
  BY <1>0, <1>11 DEF _write_pending_deletion
<1>12. CASE PowerCut
  BY <1>0, <1>b, <1>12 DEF PowerCut
<1>13. CASE UNCHANGED vars
  BY <1>0, <1>13 DEF vars, disk
<1> QED
  BY <1>1, <1>2, <1>3, <1>4, <1>5, <1>6, <1>7, <1>8, <1>9, <1>10, <1>11, <1>12, <1>13 DEF Next

\* Only the boot selector and the end of the wizard start the camera.
LEMMA StartsClaimed ==
  ASSUME ClaimInv, [Next]_vars, mode # "camera", mode' = "camera"
  PROVE  Claimed'
<1>1. CASE Boot
  <2>1. prov \in CAMERA_STATES /\ reset # "delete" /\ UNCHANGED files
    BY <1>1 DEF Boot, load, CAMERA_STATES, ClaimInv, ResetInCamera, disk
  <2> QED
    BY <2>1 DEF ClaimInv, StateNeedsFiles, Claimed
<1>2. CASE _finalize_provisioning \/ Handover
  <2>1. wizard.persisted /\ UNCHANGED files
    BY <1>2 DEF _finalize_provisioning, Handover, InSetup, advance, disk, ClaimInv,
                PersistedIsStored, HandingOff
  <2> QED
    BY <2>1 DEF ClaimInv, PersistedIsStored, Claimed
<1>3. CASE UNCHANGED mode \/ mode' = "off"
  BY <1>3
<1>4. CASE WizardStep
  BY <1>2, <1>3, <1>4 DEF WizardStep, save_device, save_secrets, _advance_provisioning,
     _activate_station, start_camera, _restart_hotspot
<1> QED
  BY <1>1, <1>3, <1>4 DEF Next, vars, submit, Persist, finish, enter_setup_mode, Reboot, begin,
     confirm, _create_backup, _delete_targets, _write_pending_deletion, PowerCut

\* Neither the boot selector (boot_mode.py) nor the hand-over of the wizard starts the camera
\* on a card without a password and a device document, whatever writes fail and wherever the
\* power is cut outside a reset's deletion.
THEOREM CameraIsClaimed ==
  ASSUME ResetBreaks = FALSE, SetupResets = FALSE
  PROVE  Spec => CameraNeedsClaim
<1>1. ClaimInv /\ [Next]_vars => [mode # "camera" /\ mode' = "camera" => Claimed']_vars
  BY StartsClaimed
<1>2. ClaimInv /\ [Next]_vars => ClaimInv'
  BY ClaimStep
<1> QED
  BY <1>1, <1>2, ClaimInit, PTL DEF Spec, CameraNeedsClaim

-----------------------------------------------------------------------------
(* The claimed camera: a network change and its way back *)

CONSTANTS Nets, Home, NoNet, Threshold, RetryAfter, StaleAfter, UnitMinutes, MaxFlips,
          MaxRequests, MaxNetFails
VARIABLES n_works, n_wlan, n_auto, n_profile, n_result, n_request, n_unit, n_due, n_wd, n_state,
          n_pending, n_saved, n_applied, n_outage, n_flips, n_requests, n_fails

Net == INSTANCE NetworkFallback WITH
    None <- NoNet, Stale <- StaleAfter, MaxFails <- MaxNetFails,
    works <- n_works, wlan <- n_wlan, auto <- n_auto, profile <- n_profile, result <- n_result,
    request <- n_request, unit <- n_unit, due <- n_due, wd <- n_wd, state <- n_state,
    pending <- n_pending, saved <- n_saved, applied <- n_applied, outage <- n_outage,
    flips <- n_flips, requests <- n_requests, fails <- n_fails

\* While the unit waits for the restored connection, the profile is its snapshot: _restore wrote
\* it, and nobody else writes the profile while the unit runs.
RevertInv ==
  /\ DOMAIN n_unit = {"at", "target", "snapshot"}
  /\ n_unit = [at |-> n_unit.at, target |-> n_unit.target, snapshot |-> n_unit.snapshot]
  /\ n_unit.at = "rewait" => n_profile = n_unit.snapshot

\* A step of the unit to the place l.
LEMMA GoKeeps ==
  ASSUME RevertInv, NEW l, n_unit' = [n_unit EXCEPT !.at = l],
         l = "rewait" => n_profile' = n_unit.snapshot
  PROVE  RevertInv'
BY DEF RevertInv

\* The unit ends.
LEMMA IdleKeeps == ASSUME n_unit' = Net!IdleUnit PROVE RevertInv'
BY DEF RevertInv, Net!IdleUnit

\* network_apply.run: each step of the unit.
LEMMA UnitKeeps == ASSUME RevertInv, Net!UnitStep PROVE RevertInv'
<1>1. CASE Net!read_request
  BY <1>1 DEF Net!read_request, RevertInv
<1>2. CASE Net!station_apply
  <2>1. PICK l \in {"wait", "restore"} : n_unit' = [n_unit EXCEPT !.at = l]
    BY <1>2 DEF Net!station_apply, Net!Go
  <2> QED
    BY <2>1, GoKeeps
<1>3. CASE Net!wait_healthy
  <2>1. n_unit' = Net!IdleUnit \/ n_unit' = [n_unit EXCEPT !.at = "restore"]
    BY <1>3 DEF Net!wait_healthy, Net!Go
  <2> QED
    BY <2>1, GoKeeps, IdleKeeps
<1>4. CASE Net!_restore
  <2>1. \/ n_profile' = n_unit.snapshot /\ n_unit' = [n_unit EXCEPT !.at = "rewait"]
        \/ n_unit' = [n_unit EXCEPT !.at = "hotspot"]
    BY <1>4 DEF Net!_restore, Net!Go
  <2> QED
    BY <2>1, GoKeeps
<1>5. CASE Net!Rewait
  <2>1. n_unit' = Net!IdleUnit \/ n_unit' = [n_unit EXCEPT !.at = "hotspot"]
    BY <1>5 DEF Net!Rewait, Net!Go
  <2> QED
    BY <2>1, GoKeeps, IdleKeeps
<1>6. CASE Net!_start_hotspot
  BY <1>6, IdleKeeps DEF Net!_start_hotspot
<1> QED
  BY <1>1, <1>2, <1>3, <1>4, <1>5, <1>6 DEF Net!UnitStep

\* network_apply.py: a change that ends as reverted leaves the station profile it found, unless
\* putting the snapshot back has itself failed, whatever the watchdog, the console and the
\* networks do meanwhile.
THEOREM RevertRestores == Net!Spec => Net!RevertedKeepsProfile
<1>1. Net!Init => RevertInv
  <2>1. Net!Init => n_unit = Net!IdleUnit
    BY Zenon DEF Net!Init
  <2> QED
    BY <2>1 DEF RevertInv, Net!IdleUnit
<1>2. RevertInv /\ [Net!Next]_(Net!vars) => RevertInv'
  <2> SUFFICES ASSUME RevertInv, [Net!Next]_(Net!vars) PROVE RevertInv'
    OBVIOUS
  <2>1. ASSUME UNCHANGED <<n_unit, n_profile>> PROVE RevertInv'
    BY <2>1 DEF RevertInv
  <2>2. CASE Net!Flip \/ Net!Reconnect \/ Net!Tick
    BY <2>1, <2>2, Zenon DEF Net!Flip, Net!Reconnect, Net!Tick
  <2>3. CASE Net!apply \/ Net!_finalize \/ Net!AdminRestart
    BY <2>1, <2>3, Zenon DEF Net!apply, Net!_finalize, Net!AdminRestart
  <2>4. CASE Net!UnitStep
    BY <2>4, UnitKeeps
  <2>5. CASE Net!UnitKilled
    BY <2>5, IdleKeeps DEF Net!UnitKilled
  <2>6. CASE Net!tick \/ Net!WatchdogStep
    BY <2>1, <2>6, Zenon DEF Net!tick, Net!WatchdogStep, Net!Judge, Net!StartHotspot,
         Net!_retry_station, Net!RetryEnds
  <2>7. CASE UNCHANGED Net!vars
    BY <2>1, <2>7 DEF Net!vars
  <2> QED
    BY <2>2, <2>3, <2>4, <2>5, <2>6, <2>7, Zenon DEF Net!Next
<1>3. RevertInv /\ [Net!Next]_(Net!vars) =>
        [n_unit.at = "rewait" /\ n_unit'.at = "idle" /\ n_result' # n_result
           => n_profile' = n_unit.snapshot]_(Net!vars)
  <2> SUFFICES ASSUME RevertInv, Net!Next, n_unit.at = "rewait"
               PROVE  n_profile' = n_unit.snapshot
    BY Zenon
  <2>1. n_profile' = n_profile \/ Net!station_apply \/ Net!_restore
    BY Zenon DEF Net!Next, Net!Flip, Net!Reconnect, Net!Tick, Net!apply, Net!_finalize,
         Net!AdminRestart, Net!UnitStep, Net!read_request, Net!wait_healthy, Net!Rewait,
         Net!_start_hotspot, Net!UnitKilled, Net!tick, Net!WatchdogStep, Net!Judge,
         Net!StartHotspot, Net!_retry_station, Net!RetryEnds
  <2>2. ~Net!station_apply /\ ~Net!_restore
    BY DEF Net!station_apply, Net!_restore, Net!At
  <2> QED
    BY <2>1, <2>2 DEF RevertInv
<1> QED
  BY <1>1, <1>2, <1>3, PTL DEF Net!Spec, Net!RevertedKeepsProfile
=============================================================================
