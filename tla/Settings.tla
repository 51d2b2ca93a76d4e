------------------------------- MODULE Settings -------------------------------
(***************************************************************************)
(* The durable settings of the camera (app/settings_coordinator.py): one   *)
(* object through which Prusa Connect, the web console and MQTT change the *)
(* shared CameraState, move the camera pipeline and the RTSP and WebRTC    *)
(* services, and write state.json.                                         *)
(*                                                                         *)
(* A setting lives in up to four places: the runtime's memory, state.json  *)
(* on the durable partition, the environment files under /etc/pibuddycam   *)
(* (an overlay, lost at power off, rebuilt from state.json by pi-persist), *)
(* and what the units were last started with.  The runtime may restart     *)
(* alone, the source may restart alone, and power may be cut.              *)
(*                                                                         *)
(* Every mutation runs to its end on the runtime's one event loop, so it   *)
(* is one action.  The settings that are only stored (camera name,         *)
(* snapshot and timelapse intervals and switches, the frame rate) behave   *)
(* alike and are represented by "plain".                                   *)
(***************************************************************************)
EXTENDS Integers, FiniteSets

CONSTANTS
    Pins,        \* the BCM pins offered for the GPIO trigger (gpio_pins.py)
    None,        \* an absent file, an unset pin
    Faults,      \* the calls that may fail: "denied" (the privileged restart
                 \* refuses), "env" (quality.env cannot be written), "save"
                 \* (state.json cannot), "rtsp" and "webrtc" (service calls)
    LiveOnly,    \* Prusa Connect sends the change_video_size events, which
                 \* are applied but not persisted
    Crashes,     \* the runtime may restart without a reboot
    MaxChanges, MaxCuts

Tiers == 1..3                  \* SD, HD, FHD (quality.RESOLUTIONS)
Rotations == {0, 180}          \* two of the four
Plain == {"a", "b"}
RtspDisabled == 1
RtspEnabled == 2

VARIABLES
    phase,       \* "off", "boot" (units started, runtime not yet), "up"
    settings,    \* CameraState: the fields of persistable_state()
    running,     \* CameraState.rtsp_running
    status,      \* CameraState.webrtc_status
    turn,        \* CameraState.turn_online
    saved,       \* state.json
    env,         \* quality.env, quality.live.env, rotation.env, rtsp.mode
    source,      \* the tier and the rotation rpicam-source runs with
    service,     \* pibuddycam-rtsp.service is active
    asked,       \* ghost: the settings that were accepted as durable
    last,        \* ghost: the outcome of the last mutation
    changes, cuts

ram == <<settings, running, status, turn>>
vars == <<phase, ram, saved, env, source, service, asked, last, changes, cuts>>

Setting == [quality: Tiers, rotation: Rotations, plain: Plain,
            trigger: {"interval", "gpio"}, pin: Pins \cup {None},
            record: Pins \cup {None}, rtsp: {RtspDisabled, RtspEnabled},
            webrtc: {0, 1}]

(* CameraState() as constructed, with the seeds main() reads before restore *)
Defaults == [quality |-> 3, rotation |-> 0, plain |-> "a",
             trigger |-> "interval", pin |-> None, record |-> None,
             rtsp |-> RtspEnabled, webrtc |-> 1]

NoFiles == [boot |-> None, live |-> None, rotation |-> None, mode |-> None]

-----------------------------------------------------------------------------
(* The environment files *)

Or(file, default) == IF file = None THEN default ELSE file

(* quality.read_current: the live override first, then the persisted tier;
   the source unit reads its environment files in the same precedence *)
read_current(e) == Or(e.live, Or(e.boot, Defaults.quality))

read_rotation(e) == Or(e.rotation, Defaults.rotation)

SourceOf(e) == [tier |-> read_current(e), rotation |-> read_rotation(e)]

(* Mutant: a failed live change is not undone. *)
RestoreNothing(e, previous) == e

(* quality.restore_live: the undo of a live change that failed *)
restore_live(e, previous) == [e EXCEPT !.live = previous]

(* persist_restore._restore_settings: pi-persist rebuilds the files *)
_restore_settings(e, data) ==
    IF data = None THEN e
    ELSE [e EXCEPT !.boot = data.quality, !.rotation = data.rotation,
                   !.mode = data.rtsp]

-----------------------------------------------------------------------------
(* CameraState.set_timelapse_*: what the GPIO trigger accepts *)

set_timelapse_trigger(s, trigger) == trigger = "gpio" => s.pin # None

set_timelapse_gpio_pin(s, pin) ==
    IF pin = None THEN s.trigger # "gpio" ELSE pin # s.record

set_timelapse_gpio_record_pin(s, pin) == pin = None \/ pin # s.pin

(* Mutant: the trigger is restored before its pin. *)
PersistedTriggerFirst(s, data) ==
    IF data = None THEN s
    ELSE [data EXCEPT !.trigger =
             IF set_timelapse_trigger(s, data.trigger) THEN data.trigger
             ELSE s.trigger]

(* CameraState.apply_persisted: pins first, then the trigger, each through
   its setter; the rest is taken as stored *)
apply_persisted(s, data) ==
    IF data = None THEN s
    ELSE LET p == IF data.pin # None /\ set_timelapse_gpio_pin(s, data.pin)
                  THEN [s EXCEPT !.pin = data.pin] ELSE s
             r == IF data.record # None
                     /\ set_timelapse_gpio_record_pin(p, data.record)
                  THEN [p EXCEPT !.record = data.record] ELSE p
             t == IF set_timelapse_trigger(r, data.trigger)
                  THEN [r EXCEPT !.trigger = data.trigger] ELSE r
         IN [t EXCEPT !.quality = data.quality, !.rotation = data.rotation,
                      !.plain = data.plain, !.rtsp = data.rtsp,
                      !.webrtc = data.webrtc]

(* webrtc_control.offer_allowed: refused only when mode and status are 0 *)
offer_allowed == ~(settings.webrtc = 0 /\ status = 0)

-----------------------------------------------------------------------------
Init ==
    /\ phase = "off"
    /\ settings = Defaults /\ running = FALSE /\ status = 1 /\ turn = FALSE
    /\ saved = None
    /\ env = NoFiles
    /\ source = SourceOf(NoFiles)
    /\ service = FALSE
    /\ asked = Defaults
    /\ last = "none"
    /\ changes = 0 /\ cuts = 0

(* Power on: pi-persist runs before the camera units, then the source starts
   with its files and the RTSP unit, which is enabled, starts *)
PowerOn ==
    /\ phase = "off"
    /\ phase' = "boot"
    /\ env' = _restore_settings(env, saved)
    /\ source' = SourceOf(env')
    /\ service' = TRUE
    /\ UNCHANGED <<ram, saved, asked, last, changes, cuts>>

(* rtsp_control.apply_mode's service call, which may fail and is ignored *)
CommandService(mode) ==
    \/ service' = (mode = RtspEnabled)
    \/ "rtsp" \in Faults /\ UNCHANGED service

(* main(): the seeds from the files, the RTSP unit reconciled with rtsp.mode,
   then state.json overlaid through the coordinator *)
RuntimeStart ==
    /\ phase = "boot"
    /\ phase' = "up"
    /\ LET mode == Or(env.mode, Defaults.rtsp) IN
        /\ CommandService(mode)
        /\ settings' = apply_persisted(
              [Defaults EXCEPT !.quality = read_current(env),
                               !.rotation = read_rotation(env),
                               !.rtsp = mode], saved)
        /\ running' = service'
    /\ status' = 1 /\ turn' = FALSE
    /\ UNCHANGED <<saved, env, source, asked, last, changes, cuts>>

-----------------------------------------------------------------------------
(* The outcome of a mutation *)

Mutation == phase = "up" /\ changes < MaxChanges /\ changes' = changes + 1

(* SettingsCoordinator._commit: write state.json, whose failure is ignored,
   publish, and report success *)
_commit(new, what) ==
    /\ settings' = new
    /\ \/ saved' = new
       \/ "save" \in Faults /\ UNCHANGED saved
    /\ asked' = [asked EXCEPT ![what] = new[what]]
    /\ last' = "ok"

_rejected == last' = "rejected" /\ UNCHANGED <<saved, asked>>

(* quality.quality_change_allowed: no raise while a relay viewer is online *)
quality_change_allowed(tier) == turn => tier <= settings.quality

(* set_quality through handle_quality and apply_live_quality: the live file,
   the pipeline restart and its undo, then quality.env and state.json when
   the change is to be persisted *)
set_quality(tier, persist) ==
    /\ Mutation
    /\ persist \/ LiveOnly
    /\ LET written == [env EXCEPT !.live = tier] IN
       \/ /\ ~quality_change_allowed(tier)
          /\ _rejected
          /\ UNCHANGED <<settings, env, source>>
       \/ /\ quality_change_allowed(tier) /\ "denied" \in Faults
          /\ env' = restore_live(written, env.live)
          /\ _rejected
          /\ UNCHANGED <<settings, source>>
       \/ /\ quality_change_allowed(tier)
          /\ source' = SourceOf(written)
          /\ \/ /\ persist
                /\ env' = [written EXCEPT !.boot = tier]
                /\ _commit([settings EXCEPT !.quality = tier], "quality")
             \/ /\ persist /\ "env" \in Faults
                /\ env' = written
                /\ settings' = [settings EXCEPT !.quality = tier]
                /\ _rejected
             \/ /\ ~persist
                /\ env' = written
                /\ settings' = [settings EXCEPT !.quality = tier]
                /\ last' = "ok"
                /\ UNCHANGED <<saved, asked>>
    /\ UNCHANGED <<phase, running, status, turn, service, cuts>>

(* set_rotation through rotation.apply *)
set_rotation(degrees) ==
    /\ Mutation
    /\ \/ /\ env' = [env EXCEPT !.rotation = degrees]
          /\ source' = SourceOf(env')
          /\ _commit([settings EXCEPT !.rotation = degrees], "rotation")
       \/ /\ "denied" \in Faults
          /\ _rejected
          /\ UNCHANGED <<settings, env, source>>
    /\ UNCHANGED <<phase, running, status, turn, service, cuts>>

(* the setters that only validate, store and commit; a value out of range is
   rejected before anything changes *)
set_plain(value) ==
    /\ Mutation
    /\ _commit([settings EXCEPT !.plain = value], "plain")
    /\ UNCHANGED <<phase, running, status, turn, env, source, service, cuts>>

(* set_timelapse_trigger, set_timelapse_gpio_pin and _record_pin *)
SetGpio(what, value) ==
    /\ Mutation
    /\ LET ok == CASE what = "trigger" -> set_timelapse_trigger(settings, value)
                   [] what = "pin" -> set_timelapse_gpio_pin(settings, value)
                   [] what = "record" ->
                        set_timelapse_gpio_record_pin(settings, value)
       IN \/ ok /\ _commit([settings EXCEPT ![what] = value], what)
          \/ ~ok /\ _rejected /\ UNCHANGED settings
    /\ UNCHANGED <<phase, running, status, turn, env, source, service, cuts>>

(* set_rtsp_mode through rtsp_control.apply_mode: it always succeeds *)
set_rtsp_mode(mode) ==
    /\ Mutation
    /\ CommandService(mode)
    /\ env' = [env EXCEPT !.mode = mode]
    /\ running' = service'
    /\ _commit([settings EXCEPT !.rtsp = mode], "rtsp")
    /\ UNCHANGED <<phase, status, turn, source, cuts>>

(* set_webrtc_mode through webrtc_control.apply_mode: a service call that
   fails, when the status has to move, aborts the change.  Stopping the
   service tears the peer down, which clears the relay flag. *)
set_webrtc_mode(mode) ==
    /\ Mutation
    /\ \/ /\ status' = mode
          /\ turn' = (turn /\ mode = 1)
          /\ _commit([settings EXCEPT !.webrtc = mode], "webrtc")
       \/ /\ status # mode /\ "webrtc" \in Faults
          /\ _rejected
          /\ UNCHANGED <<settings, status, turn>>
    /\ UNCHANGED <<phase, running, env, source, service, cuts>>

(* The configuration event's paired rule: "webrtc on" also disables RTSP.
   Two coordinator calls, each with its own save. *)
ConfigWebrtcOn ==
    LET first == [settings EXCEPT !.webrtc = 1]
        both == [first EXCEPT !.rtsp = RtspDisabled]
    IN /\ Mutation
       /\ settings.rtsp # RtspDisabled
       /\ status' = 1
       /\ CommandService(RtspDisabled)
       /\ running' = service'
       /\ env' = [env EXCEPT !.mode = RtspDisabled]
       /\ settings' = both
       /\ \/ saved' = both
          \/ "save" \in Faults /\ saved' \in {first, saved}
       /\ asked' = [asked EXCEPT !.webrtc = 1, !.rtsp = RtspDisabled]
       /\ last' = "ok"
       /\ UNCHANGED <<phase, turn, source, cuts>>

(* a viewer's relay candidate, and the end of that viewer's stream *)
Relay ==
    /\ phase = "up"
    /\ turn' = ~turn
    /\ (turn' => status = 1)
    /\ UNCHANGED <<phase, settings, running, status, saved, env, source,
                   service, asked, last, changes, cuts>>

-----------------------------------------------------------------------------
(* rpicam-source dies and systemd starts it again with the files as they are *)
SourceRestart ==
    /\ phase # "off"
    /\ source' = SourceOf(env)
    /\ UNCHANGED <<phase, ram, saved, env, service, asked, last, changes, cuts>>

(* the runtime alone restarts: an update, a token change, a crash *)
RuntimeCrash ==
    /\ Crashes /\ phase = "up" /\ cuts < MaxCuts
    /\ phase' = "boot" /\ cuts' = cuts + 1
    /\ UNCHANGED <<ram, saved, env, source, service, asked, last, changes>>

PowerCut ==
    /\ phase # "off" /\ cuts < MaxCuts
    /\ phase' = "off" /\ cuts' = cuts + 1
    /\ env' = NoFiles
    /\ service' = FALSE
    /\ UNCHANGED <<ram, saved, source, asked, last, changes>>

Next ==
    \/ PowerOn \/ RuntimeStart \/ SourceRestart \/ RuntimeCrash \/ PowerCut
    \/ Relay \/ ConfigWebrtcOn
    \/ \E t \in Tiers, p \in BOOLEAN : set_quality(t, p)
    \/ \E d \in Rotations : set_rotation(d)
    \/ \E v \in Plain : set_plain(v)
    \/ \E t \in {"interval", "gpio"} : SetGpio("trigger", t)
    \/ \E p \in Pins \cup {None}, w \in {"pin", "record"} : SetGpio(w, p)
    \/ \E m \in {RtspDisabled, RtspEnabled} : set_rtsp_mode(m)
    \/ \E m \in {0, 1} : set_webrtc_mode(m)

Spec == Init /\ [][Next]_vars

-----------------------------------------------------------------------------
(* Every variable stays in its type: the values the setters accept. *)
TypeOK ==
    /\ phase \in {"off", "boot", "up"}
    /\ settings \in Setting /\ asked \in Setting
    /\ saved \in Setting \cup {None}
    /\ running \in BOOLEAN /\ status \in {0, 1} /\ turn \in BOOLEAN
    /\ env \in [boot: Tiers \cup {None}, live: Tiers \cup {None},
                rotation: Rotations \cup {None},
                mode: {RtspDisabled, RtspEnabled, None}]
    /\ source \in [tier: Tiers, rotation: Rotations]
    /\ service \in BOOLEAN
    /\ last \in {"none", "ok", "rejected"}
    /\ changes \in 0..MaxChanges /\ cuts \in 0..MaxCuts

(* While the runtime is up, the tier and the rotation it reports are those
   the camera source runs with, and those a restart of the source alone would
   give it (main.py's one shared state that "status, /c/info, snapshots and
   the encoder" read). *)
EncoderFollowsState ==
    phase = "up" => LET reported == [tier |-> settings.quality,
                                     rotation |-> settings.rotation]
                    IN source = reported /\ SourceOf(env) = reported

(* Every setting the coordinator accepted as durable is in force whenever the
   runtime is up, across runtime restarts and power cuts (state.json,
   apply_persisted and pi-persist together). *)
AcceptedSurvives == phase = "up" => settings = asked

(* The RTSP unit runs exactly when the configured mode enables it: a quality
   or rotation change never starts a disabled server, and a start of the
   runtime reconciles the unit that systemd started at boot. *)
RtspFollowsMode == phase = "up" => (service <=> settings.rtsp = RtspEnabled)

(* A rejected mutation leaves the settings, state.json and the files that a
   later restart would read as they were (the coordinator's rule AC-5). *)
RejectedIsInert ==
    [][(changes' # changes /\ last' = "rejected")
        => UNCHANGED <<settings, saved, env, service>>]_vars

(* The GPIO trigger is never selected without a layer pin and the two pins
   never coincide, whatever the order of the three setters and of a restore:
   set_timelapse_trigger, set_timelapse_gpio_pin, apply_persisted. *)
GpioHasPin ==
    /\ settings.trigger = "gpio" => settings.pin # None
    /\ settings.pin = None \/ settings.pin # settings.record

(* The live quality override is not part of what is saved: state.json holds
   the tier last asked for as durable (persistable_state's docstring). *)
LiveStaysOut == saved = None \/ saved.quality = asked.quality

(* With WebRTC disabled Prusa Connect cannot start a live view
   (offer_allowed; the user guide's description of the setting). *)
DisabledRefusesOffers ==
    phase = "up" /\ settings.webrtc = 0 => ~offer_allowed
=============================================================================
