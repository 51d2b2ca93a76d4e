------------------------- MODULE ApplianceSettings --------------------------
(***************************************************************************)
(* The durable settings, as a part of the appliance: Settings over         *)
(* variables of its own.                                                   *)
(***************************************************************************)
EXTENDS Integers

CONSTANTS Pins,
          Nothing,  \* an absent file, an unset pin
          Refusing, LiveOnly, Crashes, CameraChanges, CameraCuts

VARIABLES s_phase, s_settings, s_running, s_status, s_turn, s_saved, s_env, s_source,
          s_service, s_asked, s_last, s_changes, s_cuts
cameraVars == <<s_phase, s_settings, s_running, s_status, s_turn, s_saved, s_env,
                  s_source, s_service, s_asked, s_last, s_changes, s_cuts>>

Camera == INSTANCE Settings WITH
    phase <- s_phase, settings <- s_settings, running <- s_running, status <- s_status,
    turn <- s_turn, saved <- s_saved, env <- s_env, source <- s_source,
    service <- s_service, asked <- s_asked, last <- s_last, changes <- s_changes,
    cuts <- s_cuts, None <- Nothing, Faults <- Refusing, MaxChanges <- CameraChanges,
    MaxCuts <- CameraCuts

\* An absent file or an unset pin is told from every value, and an absent state.json
\* from every stored one.
ASSUME NothingAssumption ==
    Nothing \notin Pins \cup (0..180) /\ Nothing # "" /\ Nothing \notin Camera!Setting

\* The tier and the rotation the runtime reports are those the camera source runs with,
\* and those a restart of the source alone would give it.
EncoderFollowsState == Camera!EncoderFollowsState

\* What the coordinator accepted as durable is in force whenever the runtime is up,
\* across its restarts and power cuts.
AcceptedSurvives == Camera!AcceptedSurvives

\* A rejected mutation leaves the settings, state.json and the files that a later
\* restart reads as they were.
RejectedIsInert == Camera!RejectedIsInert
=============================================================================
