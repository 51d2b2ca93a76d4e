------------------------------- MODULE Services -------------------------------
(***************************************************************************)
(* Three long-running services that share no state, side by side: the      *)
(* console's update requests, the Prusa Connect live view and the local    *)
(* live view.  Their steps commute, so a behaviour follows one of them,    *)
(* with the fairness its own module states, while the others rest.         *)
(***************************************************************************)
EXTENDS ServicesView

VARIABLE part  \* the component a behaviour follows
VARIABLES k_unit, k_last, k_flag, k_worker, k_reason, k_closed, k_mqtt, k_heard
VARIABLES r_mode, r_status, r_glib, r_streaming, r_turn, r_asked, r_asleep, r_building,
          r_peer, r_ice, r_iceConnected, r_ended, r_armed, r_known, r_call, r_endings,
          r_reported, r_relays, r_modes, r_drops

\* The budgets in their order.
Control == INSTANCE UpdateControl WITH
    unit <- k_unit, last <- k_last, flag <- k_flag, worker <- k_worker,
    reason <- k_reason, closed <- k_closed, mqtt <- k_mqtt, heard <- k_heard,
    CommandTimeout <- 1, CheckTimeout <- 2, CheckDeadline <- 3, InstallDeadline <- 4
controlVars == <<k_unit, k_last, k_flag, k_worker, k_reason, k_closed, k_mqtt, k_heard>>

\* Two offers, one relay candidate, two mode changes, one drop.
Cloud == INSTANCE WebRtcSession WITH
    mode <- r_mode, status <- r_status, glib <- r_glib, streaming <- r_streaming,
    turn <- r_turn, asked <- r_asked, asleep <- r_asleep, building <- r_building,
    peer <- r_peer, ice <- r_ice, iceConnected <- r_iceConnected, ended <- r_ended,
    armed <- r_armed, known <- r_known, call <- r_call, endings <- r_endings,
    reported <- r_reported, relays <- r_relays, modes <- r_modes, drops <- r_drops,
    MaxOffers <- 2, MaxRelays <- 1, MaxModes <- 2, MaxDrops <- 1
cloudVars == <<r_mode, r_status, r_glib, r_streaming, r_turn, r_asked, r_asleep,
                 r_building, r_peer, r_ice, r_iceConnected, r_ended, r_armed, r_known,
                 r_call, r_endings, r_reported, r_relays, r_modes, r_drops>>

vars == <<part, controlVars, cloudVars, localVars>>

Init ==
    /\ part \in {"control", "cloud", "local"}
    /\ Control!Init /\ Cloud!Init /\ Local!Init
    /\ (part # "cloud" => r_mode = 1)
    /\ (part # "local" => v_here = Pollers)

Next ==
    \/ part = "control" /\ Control!Next /\ UNCHANGED <<part, cloudVars, localVars>>
    \/ part = "cloud" /\ Cloud!Next /\ UNCHANGED <<part, controlVars, localVars>>
    \/ part = "local" /\ Local!Next /\ UNCHANGED <<part, controlVars, cloudVars>>

\* The fairness of UpdateControl, WebRtcSession and LiveView: see there.
ControlFairness ==
    /\ \A o \in Control!Ops : WF_controlVars(part = "control" /\ Control!Worker(o))
    /\ WF_controlVars(part = "control" /\ Control!handle_update_install)
    /\ SF_controlVars(part = "control" /\ Control!Tick)
    /\ WF_controlVars(part = "control" /\ Control!ConsoleRestarts)
CloudFairness ==
    /\ WF_cloudVars(part = "cloud" /\ Cloud!Loop)
    /\ WF_cloudVars(part = "cloud" /\ Cloud!GLibThread)
LocalFairness ==
    /\ \A p \in Pollers : WF_localVars(part = "local" /\ Local!_handle_live_frame(p))
    /\ \A g \in 0..1 :
         /\ WF_localVars(part = "local" /\ Local!Look(g))
         /\ WF_localVars(part = "local" /\ Local!_capture_once(g))
         /\ WF_localVars(part = "local" /\ Local!Exit(g))
    /\ \A w \in Watchers :
         /\ WF_localVars(part = "local" /\ Local!Prepare(w))
         /\ WF_localVars(part = "local" /\ Local!start(w))
         /\ WF_localVars(part = "local" /\ Local!on_ended(w))
         /\ WF_localVars(part = "local" /\ Local!_connect_watchdog(w))
         /\ WF_localVars(part = "local" /\ Local!_check_disconnected(w))
         /\ WF_localVars(part = "local" /\ Local!stop(w))
         /\ WF_localVars(part = "local" /\ Local!release(w))

Spec == Init /\ [][Next]_vars /\ ControlFairness /\ CloudFairness /\ LocalFairness

-----------------------------------------------------------------------------
(* Properties: those of the components, under their names there.  OneProducer comes *)
(* with ServicesView.                                                               *)

\* UpdateControl: the worker thread of a check or an install ends, although nothing
\* obliges the unit to end.
WorkerReturns == Control!WorkerReturns

\* WebRtcSession: snapshots that a stream paused resume, unless its peer connects.
SnapshotsResume == Cloud!SnapshotsResume

\* LiveView: a poller whose page stays open gets a frame, unless the cap is taken.
PollerIsServed == Local!PollerIsServed

\* LiveView: a session that does not get or keep its connection ends.
LostSessionEnds == Local!LostSessionEnds
=============================================================================
