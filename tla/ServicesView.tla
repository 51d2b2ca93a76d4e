---------------------------- MODULE ServicesView ----------------------------
(***************************************************************************)
(* The local live view, as one of the services: LiveView over variables of *)
(* its own.                                                                *)
(***************************************************************************)
EXTENDS Integers

CONSTANTS Pollers, Watchers, MaxViewers, MaxSlots, MaxFaults, MaxEarly

VARIABLES v_here, v_polling, v_served, v_leases, v_running, v_gen, v_thread, v_halt,
          v_frame, v_faults, v_active, v_ws, v_early
localVars == <<v_here, v_polling, v_served, v_leases, v_running, v_gen, v_thread,
                 v_halt, v_frame, v_faults, v_active, v_ws, v_early>>

Local == INSTANCE LiveView WITH
    here <- v_here, polling <- v_polling, served <- v_served, leases <- v_leases,
    running <- v_running, gen <- v_gen, thread <- v_thread, halt <- v_halt,
    frame <- v_frame, faults <- v_faults, active <- v_active, ws <- v_ws,
    early <- v_early

\* At most one frame producer of the monitor is live.
OneProducer == Local!OneProducer
=============================================================================
