--------------------------- MODULE ApplianceBoot ----------------------------
(***************************************************************************)
(* What runs at boot, as a part of the appliance: BootRestore over         *)
(* variables of its own.                                                   *)
(***************************************************************************)
EXTENDS Integers

CONSTANTS Shipped, Hosts, FrameSizes, Space, FreeFloor, MaxFrames, MaxPairs, TornEdits,
          BootCuts, BootFaults

VARIABLES b_pc, b_rootFs, b_rw, b_recorded, b_run, b_device, b_pair, b_boot, b_settings,
          b_frames, b_faults
bootVars == <<b_pc, b_rootFs, b_rw, b_recorded, b_run, b_device, b_pair, b_boot,
                b_settings, b_frames, b_faults>>

Boot == INSTANCE BootRestore WITH
    pc <- b_pc, rootFs <- b_rootFs, rw <- b_rw, recorded <- b_recorded, run <- b_run,
    device <- b_device, pair <- b_pair, boot <- b_boot, settings <- b_settings,
    frames <- b_frames, faults <- b_faults, MaxCuts <- BootCuts, MaxFaults <- BootFaults

\* A console that has its admin.env serves a certificate that belongs to its key and
\* covers the boot's host name, wherever ensure_certificate was cut short.
ServedPairIsWhole == Boot!ServedPairIsWhole

\* run_pending records a migration only while its edit is in its file.
RecordedWasDone == Boot!RecordedWasDone
=============================================================================
