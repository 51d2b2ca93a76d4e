----------------------------- MODULE Appliance ------------------------------
(***************************************************************************)
(* Four components that share no state, side by side: what runs at boot,   *)
(* the configuration documents, the durable settings and the stream        *)
(* multiplexer.  Their steps commute, so a behaviour follows one of them   *)
(* while the others rest, each to its own bounds.                          *)
(***************************************************************************)
EXTENDS ApplianceBoot, ApplianceDocs, ApplianceSettings, ApplianceMux

VARIABLE part  \* the component a behaviour follows
vars == <<part, bootVars, docsVars, cameraVars, muxVars>>

Init ==
    /\ part \in {"boot", "docs", "settings", "mux"}
    /\ Boot!Init /\ Docs!Init /\ Camera!Init /\ Mux!Init

Next ==
    \/ part = "boot" /\ Boot!Next /\ UNCHANGED <<part, docsVars, cameraVars, muxVars>>
    \/ part = "docs" /\ Docs!Next /\ UNCHANGED <<part, bootVars, cameraVars, muxVars>>
    \/ part = "settings" /\ Camera!Next /\ UNCHANGED <<part, bootVars, docsVars, muxVars>>
    \/ part = "mux" /\ Mux!Next /\ UNCHANGED <<part, bootVars, docsVars, cameraVars>>

Spec == Init /\ [][Next]_vars
=============================================================================
