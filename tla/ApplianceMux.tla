---------------------------- MODULE ApplianceMux ----------------------------
(***************************************************************************)
(* The stream multiplexer, as a part of the appliance: StreamMux over      *)
(* variables of its own.                                                   *)
(***************************************************************************)
EXTENDS Integers

CONSTANTS Clients, Patched, MaxChunks, MaxQueue, SourceRestarts, Keep

ASSUME MuxAssumption == MaxQueue \in Nat \ {0} /\ Keep \in Nat

VARIABLES m_rotation, m_pipeline, m_kinds, m_kf_buf, m_keyframe, m_todo, m_cl, m_restarts
muxVars == <<m_rotation, m_pipeline, m_kinds, m_kf_buf, m_keyframe, m_todo, m_cl,
               m_restarts>>

Mux == INSTANCE StreamMux WITH
    rotation <- m_rotation, pipeline <- m_pipeline, kinds <- m_kinds,
    kf_buf <- m_kf_buf, keyframe <- m_keyframe, todo <- m_todo, cl <- m_cl,
    restarts <- m_restarts, MaxRestarts <- SourceRestarts

\* A client in the live stream misses no chunk and gets none twice or out of order,
\* unless its own queue overflowed.
GapNeedsOverflow == Mux!GapNeedsOverflow
=============================================================================
