--------------------------- MODULE CloudLinkProofs ---------------------------
(***************************************************************************)
(* Proof about the info service that tells Prusa Connect of a changed      *)
(* setting, for every number of changes, of faults and of retries.         *)
(***************************************************************************)
EXTENDS CloudLink, TLAPS

\* info_service_loop: with no upload under way and none due, Connect has the settings of now,
\* or the last upload was given up, or a change came while it was on its way.
THEOREM ConnectIsTold == Spec => []InfoMatches
<1>1. Init => InfoMatches
  BY DEF Init, InfoMatches
<1>2. InfoMatches /\ [Next]_vars => InfoMatches'
  <2> SUFFICES ASSUME InfoMatches, [Next]_vars PROVE InfoMatches'
    OBVIOUS
  <2>1. ASSUME UNCHANGED info PROVE InfoMatches'
    BY <2>1 DEF info, InfoMatches
  <2>2. CASE Change
    BY <2>2 DEF Change, mark_info_dirty, InfoMatches
  <2>3. CASE next_info_action
    BY <2>3 DEF next_info_action, InfoMatches
  <2>4. ASSUME NEW r \in ResultClass, InfoResult(r) PROVE InfoMatches'
    BY <2>4 DEF InfoResult, InfoMatches
  <2>5. CASE \/ _connect_once \/ _authenticate \/ ConnectTimeout
             \/ Disconnect \/ Hang \/ supervise \/ WindowEnds
             \/ \E h \in Handlers : \/ on_trigger(h) \/ dispatch_trigger_action(h)
                                    \/ Done(h)
    <3>1. UNCHANGED info
      BY <2>5, Zenon DEF _connect_once, _authenticate, ConnectTimeout,
           Disconnect, Hang, supervise, WindowEnds, on_trigger,
           dispatch_trigger_action, Done
    <3> QED
      BY <2>1, <3>1
  <2>6. CASE UNCHANGED vars
    BY <2>1, <2>6 DEF vars
  <2> QED
    BY <2>2, <2>3, <2>4, <2>5, <2>6, Zenon DEF Next
<1> QED
  BY <1>1, <1>2, PTL DEF Spec
=============================================================================
