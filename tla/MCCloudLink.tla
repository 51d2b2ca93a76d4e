----------------------------- MODULE MCCloudLink -----------------------------
(***************************************************************************)
(* Triggers for CloudLink: one that captures before it answers, a file     *)
(* list with an undocumented value beside it, a reboot, and one with every *)
(* kind of action that leaves the link alone.                              *)
(***************************************************************************)
EXTENDS CloudLink

TriggersUsed ==
    {{<<12, 1>>, <<3, 1>>}, {<<15, 1>>, <<14, 2>>}, {<<9, 1>>, <<1, 1>>},
     {<<4, 2>>, <<5, 1>>, <<8, 1>>}}
=============================================================================
