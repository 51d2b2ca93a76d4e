------------------------------- MODULE MCMqtt -------------------------------
(* Mqtt for TLC: each behaviour gets one of a few small budgets.            *)
EXTENDS Mqtt

Budget(commands, console, drops, boots) ==
    [commands |-> commands, console |-> console, drops |-> drops, boots |-> boots]

\* Two commands, whose errors race; a command and a console change; two lost
\* links and a restart; a command around one lost link.
MCBudgets == {Budget(2, 0, 0, 0), Budget(1, 1, 0, 0), Budget(0, 0, 2, 1), Budget(1, 0, 1, 0)}

MCFaults == {Budget(0, 0, 1, 0)}

MCConsole == {Budget(0, 1, 0, 0)}

MCErrors == {Budget(2, 0, 0, 0)}

MCStop == {Budget(0, 0, 0, 1)}
=============================================================================
