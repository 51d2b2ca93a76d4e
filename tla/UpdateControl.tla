--------------------------- MODULE UpdateControl ---------------------------
(***************************************************************************)
(* Who may start an update: the console's UpdateManager with its worker    *)
(* threads (app/update_control.py), the MQTT install command               *)
(* (app/mqtt_service.py), the bounded privileged calls both go through     *)
(* (app/privileged.py), the daily timer, and the two oneshot units that do *)
(* the work.  Time is counted in abstract ticks that keep the order of the *)
(* code's timeouts and deadlines.                                          *)
(***************************************************************************)
EXTENDS Integers

CONSTANTS
  CommandTimeout,    \* COMMAND_TIMEOUT_SECONDS, the budget of install-update
  CheckTimeout,      \* CHECK_TIMEOUT_SECONDS
  CheckDeadline,     \* CHECK_DEADLINE_SECONDS
  InstallDeadline    \* INSTALL_DEADLINE_SECONDS

Ops == {"check", "install"}
None == -1        \* no thread, no flag
New == -2         \* the worker thread exists, its helper does not run yet

VARIABLES
  unit,     \* the oneshot units: "idle" or "busy"
  last,     \* exit of each unit's last run
  flag,     \* age of _checking / _installing, None while unset
  worker,   \* age of each worker thread's privileged call
  reason,   \* _check_reason / _install_reason
  closed,   \* _closed
  mqtt,     \* age of the MQTT thread's blocking install-update call
  heard     \* what the MQTT handler republished: the unit's state at that time

vars == <<unit, last, flag, worker, reason, closed, mqtt, heard>>

Deadline(o) == IF o = "check" THEN CheckDeadline ELSE InstallDeadline

Timeout(o) == IF o = "check" THEN CheckTimeout ELSE CommandTimeout

InProgress(o) == flag[o] # None /\ flag[o] < Deadline(o)

Init ==
  /\ unit = [o \in Ops |-> "idle"]
  /\ last = [o \in Ops |-> "ok"]
  /\ flag = [o \in Ops |-> None]
  /\ worker = [o \in Ops |-> None]
  /\ reason = [o \in Ops |-> "none"]
  /\ closed = "no"
  /\ mqtt = None
  /\ heard = "nothing"

(***************************************************************************)
(* UpdateManager.check and UpdateManager.install                           *)
(***************************************************************************)
Admitted(o) ==
  /\ flag' = [flag EXCEPT ![o] = 0]
  /\ worker' = [worker EXCEPT ![o] = New]
  /\ reason' = [reason EXCEPT ![o] = "none"]
  /\ UNCHANGED <<unit, last, closed, mqtt, heard>>

check ==
  /\ closed = "no"
  /\ ~InProgress("check")
  /\ Admitted("check")

install ==
  /\ closed = "no"
  /\ ~InProgress("install")
  /\ ~InProgress("check")
  /\ Admitted("install")

(***************************************************************************)
(* _invoke: the helper's blocking `systemctl start` starts an idle unit,   *)
(* joins a running one, and is given up after its timeout.                 *)
(***************************************************************************)
_invoke(o) ==
  /\ worker[o] = New
  /\ worker' = [worker EXCEPT ![o] = 0]
  /\ unit' = [unit EXCEPT ![o] = "busy"]
  /\ UNCHANGED <<last, flag, reason, closed, mqtt, heard>>

\* _run_check / _run_install after the call returned.
WorkerEnds(o, r) ==
  /\ worker' = [worker EXCEPT ![o] = None]
  /\ flag' = [flag EXCEPT ![o] = None]
  /\ reason' = [reason EXCEPT ![o] = r]
  /\ UNCHANGED <<unit, last, closed, mqtt, heard>>

HelperUnavailable(o) ==
  /\ worker[o] = New
  /\ WorkerEnds(o, "unavailable")

HelperReturns(o) ==
  /\ worker[o] >= 0
  /\ unit[o] = "idle"
  /\ WorkerEnds(o, IF last[o] = "ok" THEN "none" ELSE "failed")

\* Mutant: the helper is called without a timeout.
NeverTimesOut(o) ==
  /\ worker[o] >= Timeout(o)
  /\ unit[o] = "idle"
  /\ WorkerEnds(o, "timed out")

HelperTimesOut(o) ==
  /\ worker[o] >= Timeout(o)
  /\ unit[o] = "busy"
  /\ WorkerEnds(o, "timed out")

(***************************************************************************)
(* handle_update_install: blocks the MQTT thread, then republishes         *)
(***************************************************************************)
MqttInstall ==
  /\ mqtt = None
  /\ mqtt' = 0
  /\ unit' = [unit EXCEPT !["install"] = "busy"]
  /\ UNCHANGED <<last, flag, worker, reason, closed, heard>>

handle_update_install ==
  /\ mqtt # None
  /\ unit["install"] = "idle" \/ mqtt >= CommandTimeout
  /\ heard' = unit["install"]
  /\ mqtt' = None
  /\ UNCHANGED <<unit, last, flag, worker, reason, closed>>

(***************************************************************************)
(* The rest of the device                                                  *)
(***************************************************************************)
TimerFires ==
  /\ unit["check"] = "idle"
  /\ unit' = [unit EXCEPT !["check"] = "busy"]
  /\ UNCHANGED <<last, flag, worker, reason, closed, mqtt, heard>>

UnitEnds(o) ==
  /\ unit[o] = "busy"
  /\ unit' = [unit EXCEPT ![o] = "idle"]
  /\ \E r \in {"ok", "failed"} : last' = [last EXCEPT ![o] = r]
  /\ UNCHANGED <<flag, worker, reason, closed, mqtt, heard>>

close ==
  /\ closed = "no"
  /\ unit["install"] = "busy"
  /\ closed' = "yes"
  /\ UNCHANGED <<unit, last, flag, worker, reason, mqtt, heard>>

\* The console restarts with a fresh manager; its threads are gone.
ConsoleRestarts ==
  /\ closed = "yes"
  /\ closed' = "no"
  /\ flag' = [o \in Ops |-> None]
  /\ worker' = [o \in Ops |-> None]
  /\ reason' = [o \in Ops |-> "none"]
  /\ UNCHANGED <<unit, last, mqtt, heard>>

Older(age, cap) == IF age \in 0..(cap - 1) THEN age + 1 ELSE age

Tick ==
  /\ \A o \in Ops : worker[o] # New /\ worker[o] < Timeout(o)
  /\ mqtt < CommandTimeout
  /\ (\E o \in Ops : worker[o] # None) \/ mqtt # None
  /\ worker' = [o \in Ops |-> Older(worker[o], Timeout(o))]
  /\ flag' = [o \in Ops |-> Older(flag[o], Deadline(o))]
  /\ mqtt' = Older(mqtt, CommandTimeout)
  /\ UNCHANGED <<unit, last, reason, closed, heard>>

Worker(o) == _invoke(o) \/ HelperUnavailable(o) \/ HelperReturns(o) \/ HelperTimesOut(o)

Next ==
  \/ check \/ install
  \/ \E o \in Ops : Worker(o) \/ UnitEnds(o)
  \/ MqttInstall \/ handle_update_install
  \/ TimerFires \/ close \/ ConsoleRestarts \/ Tick

Spec == Init /\ [][Next]_vars

\* Threads are scheduled, time passes whatever else happens (hence the strong
\* fairness of Tick), and a closing console is restarted by systemd.  Nothing
\* obliges a unit to end.
FairSpec ==
  /\ Spec
  /\ \A o \in Ops : WF_vars(Worker(o))
  /\ WF_vars(handle_update_install)
  /\ SF_vars(Tick)
  /\ WF_vars(ConsoleRestarts)

(***************************************************************************)
(* Properties                                                              *)
(***************************************************************************)
\* The only type invariant of this module.
TypeOK ==
  /\ unit \in [Ops -> {"idle", "busy"}]
  /\ last \in [Ops -> {"ok", "failed"}]
  /\ \A o \in Ops :
       /\ flag[o] \in {None} \cup 0..Deadline(o)
       /\ worker[o] \in {None, New} \cup 0..Timeout(o)
  /\ reason \in [Ops -> {"none", "unavailable", "failed", "timed out"}]
  /\ closed \in {"no", "yes"}
  /\ mqtt \in {None} \cup 0..CommandTimeout
  /\ heard \in {"nothing", "idle", "busy"}

\* An operation is shown and refused as in progress exactly while its worker
\* thread lives: no thread outlives its flag and no flag outlives its thread.
\* This is what makes "at most one check and one install at a time" true.
FlagFollowsWorker ==
  \A o \in Ops : InProgress(o) <=> worker[o] # None

\* The control never wedges: a worker ends, and with it its flag, even when the
\* unit it started never does ("a crashed worker cannot wedge the control
\* forever").
WorkerReturns == \A o \in Ops : worker[o] # None ~> worker[o] = None

\* What handle_update_install republishes is the outcome of the install: the
\* unit has ended when the update state is published.
OutcomeIsHeard == heard # "busy"
=============================================================================
