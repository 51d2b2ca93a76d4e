-------------------------- MODULE NetworkFallback --------------------------
(***************************************************************************)
(* Who owns wlan0 on a claimed camera: the console's network change        *)
(* (app/network_settings.py), the root transaction that applies it or      *)
(* reverts it (app/network_apply.py, app/wifi_station.py), the watchdog    *)
(* that falls back to the setup hotspot (app/network_watchdog.py,          *)
(* app/hotspot_ctl.py, app/hotspot.py), and networks that come and go.     *)
(***************************************************************************)
EXTENDS Integers, FiniteSets

CONSTANTS
  Nets,          \* the networks a profile can name, with their key and address
  Home,          \* the profile the setup wizard stored
  None,
  Threshold,     \* DEFAULT_MINUTES, in minutes of the model
  RetryAfter,    \* RETRY_MINUTES
  Stale,         \* APPLY_STALE_SECONDS
  UnitMinutes,   \* TimeoutStartSec of the network-apply unit
  MaxFlips,      \* bound on networks that appear or disappear
  MaxRequests,   \* bound on changes made in the console
  MaxFails       \* bound on commands that fail, kills and admin restarts

ASSUME NetworkAssumption ==
  /\ Home \in Nets /\ None \notin Nets
  /\ {Threshold, RetryAfter, Stale, UnitMinutes} \subseteq Nat \ {0}
  /\ {MaxFlips, MaxRequests, MaxFails} \subseteq Nat

VARIABLES
  works,      \* the networks that answer now
  wlan,       \* "down", "hotspot", or the network wlan0 is activated on
  auto,       \* may NetworkManager connect wlan0 by itself?
  profile,    \* the stored station profile
  result,     \* network-result.json: state and age in minutes
  request,    \* the request file the helper has stored
  unit,       \* the network-apply unit: step, target and snapshot
  due,        \* has the timer fired since the last pass of the watchdog?
  wd,         \* the watchdog's pass: "idle" or the step it is at
  state,      \* the watchdog's state file: outage minutes or None, hotspot, retry
  pending,    \* the console's pending change: network, age, result seen
  saved,      \* the network whose key is in secrets.toml
  applied,    \* ghost: the networks whose change was applied
  outage,     \* ghost: minutes since a pass of the watchdog met a usable link
  flips, requests, fails

link == <<works, wlan, auto>>
ghosts == <<applied, outage>>
bounds == <<flips, requests, fails>>
vars == <<link, profile, result, request, unit, due, wd, state, pending, saved, ghosts, bounds>>

IdleUnit == [at |-> "idle", target |-> None, snapshot |-> None]
NoPending == [net |-> None, age |-> 0, fresh |-> FALSE]
Fresh == [down |-> None, hotspot |-> FALSE, retry |-> 0]

Init ==
  /\ works = {Home} /\ wlan = Home /\ auto = TRUE
  /\ profile = Home
  /\ result = [state |-> "", age |-> 0]
  /\ request = None /\ unit = IdleUnit
  /\ due = FALSE /\ wd = "idle" /\ state = Fresh
  /\ pending = NoPending /\ saved = Home
  /\ applied = {Home} /\ outage = 0
  /\ flips = 0 /\ requests = 0 /\ fails = 0

Fail == fails < MaxFails /\ fails' = fails + 1

\* _link_ready: activated, with an address and a default route.
_link_ready == wlan \in Nets

\* read_result: an `applying` that is too old counts as reverted.
read_result ==
  IF result.state = "applying" /\ result.age > Stale THEN "reverted" ELSE result.state

\* write_result: also what the console sees as newer than its pending change.
write_result(s) ==
  /\ result' = [state |-> s, age |-> 0]
  /\ pending' = [pending EXCEPT !.fresh = pending.net # None]

\* `nmcli connection up` of profile p takes wlan0 from whatever holds it.
ConnectionUp(p) ==
  /\ auto' = TRUE
  /\ wlan' = IF p \in works THEN p ELSE "down"

\* hotspot_ctl.start: nothing to do when the AP is up; otherwise wlan0 is
\* disconnected first, which keeps it from connecting by itself.
HotspotUp == wlan' = "hotspot" /\ auto' = FALSE /\ UNCHANGED fails
HotspotFails == wlan # "hotspot" /\ wlan' = "down" /\ auto' = FALSE /\ Fail

(***************************************************************************)
(* The surroundings                                                        *)
(***************************************************************************)
Flip ==
  /\ flips < MaxFlips /\ flips' = flips + 1
  /\ \E n \in Nets : works' = (works \ {n}) \cup ({n} \ works)
  /\ wlan' = IF wlan \in Nets \ works' THEN "down" ELSE wlan
  /\ UNCHANGED <<auto, profile, result, request, unit, due, wd, state, pending, saved, ghosts, requests, fails>>

Reconnect ==
  /\ wlan = "down" /\ auto /\ profile \in works
  /\ wlan' = profile
  /\ UNCHANGED <<works, auto, profile, result, request, unit, due, wd, state, pending, saved, ghosts, bounds>>

Older(n, top) == IF n < top THEN n + 1 ELSE n

\* A minute passes; the timer's last pass is over, a queued unit has started, and a
\* change takes only so long.
Tick ==
  /\ wd = "idle" /\ ~due /\ due' = TRUE
  /\ request = None
  /\ ~(unit.at # "idle" /\ result.age = UnitMinutes)
  /\ result' = [result EXCEPT !.age = IF result.state = "applying" THEN Older(@, Stale + 1) ELSE 0]
  /\ state' = [state EXCEPT !.down = IF @ = None THEN None ELSE Older(@, Threshold),
                            !.retry = IF state.hotspot THEN Older(@, RetryAfter) ELSE 0]
  /\ pending' = [pending EXCEPT !.age = IF pending.net = None THEN 0 ELSE Older(@, Stale + 1)]
  /\ outage' = Older(outage, Threshold)
  /\ UNCHANGED <<link, profile, request, unit, wd, saved, applied, bounds>>

(***************************************************************************)
(* The console                                                             *)
(***************************************************************************)
busy ==
  \/ read_result = "applying"
  \/ pending.net # None /\ pending.age = 0 /\ ~pending.fresh

\* apply, over a link that reaches the console.  Starting the unit does nothing while
\* an earlier change, taken for stale, still runs: its request is never read.
apply ==
  /\ wlan # "down" /\ ~busy
  /\ requests < MaxRequests /\ requests' = requests + 1
  /\ \E n \in Nets :
       /\ request' = IF unit.at = "idle" THEN n ELSE None
       /\ pending' = [net |-> n, age |-> 0, fresh |-> FALSE]
  /\ UNCHANGED <<link, profile, result, unit, due, wd, state, saved, ghosts, flips, fails>>

\* status polls: the key is saved once the change is reported as applied.
_finalize ==
  /\ pending.net # None
  /\ \/ /\ pending.fresh /\ read_result # "applying"
        /\ saved' = IF read_result = "applied" THEN pending.net ELSE saved
     \/ /\ ~pending.fresh \/ read_result = "applying"
        /\ pending.age > Stale
        /\ UNCHANGED saved
  /\ pending' = NoPending
  /\ UNCHANGED <<link, profile, result, request, unit, due, wd, state, ghosts, bounds>>

AdminRestart ==
  /\ pending # NoPending /\ Fail
  /\ pending' = NoPending
  /\ UNCHANGED <<link, profile, result, request, unit, due, wd, state, saved, ghosts, flips, requests>>

(***************************************************************************)
(* The network-apply unit                                                  *)
(***************************************************************************)
At(l) == unit.at = l
Go(l) == unit' = [unit EXCEPT !.at = l]

\* read_request and the start of run: the request is deleted, the profile kept.
read_request ==
  /\ At("idle") /\ request # None
  /\ request' = None
  /\ unit' = [at |-> "apply", target |-> request, snapshot |-> profile]
  /\ write_result("applying")
  /\ UNCHANGED <<link, profile, due, wd, state, saved, ghosts, bounds>>

\* wifi_station.apply: the profile is rewritten and activated.
station_apply ==
  /\ At("apply")
  /\ \/ /\ profile' = unit.target
        /\ ConnectionUp(unit.target)
        /\ Go(IF unit.target \in works THEN "wait" ELSE "restore")
        /\ UNCHANGED fails
     \/ Fail /\ Go("restore") /\ UNCHANGED <<wlan, auto, profile>>
  /\ UNCHANGED <<works, result, request, due, wd, state, pending, saved, ghosts, flips, requests>>

\* wait_healthy: the change is applied, or the wait times out.
wait_healthy ==
  /\ At("wait")
  /\ \/ /\ _link_ready
        /\ write_result("applied") /\ unit' = IdleUnit
        /\ applied' = applied \cup {unit.target}
        /\ UNCHANGED fails
     \/ /\ ~_link_ready
        /\ Go("restore") /\ UNCHANGED <<result, pending, applied, fails>>
     \/ /\ _link_ready /\ Fail      \* the gateway does not answer
        /\ Go("restore") /\ UNCHANGED <<result, pending, applied>>
  /\ UNCHANGED <<link, profile, request, due, wd, state, saved, outage, flips, requests>>

\* Mutant: the old connection is brought up but its profile is not put back.
RestoreLinkOnly ==
  /\ At("restore")
  /\ UNCHANGED profile /\ ConnectionUp(unit.snapshot)
  /\ Go("rewait") /\ UNCHANGED fails
  /\ UNCHANGED <<works, result, request, due, wd, state, pending, saved, ghosts, flips, requests>>

\* _restore: the snapshot is put back and activated; a failed write skips both.
_restore ==
  /\ At("restore")
  /\ \/ profile' = unit.snapshot /\ ConnectionUp(unit.snapshot) /\ Go("rewait") /\ UNCHANGED fails
     \/ Fail /\ Go("hotspot") /\ UNCHANGED <<wlan, auto, profile>>
  /\ UNCHANGED <<works, result, request, due, wd, state, pending, saved, ghosts, flips, requests>>

Rewait ==
  /\ At("rewait")
  /\ \/ _link_ready /\ write_result("reverted") /\ unit' = IdleUnit
     \/ ~_link_ready /\ Go("hotspot") /\ UNCHANGED <<result, pending>>
  /\ UNCHANGED <<link, profile, request, due, wd, state, saved, ghosts, bounds>>

\* The last resort of run.
_start_hotspot ==
  /\ At("hotspot")
  /\ \/ HotspotUp /\ write_result("hotspot")
     \/ HotspotFails /\ write_result("reverted")
  /\ unit' = IdleUnit
  /\ UNCHANGED <<works, profile, request, due, wd, state, saved, ghosts, flips, requests>>

\* systemd ends the unit at TimeoutStartSec; `applying` stays in the result.
UnitKilled ==
  /\ ~At("idle") /\ Fail
  /\ unit' = IdleUnit
  /\ UNCHANGED <<link, profile, result, request, due, wd, state, pending, saved, ghosts, flips, requests>>

UnitStep == read_request \/ station_apply \/ wait_healthy \/ _restore \/ Rewait \/ _start_hotspot

(***************************************************************************)
(* The watchdog                                                            *)
(***************************************************************************)
\* tick, its first check: never while a change is being applied.
tick ==
  /\ due /\ due' = FALSE
  /\ wd' = IF read_result = "applying" THEN "idle" ELSE "checked"
  /\ UNCHANGED <<link, profile, result, request, unit, state, pending, saved, ghosts, bounds>>

\* Mutant: the state with the AP up is left to the branch that measures outages.
JudgeNoRetry ==
  /\ wd = "checked"
  /\ \/ /\ state.hotspot
        /\ wd' = "idle" /\ UNCHANGED state
     \/ /\ ~state.hotspot /\ _link_ready
        /\ state' = Fresh /\ wd' = "idle"
     \/ /\ ~state.hotspot /\ ~_link_ready
        /\ state' = IF state.down = None THEN [Fresh EXCEPT !.down = 0] ELSE state
        /\ wd' = IF state.down = Threshold THEN "start" ELSE "idle"
  /\ outage' = IF _link_ready THEN 0 ELSE outage
  /\ UNCHANGED <<link, profile, result, request, unit, due, pending, saved, applied, bounds>>

\* Mutant: every pass with the link down starts the outage anew.
JudgeRestarts ==
  /\ wd = "checked"
  /\ \/ /\ state.hotspot
        /\ wd' = IF state.retry < RetryAfter THEN "idle" ELSE "up"
        /\ UNCHANGED state
     \/ /\ ~state.hotspot /\ _link_ready
        /\ state' = Fresh /\ wd' = "idle"
     \/ /\ ~state.hotspot /\ ~_link_ready
        /\ state' = [Fresh EXCEPT !.down = 0]
        /\ wd' = IF state.down = Threshold THEN "start" ELSE "idle"
  /\ outage' = IF _link_ready THEN 0 ELSE outage
  /\ UNCHANGED <<link, profile, result, request, unit, due, pending, saved, applied, bounds>>

\* The rest of tick up to the point where it touches wlan0.
Judge ==
  /\ wd = "checked"
  /\ \/ /\ state.hotspot
        /\ wd' = IF state.retry < RetryAfter THEN "idle" ELSE "up"
        /\ UNCHANGED state
     \/ /\ ~state.hotspot /\ _link_ready
        /\ state' = Fresh /\ wd' = "idle"
     \/ /\ ~state.hotspot /\ ~_link_ready
        /\ state' = IF state.down = None THEN [Fresh EXCEPT !.down = 0] ELSE state
        /\ wd' = IF state.down = Threshold THEN "start" ELSE "idle"
  /\ outage' = IF _link_ready THEN 0 ELSE outage
  /\ UNCHANGED <<link, profile, result, request, unit, due, pending, saved, applied, bounds>>

StartHotspot ==
  /\ wd = "start"
  /\ wd' = "idle"
  /\ \/ /\ HotspotUp /\ write_result("hotspot")
        /\ state' = [down |-> None, hotspot |-> TRUE, retry |-> 0]
     \/ HotspotFails /\ UNCHANGED <<result, pending, state>>
  /\ UNCHANGED <<works, profile, request, unit, due, saved, ghosts, flips, requests>>

\* _retry_station: the station profile takes wlan0 from the hotspot ...
_retry_station ==
  /\ wd = "up"
  /\ ConnectionUp(profile)
  /\ wd' = "wait"
  /\ UNCHANGED <<works, profile, result, request, unit, due, state, pending, saved, ghosts, bounds>>

\* ... and keeps it, or the hotspot is restored.
RetryEnds ==
  /\ wd = "wait"
  /\ wd' = "idle"
  /\ \/ /\ _link_ready
        /\ state' = Fresh /\ write_result("applied")
        /\ UNCHANGED <<wlan, auto, fails>>
     \/ /\ ~_link_ready
        /\ HotspotUp \/ HotspotFails
        /\ state' = [state EXCEPT !.retry = 0]
        /\ UNCHANGED <<result, pending>>
  /\ UNCHANGED <<works, profile, request, unit, due, saved, ghosts, flips, requests>>

WatchdogStep == Judge \/ StartHotspot \/ _retry_station \/ RetryEnds

Next ==
  \/ Flip \/ Reconnect \/ Tick
  \/ apply \/ _finalize \/ AdminRestart
  \/ UnitStep \/ UnitKilled
  \/ tick \/ WatchdogStep

Spec == Init /\ [][Next]_vars

\* The clock runs, the timer starts the watchdog every minute, systemd runs the
\* queued unit, and NetworkManager retries a profile it may connect.
FairSpec ==
  /\ Spec
  /\ WF_vars(Tick) /\ WF_vars(tick \/ WatchdogStep)
  /\ WF_vars(UnitStep) /\ WF_vars(Reconnect)

(***************************************************************************)
(* Properties                                                              *)
(***************************************************************************)
\* The only type invariant of this module.
TypeOK ==
  /\ works \subseteq Nets /\ wlan \in Nets \cup {"down", "hotspot"} /\ auto \in BOOLEAN
  /\ profile \in Nets /\ saved \in Nets /\ applied \subseteq Nets
  /\ result.state \in {"", "applying", "applied", "reverted", "hotspot"}
  /\ result.age \in 0..Stale + 1
  /\ request \in Nets \cup {None}
  /\ unit.at \in {"idle", "apply", "wait", "restore", "rewait", "hotspot"}
  /\ wd \in {"idle", "checked", "start", "up", "wait"}
  /\ state.down \in 0..Threshold \cup {None} /\ state.retry \in 0..RetryAfter
  /\ pending.net \in Nets \cup {None} /\ pending.age \in 0..Stale + 1
  /\ outage \in 0..Threshold

\* A change that ends as reverted leaves the profile it found, unless putting the
\* snapshot back has itself failed.
RevertedKeepsProfile ==
  [][unit.at = "rewait" /\ unit'.at = "idle" /\ result' # result => profile' = unit.snapshot]_vars

\* The camera never stays unreachable: without a link it comes to a network or
\* to the setup hotspot, also after a killed change and failed commands.
StaysReachable == wlan = "down" ~> wlan # "down"

\* When the stored network is back for good the camera returns to it by itself,
\* whoever had started the hotspot (docs/user-guide.md: "when the network is back
\* the hotspot stops by itself").
ReturnsHome == <>[](profile \in works) => []<>(wlan \in Nets)

\* "It only runs on a claimed device ..., never while a console change is applying"
\* (docs/architecture.md): the watchdog does not touch wlan0 during a change.
NotDisturbed == [][wd # "idle" /\ (wlan' # wlan \/ state'.hotspot # state.hotspot) /\ unit' = unit
                   /\ fails' = fails /\ wd' # wd => unit.at = "idle"]_vars

\* "Persist the PSK once the root result says the change was applied" (_finalize):
\* the key that is saved is the key of a network whose change was applied.
SavedWasApplied == saved \in applied

\* The hotspot starts "when a claimed device has had no usable Wi-Fi for 10 minutes"
\* (docs/architecture.md).
HotspotAfterThreshold ==
  [][wd # "idle" /\ wd' = "idle" /\ wlan # "hotspot" /\ wlan' = "hotspot" => outage = Threshold]_vars
=============================================================================
