------------------------------- MODULE LiveView -------------------------------
(***************************************************************************)
(* The two live views of the admin console.  Pollers fetch JPEG frames     *)
(* through leases on the one shared producer thread of live_monitor.py.    *)
(* Watchers open a WebSocket, take a viewer slot (local_webrtc_signaling)  *)
(* and get a single-use WebRTC pipeline (local_webrtc.py) whose callbacks  *)
(* and timers run on a GLib thread and come back through the event loop    *)
(* (admin_app._handle_local_webrtc_ws).                                    *)
(*                                                                         *)
(* Abstraction.  Lease expiry, the idle grace and the GLib timers are      *)
(* steps that may happen once armed.  What is kept of their lengths: the   *)
(* producer looks for viewers (0.1 s) more often than a lease expires      *)
(* (6 s), except in the backoff after a failure (up to 30 s), and a frame  *)
(* outlives (30 s) the pause of a page between two polls.  A thread of     *)
(* the producer is its place in _run; two generations are enough to tell   *)
(* the current one from one that is exiting.                               *)
(***************************************************************************)
EXTENDS Naturals, FiniteSets

CONSTANTS Pollers,     \* console sessions that poll frames
          Watchers,    \* browser tabs that open the WebRTC view
          MaxViewers,  \* DEFAULT_MAX_VIEWERS of the monitor
          MaxSlots,    \* DEFAULT_MAX_VIEWERS of the registry
          MaxFaults,   \* bound on failed captures and stops of the monitor
          MaxEarly     \* bound on handlers that fail before their try block

VARIABLES here,       \* the clients of this behaviour
          polling,    \* pollers whose page is open
          served,     \* pollers that got a frame since they opened the page
          leases,     \* pollers with an unexpired lease
          running,    \* LiveMonitor._running
          gen,        \* LiveMonitor._generation, modulo 2
          thread,     \* generation -> place in _run
          halt,       \* LiveMonitor._stop
          frame,      \* the one-slot buffer: none, new, or old enough to go stale
          faults,     \* failed captures and stops so far
          active,     \* ViewerRegistry._active
          ws,         \* watcher -> its handler and session
          early       \* handlers that failed before their try block
monitor == <<polling, served, leases, running, gen, thread, halt, frame, faults>>
signaling == <<active, ws, early>>
vars == <<here, monitor, signaling>>

Off == [at |-> "none", pipe |-> FALSE, ice |-> "new", offers |-> 0, watchdog |-> FALSE,
        grace |-> FALSE, ended |-> FALSE]

Init ==
    /\ here \in {Pollers, Watchers}
    /\ polling = {} /\ served = {} /\ leases = {} /\ running = FALSE
    /\ gen = 0 /\ thread = [g \in 0..1 |-> "dead"] /\ halt = FALSE
    /\ frame = "none" /\ faults = 0
    /\ active = 0 /\ ws = [w \in Watchers |-> Off] /\ early = 0

-----------------------------------------------------------------------------
(* live_monitor.py: viewers *)

\* Mutant: a thread is started whenever the flag is down or the old one has left its loop.
EnsureRunningEager ==
    IF running /\ thread[gen] # "dead" /\ thread[gen] # "break"
    THEN UNCHANGED <<running, gen, thread, halt>>
    ELSE /\ gen' = 1 - gen /\ running' = TRUE /\ halt' = FALSE
         /\ thread' = [thread EXCEPT ![1 - gen] = "check"]

\* _ensure_running: a new generation unless one is marked running and alive.
_ensure_running ==
    IF running /\ thread[gen] # "dead" THEN UNCHANGED <<running, gen, thread, halt>>
    ELSE /\ gen' = 1 - gen /\ running' = TRUE /\ halt' = FALSE
         /\ thread' = [thread EXCEPT ![1 - gen] = "check"]

Open(p) ==
    /\ p \in here \ polling
    /\ polling' = polling \cup {p} /\ served' = served \ {p}
    /\ UNCHANGED <<here, leases, running, gen, thread, halt, frame, faults, signaling>>

\* Without a page and a lease, nothing keeps the last frame young.
Ageing(watched) == IF watched \/ frame = "none" THEN frame ELSE "old"

\* A page closes or pauses; its lease lives on until it expires.
Close(p) ==
    /\ p \in polling /\ polling' = polling \ {p}
    /\ frame' = Ageing(polling # {p} \/ leases # {})
    /\ UNCHANGED <<here, served, leases, running, gen, thread, halt, faults, signaling>>

\* Mutant: a poll that finds a frame does not look after the producer.
TouchStartsOnce(p) ==
    /\ p \in leases \/ Cardinality(leases) < MaxViewers
    /\ leases' = leases \cup {p}
    /\ IF p \in leases THEN UNCHANGED <<running, gen, thread, halt>> ELSE _ensure_running

\* touch: refused over the cap, unless the viewer already has a lease.
touch(p) ==
    /\ p \in leases \/ Cardinality(leases) < MaxViewers
    /\ leases' = leases \cup {p}
    /\ _ensure_running

\* _handle_live_frame: touch, then latest.
_handle_live_frame(p) ==
    /\ p \in polling
    /\ touch(p)
    /\ served' = IF frame # "none" THEN served \cup {p} ELSE served
    /\ UNCHANGED <<here, polling, frame, faults, signaling>>

\* _prune_locked: the lease of a page that is gone, or that waits out a backoff of
\* its own, expires.
Expire(p) ==
    /\ p \in leases /\ leases' = leases \ {p}
    /\ thread[gen] \notin {"check", "idle"}
    /\ frame' = Ageing(polling # {} \/ leases # {p})
    /\ UNCHANGED <<here, polling, served, running, gen, thread, halt, faults, signaling>>

\* latest: past the hard bound a frame is not served any more.
Stale ==
    /\ frame = "old" /\ frame' = "none"
    /\ UNCHANGED <<here, polling, served, leases, running, gen, thread, halt, faults, signaling>>

-----------------------------------------------------------------------------
(* live_monitor.py: the producer thread *)

At(g, from, to) == thread[g] = from /\ thread' = [thread EXCEPT ![g] = to]
KeepViewers == UNCHANGED <<here, polling, served, leases, gen, signaling>>

\* _run, at the top of its loop: a stop breaks; _has_viewers decides between a
\* capture and the idle wait; idle for the grace period, break.
Look(g) ==
    /\ \E from \in {"check", "idle", "backoff"} :
         \/ halt /\ At(g, from, "break")
         \/ ~halt /\ leases # {} /\ At(g, from, "capture")
         \/ ~halt /\ leases = {} /\ At(g, from, IF from = "idle" THEN "break" ELSE "idle")
    /\ KeepViewers /\ UNCHANGED <<running, halt, frame, faults>>

\* _capture_once: a valid frame is cached; after a failure or an invalid frame the
\* thread backs off.
_capture_once(g) ==
    /\ \/ At(g, "capture", "check") /\ frame' = "new" /\ UNCHANGED faults
       \/ /\ faults < MaxFaults /\ faults' = faults + 1
          /\ At(g, "capture", "backoff") /\ frame' = Ageing(FALSE)
    /\ KeepViewers /\ UNCHANGED <<running, halt>>

\* The finally of _run: only the current generation lowers the flag.
Exit(g) ==
    /\ At(g, "break", "dead") /\ running' = (running /\ gen # g)
    /\ KeepViewers /\ UNCHANGED <<halt, frame, faults>>

\* LiveMonitor.stop, whose join may time out with the thread still in a capture.
StopMonitor ==
    /\ here = Pollers /\ faults < MaxFaults /\ faults' = faults + 1
    /\ halt' = TRUE
    /\ KeepViewers /\ UNCHANGED <<running, thread, frame>>

-----------------------------------------------------------------------------
(* admin_app._handle_local_webrtc_ws *)

Ws(w, from, r) == w \in here /\ ws[w].at = from /\ ws' = [ws EXCEPT ![w] = r]
KeepMonitor == UNCHANGED <<here, monitor>>

\* ViewerRegistry.try_acquire; at the cap the socket is told so and closed.
try_acquire(w) ==
    /\ active < MaxSlots
    /\ Ws(w, "none", [Off EXCEPT !.at = "held"])
    /\ active' = active + 1
    /\ KeepMonitor /\ UNCHANGED early

\* ws.prepare, the import of local_webrtc and its constructor, before the try block.
Prepare(w) ==
    /\ \/ Ws(w, "held", [ws[w] EXCEPT !.at = "start"]) /\ UNCHANGED early
       \/ early < MaxEarly /\ Ws(w, "held", Off) /\ early' = early + 1
    /\ KeepMonitor /\ UNCHANGED active

\* session.start: the pipeline with its watchdog, or an exception into finally.
start(w) ==
    /\ \/ Ws(w, "start", [ws[w] EXCEPT !.at = "open", !.pipe = TRUE, !.watchdog = TRUE])
       \/ Ws(w, "start", [ws[w] EXCEPT !.at = "finally"])
    /\ KeepMonitor /\ UNCHANGED <<active, early>>

\* _create_offer, from on-negotiation-needed or from the fallback timer, once.
_create_offer(w) ==
    /\ ws[w].pipe /\ ws[w].offers = 0
    /\ Ws(w, "open", [ws[w] EXCEPT !.offers = 1])
    /\ KeepMonitor /\ UNCHANGED <<active, early>>

\* What webrtcbin may report next.
IceNext(s) ==
    CASE s = "new"          -> {"checking", "failed"}
      [] s = "checking"     -> {"connected", "failed"}
      [] s = "connected"    -> {"disconnected", "closed"}
      [] s = "disconnected" -> {"connected", "failed"}
      [] OTHER              -> {}

\* Mutant: a lost connection waits for ICE to fail instead of arming the grace timer.
IceForgetsGrace(r, s) ==
    CASE s = "connected"            -> [r EXCEPT !.ice = s, !.grace = FALSE, !.watchdog = FALSE]
      [] s \in {"failed", "closed"} -> [r EXCEPT !.ice = s, !.ended = TRUE]
      [] OTHER                      -> [r EXCEPT !.ice = s]

\* _on_ice_state_change: connected disarms both timers, disconnected arms the grace
\* timer, the terminal states notify the end.
_on_ice_state_change(r, s) ==
    CASE s = "connected"            -> [r EXCEPT !.ice = s, !.grace = FALSE, !.watchdog = FALSE]
      [] s = "disconnected"         -> [r EXCEPT !.ice = s, !.grace = TRUE]
      [] s \in {"failed", "closed"} -> [r EXCEPT !.ice = s, !.ended = TRUE]
      [] OTHER                      -> [r EXCEPT !.ice = s]

Ice(w) ==
    /\ ws[w].pipe
    /\ \E s \in IceNext(ws[w].ice) : Ws(w, "open", _on_ice_state_change(ws[w], s))
    /\ KeepMonitor /\ UNCHANGED <<active, early>>

\* _connect_watchdog: the session never connected.
_connect_watchdog(w) ==
    /\ ws[w].watchdog
    /\ Ws(w, "open", [ws[w] EXCEPT !.watchdog = FALSE, !.ended = TRUE])
    /\ KeepMonitor /\ UNCHANGED <<active, early>>

\* _check_disconnected: the grace period is over and ICE has not recovered.
_check_disconnected(w) ==
    /\ ws[w].grace
    /\ Ws(w, "open", [ws[w] EXCEPT !.grace = FALSE,
                        !.ended = @ \/ ws[w].ice \in {"disconnected", "failed", "closed"}])
    /\ KeepMonitor /\ UNCHANGED <<active, early>>

\* on_ended, on the event loop: the socket is closed and the receive loop ends.
on_ended(w) ==
    /\ ws[w].ended
    /\ Ws(w, "open", [ws[w] EXCEPT !.at = "finally"])
    /\ KeepMonitor /\ UNCHANGED <<active, early>>

\* A stop message, a closed tab, an error or a missed heartbeat end the receive
\* loop; parse_client_message rejects anything else that is not answer or ice.
Hangup(w) ==
    /\ Ws(w, "open", [ws[w] EXCEPT !.at = "finally"])
    /\ KeepMonitor /\ UNCHANGED <<active, early>>

\* session.stop: both timers cancelled, the pipeline to NULL, the loop quit.
stop(w) ==
    /\ Ws(w, "finally", [ws[w] EXCEPT !.at = "release", !.pipe = FALSE,
                                      !.watchdog = FALSE, !.grace = FALSE])
    /\ KeepMonitor /\ UNCHANGED <<active, early>>

\* ViewerRegistry.release
release(w) ==
    /\ Ws(w, "release", Off)
    /\ active' = IF active > 0 THEN active - 1 ELSE 0
    /\ KeepMonitor /\ UNCHANGED early

Producer == \E g \in 0..1 : Look(g) \/ _capture_once(g) \/ Exit(g)

Next ==
    \/ \E p \in Pollers : Open(p) \/ Close(p) \/ _handle_live_frame(p) \/ Expire(p)
    \/ Stale \/ StopMonitor \/ Producer
    \/ \E w \in Watchers :
         \/ try_acquire(w) \/ Prepare(w) \/ start(w) \/ _create_offer(w) \/ Ice(w)
         \/ _connect_watchdog(w) \/ _check_disconnected(w) \/ on_ended(w) \/ Hangup(w)
         \/ stop(w) \/ release(w)

\* An open page polls on; the producer thread runs; the event loop, the executor
\* and the GLib timers get their turn.  Nothing forces a viewer, an ICE state, an
\* expiry or a failure.
Fairness ==
    /\ \A p \in Pollers : WF_vars(_handle_live_frame(p))
    /\ \A g \in 0..1 : WF_vars(Look(g)) /\ WF_vars(_capture_once(g)) /\ WF_vars(Exit(g))
    /\ \A w \in Watchers :
         /\ WF_vars(Prepare(w)) /\ WF_vars(start(w)) /\ WF_vars(on_ended(w))
         /\ WF_vars(_connect_watchdog(w)) /\ WF_vars(_check_disconnected(w))
         /\ WF_vars(stop(w)) /\ WF_vars(release(w))

Spec == Init /\ [][Next]_vars /\ Fairness

-----------------------------------------------------------------------------
(* Properties *)

\* Leases and slots within their caps, one offer per session, and timers only
\* where there is a pipeline to end.
TypeOK ==
    /\ Cardinality(leases) <= MaxViewers /\ active \in 0..MaxSlots /\ gen \in 0..1
    /\ \A w \in Watchers :
         /\ ws[w].offers <= 1
         /\ ws[w].watchdog \/ ws[w].grace => ws[w].pipe

\* One thread at most captures from the stream, across restarts of the producer.
OneProducer == Cardinality({g \in 0..1 : thread[g] # "dead"}) <= 1

\* Every pipeline holds a slot, so there are never more pipelines than slots; a
\* connected viewer is not ended by the watchdog of its start.
PipelinesWithinCap ==
    /\ Cardinality({w \in Watchers : ws[w].pipe}) <= active
    /\ \A w \in Watchers : ws[w].ice = "connected" => ~ws[w].watchdog

\* A page that keeps polling is served a frame unless the cap keeps it out, although
\* the producer may be on its way out, stopped or backing off when the page opens.
PollerIsServed ==
    \A p \in Pollers :
      p \in polling ~> (p \in served \/ p \notin polling \/ Cardinality(leases \ {p}) = MaxViewers)

\* A session that does not get or keep its connection ends and frees its slot.
LostSessionEnds ==
    \A w \in Watchers :
      (ws[w].at = "open" /\ ws[w].ice # "connected")
        ~> (ws[w].at = "none" \/ ws[w].ice = "connected")

\* One viewer slot is held from try_acquire until the release, whatever the exit
\* path: the slots taken are those of handlers that are still there.
SlotIsReturned == active = Cardinality({w \in Watchers : ws[w].at # "none"})
=============================================================================
