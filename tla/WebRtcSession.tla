----------------------------- MODULE WebRtcSession -----------------------------
(***************************************************************************)
(* A Prusa Connect live view: the handler of the `webrtc` event in         *)
(* app/main.py on the asyncio loop, the peer connection in app/webrtc.py,  *)
(* whose timers run on the GLib thread and whose ICE notifications come    *)
(* from webrtcbin's own threads, and the state the two share: the flag     *)
(* that pauses periodic snapshots and the relay flag that locks quality.   *)
(*                                                                         *)
(* A request pauses the snapshots, sleeps a second, and only then builds   *)
(* the peer.  The timers of a peer are cancelled when it is torn down,     *)
(* which does not stop a callback that GLib has already dispatched.  The   *)
(* end of a stream is reported to the loop as a coroutine.                 *)
(***************************************************************************)
EXTENDS Integers, FiniteSets

CONSTANTS
    MaxOffers,     \* live-view requests
    MaxRelays,     \* relay candidates from viewers
    MaxModes,      \* set_webrtc_mode events
    MaxDrops       \* times an established connection is interrupted

NoPeer == 0
Peers == 1..MaxOffers
NoCall == [timer |-> "none", peer |-> NoPeer]

VARIABLES
    mode, status,    \* webrtc_mode and webrtc_status
    glib,            \* the GLib main loop runs
    streaming,       \* snapshots are paused
    turn,            \* a relay candidate was seen: quality raises are locked
    asked,           \* requests received
    asleep,          \* requests in the second before create_offer
    building,        \* the request create_offer has torn the old peer down for
    peer,            \* the peer connection that exists
    ice,             \* its ICE connection state
    iceConnected, ended,      \* _ice_connected, _ended_notified
    armed,           \* the timers in GLib's queue: [timer, peer]
    known,           \* timer -> the peer whose timer id the object remembers
    call,            \* the timer callback GLib has dispatched
    endings,         \* on_stream_ended coroutines scheduled on the loop
    reported,        \* ghost: peers whose own end was reported
    relays, modes, drops

loopVars == <<mode, status, glib, streaming, turn, asked, asleep, building>>
peerVars == <<peer, ice, iceConnected, ended, armed, known>>
vars == <<loopVars, peerVars, call, endings, reported, relays, modes, drops>>

Timers == {"watchdog", "grace"}

-----------------------------------------------------------------------------
Init ==
    /\ mode \in {0, 1} /\ status = 1 /\ glib = TRUE
    /\ streaming = FALSE /\ turn = FALSE
    /\ asked = 0 /\ asleep = {} /\ building = NoPeer
    /\ peer = NoPeer /\ ice = "new" /\ iceConnected = FALSE /\ ended = FALSE
    /\ armed = {}
    /\ known = [t \in Timers |-> NoPeer]
    /\ call = NoCall
    /\ endings = 0
    /\ reported = {}
    /\ relays = 0 /\ modes = 0 /\ drops = 0

(* _cancel_timeout for the timers in `which`: only a timer whose id is
   remembered, and that has not been dispatched, is removed *)
_cancel_timeout(which) ==
    /\ armed' = {t \in armed : ~(t.timer \in which
                                 /\ known[t.timer] = t.peer)}
    /\ known' = [t \in Timers |-> IF t \in which THEN NoPeer ELSE known[t]]

(* PrusaWebRTC._teardown, with the owner's on_teardown callback *)
_teardown ==
    /\ _cancel_timeout(Timers)
    /\ iceConnected' = FALSE /\ ended' = FALSE
    /\ turn' = FALSE
    /\ peer' = NoPeer /\ ice' = "new"

(* the loop is free unless create_offer is running on it *)
LoopFree == building = NoPeer

(* webrtc_control.offer_allowed *)
offer_allowed == ~(mode = 0 /\ status = 0)

(* handle_event('webrtc') with an ICE configuration: up to the sleep *)
RequestOffer ==
    /\ LoopFree /\ asked < MaxOffers
    /\ offer_allowed
    /\ asked' = asked + 1
    /\ asleep' = asleep \cup {asked + 1}
    /\ streaming' = TRUE
    /\ UNCHANGED <<mode, status, glib, turn, building, peerVars, call, endings,
                   reported, relays, modes, drops>>

(* after the sleep: create_offer tears the previous peer down ... *)
WakeAndTearDown(r) ==
    /\ LoopFree
    /\ asleep' = asleep \ {r}
    /\ building' = r
    /\ _teardown
    /\ UNCHANGED <<mode, status, glib, streaming, asked, call, endings,
                   reported, relays, modes, drops>>

(* Mutant: the new peer gets no watchdog. *)
BuildWithoutWatchdog ==
    /\ building # NoPeer
    /\ building' = NoPeer
    /\ peer' = building /\ ice' = "new"
    /\ iceConnected' = FALSE /\ ended' = FALSE
    /\ known' = [known EXCEPT !["grace"] = NoPeer]
    /\ UNCHANGED <<mode, status, glib, streaming, turn, asked, asleep, armed,
                   call, endings, reported, relays, modes, drops>>

(* ... then builds the new one and arms its watchdog *)
create_offer ==
    /\ building # NoPeer
    /\ building' = NoPeer
    /\ peer' = building /\ ice' = "new"
    /\ iceConnected' = FALSE /\ ended' = FALSE
    /\ armed' = armed \cup {[timer |-> "watchdog", peer |-> building]}
    /\ known' = [watchdog |-> building, grace |-> NoPeer]
    /\ UNCHANGED <<mode, status, glib, streaming, turn, asked, asleep, call,
                   endings, reported, relays, modes, drops>>

(* ... or raises, and the handler resumes the snapshots *)
CreateOfferFails ==
    /\ building # NoPeer
    /\ building' = NoPeer
    /\ streaming' = FALSE
    /\ UNCHANGED <<mode, status, glib, turn, asked, asleep, peerVars, call,
                   endings, reported, relays, modes, drops>>

(* a viewer's relay candidate: it answers an offer, which a peer has made *)
RelayCandidate ==
    /\ LoopFree /\ relays < MaxRelays
    /\ peer # NoPeer \/ reported # {}
    /\ turn' = TRUE
    /\ relays' = relays + 1
    /\ UNCHANGED <<mode, status, glib, streaming, asked, asleep, building,
                   peerVars, call, endings, reported, modes, drops>>

(* set_webrtc_mode through webrtc_control.apply_mode *)
apply_mode(m) ==
    /\ LoopFree /\ modes < MaxModes
    /\ modes' = modes + 1
    /\ mode' = m
    /\ status' = m
    /\ glib' = (m = 1)
    /\ IF status = 1 /\ m = 0
       THEN _teardown /\ streaming' = FALSE
       ELSE UNCHANGED <<peerVars, turn, streaming>>
    /\ UNCHANGED <<asked, asleep, building, call, endings, reported, relays,
                   drops>>

(* the on_stream_ended coroutine *)
on_stream_ended ==
    /\ LoopFree /\ endings > 0
    /\ endings' = endings - 1
    /\ turn' = FALSE /\ streaming' = FALSE
    /\ UNCHANGED <<mode, status, glib, asked, asleep, building, peerVars, call,
                   reported, relays, modes, drops>>

-----------------------------------------------------------------------------
(* _notify_stream_ended: once per peer, marshalled to the loop.  `cause` is
   the peer whose timer or notification this is. *)
_notify_stream_ended(cause) ==
    IF ended THEN UNCHANGED <<ended, endings, reported>>
    ELSE /\ ended' = TRUE
         /\ endings' = endings + 1
         /\ reported' = IF cause = peer THEN reported \cup {peer} ELSE reported

Quiet == UNCHANGED <<ended, endings, reported>>

(* _on_ice_state_change *)
IceConnects ==
    /\ peer # NoPeer /\ ice \in {"new", "disconnected"}
    /\ ice' = "connected" /\ iceConnected' = TRUE
    /\ _cancel_timeout(Timers)
    /\ Quiet
    /\ UNCHANGED <<loopVars, peer, call, relays, modes, drops>>

IceDisconnects ==
    /\ peer # NoPeer /\ ice = "connected" /\ drops < MaxDrops
    /\ drops' = drops + 1
    /\ ice' = "disconnected"
    /\ IF known["grace"] = NoPeer
       THEN /\ armed' = armed \cup {[timer |-> "grace", peer |-> peer]}
            /\ known' = [known EXCEPT !["grace"] = peer]
       ELSE UNCHANGED <<armed, known>>
    /\ Quiet
    /\ UNCHANGED <<loopVars, peer, iceConnected, call, relays, modes>>

IceFails ==
    /\ peer # NoPeer /\ ice # "failed"
    /\ ice' = "failed"
    /\ _notify_stream_ended(peer)
    /\ UNCHANGED <<loopVars, peer, iceConnected, armed, known, call, relays,
                   modes, drops>>

(* GLib takes a due timer off its queue; removing it no longer helps *)
Dispatch(t) ==
    /\ glib /\ call = NoCall
    /\ t \in armed
    /\ armed' = armed \ {t}
    /\ call' = t
    /\ UNCHANGED <<loopVars, peer, ice, iceConnected, ended, known, endings,
                   reported, relays, modes, drops>>

(* _connect_watchdog *)
_connect_watchdog ==
    /\ call.timer = "watchdog"
    /\ known' = [known EXCEPT !["watchdog"] = NoPeer]
    /\ IF ~iceConnected THEN _notify_stream_ended(call.peer) ELSE Quiet
    /\ call' = NoCall
    /\ UNCHANGED <<loopVars, peer, ice, iceConnected, armed, relays, modes,
                   drops>>

(* _check_disconnected *)
_check_disconnected ==
    /\ call.timer = "grace"
    /\ known' = [known EXCEPT !["grace"] = NoPeer]
    /\ IF ~iceConnected \/ (peer # NoPeer /\ ice \in {"failed", "disconnected"})
       THEN _notify_stream_ended(call.peer) ELSE Quiet
    /\ call' = NoCall
    /\ UNCHANGED <<loopVars, peer, ice, iceConnected, armed, relays, modes,
                   drops>>

-----------------------------------------------------------------------------
Loop ==
    \/ \E r \in asleep : WakeAndTearDown(r)
    \/ create_offer \/ CreateOfferFails
    \/ on_stream_ended

GLibThread ==
    \/ \E t \in armed : Dispatch(t)
    \/ _connect_watchdog
    \/ _check_disconnected

Next ==
    \/ Loop \/ GLibThread
    \/ RequestOffer \/ RelayCandidate
    \/ \E m \in {0, 1} : apply_mode(m)
    \/ IceConnects \/ IceDisconnects \/ IceFails

Spec == Init /\ [][Next]_vars

(* The event loop runs what is ready and the GLib thread runs the timers that
   are due.  Nothing is assumed of Prusa Connect, of the viewer or of ICE. *)
FairSpec == Spec /\ WF_vars(Loop) /\ WF_vars(GLibThread)

-----------------------------------------------------------------------------
(* Every variable stays in its type; the object remembers at most one timer
   of each kind. *)
TypeOK ==
    /\ mode \in {0, 1} /\ status \in {0, 1}
    /\ glib \in BOOLEAN /\ streaming \in BOOLEAN /\ turn \in BOOLEAN
    /\ asked \in 0..MaxOffers /\ asleep \subseteq Peers
    /\ building \in Peers \cup {NoPeer} /\ peer \in Peers \cup {NoPeer}
    /\ ice \in {"new", "connected", "disconnected", "failed"}
    /\ iceConnected \in BOOLEAN /\ ended \in BOOLEAN
    /\ armed \subseteq [timer: Timers, peer: Peers]
    /\ known \in [Timers -> Peers \cup {NoPeer}]
    /\ call \in [timer: Timers, peer: Peers] \cup {NoCall}
    /\ endings \in Nat /\ reported \subseteq Peers \cup {NoPeer}
    /\ relays \in 0..MaxRelays /\ modes \in 0..MaxModes
    /\ drops \in 0..MaxDrops

(* Snapshots are paused only on account of a session: a request that is being
   set up or a peer that exists.  Stopping the service and a failed start
   resume them (stop_webrtc_service, the handler's except branch). *)
PausedHasSession ==
    streaming => asleep # {} \/ building # NoPeer \/ peer # NoPeer

(* A pause without a connection does not last: either the viewer connects or
   the snapshots resume, whatever becomes of the peer, its timers and the
   service (GAP-WEBRTC-03, "a failed start must not leave snapshots paused"). *)
SnapshotsResume ==
    (streaming /\ ice # "connected") ~> (~streaming \/ ice = "connected")

(* While a peer is connected the periodic snapshots are paused ("true while a
   WebRTC peer is active"). *)
StreamingWhilePeer == peer # NoPeer /\ ice = "connected" => streaming

(* With WebRTC switched off there is no peer, whatever was under way when it
   was switched off (the user guide's "Whether Prusa Connect may start a live
   view"). *)
DisabledHasNoPeer == mode = 0 /\ status = 0 => peer = NoPeer

(* When a peer fails, its own end has been or is now reported: no callback of
   an earlier session has used up the report (_teardown's comment on stale
   signals). *)
OwnEndReported ==
    [][peer # NoPeer /\ peer' = peer /\ ice # "failed" /\ ice' = "failed"
        => peer \in reported']_vars

(* The quality lock does not outlive the stream: a relay flag that is set
   while nothing streams is cleared again. *)
QualityUnlocks == (turn /\ ~streaming) ~> (~turn \/ streaming)
=============================================================================
