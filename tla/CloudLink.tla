------------------------------- MODULE CloudLink -------------------------------
(***************************************************************************)
(* The camera's link to Prusa Connect: the Socket.IO session with its      *)
(* supervisor (signaling.py), the triggers dispatched over it (trigger.py, *)
(* main.py, device_control.py), and the /c/info service that republishes   *)
(* changed settings (info_service.py, http_result.py, upload.py).          *)
(*                                                                         *)
(* Abstraction.  A trigger is a set of (tag, value) fields.  A message is  *)
(* what matters of it: who asked, and on which session it goes out.  The   *)
(* /c/info body is the version of the settings it was built from.  What is *)
(* kept of the timeouts: an authentication call (10 s) has ended when the  *)
(* supervisor looks again (15 s or more).  The session and the info        *)
(* service share nothing but the settings, so a behaviour follows one.     *)
(***************************************************************************)
EXTENDS Integers, Sequences, SequencesExt, TLC

CONSTANTS Handlers,     \* trigger handlers that may run at a time
          Triggers,     \* the triggers Connect sends: sets of <<tag, value>>
          MaxTriggers,  \* bound on triggers
          MaxFaults,    \* bound on refusals, timeouts and dropped sessions
          MaxHangs,     \* bound on connects that never return
          MaxBackoff,   \* doublings of the retry interval: 15 s to 120 s is 3
          MaxRetries,   \* MAX_INFO_RETRIES
          Countdown,    \* INFO_RETRY_COUNTDOWN, in ticks
          MaxChanges    \* bound on settings changes

ASSUME CloudAssumption ==
    /\ {MaxTriggers, MaxFaults, MaxHangs, MaxBackoff, MaxRetries, Countdown, MaxChanges} \subseteq Nat
    /\ \A t \in Triggers : t \subseteq (1..15) \X (0..2)

VARIABLES focus,      \* the part this behaviour follows
          sup,        \* main and supervise: initial, connect, sleep, or hung
          up,         \* the transport of the current client is connected
          asking,     \* a camera_authentication call is pending
          authed,     \* PrusaSignaling._authenticated
          client,     \* the current client, alternating
          backoff,    \* doublings of the supervisor's delay
          job,        \* handler -> the actions it still has to dispatch, and for whom
          sent,       \* the last message: none, to a member, or to a stranger
          last,       \* the state records a reboot request less than a window ago
          reboots,    \* reboots within a window
          spent,      \* events so far, against their bounds
          cfg, told,  \* version of the settings, and the one Connect has
          dirty,      \* CameraState.info_dirty
          countdown,  \* info_service_loop: ticks before the next attempt
          failures,   \* info_service_loop: consecutive failures
          body,       \* version under upload, or None
          missed,     \* a change came while the upload that succeeded was on its way
          gaveup      \* the last upload ended without success and without a retry
session == <<sup, up, asking, authed, client, backoff>>
trigger == <<job, sent, last, reboots>>
info == <<cfg, told, dirty, countdown, failures, body, missed, gaveup>>
vars == <<focus, session, trigger, spent, info>>

None == -1
Idle == [todo |-> <<>>, asker |-> None]

Init ==
    /\ focus \in {"session", "info"}
    /\ sup = "initial" /\ up = FALSE /\ asking = FALSE /\ authed = FALSE
    /\ client = 0 /\ backoff = 0
    /\ job = [h \in Handlers |-> Idle] /\ sent = "none" /\ last = FALSE /\ reboots = 0
    /\ spent = [faults |-> 0, hangs |-> 0, triggers |-> 0]
    \* main uploads /c/info once before the services start
    /\ cfg = 0 /\ countdown = 0 /\ failures = 0 /\ body = None /\ missed = FALSE
    /\ \/ told = 0 /\ dirty = FALSE /\ gaveup = FALSE
       \/ focus = "info" /\ told = None /\ dirty \in BOOLEAN /\ gaveup = ~dirty

Spend(kind, max) == spent[kind] < max /\ spent' = [spent EXCEPT ![kind] = @ + 1]
Fault == Spend("faults", MaxFaults)

-----------------------------------------------------------------------------
(* signaling.py: the session *)

\* Mutant: a connected transport is enough.
UsableIfConnected == up

_session_is_usable == up /\ authed

\* A connect attempt has returned or raised: connect leaves the rest to the
\* supervisor, supervise doubles its delay up to the cap.
Return ==
    /\ sup' = "sleep"
    /\ backoff' = IF sup = "connect" /\ backoff < MaxBackoff THEN backoff + 1 ELSE backoff

\* _connect_once: the transport opens and the connect callback starts to
\* authenticate, or the attempt raises.
_connect_once ==
    /\ focus = "session" /\ sup \in {"initial", "connect"} /\ ~up /\ ~asking
    /\ \/ up' = TRUE /\ asking' = TRUE /\ authed' = FALSE /\ UNCHANGED <<sup, backoff, spent>>
       \/ Fault /\ Return /\ UNCHANGED <<up, asking, authed>>
    /\ UNCHANGED <<focus, client, trigger, info>>

\* _authenticate: the ACK 0, another ACK or an exception; the connect returns.
_authenticate ==
    /\ focus = "session" /\ asking /\ asking' = FALSE
    /\ \/ up /\ authed' = TRUE /\ UNCHANGED spent
       \/ up /\ Fault /\ authed' = FALSE
       \/ ~up /\ authed' = FALSE /\ UNCHANGED spent
    /\ IF sup \in {"initial", "connect"} THEN Return ELSE UNCHANGED <<sup, backoff>>
    /\ UNCHANGED <<focus, up, client, trigger, info>>

\* The wait of the connect, or the bound on the initial one, runs out first: the
\* library may close the transport, the call goes on.
ConnectTimeout ==
    /\ focus = "session" /\ sup \in {"initial", "connect"} /\ asking
    /\ Fault /\ Return
    /\ up' \in {up, FALSE}
    /\ UNCHANGED <<focus, asking, authed, client, trigger, info>>

\* The disconnect callback.
Disconnect ==
    /\ focus = "session" /\ up /\ Fault
    /\ up' = FALSE /\ authed' = FALSE
    /\ UNCHANGED <<focus, sup, asking, client, backoff, trigger, info>>

\* Only the initial attempt has a bound of its own.
Hang ==
    /\ focus = "session" /\ sup = "connect" /\ Spend("hangs", MaxHangs)
    /\ sup' = "hung"
    /\ UNCHANGED <<focus, up, asking, authed, client, backoff, trigger, info>>

\* supervise: a usable session resets the delay; anything else is dropped and
\* replaced by a fresh client.
supervise ==
    /\ focus = "session" /\ sup = "sleep" /\ ~asking
    /\ IF _session_is_usable
       THEN backoff' = 0 /\ UNCHANGED <<sup, up, authed, client>>
       ELSE sup' = "connect" /\ up' = FALSE /\ authed' = FALSE /\ client' = 1 - client
            /\ UNCHANGED backoff
    /\ UNCHANGED <<focus, asking, trigger, spent, info>>

-----------------------------------------------------------------------------
(* trigger.py and dispatch_trigger_action *)

_ACTION_BY_FIELD_VALUE ==
    [f \in {<<1, 1>>, <<2, 1>>, <<12, 1>>} |-> "message"] @@
    [f \in {<<3, 1>>} |-> "snapshot"] @@ [f \in {<<9, 1>>} |-> "reboot"] @@
    [f \in {<<15, 1>>} |-> "file_list"] @@
    [f \in {<<4, 1>>, <<4, 2>>, <<5, 1>>, <<5, 2>>, <<10, 1>>, <<10, 2>>} |-> "setting"] @@
    [f \in {<<8, 1>>} |-> "declined"] @@ [f \in {<<14, 1>>} |-> "build"]

\* trigger_actions: the documented pairs in the order of their tags.
trigger_actions(fields) ==
    LET known == SetToSortSeq({f \in fields : f \in DOMAIN _ACTION_BY_FIELD_VALUE},
                              LAMBDA f, g : f[1] < g[1])
    IN [i \in DOMAIN known |-> _ACTION_BY_FIELD_VALUE[known[i]]]

\* on_trigger: Connect routes triggers to an authenticated session only.
on_trigger(h) ==
    /\ focus = "session" /\ _session_is_usable /\ job[h] = Idle
    /\ Spend("triggers", MaxTriggers)
    /\ \E t \in Triggers : job' = [job EXCEPT ![h] = [todo |-> trigger_actions(t), asker |-> client]]
    /\ UNCHANGED <<focus, session, sent, last, reboots, info>>

\* sio_emit uses the client of the moment; without a transport it raises and the
\* handler ends.
sio_emit(h, rest) ==
    IF up
    THEN /\ sent' = IF authed /\ client = job[h].asker THEN "member" ELSE "stranger"
         /\ job' = [job EXCEPT ![h].todo = rest]
    ELSE job' = [job EXCEPT ![h] = Idle] /\ UNCHANGED sent

\* request_reboot: within the window of the last accepted request nothing happens;
\* otherwise the request is recorded, then the command runs, here without success.
request_reboot == ~last /\ last' = TRUE /\ UNCHANGED reboots

\* The command succeeds and the device comes back: main starts with a new state.
Reboot ==
    /\ ~last /\ last' = FALSE /\ reboots' = IF reboots < 2 THEN reboots + 1 ELSE reboots
    /\ sup' = "initial" /\ up' = FALSE /\ asking' = FALSE /\ authed' = FALSE
    /\ client' = 0 /\ backoff' = 0 /\ job' = [h \in Handlers |-> Idle] /\ sent' = "none"

\* What an action goes on with: the fragments of a file list, if there is one, and
\* the upload of a capture, if it succeeded.  Other modules model what the settings
\* and the builds do; a firmware update is declined.
Awaits(action) ==
    CASE action = "file_list" -> {<<>>, <<"fragment">>, <<"fragment", "fragment">>}
      [] action = "snapshot"  -> {<<>>, <<"upload">>}
      [] OTHER                -> {<<>>}

\* dispatch_trigger_action, one step up to its next await.
dispatch_trigger_action(h) ==
    LET todo == job[h].todo  rest == Tail(todo) IN
    /\ focus = "session" /\ todo # <<>>
    /\ CASE Head(todo) \in {"message", "fragment"} ->
              sio_emit(h, rest) /\ UNCHANGED <<session, last, reboots>>
         [] Head(todo) = "reboot" ->
              \/ (IF last THEN UNCHANGED <<last, reboots>> ELSE request_reboot)
                 /\ job' = [job EXCEPT ![h].todo = rest] /\ UNCHANGED <<session, sent>>
              \/ Reboot
         [] OTHER ->
              /\ \E first \in Awaits(Head(todo)) : job' = [job EXCEPT ![h].todo = first \o rest]
              /\ UNCHANGED <<session, sent, last, reboots>>
    /\ UNCHANGED <<focus, spent, info>>

Done(h) ==
    /\ focus = "session" /\ job[h] # Idle /\ job[h].todo = <<>> /\ job' = [job EXCEPT ![h] = Idle]
    /\ UNCHANGED <<focus, session, sent, last, reboots, spent, info>>

\* can_reboot: the window since the last command is over.
WindowEnds ==
    /\ last \/ reboots > 0
    /\ reboots' = 0 /\ last' = FALSE
    /\ UNCHANGED <<focus, session, job, sent, spent, info>>

-----------------------------------------------------------------------------
(* main.info_service_loop *)

\* Mutant: a setting is changed without marking /c/info.
ChangeQuietly == cfg < MaxChanges /\ cfg' = cfg + 1 /\ UNCHANGED dirty

\* mark_info_dirty, from every setter of a published attribute.
mark_info_dirty == cfg < MaxChanges /\ cfg' = cfg + 1 /\ dirty' = TRUE

Change ==
    /\ focus = "info" /\ mark_info_dirty
    /\ UNCHANGED <<focus, session, trigger, spent, told, countdown, failures, body, missed, gaveup>>

\* next_info_action, once a second: an attempt when dirty and the countdown is over.
\* upload_info builds the body before it sends it.
next_info_action ==
    /\ focus = "info" /\ body = None
    /\ IF dirty /\ countdown = 0 THEN body' = cfg /\ UNCHANGED <<countdown, failures>>
       ELSE /\ countdown' = IF dirty THEN countdown - 1 ELSE countdown
            /\ failures' = IF dirty THEN failures ELSE 0
            /\ UNCHANGED body
    /\ UNCHANGED <<focus, session, trigger, spent, cfg, told, dirty, missed, gaveup>>

\* classify_status and classify_exception, as far as the retry policy tells them apart.
ResultClass == {"success", "client_error", "transient"}

\* Mutant: transient failures are retried without a bound.
RetryForever(result, n) == result = "transient"

should_retry(result, n) == result = "transient" /\ n < MaxRetries

\* info_dirty_after_result, countdown_after_result and the loop's own bookkeeping.
InfoResult(result) ==
    /\ focus = "info" /\ body # None /\ body' = None
    /\ IF result = "success"
       THEN /\ dirty' = FALSE /\ countdown' = 0 /\ failures' = 0
            /\ told' = body /\ missed' = (cfg # body) /\ gaveup' = FALSE
       ELSE /\ dirty' = should_retry(result, failures)
            /\ countdown' = IF dirty' THEN Countdown ELSE 0
            /\ failures' = IF failures <= MaxRetries THEN failures + 1 ELSE failures
            \* a request that timed out may have been taken
            /\ told' \in (IF result = "transient" THEN {told, body} ELSE {told})
            /\ gaveup' = ~dirty' /\ UNCHANGED missed
    /\ UNCHANGED <<focus, session, trigger, spent, cfg>>

Next ==
    \/ _connect_once \/ _authenticate \/ ConnectTimeout \/ Disconnect \/ Hang \/ supervise
    \/ \E h \in Handlers : on_trigger(h) \/ dispatch_trigger_action(h) \/ Done(h)
    \/ WindowEnds
    \/ Change \/ next_info_action \/ \E r \in ResultClass : InfoResult(r)

\* The event loop runs: attempts and calls end within their timeouts, the supervisor
\* and the info service wake up.  Nothing forces a fault, a trigger or a change.
Fairness ==
    /\ WF_vars(_connect_once) /\ WF_vars(_authenticate) /\ WF_vars(supervise)
    /\ WF_vars(next_info_action) /\ WF_vars(\E r \in ResultClass : InfoResult(r))

Spec == Init /\ [][Next]_vars /\ Fairness

-----------------------------------------------------------------------------
(* Properties *)

\* Whatever the server refuses, drops or leaves unanswered, in the initial attempt
\* or later, the camera gets back to an authenticated session: supervise replaces a
\* connected transport that is not authenticated too.  Only an attempt of its own that
\* never returns stops it.
SessionReturns == []<>(focus = "session" => (up /\ authed) \/ sup = "hung")

\* A change of a published setting is told or given up: dirty does not stay, however
\* the server answers.
InfoSettles == dirty ~> ~dirty

\* With nothing under way, Connect has the current settings, or the last upload ended
\* without a retry, or a change came during an upload.
InfoMatches == body = None /\ ~dirty => told = cfg \/ missed \/ gaveup

\* A change of a published setting is republished, also when it comes while an earlier
\* one is being uploaded.
InfoIsTold == body = None /\ ~dirty /\ ~gaveup => told = cfg

\* Messages go to the authenticated session that asked for them.
RepliesToMembers == sent # "stranger"

\* Connect's triggers do not reboot the camera twice within a window.
NoRebootLoop == reboots <= 1

\* As SessionReturns, with an attempt of the supervisor that does not return.
SupervisorReturns == []<>(focus = "session" => up /\ authed)
=============================================================================
