-------------------------------- MODULE Mqtt --------------------------------
(***************************************************************************)
(* The MQTT service of the camera process (app/mqtt_service.py) between     *)
(* the broker, the settings loop and its own threads.                       *)
(*                                                                          *)
(* Threads: "start" (asyncio.to_thread(service.start)), "net" (paho's       *)
(* network thread, which runs every inbound command), "worker" (the error   *)
(* expiry worker) and one short thread per birth (a reconnect or a Home     *)
(* Assistant `online`).  All of them publish the retained state document,   *)
(* which is built and sent in two steps that interleave.  Settings are      *)
(* changed only by the event loop, which runs the jobs the net thread and   *)
(* the console (settings_dispatch.py) hand over.                            *)
(*                                                                          *)
(* External: paho (clean session, automatic reconnect, QoS-1 queue while    *)
(* the link is down) and the broker (retained messages, last will).         *)
(***************************************************************************)
EXTENDS Naturals, Sequences, FiniteSets

CONSTANTS
    None,           \* no document, no caller
    Values,         \* values of the one setting that stands for all settings
    Births,         \* birth threads that may be in flight at once
    Budgets,        \* how many commands, console changes, faults (drops) and
                    \* restarts (boots) one behaviour may hold: a set of choices
    MaxErr,         \* error numbers, one per command
    StopDuringStart \* may the process stop while `start` is still running?

\* Nothing retained is told apart from both availability payloads.
ASSUME MqttAssumption == None \notin {"online", "offline"} /\ StopDuringStart \in BOOLEAN

Refused == "refused"        \* a value the coordinator rejects

Publishers == {"net", "worker"} \cup Births

\* The state document: the setting and last_command_error.
Documents == [value: Values, err: 0..MaxErr]

VARIABLES
    startPc,    \* the start thread
    started,    \* MqttService._started
    client,     \* is PahoBackend._client set?
    link,       \* "off" | "connecting" | "up" | "lost"
    subs,       \* does the broker hold this session's subscriptions?
    will,       \* does the broker hold a last will for the session?
    queue,      \* paho's QoS-1 messages waiting for the link
    ret,        \* what the broker retains, by topic
    value,      \* the coordinator's setting
    jobs,       \* callbacks waiting on the event loop
    net, con,   \* the net thread and the console's dispatcher call
    halt,       \* main's shutdown: "no" | "stopping" | "stopped"
    err, old,   \* _last_command_error (0: none) and: is it past its TTL?
    worker,     \* the error worker; "off" when no worker runs
    tail,       \* is a worker's `finally` still to reschedule?
    running, pending,   \* _error_worker_running, _error_pending
    birth,      \* the birth threads
    pub,        \* publish_state, by thread
    doc,        \* the document a thread has built
    last,       \* ghost: the last accepted value handed to the loop
    left        \* what is left of the budget

broker == <<link, subs, will, queue, ret>>
error == <<err, old, worker, tail, running, pending>>
settings == <<value, jobs, con, last>>
vars == <<startPc, started, client, halt, broker, settings, net, error, birth,
          pub, doc, left>>

Spend(what) ==
    /\ left[what] > 0
    /\ left' = [left EXCEPT ![what] = @ - 1]

\* MqttConfig.from_documents: enabled only when the document says so and every
\* value in it is valid.
from_documents(c) ==
    c.enabled /\ c.uri /\ c.ca_file /\ c.device_id /\ c.prefixes

Configs == [{"enabled", "uri", "ca_file", "device_id", "prefixes"} -> BOOLEAN]

Empty == [avail |-> None, state |-> None, disc |-> None]

Init ==
    /\ startPc \in {IF from_documents(c) THEN "idle" ELSE "disabled" : c \in Configs}
    /\ started = FALSE /\ client = FALSE
    /\ link = "off" /\ subs = FALSE /\ will = FALSE /\ queue = Empty
    /\ ret = Empty
    /\ value = CHOOSE v \in Values : TRUE
    /\ last = value
    /\ jobs = <<>>
    /\ net = [pc |-> "idle", ok |-> FALSE] /\ con = "idle" /\ halt = "no"
    /\ err = 0 /\ old = FALSE /\ worker = "off" /\ tail = FALSE /\ running = FALSE /\ pending = FALSE
    /\ birth = [b \in Births |-> "idle"]
    /\ pub = [t \in Publishers |-> "no"]
    /\ doc = [t \in Publishers |-> None]
    /\ left \in Budgets

-----------------------------------------------------------------------------
(* Publishing.  paho sends at once over a live link and keeps a QoS-1       *)
(* message for the next one otherwise; without a client `publish` raises    *)
(* and _publish swallows it.                                                *)

\* The store after `messages`, at most one per topic.  Only the last message
\* of a topic matters to a retained store, so the queue has this form too.
Over(store, messages) ==
    [topic \in DOMAIN store |->
        IF topic \in DOMAIN messages /\ messages[topic] # None THEN messages[topic]
                                                            ELSE store[topic]]

_publish(messages) ==
    /\ ret' = IF client /\ link = "up" THEN Over(ret, messages) ELSE ret
    /\ queue' = IF client /\ link # "up" THEN Over(queue, messages) ELSE queue

\* The discovery document names topics and entities; nothing that changes
\* while the process runs is in it.
build_discovery == "entities"

publish_discovery == [disc |-> build_discovery]

\* The state document; the error in it is already sanitized text.
build_state(v, e) == [value |-> v, err |-> e]

\* publish_state: an error past its TTL is cleared, and the document is what
\* the coordinator and the error say now ...
_build_state_document(t) ==
    /\ pub[t] = "build"
    /\ err' = IF old THEN 0 ELSE err
    /\ old' = FALSE
    /\ doc' = [doc EXCEPT ![t] = build_state(value, err')]
    /\ pub' = [pub EXCEPT ![t] = "send"]
    /\ UNCHANGED <<startPc, started, client, halt, broker, settings, net, worker,
                   tail, running, pending, birth, left>>

\* ... then it is sent, and the thread goes on.
publish_state(t) ==
    /\ pub[t] = "send"
    /\ _publish([state |-> doc[t]])
    /\ pub' = [pub EXCEPT ![t] = "no"]
    /\ doc' = [doc EXCEPT ![t] = None]
    /\ net' = IF t = "net" THEN [pc |-> "idle", ok |-> FALSE] ELSE net
    /\ worker' = IF t = "worker" THEN "finally" ELSE worker
    /\ birth' = IF t \in Births THEN [birth EXCEPT ![t] = "idle"] ELSE birth
    /\ UNCHANGED <<startPc, started, client, halt, link, subs, will, settings, err,
                   old, tail, running, pending, left>>

-----------------------------------------------------------------------------
(* start, stop and the process.                                             *)

\* The will is registered before the connect; `connect` returns once CONNECT
\* is sent, before the broker's answer.  A failed connect is never retried.
start ==
    /\ startPc = "idle"
    /\ \/ /\ link' = "connecting" /\ will' = TRUE /\ startPc' = "assign"
          /\ UNCHANGED left
       \/ /\ Spend("drops")
          /\ startPc' = "failed" /\ UNCHANGED <<link, will>>
    /\ UNCHANGED <<started, client, halt, subs, queue, ret, settings, net, error,
                   birth, pub, doc>>

\* PahoBackend.connect's last line, then the rest of `start` step by step.
StartConnected ==
    /\ startPc = "assign"
    /\ client' = TRUE /\ started' = TRUE /\ startPc' = "online"
    /\ UNCHANGED <<halt, broker, settings, net, error, birth, pub, doc, left>>

_publish_availability ==
    /\ startPc = "online"
    /\ _publish([avail |-> "online"])
    /\ startPc' = "subscribe"
    /\ UNCHANGED <<started, client, halt, link, subs, will, settings, net, error,
                   birth, pub, doc, left>>

\* A subscribe without a live socket is lost: paho queues only publishes.
_subscribe_topics ==
    /\ startPc = "subscribe"
    /\ subs' = (client /\ link \in {"connecting", "up"})
    /\ startPc' = "state"
    /\ UNCHANGED <<started, client, halt, link, will, queue, ret, settings, net,
                   error, birth, pub, doc, left>>

\* The first state and discovery documents, in one step: what a
\* thread does between building and sending is seen with the births.
StartPublishes ==
    /\ startPc = "state"
    /\ err' = IF old THEN 0 ELSE err
    /\ old' = FALSE
    /\ _publish([state |-> build_state(value, err'), disc |-> publish_discovery.disc])
    /\ startPc' = "done"
    /\ UNCHANGED <<started, client, halt, link, subs, will, settings, net, worker,
                   tail, running, pending, birth, pub, doc, left>>

\* main's finally runs `stop` in another thread: cancelling the start task
\* does not stop the start thread.
stop ==
    \/ /\ startPc \in {"done", "failed"} \cup
             (IF StopDuringStart THEN {"assign", "online", "subscribe"} ELSE {})
       /\ halt = "no"
       /\ left.boots > 0
       /\ halt' = "stopping"
       /\ IF started THEN _publish([avail |-> "offline"])
                     ELSE UNCHANGED <<queue, ret>>
       /\ UNCHANGED <<startPc, started, client, link, subs, will, settings, net,
                      error, birth, pub, doc, left>>
    \/ /\ halt = "stopping"
       /\ halt' = "stopped"
       /\ started' = FALSE
       /\ client' = FALSE
       /\ link' = IF client THEN "off" ELSE link
       /\ will' = (will /\ ~client)
       /\ subs' = (subs /\ ~client)
       /\ queue' = IF client THEN Empty ELSE queue
       /\ UNCHANGED <<startPc, ret, settings, net, error, birth, pub, doc, left>>

\* The process ends, stopped or killed, and systemd starts it again.  A
\* session that sent no DISCONNECT leaves its will to the broker.
Restart ==
    /\ Spend("boots")
    /\ halt # "stopping" /\ halt' = "no"
    /\ startPc' = "idle" /\ started' = FALSE /\ client' = FALSE
    /\ link' = "off" /\ subs' = FALSE /\ queue' = Empty
    /\ ret' = IF will THEN [ret EXCEPT !.avail = "offline"] ELSE ret
    /\ will' = FALSE
    /\ jobs' = <<>> /\ con' = "idle" /\ last' = value
    /\ net' = [pc |-> "idle", ok |-> FALSE]
    /\ err' = 0 /\ old' = FALSE /\ worker' = "off" /\ tail' = FALSE
    /\ running' = FALSE /\ pending' = FALSE
    /\ birth' = [b \in Births |-> "idle"]
    /\ pub' = [t \in Publishers |-> "no"]
    /\ doc' = [t \in Publishers |-> None]
    /\ UNCHANGED value

-----------------------------------------------------------------------------
(* The link, as paho and the broker treat it.                               *)

\* Mutant: the connect carries no last will.
ConnectsWithoutWill(b) ==
    /\ link \in {"connecting", "lost"} /\ birth[b] = "idle"
    /\ link' = "up" /\ will' = FALSE
    /\ subs' = (link = "connecting" /\ subs)
    /\ ret' = Over(ret, queue) /\ queue' = Empty
    /\ birth' = [birth EXCEPT ![b] = "sleep"]
    /\ UNCHANGED <<startPc, started, client, halt, settings, net, error, pub, doc,
                   left>>

\* Mutant: a repeated connect starts no birth.
ReconnectIsSilent(b) ==
    /\ link \in {"connecting", "lost"} /\ birth[b] = "idle"
    /\ link' = "up" /\ will' = TRUE
    /\ subs' = (link = "connecting" /\ subs)
    /\ ret' = Over(ret, queue) /\ queue' = Empty
    /\ UNCHANGED <<startPc, started, client, halt, settings, net, error, birth, pub,
                   doc, left>>

\* The broker accepts a first or a repeated connect: it holds the will again
\* and takes what paho queued; on_connect starts a birth thread, and nothing
\* subscribes again or says `online` again.
_on_connect(b) ==
    /\ link \in {"connecting", "lost"} /\ birth[b] = "idle"
    /\ link' = "up" /\ will' = TRUE
    /\ subs' = (link = "connecting" /\ subs)
    /\ ret' = Over(ret, queue) /\ queue' = Empty
    /\ birth' = [birth EXCEPT ![b] = "sleep"]
    /\ UNCHANGED <<startPc, started, client, halt, settings, net, error, pub, doc,
                   left>>

\* It refuses: on_connect runs all the same, and paho will try again.
RefusedConnect(b) ==
    /\ Spend("drops")
    /\ link \in {"connecting", "lost"} /\ birth[b] = "idle"
    /\ link' = "lost" /\ will' = FALSE /\ subs' = FALSE
    /\ birth' = [birth EXCEPT ![b] = "sleep"]
    /\ UNCHANGED <<startPc, started, client, halt, queue, ret, settings, net,
                   error, pub, doc>>

\* The link breaks and the broker publishes the will, or the broker restarts
\* with an empty store.  Either way the clean session's subscriptions go.
LoseLink ==
    /\ Spend("drops")
    /\ link = "up"
    /\ link' = "lost" /\ will' = FALSE /\ subs' = FALSE
    /\ \/ ret' = IF will THEN [ret EXCEPT !.avail = "offline"] ELSE ret
       \/ ret' = Empty
    /\ UNCHANGED <<startPc, started, client, halt, queue, settings, net, error,
                   birth, pub, doc>>

\* A birth: after its delay the discovery document, then the state.
_schedule_birth(b) ==
    /\ birth[b] = "sleep"
    /\ _publish(publish_discovery)
    /\ birth' = [birth EXCEPT ![b] = "state"]
    /\ pub' = [pub EXCEPT ![b] = "build"]
    /\ UNCHANGED <<startPc, started, client, halt, link, subs, will, settings, net,
                   error, doc, left>>

-----------------------------------------------------------------------------
(* Inbound messages, on the net thread.                                     *)

\* run_on_loop and EventLoopMutationDispatcher.apply: hand the change to the
\* loop and wait.
Submit(who, v) ==
    /\ jobs' = Append(jobs, [who |-> who, value |-> v])
    /\ last' = IF v \in Values THEN v ELSE last
    /\ UNCHANGED value

\* _apply_command for a setting: its handler runs on the loop, and the payload
\* is parsed there, so a malformed value fails there too.
_apply_command ==
    /\ \E v \in Values \cup {Refused} : Submit("net", v)
    /\ net' = [pc |-> "wait", ok |-> FALSE]
    /\ UNCHANGED con

\* A button (build, restart), an install, or a payload that does not decode:
\* the result is there at once, and the coordinator is not touched.
_apply_button ==
    /\ \E ok \in BOOLEAN : net' = [pc |-> "result", ok |-> ok]
    /\ UNCHANGED settings

\* A retained command or a foreign topic: nothing happens.
Ignored == UNCHANGED <<net, settings>>

_on_message ==
    /\ Spend("commands")
    /\ link = "up" /\ subs /\ client /\ net.pc = "idle"
    /\ _apply_command \/ _apply_button \/ Ignored
    /\ UNCHANGED <<startPc, started, client, halt, broker, error, birth, pub, doc>>

\* Home Assistant's `online`: the birth is dispatched off the net thread.
HomeAssistantOnline(b) ==
    /\ Spend("commands")
    /\ link = "up" /\ subs /\ client /\ net.pc = "idle" /\ birth[b] = "idle"
    /\ birth' = [birth EXCEPT ![b] = "sleep"]
    /\ UNCHANGED <<startPc, started, client, halt, broker, settings, net, error,
                   pub, doc>>

\* The loop runs one callback; its caller, if it still waits, has the result.
RunJob ==
    /\ jobs # <<>>
    /\ LET j == Head(jobs) IN
         /\ value' = IF j.value \in Values THEN j.value ELSE value
         /\ net' = IF j.who = "net" THEN [pc |-> "result", ok |-> j.value \in Values]
                                    ELSE net
         /\ con' = IF j.who = "con" THEN "idle" ELSE con
    /\ jobs' = Tail(jobs)
    /\ UNCHANGED <<startPc, started, client, halt, broker, last, error, birth, pub,
                   doc, left>>

\* The jobs after `who` gave up waiting: its callback stays scheduled.
Abandoned(who) ==
    [i \in 1..Len(jobs) |-> IF jobs[i].who = who THEN [jobs[i] EXCEPT !.who = None]
                                                 ELSE jobs[i]]

\* Mutant: a command that timed out is handed to the loop once more.
TimeoutResubmits ==
    /\ net.pc = "wait"
    /\ net' = [pc |-> "result", ok |-> FALSE]
    /\ LET again == SelectSeq(jobs, LAMBDA j : j.who = "net") IN
         jobs' = Abandoned("net") \o [i \in DOMAIN again |-> [again[i] EXCEPT !.who = None]]
    /\ UNCHANGED <<startPc, started, client, halt, broker, value, con, last, error,
                   birth, pub, doc, left>>

\* 15 s without a result: the command is reported as timed out.
_run_on_loop ==
    /\ net.pc = "wait"
    /\ net' = [pc |-> "result", ok |-> FALSE]
    /\ jobs' = Abandoned("net")
    /\ UNCHANGED <<startPc, started, client, halt, broker, value, con, last, error,
                   birth, pub, doc, left>>

\* The console's settings call, with the same deadline.
apply ==
    /\ \/ /\ Spend("console")
          /\ con = "idle" /\ halt = "no"
          /\ con' = "wait"
          /\ \E v \in Values \cup {Refused} : Submit("con", v)
       \/ /\ con = "wait" /\ con' = "idle"
          /\ jobs' = Abandoned("con")
          /\ UNCHANGED <<value, last, left>>
    /\ UNCHANGED <<startPc, started, client, halt, broker, net, error, birth, pub,
                   doc>>

-----------------------------------------------------------------------------
(* The command error and its worker.                                        *)

\* A sanitized reason, never empty, numbered by its command.
_set_command_error == err' = left.commands + 1 /\ old' = FALSE

\* A success clears the error and publishes; a failure records one first.
handle_command ==
    /\ net.pc = "result"
    /\ IF net.ok
         THEN /\ err' = 0 /\ old' = FALSE
              /\ net' = [net EXCEPT !.pc = "publish"]
              /\ pub' = [pub EXCEPT !["net"] = "build"]
         ELSE /\ _set_command_error
              /\ net' = [net EXCEPT !.pc = "sched"]
              /\ UNCHANGED pub
    /\ UNCHANGED <<startPc, started, client, halt, broker, settings, worker, tail,
                   running, pending, birth, doc, left>>

\* Mutant: a second error is not noted while a worker runs.
ScheduleIgnoresRunning ==
    /\ running' = TRUE /\ pending' = FALSE
    /\ worker' = IF running THEN worker ELSE "read"

\* Under _error_lock: note the error for the running worker, or start one.
_schedule_error_clear ==
    /\ running' = TRUE
    /\ pending' = running
    /\ worker' = IF running THEN worker ELSE "read"

NetSchedules ==
    /\ net.pc = "sched"
    /\ _schedule_error_clear
    /\ net' = [net EXCEPT !.pc = "publish"]
    /\ pub' = [pub EXCEPT !["net"] = "build"]
    /\ UNCHANGED <<startPc, started, client, halt, broker, settings, err, old, tail,
                   birth, doc, left>>

\* The TTL of the recorded error passes: 60 s, in which no thread stays
\* between building and sending a document.
Age ==
    /\ err # 0 /\ ~old /\ old' = TRUE
    /\ \A t \in Publishers : pub[t] # "send"
    /\ UNCHANGED <<startPc, started, client, halt, broker, settings, net, err,
                   worker, tail, running, pending, birth, pub, doc, left>>

\* The worker sleeps until the error it read is old or gone, looks once more
\* (no lock is held), clears whatever error it finds and publishes.
_error_clear_worker ==
    /\ \/ /\ worker = "read" /\ (err = 0 \/ old)
          /\ worker' = IF err = 0 THEN "finally" ELSE "recheck"
          /\ UNCHANGED <<err, old, pub, tail, running, pending>>
       \/ /\ worker = "recheck"
          /\ worker' = IF err = 0 THEN "finally" ELSE "publish"
          /\ pub' = IF err = 0 THEN pub ELSE [pub EXCEPT !["worker"] = "build"]
          /\ err' = 0 /\ old' = FALSE
          /\ UNCHANGED <<tail, running, pending>>
       \/ /\ worker = "finally"
          /\ worker' = "off" /\ running' = FALSE /\ pending' = FALSE
          /\ tail' = (tail \/ pending)
          /\ UNCHANGED <<err, old, pub>>
       \/ /\ tail /\ tail' = FALSE
          /\ IF err # 0 THEN _schedule_error_clear
                        ELSE UNCHANGED <<worker, running, pending>>
          /\ UNCHANGED <<err, old, pub>>
    /\ UNCHANGED <<startPc, started, client, halt, broker, settings, net, birth,
                   doc, left>>

-----------------------------------------------------------------------------
Publishing(t) ==
    _build_state_document(t) \/ publish_state(t)

StartSteps ==
    \/ start \/ StartConnected \/ _publish_availability \/ _subscribe_topics
    \/ StartPublishes

Next ==
    \/ StartSteps \/ stop \/ Restart
    \/ \E t \in Publishers : Publishing(t)
    \/ \E b \in Births : _on_connect(b) \/ RefusedConnect(b) \/ _schedule_birth(b)
                         \/ HomeAssistantOnline(b)
    \/ LoseLink
    \/ _on_message \/ RunJob \/ _run_on_loop \/ apply
    \/ handle_command \/ NetSchedules \/ Age \/ _error_clear_worker

\* Threads run, the loop runs its callbacks, time passes, paho keeps
\* reconnecting and is accepted once the faults are spent.
Fairness ==
    /\ WF_vars(StartSteps)
    /\ WF_vars(halt = "stopping" /\ stop)
    /\ \A t \in Publishers : WF_vars(Publishing(t))
    /\ \A b \in Births : WF_vars(_schedule_birth(b))
    /\ WF_vars(\E b \in Births : _on_connect(b))
    /\ WF_vars(RunJob) /\ WF_vars(handle_command) /\ WF_vars(NetSchedules)
    /\ WF_vars(Age) /\ WF_vars(_error_clear_worker)

Spec == Init /\ [][Next]_vars /\ Fairness

-----------------------------------------------------------------------------
(* Properties.                                                              *)

TypeOK ==
    /\ startPc \in {"idle", "assign", "online", "subscribe", "state", "done",
                    "failed", "disabled"}
    /\ {started, client, subs, will, old, tail, running, pending} \subseteq BOOLEAN
    /\ halt \in {"no", "stopping", "stopped"}
    /\ link \in {"off", "connecting", "up", "lost"}
    /\ DOMAIN ret = DOMAIN Empty /\ DOMAIN queue = DOMAIN Empty
    /\ ret.avail \in {None, "online", "offline"}
    /\ ret.state \in Documents \cup {None}
    /\ value \in Values /\ last \in Values
    /\ net.pc \in {"idle", "wait", "result", "sched", "publish"}
    /\ con \in {"idle", "wait"} /\ err \in 0..MaxErr
    /\ worker \in {"off", "read", "recheck", "publish", "finally"}
    /\ birth \in [Births -> {"idle", "sleep", "state"}]
    /\ pub \in [Publishers -> {"no", "build", "send"}]
    /\ doc \in [Publishers -> Documents \cup {None}]

\* A retained `online` is always backed: the broker holds the session's last
\* will, so whatever ends the session (a lost link, a killed process, a clean
\* stop, start and stop in any order) turns it into `offline`
\* (mqtt_service.start registers the will first, stop publishes offline).
OnlineIsBacked == ret.avail = "online" => will

\* Changes take effect in the order they were handed to the loop, from MQTT
\* and from the console: once the loop has nothing left, the setting is the
\* last accepted one, however many callers gave up waiting
\* (mqtt_service._run_on_loop, settings_dispatch.apply).
SubmitOrderWins == jobs = <<>> => value = last

\* Every recorded command error is eventually cleared or replaced, however
\* the worker's exit and a new error interleave.
ErrorExpires == \A e \in 1..MaxErr : (err = e) ~> (err # e)

\* After any loss of the link or of the broker's store, discovery and state
\* are retained again once the service is up to stay.
DocumentsReturn ==
    <>[](startPc = "done" /\ link = "up") =>
        <>[](ret.disc # None /\ ret.state # None)

\* docs/integrations.md: availability is retained `online`, and "entities
\* survive broker and Home Assistant restarts".
OnlineReturns ==
    <>[](startPc = "done" /\ link = "up") => <>[](ret.avail = "online")

\* docs/architecture.md: every surface reads the shared state "so they can
\* never disagree": what MQTT retains settles on the coordinator's value.
RetainedFollowsState ==
    <>[](startPc = "done" /\ link = "up" /\ halt = "no") =>
        <>[](ret.state # None => ret.state.value = value)

\* mqtt_service.py:1070-1072: the worker "clears the error and republishes the
\* retained state": no error stays retained for ever.
RetainedErrorClears ==
    <>[](startPc = "done" /\ link = "up" /\ halt = "no") =>
        <>[](ret.state # None => ret.state.err = 0)

\* mqtt_service.py:601: `started` is "True after a successful connect".
StartedIsConnected == started => link # "lost"
=============================================================================
