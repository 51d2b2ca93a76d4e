----------------------------- MODULE MqttProofs -----------------------------
(***************************************************************************)
(* Proofs about the settings and the MQTT service through which they are   *)
(* changed, for every set of values, of birth threads and of budgets: the  *)
(* order in which submitted settings take effect and the retained          *)
(* availability against the session's last will (Mqtt); what an accepted   *)
(* or rejected setting leaves in memory, in files and in the encoder       *)
(* (Settings, through ApplianceSettings).                                  *)
(***************************************************************************)
EXTENDS Mqtt, ApplianceSettings, SequenceTheorems, TLAPS

(***************************************************************************)
(* The order of the settings                                               *)
(***************************************************************************)
Job == [who: {"net", "con", None}, value: Values \cup {Refused}]

Accepted(i) == jobs[i].value \in Values
NoneAfter(i) == \A k \in 1..Len(jobs) : k > i => ~Accepted(k)

\* The last accepted value is that of the last accepted job, or the setting itself when no
\* job that waits is accepted.
OrderInv ==
    /\ jobs \in Seq(Job)
    /\ (\A i \in 1..Len(jobs) : ~Accepted(i)) => value = last
    /\ \A i \in 1..Len(jobs) : Accepted(i) /\ NoneAfter(i) => last = jobs[i].value

\* A caller that hands a change to the loop puts it behind all the others.
LEMMA SubmitKeepsOrder ==
    ASSUME OrderInv, NEW who \in {"net", "con"}, NEW v \in Values \cup {Refused}, Submit(who, v)
    PROVE  OrderInv'
<1> DEFINE j == [who |-> who, value |-> v]
<1>1. j \in Job
    BY DEF Job
<1>2. /\ jobs' \in Seq(Job) /\ Len(jobs') = Len(jobs) + 1 /\ Len(jobs) \in Nat
      /\ \A i \in 1..Len(jobs) : jobs'[i] = jobs[i]
      /\ jobs'[Len(jobs) + 1] = j
    BY <1>1, AppendProperties, LenProperties DEF Submit, OrderInv
<1>3. CASE v \in Values
    <2>1. ~(\A i \in 1..Len(jobs') : jobs'[i].value \notin Values)
        BY <1>2, <1>3
    <2>2. ASSUME NEW i \in 1..Len(jobs'), \A k \in 1..Len(jobs') : k > i => jobs'[k].value \notin Values
          PROVE  last' = jobs'[i].value
        <3>1. i = Len(jobs) + 1
            BY <1>2, <1>3, <2>2
        <3> QED
            BY <1>2, <1>3, <3>1 DEF Submit
    <2> QED
        BY <1>2, <2>1, <2>2 DEF OrderInv, Accepted, NoneAfter
<1>4. CASE v \notin Values
    <2>1. UNCHANGED <<value, last>>
        BY <1>4 DEF Submit
    <2>2. (\A i \in 1..Len(jobs') : ~Accepted(i)') => value = last
        BY <1>2 DEF OrderInv, Accepted
    <2>3. ASSUME NEW i \in 1..Len(jobs'), Accepted(i)', NoneAfter(i)' PROVE last = jobs'[i].value
        <3>1. i \in 1..Len(jobs)
            BY <1>2, <1>4, <2>3 DEF Accepted
        <3>2. Accepted(i) /\ NoneAfter(i)
            BY <1>2, <2>3, <3>1 DEF Accepted, NoneAfter
        <3> QED
            BY <1>2, <3>1, <3>2 DEF OrderInv
    <2> QED
        BY <1>2, <2>1, <2>2, <2>3 DEF OrderInv
<1> QED
    BY <1>3, <1>4

\* The loop takes the job at the front; its value counts until a later one runs.
LEMMA RunJobKeepsOrder ==
    ASSUME OrderInv, RunJob
    PROVE  OrderInv'
<1>1. /\ jobs' \in Seq(Job) /\ Len(jobs') = Len(jobs) - 1 /\ Len(jobs) \in Nat \ {0}
      /\ \A i \in 1..Len(jobs') : jobs'[i] = jobs[i + 1]
      /\ Head(jobs) = jobs[1]
    BY HeadTailProperties, EmptySeq, LenProperties DEF RunJob, OrderInv
<1>2. last' = last /\ value' = IF Accepted(1) THEN jobs[1].value ELSE value
    BY <1>1 DEF RunJob, Accepted
<1>3. \A i \in 1..Len(jobs') : i + 1 \in 1..Len(jobs) /\ (Accepted(i)' <=> Accepted(i + 1))
    BY <1>1 DEF Accepted
<1>4. ASSUME \A i \in 1..Len(jobs') : ~Accepted(i)' PROVE value' = last
    <2>1. \A k \in 1..Len(jobs) : k > 1 => ~Accepted(k)
        <3> SUFFICES ASSUME NEW k \in 1..Len(jobs), k > 1 PROVE ~Accepted(k)
            OBVIOUS
        <3>1. k - 1 \in 1..Len(jobs') /\ (k - 1) + 1 = k
            BY <1>1
        <3> QED
            BY <1>3, <1>4, <3>1
    <2>2. 1 \in 1..Len(jobs)
        BY <1>1
    <2>3. CASE Accepted(1)
        BY <1>2, <2>1, <2>2, <2>3 DEF OrderInv, NoneAfter
    <2>4. CASE ~Accepted(1)
        <3>1. \A k \in 1..Len(jobs) : ~Accepted(k)
            BY <1>1, <2>1, <2>4
        <3> QED
            BY <1>2, <2>4, <3>1 DEF OrderInv
    <2> QED
        BY <2>3, <2>4
<1>5. ASSUME NEW i \in 1..Len(jobs'), Accepted(i)', NoneAfter(i)' PROVE last = jobs'[i].value
    <2>1. NoneAfter(i + 1)
        <3> SUFFICES ASSUME NEW k \in 1..Len(jobs), k > i + 1 PROVE ~Accepted(k)
            BY DEF NoneAfter
        <3>1. k - 1 \in 1..Len(jobs') /\ k - 1 > i /\ (k - 1) + 1 = k
            BY <1>1
        <3> QED
            BY <1>3, <1>5, <3>1 DEF NoneAfter
    <2> QED
        BY <1>1, <1>3, <1>5, <2>1 DEF OrderInv
<1> QED
    BY <1>1, <1>2, <1>4, <1>5 DEF OrderInv

\* A caller that gives up leaves its job, and the order of the jobs, as they are.
LEMMA AbandonKeepsOrder ==
    ASSUME OrderInv, NEW who, jobs' = Abandoned(who), UNCHANGED <<value, last>>
    PROVE  OrderInv'
<1>1. Len(jobs) \in Nat /\ \A i \in 1..Len(jobs) : jobs[i] \in Job
    BY LenProperties, ElementOfSeq DEF OrderInv
<1>2. \A i \in 1..Len(jobs) :
        (IF jobs[i].who = who THEN [jobs[i] EXCEPT !.who = None] ELSE jobs[i]) \in Job
    BY <1>1 DEF Job
<1>3. jobs' \in Seq(Job) /\ Len(jobs') = Len(jobs)
    BY <1>1, <1>2 DEF Abandoned
<1>4. \A i \in 1..Len(jobs) : jobs'[i].value = jobs[i].value
    BY <1>1 DEF Abandoned, Job
<1> QED
    BY <1>3, <1>4 DEF OrderInv, Accepted, NoneAfter

\* Every step: only submissions, the loop, callers that give up and a restart touch the
\* jobs.
LEMMA OrderInvStep == OrderInv /\ [Next]_vars => OrderInv'
<1> SUFFICES ASSUME OrderInv, [Next]_vars PROVE OrderInv'
    OBVIOUS
<1>1. CASE UNCHANGED settings
    BY <1>1 DEF settings, OrderInv, Accepted, NoneAfter
<1>2. CASE StartSteps \/ stop \/ LoseLink \/ handle_command \/ NetSchedules \/ Age
           \/ _error_clear_worker \/ UNCHANGED vars
    BY <1>1, <1>2 DEF StartSteps, start, StartConnected, _publish_availability,
                      _subscribe_topics, StartPublishes, stop, LoseLink, handle_command,
                      NetSchedules, Age, _error_clear_worker, vars
<1>3. ASSUME NEW t \in Publishers, Publishing(t) PROVE OrderInv'
    BY <1>1, <1>3 DEF Publishing, _build_state_document, publish_state
<1>4. ASSUME NEW b \in Births,
             _on_connect(b) \/ RefusedConnect(b) \/ _schedule_birth(b) \/ HomeAssistantOnline(b)
      PROVE  OrderInv'
    BY <1>1, <1>4 DEF _on_connect, RefusedConnect, _schedule_birth, HomeAssistantOnline
<1>5. CASE Restart
    BY <1>5, EmptySeq DEF Restart, OrderInv, Accepted, NoneAfter
<1>6. CASE _on_message
    BY <1>1, <1>6, SubmitKeepsOrder DEF _on_message, _apply_command, _apply_button, Ignored
<1>7. CASE RunJob
    BY <1>7, RunJobKeepsOrder
<1>8. CASE _run_on_loop
    BY <1>8, AbandonKeepsOrder DEF _run_on_loop
<1>9. CASE apply
    BY <1>9, SubmitKeepsOrder, AbandonKeepsOrder DEF apply
<1> QED
    BY <1>2, <1>3, <1>4, <1>5, <1>6, <1>7, <1>8, <1>9 DEF Next

\* Once the loop has nothing left to run, the setting is the last one that was handed over
\* and accepted, from MQTT or the console, however many callers have given up waiting
\* (_run_on_loop in mqtt_service.py, apply in settings_dispatch.py).
THEOREM LastSubmittedWins == Spec => []SubmitOrderWins
<1>1. Init => OrderInv
    BY EmptySeq DEF Init, OrderInv, Accepted, NoneAfter
<1>2. OrderInv => SubmitOrderWins
    BY EmptySeq DEF OrderInv, SubmitOrderWins
<1> QED
    BY <1>1, <1>2, OrderInvStep, PTL DEF Spec

(***************************************************************************)
(* Availability                                                            *)
(***************************************************************************)
Topics == {"avail", "state", "disc"}

\* A retained `online` needs a live link, and the broker holds the will of a live link, over
\* which nothing is queued; before `start` there is no link.
LinkInv ==
    /\ DOMAIN ret = Topics /\ DOMAIN queue = Topics
    /\ ret.avail = "online" => link = "up"
    /\ link = "up" => will /\ queue.avail # "online"
    /\ startPc = "idle" => link = "off"

\* A stop comes after the start thread is through, finds the backend that `start` left, and
\* from its `offline` on no `online` is retained or waits in the queue.
StopInv ==
    /\ client => started
    /\ halt # "no" => startPc \in {"done", "failed"}
    /\ halt = "stopping" /\ client => ret.avail # "online" /\ queue.avail # "online"

AvailInv == LinkInv /\ StopInv

\* A message to another topic leaves the availability alone, in the store and in the queue.
LEMMA OtherTopics ==
    ASSUME LinkInv, NEW m, "avail" \notin DOMAIN m, _publish(m)
    PROVE  /\ DOMAIN ret' = Topics /\ DOMAIN queue' = Topics
           /\ ret'.avail = ret.avail /\ queue'.avail = queue.avail
BY DEF LinkInv, _publish, Over, Topics

\* An availability message is retained over a live link and waits in the queue otherwise.
LEMMA Availability ==
    ASSUME LinkInv, NEW a \in {"online", "offline"}, _publish([avail |-> a])
    PROVE  /\ DOMAIN ret' = Topics /\ DOMAIN queue' = Topics
           /\ ret'.avail = IF client /\ link = "up" THEN a ELSE ret.avail
           /\ queue'.avail = IF client /\ link # "up" THEN a ELSE queue.avail
BY MqttAssumption DEF LinkInv, _publish, Over, Topics

\* Steps that touch no availability: what else they change does not matter.
LEMMA QuietKeeps ==
    ASSUME AvailInv, UNCHANGED <<startPc, started, client, halt, link, will>>,
           DOMAIN ret' = Topics, DOMAIN queue' = Topics,
           ret'.avail = ret.avail, queue'.avail = queue.avail
    PROVE  AvailInv'
BY DEF AvailInv, LinkInv, StopInv

\* The service starts without a client, and the broker retains nothing.
LEMMA AvailInvInit == Init => AvailInv
BY MqttAssumption DEF Init, Empty, AvailInv, LinkInv, StopInv, Topics

\* The start thread, step by step.
LEMMA StartKeeps ==
    ASSUME AvailInv, StartSteps
    PROVE  AvailInv'
<1>1. CASE start
    BY <1>1 DEF start, AvailInv, LinkInv, StopInv
<1>2. CASE StartConnected
    BY <1>2 DEF StartConnected, broker, AvailInv, LinkInv, StopInv
<1>3. CASE _publish_availability
    <2>1. UNCHANGED <<started, client, halt, link, will>> /\ _publish([avail |-> "online"])
          /\ startPc = "online" /\ startPc' = "subscribe"
        BY <1>3 DEF _publish_availability
    <2>2. LinkInv'
        BY <2>1, Availability DEF AvailInv, LinkInv
    <2>3. StopInv'
        BY <2>1 DEF AvailInv, StopInv
    <2> QED
        BY <2>2, <2>3 DEF AvailInv
<1>4. CASE _subscribe_topics
    BY <1>4 DEF _subscribe_topics, AvailInv, LinkInv, StopInv
<1>5. CASE StartPublishes
    <2> DEFINE m == [state |-> build_state(value, err'), disc |-> publish_discovery.disc]
    <2>1. DOMAIN m = {"state", "disc"}
        OBVIOUS
    <2>2. ret'.avail = ret.avail /\ queue'.avail = queue.avail
          /\ DOMAIN ret' = Topics /\ DOMAIN queue' = Topics
        <3>1. _publish(m) /\ "avail" \notin DOMAIN m
            BY <1>5, <2>1 DEF StartPublishes
        <3> HIDE DEF m
        <3> QED
            BY <3>1, OtherTopics DEF AvailInv
    <2> QED
        BY <1>5, <2>2 DEF StartPublishes, AvailInv, LinkInv, StopInv
<1> QED
    BY <1>1, <1>2, <1>3, <1>4, <1>5 DEF StartSteps

\* stop: `offline` first, then the DISCONNECT that takes the will away.
LEMMA StopKeeps ==
    ASSUME StopDuringStart = FALSE, AvailInv, stop
    PROVE  AvailInv'
<1>1. CASE halt = "no" /\ halt' = "stopping"
    <2>1. UNCHANGED <<startPc, started, client, link, will>> /\ startPc \in {"done", "failed"}
        BY <1>1 DEF stop
    <2>2. CASE started
        <3>1. _publish([avail |-> "offline"])
            BY <1>1, <2>2 DEF stop
        <3> QED
            BY <1>1, <2>1, <3>1, Availability DEF AvailInv, LinkInv, StopInv
    <2>3. CASE ~started
        <3>1. ret' = ret /\ queue' = queue
            BY <1>1, <2>3 DEF stop
        <3> QED
            BY <1>1, <2>1, <2>3, <3>1 DEF AvailInv, LinkInv, StopInv
    <2> QED
        BY <2>2, <2>3
<1>2. CASE halt = "stopping" /\ halt' = "stopped"
    BY <1>2, MqttAssumption DEF stop, AvailInv, LinkInv, StopInv, Empty, Topics
<1> QED
    BY <1>1, <1>2 DEF stop

\* The link comes up, is refused or breaks.
LEMMA LinkKeeps ==
    ASSUME AvailInv, (\E b \in Births : _on_connect(b) \/ RefusedConnect(b)) \/ LoseLink
    PROVE  AvailInv'
<1>1. ASSUME NEW b \in Births, _on_connect(b) PROVE AvailInv'
    BY <1>1, MqttAssumption DEF _on_connect, AvailInv, LinkInv, StopInv, Empty, Topics, Over
<1>2. ASSUME NEW b \in Births, RefusedConnect(b) PROVE AvailInv'
    BY <1>2 DEF RefusedConnect, AvailInv, LinkInv, StopInv
<1>3. CASE LoseLink
    <2>1. DOMAIN ret' = Topics /\ ret'.avail # "online"
        BY <1>3, MqttAssumption DEF LoseLink, AvailInv, LinkInv, Empty, Topics
    <2> QED
        BY <1>3, <2>1 DEF LoseLink, AvailInv, LinkInv, StopInv
<1> QED
    BY <1>1, <1>2, <1>3

\* The process ends and a new one begins: the broker turns what was `online` into `offline`.
LEMMA RestartKeeps ==
    ASSUME AvailInv, Restart
    PROVE  AvailInv'
<1>1. DOMAIN ret' = Topics /\ ret'.avail # "online"
    BY DEF Restart, AvailInv, LinkInv, Topics
<1> QED
    BY <1>1, MqttAssumption DEF Restart, AvailInv, LinkInv, StopInv, Empty, Topics

\* Every step of the service, of its threads, of the link and of the process.
LEMMA AvailInvStep ==
    ASSUME StopDuringStart = FALSE, AvailInv, [Next]_vars
    PROVE  AvailInv'
<1> DEFINE Same == UNCHANGED <<startPc, started, client, halt, link, will>>
<1>1. ASSUME Same, UNCHANGED <<queue, ret>> PROVE AvailInv'
    BY <1>1, QuietKeeps DEF AvailInv, LinkInv
<1>2. ASSUME Same, NEW m, _publish(m), "avail" \notin DOMAIN m PROVE AvailInv'
    BY <1>2, QuietKeeps, OtherTopics DEF AvailInv
<1>3. ASSUME NEW t \in Publishers, Publishing(t) PROVE AvailInv'
    <2>1. CASE _build_state_document(t)
        BY <1>1, <2>1 DEF _build_state_document, broker
    <2>2. CASE publish_state(t)
        BY <1>2, <2>2 DEF publish_state
    <2> QED
        BY <1>3, <2>1, <2>2 DEF Publishing
<1>4. ASSUME NEW b \in Births, _schedule_birth(b) PROVE AvailInv'
    BY <1>2, <1>4 DEF _schedule_birth, publish_discovery
<1>5. ASSUME NEW b \in Births, HomeAssistantOnline(b) PROVE AvailInv'
    BY <1>1, <1>5 DEF HomeAssistantOnline, broker
<1>6. CASE _on_message \/ RunJob \/ _run_on_loop \/ apply \/ UNCHANGED vars
    BY <1>1, <1>6 DEF _on_message, RunJob, _run_on_loop, apply, vars, broker
<1>7. CASE handle_command \/ NetSchedules \/ Age \/ _error_clear_worker
    BY <1>1, <1>7 DEF handle_command, NetSchedules, Age, _error_clear_worker, broker
<1> HIDE DEF Same
<1> QED
    BY <1>3, <1>4, <1>5, <1>6, <1>7, StartKeeps, StopKeeps, LinkKeeps, RestartKeeps DEF Next

\* A retained `online` is always backed by the last will the broker holds, provided the
\* process does not stop while `start` still runs: whatever ends the session then makes the
\* broker say `offline` (start and stop in mqtt_service.py).
THEOREM OnlineHasWill ==
    ASSUME StopDuringStart = FALSE
    PROVE  Spec => []OnlineIsBacked
<1>1. AvailInv => OnlineIsBacked
    BY DEF AvailInv, LinkInv, OnlineIsBacked
<1>2. AvailInv /\ [Next]_vars => AvailInv'
    BY AvailInvStep
<1> QED
    BY <1>1, <1>2, AvailInvInit, PTL DEF Spec

-----------------------------------------------------------------------------
(* The durable settings *)

Tiers == {1, 2, 3}
Rotations == {0, 180}
Modes == {1, 2}
EnvFiles == [boot: Tiers \cup {Nothing}, live: Tiers \cup {Nothing},
             rotation: Rotations \cup {Nothing}, mode: Modes \cup {Nothing}]
Setting == Camera!Setting

\* An absent file is told from every value a file can hold, and from a stored document.
LEMMA NothingElse ==
  /\ Nothing \notin Tiers /\ Nothing \notin Rotations /\ Nothing \notin Modes
  /\ Nothing \notin Setting /\ Nothing \notin Pins
  /\ Camera!Tiers = Tiers
<1>1. Camera!Tiers = Tiers
  BY DEF Camera!Tiers, Tiers
<1>2. Tiers \subseteq 0..180 /\ Rotations \subseteq 0..180 /\ Modes \subseteq 0..180
  BY DEF Tiers, Rotations, Modes
<1> QED
  BY <1>1, <1>2, NothingAssumption DEF Setting

\* The fields of a stored document.
LEMMA SettingFields ==
  Setting = [quality: Tiers, rotation: Rotations, plain: {"a", "b"},
             trigger: {"interval", "gpio"}, pin: Pins \cup {Nothing},
             record: Pins \cup {Nothing}, rtsp: Modes, webrtc: {0, 1}]
BY NothingElse DEF Setting, Camera!Setting, Camera!Rotations, Rotations, Camera!Plain,
   Camera!RtspDisabled, Camera!RtspEnabled, Modes

\* The files, and the units that read them, say the same as the settings d.
FilesSay(e, d) ==
  /\ Camera!read_current(e) = d.quality
  /\ Camera!read_rotation(e) = d.rotation
  /\ Camera!Or(e.mode, Camera!Defaults.rtsp) = d.rtsp

\* The trigger has its pin, and the two pins differ.
PinsFit(d) ==
  /\ d.trigger = "gpio" => d.pin # Nothing
  /\ d.pin = Nothing \/ d.pin # d.record

\* A device without a stored document runs with the defaults.
LEMMA DefaultsHold ==
  /\ Camera!Defaults \in Setting /\ PinsFit(Camera!Defaults)
  /\ Camera!NoFiles \in EnvFiles /\ FilesSay(Camera!NoFiles, Camera!Defaults)
<1>1. Camera!Defaults \in Setting /\ PinsFit(Camera!Defaults)
  BY SettingFields DEF Camera!Defaults, Camera!RtspEnabled, Tiers, Rotations, Modes, PinsFit
<1>2. Camera!NoFiles \in EnvFiles
  BY DEF Camera!NoFiles, EnvFiles
<1>3. FilesSay(Camera!NoFiles, Camera!Defaults)
  BY DEF Camera!NoFiles, FilesSay, Camera!read_current, Camera!read_rotation, Camera!Or
<1> QED
  BY <1>1, <1>2, <1>3

\* pi-persist rebuilds the files so that they say what state.json holds.
LEMMA RestoreSays ==
  ASSUME NEW d \in Setting
  PROVE  /\ Camera!_restore_settings(Camera!NoFiles, d) \in EnvFiles
         /\ FilesSay(Camera!_restore_settings(Camera!NoFiles, d), d)
<1>1. /\ d.quality \in Tiers /\ d.rotation \in Rotations /\ d.rtsp \in Modes
      /\ d # Nothing
  BY SettingFields, NothingElse
<1>2. Camera!_restore_settings(Camera!NoFiles, d)
        = [boot |-> d.quality, live |-> Nothing, rotation |-> d.rotation, mode |-> d.rtsp]
  BY <1>1 DEF Camera!_restore_settings, Camera!NoFiles
<1> QED
  BY <1>1, <1>2, NothingElse DEF EnvFiles, FilesSay, Camera!read_current, Camera!read_rotation,
     Camera!Or

\* apply_persisted takes the document over as it is, pins before trigger, onto seeds without
\* pins.
LEMMA PersistedIsTaken ==
  ASSUME NEW s \in Setting, NEW d \in Setting, PinsFit(d),
         s.pin = Nothing, s.record = Nothing, s.trigger = "interval"
  PROVE  Camera!apply_persisted(s, d) = d
<1> DEFINE p == IF d.pin # Nothing /\ Camera!set_timelapse_gpio_pin(s, d.pin)
                THEN [s EXCEPT !.pin = d.pin] ELSE s
           r == IF d.record # Nothing /\ Camera!set_timelapse_gpio_record_pin(p, d.record)
                THEN [p EXCEPT !.record = d.record] ELSE p
           t == IF Camera!set_timelapse_trigger(r, d.trigger)
                THEN [r EXCEPT !.trigger = d.trigger] ELSE r
<1>1. p \in Setting /\ p.pin = d.pin /\ p.record = Nothing /\ p.trigger = "interval"
  BY SettingFields DEF Camera!set_timelapse_gpio_pin
<1>2. r \in Setting /\ r.pin = d.pin /\ r.record = d.record /\ r.trigger = "interval"
  <2> HIDE DEF p
  <2> QED
    BY <1>1, SettingFields DEF Camera!set_timelapse_gpio_record_pin, PinsFit
<1>3. t \in Setting /\ t.pin = d.pin /\ t.record = d.record /\ t.trigger = d.trigger
  <2> HIDE DEF r
  <2> QED
    BY <1>2, SettingFields DEF Camera!set_timelapse_trigger, PinsFit
<1>4. Camera!apply_persisted(s, d)
        = [t EXCEPT !.quality = d.quality, !.rotation = d.rotation, !.plain = d.plain,
                    !.rtsp = d.rtsp, !.webrtc = d.webrtc]
  BY NothingElse, Zenon DEF Camera!apply_persisted
<1> HIDE DEF t
<1> DEFINE t1 == [t EXCEPT !.quality = d.quality]
           t2 == [t1 EXCEPT !.rotation = d.rotation]
           t3 == [t2 EXCEPT !.plain = d.plain]
           t4 == [t3 EXCEPT !.rtsp = d.rtsp]
           t5 == [t4 EXCEPT !.webrtc = d.webrtc]
           Pinned(x) == x.pin = d.pin /\ x.record = d.record /\ x.trigger = d.trigger
<1>5. t1 \in Setting /\ Pinned(t1) /\ t1.quality = d.quality
  BY <1>3, SettingFields
<1>6. t2 \in Setting /\ Pinned(t2) /\ t2.quality = d.quality /\ t2.rotation = d.rotation
  <2> HIDE DEF t1
  <2> QED
    BY <1>5, SettingFields
<1>7. /\ t3 \in Setting /\ Pinned(t3) /\ t3.quality = d.quality /\ t3.rotation = d.rotation
      /\ t3.plain = d.plain
  <2> HIDE DEF t2
  <2> QED
    BY <1>6, SettingFields
<1>8. /\ t4 \in Setting /\ Pinned(t4) /\ t4.quality = d.quality /\ t4.rotation = d.rotation
      /\ t4.plain = d.plain /\ t4.rtsp = d.rtsp
  <2> HIDE DEF t3
  <2> QED
    BY <1>7, SettingFields
<1>9. t5 = d
  <2> HIDE DEF t4
  <2>1. /\ t5 \in Setting /\ Pinned(t5) /\ t5.quality = d.quality /\ t5.rotation = d.rotation
        /\ t5.plain = d.plain /\ t5.rtsp = d.rtsp /\ t5.webrtc = d.webrtc
    BY <1>8, SettingFields
  <2> HIDE DEF t5
  <2> QED
    BY <2>1, SettingFields
<1> QED
  BY <1>4, <1>9, Zenon

\* A changed tier: the live file and the boot file both say it.
LEMMA QualitySays ==
  ASSUME NEW e \in EnvFiles, NEW d \in Setting, FilesSay(e, d), NEW t \in Tiers
  PROVE  /\ [[e EXCEPT !.live = t] EXCEPT !.boot = t] \in EnvFiles
         /\ FilesSay([[e EXCEPT !.live = t] EXCEPT !.boot = t], [d EXCEPT !.quality = t])
         /\ [d EXCEPT !.quality = t] \in Setting
         /\ Camera!SourceOf([e EXCEPT !.live = t])
              = Camera!SourceOf([[e EXCEPT !.live = t] EXCEPT !.boot = t])
         /\ Camera!restore_live([e EXCEPT !.live = t], e.live) = e
<1>1. t # Nothing
  BY NothingElse
<1>2. [d EXCEPT !.quality = t] \in Setting
  BY SettingFields
<1>3. /\ [e EXCEPT !.live = t] = [boot |-> e.boot, live |-> t, rotation |-> e.rotation, mode |-> e.mode]
      /\ [[e EXCEPT !.live = t] EXCEPT !.boot = t]
           = [boot |-> t, live |-> t, rotation |-> e.rotation, mode |-> e.mode]
  <2>1. \A x \in EnvFiles :
          [x EXCEPT !.boot = t] = [boot |-> t, live |-> x.live, rotation |-> x.rotation, mode |-> x.mode]
    BY DEF EnvFiles
  <2>2. /\ [e EXCEPT !.live = t] = [boot |-> e.boot, live |-> t, rotation |-> e.rotation, mode |-> e.mode]
        /\ [e EXCEPT !.live = t] \in EnvFiles
    BY DEF EnvFiles
  <2>3. /\ [e EXCEPT !.live = t].live = t /\ [e EXCEPT !.live = t].rotation = e.rotation
        /\ [e EXCEPT !.live = t].mode = e.mode
    BY DEF EnvFiles
  <2> QED
    BY <2>1, <2>2, <2>3, Zenon
<1>4. [[e EXCEPT !.live = t] EXCEPT !.boot = t] \in EnvFiles
  BY <1>3 DEF EnvFiles
<1>5. /\ [d EXCEPT !.quality = t].quality = t /\ [d EXCEPT !.quality = t].rotation = d.rotation
      /\ [d EXCEPT !.quality = t].rtsp = d.rtsp
  BY SettingFields
<1>6. FilesSay([[e EXCEPT !.live = t] EXCEPT !.boot = t], [d EXCEPT !.quality = t])
  BY <1>1, <1>3, <1>5 DEF FilesSay, Camera!read_current, Camera!read_rotation, Camera!Or
<1>7. Camera!SourceOf([e EXCEPT !.live = t])
        = Camera!SourceOf([[e EXCEPT !.live = t] EXCEPT !.boot = t])
  BY <1>1, <1>3 DEF Camera!SourceOf, Camera!read_current, Camera!read_rotation, Camera!Or
<1>8. Camera!restore_live([e EXCEPT !.live = t], e.live) = e
  BY DEF EnvFiles, Camera!restore_live
<1> QED
  BY <1>2, <1>4, <1>6, <1>7, <1>8, Zenon

\* A changed rotation.
LEMMA RotationSays ==
  ASSUME NEW e \in EnvFiles, NEW d \in Setting, FilesSay(e, d), NEW v \in Rotations
  PROVE  /\ [e EXCEPT !.rotation = v] \in EnvFiles /\ [d EXCEPT !.rotation = v] \in Setting
         /\ FilesSay([e EXCEPT !.rotation = v], [d EXCEPT !.rotation = v])
<1>1. v # Nothing
  BY NothingElse
<1>2. /\ [d EXCEPT !.rotation = v] \in Setting /\ [d EXCEPT !.rotation = v].rotation = v
      /\ [d EXCEPT !.rotation = v].quality = d.quality /\ [d EXCEPT !.rotation = v].rtsp = d.rtsp
  BY SettingFields
<1>3. /\ [e EXCEPT !.rotation = v] = [boot |-> e.boot, live |-> e.live, rotation |-> v, mode |-> e.mode]
      /\ [e EXCEPT !.rotation = v] \in EnvFiles
  BY DEF EnvFiles
<1> QED
  BY <1>1, <1>2, <1>3 DEF FilesSay, Camera!read_current, Camera!read_rotation, Camera!Or

\* A changed RTSP mode.
LEMMA ModeSays ==
  ASSUME NEW e \in EnvFiles, NEW d \in Setting, FilesSay(e, d), NEW v \in Modes
  PROVE  /\ [e EXCEPT !.mode = v] \in EnvFiles /\ [d EXCEPT !.rtsp = v] \in Setting
         /\ FilesSay([e EXCEPT !.mode = v], [d EXCEPT !.rtsp = v])
         /\ Camera!SourceOf([e EXCEPT !.mode = v]) = Camera!SourceOf(e)
<1>1. v # Nothing
  BY NothingElse
<1>2. /\ [d EXCEPT !.rtsp = v] \in Setting /\ [d EXCEPT !.rtsp = v].rtsp = v
      /\ [d EXCEPT !.rtsp = v].quality = d.quality /\ [d EXCEPT !.rtsp = v].rotation = d.rotation
  BY SettingFields
<1>3. /\ [e EXCEPT !.mode = v] = [boot |-> e.boot, live |-> e.live, rotation |-> e.rotation, mode |-> v]
      /\ [e EXCEPT !.mode = v] \in EnvFiles
  BY DEF EnvFiles
<1> QED
  BY <1>1, <1>2, <1>3 DEF FilesSay, Camera!read_current, Camera!read_rotation, Camera!Or,
     Camera!SourceOf

\* What a setting is in each of its places: state.json holds what was accepted (or was never
\* written), the files say it from power-on to power-off, and so do the units and the runtime.
CamInv ==
  /\ s_phase \in {"off", "boot", "up"} /\ s_asked \in Setting /\ s_env \in EnvFiles
  /\ PinsFit(s_asked)
  /\ s_saved = s_asked \/ (s_saved = Nothing /\ s_asked = Camera!Defaults)
  /\ s_phase = "off" => s_env = Camera!NoFiles
  /\ s_phase # "off" => FilesSay(s_env, s_asked) /\ s_source = Camera!SourceOf(s_env)
  /\ s_phase = "up" => s_settings = s_asked

\* The calls the coordinator reports and undoes may fail, not the two writes whose failure it
\* passes over, and Prusa Connect sends no change that is applied without being stored.
Careful == "env" \notin Refusing /\ "save" \notin Refusing /\ ~LiveOnly

\* A camera before its first start.
LEMMA CamInit == Camera!Init => CamInv
BY DefaultsHold DEF Camera!Init, CamInv

\* A step that touches none of the places.
LEMMA CamKeeps ==
  ASSUME CamInv, UNCHANGED <<s_phase, s_settings, s_saved, s_env, s_source, s_asked>>
  PROVE  CamInv'
BY DEF CamInv, FilesSay, PinsFit, Camera!SourceOf, Camera!read_current, Camera!read_rotation, Camera!Or

\* A mutation that was accepted, once its files are written.
LEMMA CamAccepts ==
  ASSUME CamInv, s_phase = "up", s_phase' = "up", NEW new \in Setting, PinsFit(new),
         s_settings' = new, s_saved' = new, s_asked' = new,
         NEW e \in EnvFiles, s_env' = e, FilesSay(e, new), s_source' = Camera!SourceOf(e)
  PROVE  CamInv'
<1>1. PinsFit(s_asked)' /\ FilesSay(s_env, s_asked)' /\ (s_source = Camera!SourceOf(s_env))'
  BY DEF FilesSay, PinsFit, Camera!SourceOf, Camera!read_current, Camera!read_rotation, Camera!Or
<1> QED
  BY <1>1 DEF CamInv

\* A change of a field that no file carries.
LEMMA CamStores ==
  ASSUME CamInv, s_phase = "up", s_phase' = "up", NEW new \in Setting, PinsFit(new),
         new.quality = s_settings.quality, new.rotation = s_settings.rotation,
         new.rtsp = s_settings.rtsp,
         s_settings' = new, s_saved' = new, s_asked' = new, UNCHANGED <<s_env, s_source>>
  PROVE  CamInv'
<1>1. s_env \in EnvFiles /\ FilesSay(s_env, new) /\ s_source' = Camera!SourceOf(s_env)
  BY DEF CamInv, FilesSay
<1> QED
  BY <1>1, CamAccepts

\* set_quality, accepted or refused.
LEMMA CamQuality ==
  ASSUME CamInv, Careful, NEW t \in Tiers, NEW persist \in BOOLEAN, Camera!set_quality(t, persist)
  PROVE  /\ CamInv'
         /\ s_last' = "rejected" => UNCHANGED <<s_settings, s_saved, s_env, s_service>>
<1> DEFINE new == [s_settings EXCEPT !.quality = t]
           written == [s_env EXCEPT !.live = t]
           both == [written EXCEPT !.boot = t]
<1>1. s_phase = "up" /\ s_phase' = "up" /\ UNCHANGED s_service /\ persist
  BY DEF Camera!set_quality, Camera!Mutation, Careful
<1>2. s_settings = s_asked /\ s_settings \in Setting /\ s_env \in EnvFiles /\ FilesSay(s_env, s_settings)
  BY <1>1 DEF CamInv
<1>3. CASE s_last' = "rejected" /\ UNCHANGED <<s_settings, s_env, s_source, s_saved, s_asked>>
  BY <1>1, <1>3, CamKeeps
<1>4. CASE /\ s_settings' = new /\ s_saved' = new /\ s_last' = "ok"
           /\ s_asked' = [s_asked EXCEPT !["quality"] = new["quality"]]
           /\ s_env' = both /\ s_source' = Camera!SourceOf(written)
  <2>1. /\ new \in Setting /\ both \in EnvFiles /\ FilesSay(both, new)
        /\ Camera!SourceOf(written) = Camera!SourceOf(both)
    BY <1>2, QualitySays
  <2>2. s_asked' = new
    BY <1>2, <1>4, SettingFields
  <2>3. PinsFit(new)
    BY <1>2, SettingFields DEF CamInv, PinsFit
  <2> QED
    BY <1>1, <1>4, <2>1, <2>2, <2>3, CamAccepts
<1>5. Camera!restore_live(written, s_env.live) = s_env
  BY <1>2, QualitySays
<1> QED
  BY <1>1, <1>3, <1>4, <1>5, Zenon DEF Camera!set_quality, Camera!_rejected, Camera!_commit, Careful

\* set_rotation, accepted or refused.
LEMMA CamRotation ==
  ASSUME CamInv, Careful, NEW v \in Rotations, Camera!set_rotation(v)
  PROVE  /\ CamInv'
         /\ s_last' = "rejected" => UNCHANGED <<s_settings, s_saved, s_env, s_service>>
<1> DEFINE new == [s_settings EXCEPT !.rotation = v]
           e == [s_env EXCEPT !.rotation = v]
<1>1. s_phase = "up" /\ s_phase' = "up" /\ UNCHANGED s_service
  BY DEF Camera!set_rotation, Camera!Mutation
<1>2. s_settings = s_asked /\ s_settings \in Setting /\ s_env \in EnvFiles /\ FilesSay(s_env, s_settings)
  BY <1>1 DEF CamInv
<1>3. CASE s_last' = "rejected" /\ UNCHANGED <<s_settings, s_env, s_source, s_saved, s_asked>>
  BY <1>1, <1>3, CamKeeps
<1>4. CASE /\ s_settings' = new /\ s_saved' = new /\ s_last' = "ok"
           /\ s_asked' = [s_asked EXCEPT !["rotation"] = new["rotation"]]
           /\ s_env' = e /\ s_source' = Camera!SourceOf(s_env')
  <2>1. new \in Setting /\ e \in EnvFiles /\ FilesSay(e, new)
    BY <1>2, RotationSays
  <2>2. s_asked' = new
    BY <1>2, <1>4, SettingFields
  <2>3. PinsFit(new)
    BY <1>2, SettingFields DEF CamInv, PinsFit
  <2> QED
    BY <1>1, <1>4, <2>1, <2>2, <2>3, CamAccepts
<1> QED
  BY <1>3, <1>4, Zenon DEF Camera!set_rotation, Camera!_rejected, Camera!_commit, Careful

\* The trigger and its two pins, accepted or refused.
LEMMA CamGpio ==
  ASSUME CamInv, Careful, NEW what \in {"trigger", "pin", "record"}, NEW v, Camera!SetGpio(what, v),
         what = "trigger" => v \in {"interval", "gpio"},
         what # "trigger" => v \in Pins \cup {Nothing}
  PROVE  /\ CamInv'
         /\ s_last' = "rejected" => UNCHANGED <<s_settings, s_saved, s_env, s_service>>
<1> DEFINE new == [s_settings EXCEPT ![what] = v]
<1>1. s_phase = "up" /\ s_phase' = "up" /\ UNCHANGED <<s_service, s_env, s_source>>
  BY DEF Camera!SetGpio, Camera!Mutation
<1>2. s_settings = s_asked /\ s_settings \in Setting /\ PinsFit(s_settings)
  BY <1>1 DEF CamInv
<1>3. CASE s_last' = "rejected" /\ UNCHANGED <<s_settings, s_saved, s_asked>>
  BY <1>1, <1>3, CamKeeps
<1>4. CASE /\ s_settings' = new /\ s_saved' = new /\ s_last' = "ok"
           /\ s_asked' = [s_asked EXCEPT ![what] = new[what]]
           /\ what = "trigger" => Camera!set_timelapse_trigger(s_settings, v)
           /\ what = "pin" => Camera!set_timelapse_gpio_pin(s_settings, v)
           /\ what = "record" => Camera!set_timelapse_gpio_record_pin(s_settings, v)
  <2>1. /\ new \in Setting /\ new.quality = s_settings.quality
        /\ new.rotation = s_settings.rotation /\ new.rtsp = s_settings.rtsp
    <3>1. CASE what = "trigger"
      BY <1>2, <3>1, SettingFields
    <3>2. CASE what = "pin"
      BY <1>2, <3>2, SettingFields
    <3>3. CASE what = "record"
      BY <1>2, <3>3, SettingFields
    <3> QED
      BY <3>1, <3>2, <3>3
  <2>2. s_asked' = new
    <3>1. what \in DOMAIN s_settings
      BY <1>2, SettingFields
    <3> QED
      BY <1>2, <1>4, <3>1
  <2>3. PinsFit(new)
    <3>1. CASE what = "trigger"
      BY <1>2, <1>4, <3>1, SettingFields DEF PinsFit, Camera!set_timelapse_trigger
    <3>2. CASE what = "pin"
      BY <1>2, <1>4, <3>2, SettingFields DEF PinsFit, Camera!set_timelapse_gpio_pin
    <3>3. CASE what = "record"
      BY <1>2, <1>4, <3>3, SettingFields DEF PinsFit, Camera!set_timelapse_gpio_record_pin
    <3> QED
      BY <3>1, <3>2, <3>3
  <2> QED
    BY <1>1, <1>4, <2>1, <2>2, <2>3, CamStores
<1> QED
  BY <1>3, <1>4 DEF Camera!SetGpio, Camera!_rejected, Camera!_commit, Careful

\* The settings that are only stored.
LEMMA CamPlain ==
  ASSUME CamInv, Careful, NEW v \in {"a", "b"}, Camera!set_plain(v)
  PROVE  CamInv' /\ s_last' = "ok"
<1> DEFINE new == [s_settings EXCEPT !.plain = v]
<1>1. /\ s_phase = "up" /\ s_phase' = "up" /\ UNCHANGED <<s_env, s_source>> /\ s_last' = "ok"
      /\ s_settings' = new /\ s_saved' = new /\ s_asked' = [s_asked EXCEPT !["plain"] = new["plain"]]
  BY Zenon DEF Camera!set_plain, Camera!Mutation, Camera!_commit, Careful
<1>2. s_settings = s_asked /\ s_settings \in Setting /\ PinsFit(s_settings)
  BY <1>1 DEF CamInv
<1>3. /\ new \in Setting /\ new.quality = s_settings.quality /\ new.rotation = s_settings.rotation
      /\ new.rtsp = s_settings.rtsp /\ s_asked' = new
  BY <1>1, <1>2, SettingFields
<1>4. PinsFit(new)
  BY <1>2, SettingFields DEF PinsFit
<1> QED
  BY <1>1, <1>3, <1>4, CamStores

\* set_rtsp_mode is always accepted.
LEMMA CamRtsp ==
  ASSUME CamInv, Careful, NEW v \in Modes, Camera!set_rtsp_mode(v)
  PROVE  CamInv' /\ s_last' = "ok"
<1> DEFINE new == [s_settings EXCEPT !.rtsp = v]
           e == [s_env EXCEPT !.mode = v]
<1>1. /\ s_phase = "up" /\ s_phase' = "up" /\ UNCHANGED s_source /\ s_env' = e /\ s_last' = "ok"
      /\ s_settings' = new /\ s_saved' = new /\ s_asked' = [s_asked EXCEPT !["rtsp"] = new["rtsp"]]
  BY Zenon DEF Camera!set_rtsp_mode, Camera!Mutation, Camera!_commit, Careful
<1>2. /\ s_settings = s_asked /\ s_settings \in Setting /\ s_env \in EnvFiles
      /\ FilesSay(s_env, s_settings) /\ s_source = Camera!SourceOf(s_env) /\ PinsFit(s_settings)
  BY <1>1 DEF CamInv
<1>3. /\ new \in Setting /\ e \in EnvFiles /\ FilesSay(e, new)
      /\ Camera!SourceOf(e) = Camera!SourceOf(s_env)
  BY <1>2, ModeSays
<1>4. PinsFit(new) /\ s_asked' = new
  BY <1>1, <1>2, SettingFields DEF PinsFit
<1> QED
  BY <1>1, <1>2, <1>3, <1>4, CamAccepts

\* set_webrtc_mode, accepted or refused.
LEMMA CamWebrtc ==
  ASSUME CamInv, Careful, NEW v \in {0, 1}, Camera!set_webrtc_mode(v)
  PROVE  /\ CamInv'
         /\ s_last' = "rejected" => UNCHANGED <<s_settings, s_saved, s_env, s_service>>
<1> DEFINE new == [s_settings EXCEPT !.webrtc = v]
<1>1. s_phase = "up" /\ s_phase' = "up" /\ UNCHANGED <<s_env, s_source, s_service>>
  BY DEF Camera!set_webrtc_mode, Camera!Mutation
<1>2. s_settings = s_asked /\ s_settings \in Setting /\ PinsFit(s_settings)
  BY <1>1 DEF CamInv
<1>3. CASE s_last' = "rejected" /\ UNCHANGED <<s_settings, s_saved, s_asked>>
  BY <1>1, <1>3, CamKeeps
<1>4. CASE /\ s_settings' = new /\ s_saved' = new /\ s_last' = "ok"
           /\ s_asked' = [s_asked EXCEPT !["webrtc"] = new["webrtc"]]
  <2>1. /\ new \in Setting /\ new.quality = s_settings.quality /\ new.rotation = s_settings.rotation
        /\ new.rtsp = s_settings.rtsp /\ s_asked' = new
    BY <1>2, <1>4, SettingFields
  <2>2. PinsFit(new)
    BY <1>2, SettingFields DEF PinsFit
  <2> QED
    BY <1>1, <1>4, <2>1, <2>2, CamStores
<1> QED
  BY <1>3, <1>4, Zenon DEF Camera!set_webrtc_mode, Camera!_rejected, Camera!_commit, Careful

\* The configuration event that turns WebRTC on and RTSP off.
LEMMA CamBoth ==
  ASSUME CamInv, Careful, Camera!ConfigWebrtcOn
  PROVE  CamInv' /\ s_last' = "ok"
<1> DEFINE first == [s_settings EXCEPT !.webrtc = 1]
           both == [first EXCEPT !.rtsp = 1]
           e == [s_env EXCEPT !.mode = 1]
<1>1. /\ s_phase = "up" /\ s_phase' = "up" /\ UNCHANGED s_source /\ s_env' = e /\ s_last' = "ok"
      /\ s_settings' = both /\ s_saved' = both
      /\ s_asked' = [s_asked EXCEPT !.webrtc = 1, !.rtsp = 1]
  BY Zenon DEF Camera!ConfigWebrtcOn, Camera!Mutation, Camera!RtspDisabled, Careful
<1>2. /\ s_settings = s_asked /\ s_settings \in Setting /\ s_env \in EnvFiles
      /\ FilesSay(s_env, s_settings) /\ s_source = Camera!SourceOf(s_env) /\ PinsFit(s_settings)
  BY <1>1 DEF CamInv
<1>3. /\ first \in Setting /\ PinsFit(first) /\ first.quality = s_settings.quality
      /\ first.rotation = s_settings.rotation /\ first.rtsp = s_settings.rtsp
  BY <1>2, SettingFields DEF PinsFit
<1>4. FilesSay(s_env, first)
  BY <1>2, <1>3 DEF FilesSay
<1>5. s_asked' = both
  BY <1>1, <1>2
<1> HIDE DEF first
<1>6. /\ both \in Setting /\ e \in EnvFiles /\ FilesSay(e, both)
      /\ Camera!SourceOf(e) = Camera!SourceOf(s_env)
  BY <1>2, <1>3, <1>4, ModeSays DEF Modes
<1>7. PinsFit(both)
  BY <1>3, SettingFields DEF PinsFit
<1> QED
  BY <1>1, <1>2, <1>5, <1>6, <1>7, CamAccepts

\* The seeds main() reads from the files are settings without pins.
Seeds(a, b, c) == [Camera!Defaults EXCEPT !.quality = a, !.rotation = b, !.rtsp = c]

LEMMA SeedsOf ==
  ASSUME NEW a \in Tiers, NEW b \in Rotations, NEW c \in Modes
  PROVE  /\ Seeds(a, b, c) \in Setting /\ Seeds(a, b, c).pin = Nothing
         /\ Seeds(a, b, c).record = Nothing /\ Seeds(a, b, c).trigger = "interval"
<1> DEFINE NoPins(x) == x.pin = Nothing /\ x.record = Nothing /\ x.trigger = "interval"
           s1 == [Camera!Defaults EXCEPT !.quality = a]
           s2 == [s1 EXCEPT !.rotation = b]
           s3 == [s2 EXCEPT !.rtsp = c]
<1>1. NoPins(Camera!Defaults) /\ Camera!Defaults \in Setting
  BY DefaultsHold DEF Camera!Defaults
<1>2. s1 \in Setting /\ NoPins(s1)
  BY <1>1, SettingFields
<1>3. s2 \in Setting /\ NoPins(s2)
  <2> HIDE DEF s1
  <2> QED
    BY <1>2, SettingFields
<1>4. s3 \in Setting /\ NoPins(s3)
  <2> HIDE DEF s2
  <2> QED
    BY <1>3, SettingFields
<1> QED
  BY <1>4, Zenon DEF Seeds

\* The defaults of the files are those of the settings.
LEMMA DefaultSeeds ==
  Seeds(Camera!Defaults.quality, Camera!Defaults.rotation, Camera!Defaults.rtsp) = Camera!Defaults
<1> DEFINE D == Camera!Defaults
<1>1. \A d \in Setting : /\ [d EXCEPT !.quality = d.quality] = d
                         /\ [d EXCEPT !.rotation = d.rotation] = d
                         /\ [d EXCEPT !.rtsp = d.rtsp] = d
  BY SettingFields
<1>2. /\ [D EXCEPT !.quality = D.quality] = D /\ [D EXCEPT !.rotation = D.rotation] = D
      /\ [D EXCEPT !.rtsp = D.rtsp] = D
  BY <1>1, DefaultsHold
<1> QED
  BY <1>2, Zenon DEF Seeds

\* main() overlays state.json on seeds that the files give.
LEMMA CamStart ==
  ASSUME CamInv, Camera!RuntimeStart
  PROVE  CamInv'
<1> DEFINE seeds == [Camera!Defaults EXCEPT !.quality = Camera!read_current(s_env),
                                            !.rotation = Camera!read_rotation(s_env),
                                            !.rtsp = Camera!Or(s_env.mode, Camera!Defaults.rtsp)]
<1>1. /\ s_phase = "boot" /\ s_phase' = "up" /\ UNCHANGED <<s_saved, s_env, s_source, s_asked>>
      /\ s_settings' = Camera!apply_persisted(seeds, s_saved)
  BY Zenon DEF Camera!RuntimeStart
<1>2. s_asked \in Setting /\ FilesSay(s_env, s_asked) /\ PinsFit(s_asked)
  BY <1>1 DEF CamInv
<1>3. seeds = Seeds(s_asked.quality, s_asked.rotation, s_asked.rtsp)
  BY <1>2, Zenon DEF FilesSay, Seeds
<1>4. /\ seeds \in Setting /\ seeds.pin = Nothing /\ seeds.record = Nothing
      /\ seeds.trigger = "interval"
  <2>1. /\ s_asked.quality \in Tiers /\ s_asked.rotation \in Rotations /\ s_asked.rtsp \in Modes
    BY <1>2, SettingFields
  <2> HIDE DEF seeds
  <2> QED
    BY <1>3, <2>1, SeedsOf
<1>5. Camera!apply_persisted(seeds, s_saved) = s_asked
  <2>1. CASE s_saved = s_asked
    BY <1>2, <1>4, <2>1, PersistedIsTaken
  <2>2. CASE s_saved = Nothing /\ s_asked = Camera!Defaults
    <3>1. Camera!apply_persisted(seeds, s_saved) = seeds
      BY <2>2, Zenon DEF Camera!apply_persisted
    <3>2. seeds = Camera!Defaults
      BY <1>3, <2>2, DefaultSeeds, Zenon
    <3> QED
      BY <2>2, <3>1, <3>2, Zenon
  <2> QED
    BY <2>1, <2>2 DEF CamInv
<1> HIDE DEF seeds
<1>6. s_settings' = s_asked'
  BY <1>1, <1>5
<1>7. FilesSay(s_env, s_asked)' /\ PinsFit(s_asked)' /\ (s_source = Camera!SourceOf(s_env))'
  BY <1>1 DEF CamInv, FilesSay, PinsFit, Camera!SourceOf, Camera!read_current,
     Camera!read_rotation, Camera!Or
<1> QED
  BY <1>1, <1>6, <1>7 DEF CamInv

\* Power on: pi-persist rebuilds the files, then the source starts with them.
LEMMA CamPowerOn ==
  ASSUME CamInv, Camera!PowerOn
  PROVE  CamInv'
<1>1. /\ s_phase = "off" /\ s_phase' = "boot" /\ UNCHANGED <<s_saved, s_asked>>
      /\ s_env' = Camera!_restore_settings(s_env, s_saved) /\ s_source' = Camera!SourceOf(s_env')
  BY Zenon DEF Camera!PowerOn
<1>2. s_env' \in EnvFiles /\ FilesSay(s_env', s_asked)
  <2>1. s_env = Camera!NoFiles /\ s_asked \in Setting
    BY <1>1 DEF CamInv
  <2>2. CASE s_saved = s_asked
    BY <1>1, <2>1, <2>2, RestoreSays
  <2>3. CASE s_saved = Nothing /\ s_asked = Camera!Defaults
    <3>1. s_env' = Camera!NoFiles
      BY <1>1, <2>1, <2>3, Zenon DEF Camera!_restore_settings
    <3> QED
      BY <2>3, <3>1, DefaultsHold
  <2> QED
    BY <2>2, <2>3 DEF CamInv
<1>3. FilesSay(s_env, s_asked)' /\ PinsFit(s_asked)' /\ (s_source = Camera!SourceOf(s_env))'
  BY <1>1, <1>2 DEF CamInv, FilesSay, PinsFit, Camera!SourceOf, Camera!read_current,
     Camera!read_rotation, Camera!Or
<1> QED
  BY <1>1, <1>2, <1>3 DEF CamInv

\* Restarts of the source and of the runtime, and the loss of power.
LEMMA CamRestarts ==
  ASSUME CamInv, Camera!SourceRestart \/ Camera!RuntimeCrash \/ Camera!PowerCut
  PROVE  CamInv'
<1>0. PinsFit(s_asked) /\ UNCHANGED s_asked => PinsFit(s_asked)'
  BY DEF PinsFit
<1>1. CASE Camera!SourceRestart
  <2>1. /\ s_phase # "off" /\ UNCHANGED <<s_phase, s_settings, s_saved, s_env, s_asked>>
        /\ s_source' = Camera!SourceOf(s_env)
    BY <1>1 DEF Camera!SourceRestart, Camera!ram
  <2>2. UNCHANGED s_source
    BY <2>1 DEF CamInv
  <2> QED
    BY <2>1, <2>2, CamKeeps
<1>2. CASE Camera!RuntimeCrash
  <2>1. /\ s_phase = "up" /\ s_phase' = "boot"
        /\ UNCHANGED <<s_settings, s_saved, s_env, s_source, s_asked>>
    BY <1>2 DEF Camera!RuntimeCrash, Camera!ram
  <2>2. FilesSay(s_env, s_asked)' /\ (s_source = Camera!SourceOf(s_env))'
    BY <2>1 DEF CamInv, FilesSay, Camera!SourceOf, Camera!read_current, Camera!read_rotation,
       Camera!Or
  <2> QED
    BY <1>0, <2>1, <2>2 DEF CamInv
<1>3. CASE Camera!PowerCut
  <2>1. s_phase' = "off" /\ s_env' = Camera!NoFiles /\ UNCHANGED <<s_saved, s_asked>>
    BY <1>3 DEF Camera!PowerCut
  <2> QED
    BY <1>0, <2>1, DefaultsHold DEF CamInv
<1> QED
  BY <1>1, <1>2, <1>3

\* Every mutation, start and loss of power.
LEMMA CamStep ==
  ASSUME Careful, CamInv, Camera!Next
  PROVE  /\ CamInv'
         /\ s_changes' # s_changes /\ s_last' = "rejected"
              => UNCHANGED <<s_settings, s_saved, s_env, s_service>>
<1>1. CASE Camera!PowerOn
  BY <1>1, CamPowerOn DEF Camera!PowerOn
<1>2. CASE Camera!RuntimeStart
  BY <1>2, CamStart DEF Camera!RuntimeStart
<1>3. CASE Camera!SourceRestart \/ Camera!RuntimeCrash \/ Camera!PowerCut
  BY <1>3, CamRestarts DEF Camera!SourceRestart, Camera!RuntimeCrash, Camera!PowerCut
<1>4. CASE Camera!Relay
  BY <1>4, CamKeeps DEF Camera!Relay
<1>5. CASE Camera!ConfigWebrtcOn
  BY <1>5, CamBoth
<1>6. CASE \E t \in Camera!Tiers, p \in BOOLEAN : Camera!set_quality(t, p)
  BY <1>6, CamQuality, NothingElse
<1>7. CASE \E d \in Camera!Rotations : Camera!set_rotation(d)
  BY <1>7, CamRotation DEF Camera!Rotations, Rotations
<1>8. CASE \E v \in Camera!Plain : Camera!set_plain(v)
  BY <1>8, CamPlain DEF Camera!Plain
<1>9. CASE \E t \in {"interval", "gpio"} : Camera!SetGpio("trigger", t)
  BY <1>9, CamGpio
<1>10. CASE \E p \in Pins \cup {Nothing}, w \in {"pin", "record"} : Camera!SetGpio(w, p)
  BY <1>10, CamGpio
<1>11. CASE \E m \in {Camera!RtspDisabled, Camera!RtspEnabled} : Camera!set_rtsp_mode(m)
  BY <1>11, CamRtsp DEF Modes, Camera!RtspDisabled, Camera!RtspEnabled
<1>12. CASE \E m \in {0, 1} : Camera!set_webrtc_mode(m)
  BY <1>12, CamWebrtc
<1> QED
  BY <1>1, <1>2, <1>3, <1>4, <1>5, <1>6, <1>7, <1>8, <1>9, <1>10, <1>11, <1>12 DEF Camera!Next

\* The invariant of the durable settings, for a careful set of faults.
LEMMA CamInvariant == ASSUME Careful PROVE Camera!Spec => []CamInv
<1>1. Camera!Init => CamInv
  BY CamInit
<1>2. CamInv /\ [Camera!Next]_(Camera!vars) => CamInv'
  <2> SUFFICES ASSUME CamInv, [Camera!Next]_(Camera!vars) PROVE CamInv'
    OBVIOUS
  <2>1. CASE Camera!Next
    BY <2>1, CamStep
  <2>2. CASE UNCHANGED Camera!vars
    BY <2>2, CamKeeps DEF Camera!vars, Camera!ram
  <2> QED
    BY <2>1, <2>2
<1> QED
  BY <1>1, <1>2, PTL DEF Camera!Spec

\* What the runtime reports as tier and rotation is what the camera source runs with and what a
\* restart of the source alone would give it (main.py's one shared state), when no change is
\* applied without being stored and the writes of quality.env and state.json succeed.
THEOREM EncoderFollows == ASSUME Careful PROVE Camera!Spec => []EncoderFollowsState
<1>1. CamInv => EncoderFollowsState
  BY DEF CamInv, FilesSay, EncoderFollowsState, Camera!EncoderFollowsState, Camera!SourceOf
<1> QED
  BY <1>1, CamInvariant, PTL

\* What the coordinator accepted as durable is in force whenever the runtime is up: state.json,
\* pi-persist and apply_persisted together bring it back after every restart and power cut.
THEOREM AcceptedIsInForce == ASSUME Careful PROVE Camera!Spec => []AcceptedSurvives
<1>1. CamInv => AcceptedSurvives
  BY DEF CamInv, AcceptedSurvives, Camera!AcceptedSurvives
<1> QED
  BY <1>1, CamInvariant, PTL

\* A mutation that settings_coordinator.py rejects leaves the settings, state.json, the
\* environment files and the RTSP unit as they were: restore_live takes back the live file.
THEOREM RejectionsAreInert == ASSUME Careful PROVE Camera!Spec => RejectedIsInert
<1>1. CamInv /\ [Camera!Next]_(Camera!vars) =>
        [(s_changes' # s_changes /\ s_last' = "rejected")
           => UNCHANGED <<s_settings, s_saved, s_env, s_service>>]_(Camera!vars)
  <2> SUFFICES ASSUME CamInv, Camera!Next, s_changes' # s_changes /\ s_last' = "rejected"
               PROVE  UNCHANGED <<s_settings, s_saved, s_env, s_service>>
    BY DEF Camera!vars, Camera!ram
  <2> QED
    BY CamStep
<1> QED
  BY <1>1, CamInvariant, PTL DEF Camera!Spec, RejectedIsInert, Camera!RejectedIsInert
=============================================================================
