---------------------------- MODULE GpioSessions ----------------------------
(***************************************************************************)
(* The GPIO timelapse trigger of the camera runtime (app/gpio_trigger.py), *)
(* the per-print session folders it opens and closes (app/timelapse.py)    *)
(* and the loop that captures one frame for each layer pulse               *)
(* (timelapse_loop in app/main.py).  The printer drives a layer pin and a  *)
(* recording pin; the kernel queues the edges of the lines the runtime     *)
(* has requested.  Frames are identified by the print whose pulse asked    *)
(* for them.                                                               *)
(***************************************************************************)
EXTENDS Integers, Sequences, FiniteSets

CONSTANTS
  MaxPrints,     \* prints, numbered from 1
  MaxSessions,   \* session folders, numbered from 1 in the order they are made
  MaxEvents,     \* edges waiting in the kernel's buffer
  MaxShots,      \* the size of shot_queue
  MaxRestarts,   \* restarts of the runtime
  MaxChanges     \* changes of the trigger settings

ASSUME GpioAssumption ==
  /\ {MaxPrints, MaxSessions, MaxEvents, MaxShots} \subseteq Nat \ {0}
  /\ {MaxRestarts, MaxChanges} \subseteq Nat

Prints == 1..MaxPrints
Sessions == 1..MaxSessions
Root == 0            \* the timelapse root, and `no session`
None == 0            \* no print

VARIABLES
  print,      \* the print in progress, None between prints
  printed,    \* the prints started so far
  pin,        \* the recording pin: "low" while the printer asks for recording
  events,     \* edges in the kernel's buffer, each with the print that made it
  up,         \* is the runtime running?
  setting,    \* the persisted settings: "interval", "gpio", "gpio+record"
  armed,      \* the requested lines (_config): "no" or a setting
  recording,  \* _recording
  enabled,    \* state.timelapse_enabled (persisted)
  marker,     \* the session named in the marker file, Root without one
  owner,      \* for each session folder the print it was opened for
  frames,     \* the prints with a frame in each folder
  requested,  \* the sessions given to the build manager
  shots,      \* shot_queue
  capture,    \* the print of the frame being captured
  restarts, changes

gpio == <<armed, recording, enabled, marker, owner, requested>>
printer == <<print, printed, pin>>
vars == <<printer, events, up, setting, gpio, frames, shots, capture, restarts, changes>>

Init ==
  /\ print = None /\ printed = 0 /\ pin = "high"
  /\ events = <<>>
  /\ up = FALSE
  /\ setting = "gpio+record"
  /\ armed = "no"
  /\ recording = FALSE
  /\ enabled = FALSE
  /\ marker = Root
  /\ owner = <<>>
  /\ frames = [d \in Sessions \cup {Root} |-> {}]
  /\ requested = {}
  /\ shots = <<>>
  /\ capture = None
  /\ restarts = 0 /\ changes = 0

(***************************************************************************)
(* The printer.  Its start G-code releases the recording pin, waits and    *)
(* asserts it; a cancelled print leaves the pin as it is.                  *)
(***************************************************************************)
Rise == <<"rise", None>>
Fall == <<"fall", None>>
Shot(p) == <<"shot", p>>

\* The kernel queues the edges of the requested lines.
Seen(edges) ==
  /\ Len(events) + Len(edges) <= MaxEvents
  /\ events' = IF armed = "no" THEN events
               ELSE events \o SelectSeq(edges, LAMBDA e :
                                          armed = "gpio+record" \/ e[1] = "shot")

StartPrint ==
  /\ print = None /\ printed < MaxPrints
  /\ print' = printed + 1 /\ printed' = printed + 1
  /\ pin' = "low"
  /\ Seen(IF pin = "low" THEN <<Rise, Fall>> ELSE <<Fall>>)
  /\ UNCHANGED <<up, setting, gpio, frames, shots, capture, restarts, changes>>

LayerPulse ==
  /\ print # None
  /\ Seen(<<Shot(print)>>)
  /\ UNCHANGED <<printer, up, setting, gpio, frames, shots, capture, restarts, changes>>

EndPrint ==
  /\ print # None
  /\ print' = None
  /\ \/ pin' = "high" /\ Seen(<<Rise>>)
     \/ UNCHANGED <<pin, events>>          \* cancelled
  /\ UNCHANGED <<printed, up, setting, gpio, frames, shots, capture, restarts, changes>>

(***************************************************************************)
(* Sessions                                                                *)
(***************************************************************************)
\* A fresh folder (its name is never reused) and the marker that names it.
open_session ==
  /\ Len(owner) < MaxSessions
  /\ owner' = Append(owner, printed)
  /\ marker' = Len(owner) + 1

\* _record_active: resume the open session or open one, which may fail.
_record_active ==
  /\ \/ /\ IF marker = Root THEN open_session ELSE UNCHANGED <<owner, marker>>
        /\ recording' = TRUE
        /\ enabled' = TRUE
     \/ marker = Root /\ UNCHANGED <<owner, marker, recording, enabled>>
  /\ UNCHANGED requested

\* Mutant: the session is built but the marker stays.
CloseKeepsMarker ==
  /\ recording' = FALSE
  /\ requested' = IF marker # Root /\ frames[marker] # {} THEN requested \cup {marker}
                                                        ELSE requested
  /\ UNCHANGED <<marker, owner>>

\* Mutant: the recording flag survives the end of the session.
CloseKeepsFlag ==
  /\ marker' = Root
  /\ requested' = IF marker # Root /\ frames[marker] # {} THEN requested \cup {marker}
                                                        ELSE requested
  /\ UNCHANGED <<owner, recording>>

\* Mutant: only a session this process has seen recording is built.
CloseBuildsOwn ==
  /\ recording' = FALSE
  /\ marker' = Root
  /\ requested' = IF recording /\ marker # Root /\ frames[marker] # {}
                    THEN requested \cup {marker} ELSE requested
  /\ UNCHANGED owner

\* _close_and_build: drop the marker; a session with frames is built.
_close_and_build ==
  /\ recording' = FALSE
  /\ marker' = Root
  /\ requested' = IF marker # Root /\ frames[marker] # {} THEN requested \cup {marker}
                                                        ELSE requested
  /\ UNCHANGED owner

(***************************************************************************)
(* Arming                                                                  *)
(***************************************************************************)
release == recording' = FALSE /\ UNCHANGED <<marker, owner, requested, enabled>>

\* Arming with a recording pin reconciles the session with the pin's level; an
\* unreadable level leaves it alone.
_arm_recording ==
  \/ pin = "low" /\ _record_active
  \/ pin = "high" /\ _close_and_build /\ UNCHANGED enabled
  \/ release

\* configure for setting s: the lines that are held are released (their pending
\* edges are lost), and the new ones requested, which may fail.
configure(s) ==
  \/ armed = s /\ UNCHANGED <<gpio, events>>
  \/ /\ armed # s
     /\ events' = <<>>
     /\ \/ armed' = "no" /\ release
        \/ s = "gpio" /\ armed' = s /\ release
        \/ s = "gpio+record" /\ armed' = s /\ _arm_recording

\* The runtime starts: persisted settings are restored and applied.
Boot ==
  /\ ~up
  /\ up' = TRUE
  /\ IF setting = "interval" THEN UNCHANGED <<gpio, events>> ELSE configure(setting)
  /\ UNCHANGED <<printer, setting, frames, shots, capture, restarts, changes>>

\* The user changes the trigger settings.
ChangeSettings(s) ==
  /\ up /\ changes < MaxChanges
  /\ changes' = changes + 1
  /\ setting' = s
  /\ IF s = "interval" THEN /\ armed' = "no" /\ events' = <<>> /\ release
                       ELSE configure(s)
  /\ UNCHANGED <<printer, up, frames, shots, capture, restarts>>

\* A commit of any other setting applies the GPIO settings again.
Reapply ==
  /\ up /\ armed = "no" /\ setting # "interval"
  /\ configure(setting)
  /\ UNCHANGED <<printer, up, setting, frames, shots, capture, restarts, changes>>

\* Reading the lines fails: they are released.
ReadFails ==
  /\ up /\ armed # "no" /\ changes < MaxChanges
  /\ changes' = changes + 1
  /\ armed' = "no" /\ events' = <<>> /\ release
  /\ UNCHANGED <<printer, up, setting, frames, shots, capture, restarts>>

(***************************************************************************)
(* Edges                                                                   *)
(***************************************************************************)
\* handle_edge: a pulse is queued if the timelapse is on and, for on_shot, the
\* queue has room; the rate limit may ignore it.
handle_edge ==
  /\ up /\ events # <<>>
  /\ events' = Tail(events)
  /\ \/ /\ Head(events) = Fall
        /\ _record_active
        /\ UNCHANGED <<armed, shots>>
     \/ /\ Head(events) = Rise
        /\ enabled' = FALSE
        /\ _close_and_build
        /\ UNCHANGED <<armed, shots>>
     \/ /\ Head(events)[1] = "shot"
        /\ enabled /\ Len(shots) < MaxShots
        /\ shots' = Append(shots, Head(events)[2])
        /\ UNCHANGED gpio
     \/ /\ Head(events)[1] = "shot"
        /\ UNCHANGED <<gpio, shots>>
  /\ UNCHANGED <<printer, up, setting, frames, capture, restarts, changes>>

\* The timelapse switch of the console, MQTT or Prusa Connect.
set_timelapse_enabled ==
  /\ up
  /\ enabled' = ~enabled
  /\ UNCHANGED <<printer, events, up, setting, armed, recording, marker, owner, requested,
                 frames, shots, capture, restarts, changes>>

(***************************************************************************)
(* timelapse_loop                                                          *)
(***************************************************************************)
TakeShot ==
  /\ up /\ setting # "interval" /\ capture = None /\ shots # <<>>
  /\ shots' = Tail(shots)
  /\ capture' = IF enabled THEN Head(shots) ELSE None
  /\ UNCHANGED <<printer, events, up, setting, gpio, frames, restarts, changes>>

\* The capture is over: the frame goes where the marker says now.
StoreFrame ==
  /\ up /\ capture # None
  /\ capture' = None
  /\ \/ frames' = [frames EXCEPT ![marker] = @ \cup {capture}]   \* session_frame_dir
     \/ UNCHANGED frames                                         \* capture failed
  /\ UNCHANGED <<printer, events, up, setting, gpio, shots, restarts, changes>>

\* Back at the interval trigger, queued pulses are thrown away.
DropShots ==
  /\ up /\ setting = "interval" /\ capture = None /\ shots # <<>>
  /\ shots' = <<>>
  /\ UNCHANGED <<printer, events, up, setting, gpio, frames, capture, restarts, changes>>

\* The runtime is killed or the device restarts: files and settings stay.
Crash ==
  /\ up /\ restarts < MaxRestarts
  /\ restarts' = restarts + 1
  /\ up' = FALSE
  /\ armed' = "no" /\ recording' = FALSE
  /\ events' = <<>> /\ shots' = <<>> /\ capture' = None
  /\ UNCHANGED <<printer, setting, enabled, marker, owner, requested, frames, changes>>

Next ==
  \/ StartPrint \/ LayerPulse \/ EndPrint
  \/ Boot \/ (\E s \in {"interval", "gpio", "gpio+record"} : ChangeSettings(s))
  \/ Reapply \/ ReadFails
  \/ handle_edge \/ set_timelapse_enabled
  \/ TakeShot \/ StoreFrame \/ DropShots \/ Crash

Spec == Init /\ [][Next]_vars

\* The event loop runs its callbacks and captures come to an end.
FairSpec ==
  /\ Spec /\ WF_vars(Boot) /\ WF_vars(handle_edge) /\ WF_vars(TakeShot) /\ WF_vars(StoreFrame)

(***************************************************************************)
(* Properties                                                              *)
(***************************************************************************)
\* The only type invariant of this module.
TypeOK ==
  /\ print \in {None} \cup Prints /\ printed \in 0..MaxPrints /\ pin \in {"low", "high"}
  /\ Len(events) <= MaxEvents
  /\ up \in BOOLEAN
  /\ setting \in {"interval", "gpio", "gpio+record"}
  /\ armed \in {"no", "gpio", "gpio+record"}
  /\ recording \in BOOLEAN /\ enabled \in BOOLEAN
  /\ marker \in {Root} \cup (1..Len(owner))
  /\ Len(owner) <= MaxSessions
  /\ frames \in [Sessions \cup {Root} -> SUBSET Prints]
  /\ requested \subseteq 1..Len(owner)
  /\ Len(shots) <= MaxShots
  /\ capture \in {None} \cup Prints

\* A session that is over and holds a frame has been given to the build manager,
\* whichever way it came to its end: "when the pin is released the session is
\* built" (docs/user-guide.md).
ClosedIsBuilt ==
  \A s \in 1..Len(owner) : s # marker /\ frames[s] # {} => s \in requested

\* No frame is added to a session after its build was asked for, not even one
\* whose capture was under way: the video is complete.
BuiltStaysComplete == [][\A s \in requested : frames'[s] = frames[s]]_vars

\* "A cancelled print never leaves a stale session" (docs/user-guide.md): the
\* frames of a print never go to the session of an earlier print.
NoStaleSession ==
  \A s \in 1..Len(owner) : \A p \in frames[s] : p <= owner[s]

\* "Each print gets its own folder" (docs/user-guide.md): a session holds the
\* frames of one print.
OwnFolder == \A s \in 1..Len(owner) : frames[s] \subseteq {owner[s]}

\* A stale session takes a restart or a change of the settings: as long as the
\* lines stay armed no edge is missed and each print opens its own session.
StaleNeedsRestart == restarts = 0 /\ changes = 0 => NoStaleSession

\* A recording ends after its pin is released: the edge reaches _record_inactive,
\* or the lines are given back.  (A session whose pin could not be read when the
\* lines were armed is not being recorded and may stay open.)
ReleasedIsClosed ==
  (recording /\ pin = "high") ~> (~recording \/ pin = "low")
=============================================================================
