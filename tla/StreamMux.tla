------------------------------ MODULE StreamMux ------------------------------
(***************************************************************************)
(* The capture pipeline (camera_source.py), the TCP multiplexer that fans  *)
(* it out (stream_mux.py) and the triggered capture that reads it          *)
(* (camera.py).  One thread reads the stream in chunks, keeps a bootstrap  *)
(* buffer and appends every chunk to the clients' queues; each client has  *)
(* a thread that sends the bootstrap, registers its queue and drains it.   *)
(*                                                                         *)
(* Abstraction.  A chunk is its number in the stream, which is also its    *)
(* time; its kind says what SPS it holds: "key" a whole SPS or IDR start,  *)
(* "edge" one whose type byte is in the chunk and whose profile bytes are  *)
(* in the next, "cut" one whose start code is cut, "slice" none.  A chunk  *)
(* decodes to one frame.                                                   *)
(***************************************************************************)
EXTENDS Naturals, Sequences, FiniteSets

CONSTANTS Clients,     \* TCP clients
          Patched,     \* those on port 8889; the others are on 8888
          MaxChunks,   \* bound on the chunks of one run of the source
          MaxQueue,    \* MAX_QUEUE
          MaxRestarts, \* bound on restarts of the source unit
          Keep         \* BOOTSTRAP_FRAMES

VARIABLES rotation,  \* CAM_ROTATION of the running source
          pipeline,  \* the capture command in front of the mux
          kinds,     \* the kinds of the chunks read so far
          kf_buf,    \* chunks of the keyframe being accumulated
          keyframe,  \* the bootstrap of the channels
          todo,      \* channels that still get the chunk just read
          cl,        \* client -> its connection
          restarts   \* restarts of the source unit so far
vars == <<rotation, pipeline, kinds, kf_buf, keyframe, todo, cl, restarts>>

Channels == {"raw", "patched"}
Channel(c) == IF c \in Patched THEN "patched" ELSE "raw"
Kinds == {"key", "edge", "cut", "slice"}
Read == Len(kinds)   \* the number of the last chunk read
None == 0            \* no chunk

Idle == [st |-> "off", q |-> << >>, boot |-> << >>, sent |-> None, shed |-> FALSE,
         frames |-> 0, trigger |-> None, picked |-> None]

-----------------------------------------------------------------------------
(* camera_source.py *)

\* settings_from_env: a rotation that is not one of the four becomes the default.
settings_from_env(r) == IF r \in {0, 90, 180, 270} THEN r ELSE 180

\* detect_rotation_backend: the ISP when it is there and can rotate.
detect_rotation_backend == {"isp", "software"}

\* build_source_command: rpicam for sensor flips, GStreamer for a transposition.
build_source_command(r) ==
    IF r \in {90, 270} THEN detect_rotation_backend ELSE {"rpicam"}

Source(r) ==
    /\ rotation' = settings_from_env(r)
    /\ pipeline' \in build_source_command(settings_from_env(r))

Init ==
    /\ rotation = 180 /\ pipeline = "rpicam"
    /\ kinds = << >> /\ kf_buf = << >> /\ keyframe = << >> /\ todo = {}
    /\ cl = [c \in Clients |-> Idle]
    /\ restarts = 0

-----------------------------------------------------------------------------
(* The reading thread *)

\* _is_keyframe_start: the type byte of an SPS or IDR is in the chunk.
_is_keyframe_start(kind) == kind \in {"key", "edge"}

\* One chunk: it starts a keyframe buffer, continues it and promotes it once it
\* is longer than 32 KiB (two chunks), or belongs to no buffer.
ReadChunk(kind) ==
    LET n == Read + 1 IN
    /\ todo = {} /\ Read < MaxChunks
    /\ kinds' = Append(kinds, kind)
    /\ IF _is_keyframe_start(kind) THEN kf_buf' = <<n>> /\ UNCHANGED keyframe
       ELSE IF kf_buf # << >> THEN keyframe' = Append(kf_buf, n) /\ kf_buf' = << >>
       ELSE UNCHANGED <<kf_buf, keyframe>>
    /\ todo' = Channels
    /\ UNCHANGED <<rotation, pipeline, cl, restarts>>

\* Mutant: an overfull queue sheds its newest chunk, not its oldest.
ShedNewest(q, n) ==
    IF Len(q) < MaxQueue THEN Append(q, n) ELSE Append(SubSeq(q, 1, MaxQueue - 1), n)

\* The queue after q.append(data) and popleft while it is too long.
Enqueue(q, n) ==
    IF Len(q) < MaxQueue THEN Append(q, n) ELSE Append(Tail(q), n)

\* broadcast: every registered queue of the channel, under the channel's lock.
broadcast(ch) ==
    /\ ch \in todo /\ (ch = "patched" => "raw" \notin todo)
    /\ todo' = todo \ {ch}
    /\ cl' = [c \in Clients |->
                IF Channel(c) = ch /\ cl[c].st = "live"
                THEN [cl[c] EXCEPT !.q = Enqueue(@, Read),
                                   !.shed = @ \/ Len(cl[c].q) >= MaxQueue]
                ELSE cl[c]]
    /\ UNCHANGED <<rotation, pipeline, kinds, kf_buf, keyframe, restarts>>

-----------------------------------------------------------------------------
(* A client's thread *)

Client(c, from, r) == cl[c].st = from /\ cl' = [cl EXCEPT ![c] = r]
KeepMux == UNCHANGED <<rotation, pipeline, kinds, kf_buf, keyframe, todo, restarts>>

\* _handle: the bootstrap is read under the lock; the capture was triggered by now.
Accept(c) ==
    /\ Client(c, "off", [Idle EXCEPT !.st = "boot", !.boot = keyframe, !.trigger = Read])
    /\ KeepMux

\* pick_fresh_frame over the frames of b, decoded in order after f earlier ones: the
\* first that is not among the skipped ones, when it is written late enough.
pick_fresh_frame(r, b, late) ==
    LET i == IF r.frames >= Keep THEN 1 ELSE Keep - r.frames + 1 IN
    IF r.picked = None /\ late /\ Len(b) >= i THEN b[i] ELSE r.picked

\* conn.sendall(bootstrap): the decoder may be so slow to start that its frames
\* are written after trigger + settle.
SendBootstrap(c) ==
    /\ \E late \in BOOLEAN :
          Client(c, "boot", [cl[c] EXCEPT !.st = "join", !.frames = Len(cl[c].boot),
                               !.picked = pick_fresh_frame(cl[c], cl[c].boot, late)])
    /\ KeepMux

Register(c) ==
    /\ Client(c, "join", [cl[c] EXCEPT !.st = "live"])
    /\ KeepMux

\* conn.sendall(q.popleft()); a live frame is written after the trigger.
SendChunk(c) ==
    /\ cl[c].q # << >>
    /\ Client(c, "live", [cl[c] EXCEPT !.q = Tail(@), !.sent = Head(cl[c].q), !.frames = Keep,
                            !.shed = FALSE,
                            !.picked = pick_fresh_frame(cl[c], <<Head(cl[c].q)>>, TRUE)])
    /\ KeepMux

\* A send fails or the client leaves: its queue is removed and the socket closed.
Leave(c) ==
    /\ cl[c].st # "off"
    /\ cl' = [cl EXCEPT ![c] = Idle]
    /\ KeepMux

\* The capture dies: the mux reads end of file, pipefail fails the unit, and
\* systemd starts it again with the environment of now.
Restart ==
    /\ restarts < MaxRestarts /\ todo = {}
    /\ restarts' = restarts + 1
    /\ \E r \in {90, 180, 45} : Source(r)
    /\ kinds' = << >> /\ kf_buf' = << >> /\ keyframe' = << >> /\ todo' = {}
    /\ cl' = [c \in Clients |-> Idle]

Next ==
    \/ \E kind \in Kinds : ReadChunk(kind)
    \/ \E ch \in Channels : broadcast(ch)
    \/ \E c \in Clients : Accept(c) \/ SendBootstrap(c) \/ Register(c) \/ SendChunk(c) \/ Leave(c)
    \/ Restart

Spec == Init /\ [][Next]_vars

-----------------------------------------------------------------------------
(* Properties *)

\* Queues stay bounded whatever the clients do, and a bootstrap is a run of
\* consecutive chunks that starts with a keyframe.
TypeOK ==
    /\ pipeline = "rpicam" <=> rotation \in {0, 180}
    /\ \A c \in Clients :
         /\ Len(cl[c].q) <= MaxQueue
         /\ \A i \in 1..Len(cl[c].boot) : cl[c].boot[i] = cl[c].boot[1] + i - 1
         /\ cl[c].boot # << >> => _is_keyframe_start(kinds[cl[c].boot[1]])

\* A client that has begun to receive the live stream misses no chunk and gets
\* none twice or out of order, unless its own queue overflowed.
GapNeedsOverflow ==
    [][\A c \in Clients :
         cl'[c].sent # cl[c].sent /\ cl[c].sent # None /\ cl'[c].sent # None =>
            \/ cl'[c].sent = cl[c].sent + 1
            \/ cl[c].shed /\ cl'[c].sent > cl[c].sent]_vars

\* New clients wait for the next IDR boundary: the first live chunk a client is
\* sent starts a keyframe, or continues the bootstrap it was sent.
StartsClean ==
    [][\A c \in Clients : cl[c].sent = None /\ cl'[c].sent # None =>
         \/ _is_keyframe_start(kinds[cl'[c].sent])
         \/ LET b == cl[c].boot IN b # << >> /\ b[Len(b)] + 1 = cl'[c].sent]_vars

\* Port 8889 is the same stream with the SPS patched: no chunk sent there holds an
\* SPS that patch_sps left alone.
PatchedStream ==
    \A c \in Patched : cl[c].sent # None => kinds[cl[c].sent] \notin {"edge", "cut"}

\* capture_jpeg_after returns a frame whose content was produced after the trigger.
FreshFrame ==
    \A c \in Clients : cl[c].picked # None => cl[c].picked > cl[c].trigger
=============================================================================
