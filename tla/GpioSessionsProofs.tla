------------------------- MODULE GpioSessionsProofs -------------------------
(***************************************************************************)
(* Proofs about the frames of a print: its timelapse sessions, for every   *)
(* number of prints, sessions, queued edges and shots, restarts and        *)
(* changes of the trigger settings (GpioSessions); and the stream the      *)
(* frames are taken from, for every set of clients, every queue length and *)
(* every number of chunks and restarts (StreamMux, through ApplianceMux).  *)
(***************************************************************************)
EXTENDS GpioSessions, ApplianceMux, SequenceTheorems, TLAPS

USE GpioAssumption DEF Root, Sessions

\* What the proof needs of the types.
Typed ==
  /\ printed \in Nat
  /\ owner \in Seq(Nat) /\ Len(owner) \in 0..MaxSessions
  /\ DOMAIN frames = Sessions \cup {Root}

\* The open session, and the sessions given to the build manager, are folders that exist;
\* the open one is not among the others.
OpenIsNotBuilt ==
  /\ marker \in 0..Len(owner)
  /\ requested \subseteq 1..Len(owner)
  /\ marker \notin requested

\* No frame waits in a folder that is still to be made.
NoFrameAhead == \A s \in Sessions : s > Len(owner) => frames[s] = {}

IInv == Typed /\ OpenIsNotBuilt /\ NoFrameAhead /\ ClosedIsBuilt

\* The runtime starts without a session.
LEMMA IInvInit == Init => IInv
<1> SUFFICES ASSUME Init PROVE IInv
  OBVIOUS
<1> USE GpioAssumption DEF Init
<1>1. owner \in Seq(Nat) /\ Len(owner) = 0
  BY EmptySeq
<1> QED
  BY <1>1 DEF IInv, Typed, OpenIsNotBuilt, NoFrameAhead, ClosedIsBuilt

-----------------------------------------------------------------------------
\* Steps that leave the sessions and their frames alone.
LEMMA IdleKeeps ==
  ASSUME IInv, UNCHANGED <<marker, owner, requested, frames>>, printed' \in Nat
  PROVE  IInv'
BY DEF IInv, Typed, OpenIsNotBuilt, NoFrameAhead, ClosedIsBuilt

\* Recording resumes the open session, or opens a folder of its own.
LEMMA RecordKeeps ==
  ASSUME IInv, _record_active, UNCHANGED <<printed, frames>>
  PROVE  IInv'
<1>1. CASE UNCHANGED <<owner, marker>>
  BY <1>1, IdleKeeps DEF _record_active, IInv, Typed
<1>2. CASE marker = Root /\ open_session
  <2>1. owner' \in Seq(Nat) /\ Len(owner') = Len(owner) + 1
    BY <1>2, AppendProperties DEF open_session, IInv, Typed
  <2>2. Typed' /\ OpenIsNotBuilt'
    BY <1>2, <2>1 DEF open_session, _record_active, IInv, Typed, OpenIsNotBuilt
  <2>3. NoFrameAhead'
    <3>1. \A s \in Sessions : s > Len(owner') => s > Len(owner)
      BY <2>1 DEF IInv, Typed
    <3> QED
      BY <3>1 DEF IInv, NoFrameAhead
  <2>4. ClosedIsBuilt'
    <3> SUFFICES ASSUME NEW s \in 1..Len(owner'), s # marker', frames[s] # {}
                 PROVE  s \in requested
      BY DEF ClosedIsBuilt, _record_active
    <3>1. s \in 1..Len(owner)
      BY <1>2, <2>1 DEF open_session, IInv, Typed
    <3> QED
      BY <1>2, <3>1 DEF IInv, ClosedIsBuilt
  <2> QED
    BY <2>2, <2>3, <2>4 DEF IInv
<1> QED
  BY <1>1, <1>2 DEF _record_active

\* A session that is closed is given to the build manager if it holds a frame.
LEMMA CloseKeeps ==
  ASSUME IInv, _close_and_build, UNCHANGED <<printed, frames>>
  PROVE  IInv'
<1> USE DEF IInv, _close_and_build
<1>1. Typed' /\ NoFrameAhead'
  BY DEF Typed, NoFrameAhead
<1>2. OpenIsNotBuilt'
  BY DEF Typed, OpenIsNotBuilt
<1>3. ClosedIsBuilt'
  BY DEF OpenIsNotBuilt, ClosedIsBuilt
<1> QED
  BY <1>1, <1>2, <1>3

\* Whatever applying the settings comes to: lines kept, released or requested.
LEMMA ConfigureKeeps ==
  ASSUME IInv, NEW s, configure(s), UNCHANGED <<printed, frames>>
  PROVE  IInv'
<1>1. CASE UNCHANGED <<marker, owner, requested>>
  BY <1>1, IdleKeeps DEF IInv, Typed
<1> QED
  BY <1>1, RecordKeeps, CloseKeeps DEF configure, gpio, release, _arm_recording

\* A frame goes to the folder the marker names now, which is open.
LEMMA StoreKeeps ==
  ASSUME IInv, StoreFrame
  PROVE  IInv'
<1>1. UNCHANGED <<printed, marker, owner, requested>>
  BY DEF StoreFrame, printer, gpio
<1>2. CASE UNCHANGED frames
  BY <1>1, <1>2, IdleKeeps DEF IInv, Typed
<1>3. CASE frames' = [frames EXCEPT ![marker] = @ \cup {capture}]
  <2>1. \A s \in Sessions : s # marker => frames'[s] = frames[s]
    BY <1>3 DEF IInv, Typed
  <2>2. Typed' /\ OpenIsNotBuilt'
    BY <1>1, <1>3 DEF IInv, Typed, OpenIsNotBuilt
  <2>3. marker \in 0..Len(owner) /\ Len(owner) \in 0..MaxSessions
    BY DEF IInv, Typed, OpenIsNotBuilt
  <2>4. NoFrameAhead'
    BY <1>1, <2>1, <2>3 DEF IInv, NoFrameAhead
  <2>5. ClosedIsBuilt'
    BY <1>1, <2>1, <2>3 DEF IInv, ClosedIsBuilt
  <2> QED
    BY <2>2, <2>4, <2>5 DEF IInv
<1> QED
  BY <1>2, <1>3 DEF StoreFrame

-----------------------------------------------------------------------------
\* Every step of the printer, the trigger, the capture loop and a crash.
LEMMA IInvStep == IInv /\ [Next]_vars => IInv'
<1> SUFFICES ASSUME IInv, [Next]_vars PROVE IInv'
  OBVIOUS
<1>1. printed \in Nat
  BY DEF IInv, Typed
<1>2. CASE StartPrint
  BY <1>1, <1>2, IdleKeeps DEF StartPrint, gpio
<1>3. CASE LayerPulse \/ EndPrint
  BY <1>1, <1>3, IdleKeeps DEF LayerPulse, EndPrint, gpio, printer
<1>4. CASE Boot
  BY <1>1, <1>4, IdleKeeps, ConfigureKeeps DEF Boot, gpio, printer
<1>5. ASSUME NEW s \in {"interval", "gpio", "gpio+record"}, ChangeSettings(s) PROVE IInv'
  BY <1>1, <1>5, IdleKeeps, ConfigureKeeps DEF ChangeSettings, release, printer
<1>6. CASE Reapply
  BY <1>6, ConfigureKeeps DEF Reapply, printer
<1>7. CASE ReadFails
  BY <1>1, <1>7, IdleKeeps DEF ReadFails, release, printer
<1>8. CASE handle_edge
  <2>1. UNCHANGED <<printed, frames>>
    BY <1>8 DEF handle_edge, printer
  <2>2. CASE UNCHANGED gpio
    BY <1>1, <2>1, <2>2, IdleKeeps DEF gpio
  <2> QED
    BY <1>8, <2>1, <2>2, RecordKeeps, CloseKeeps DEF handle_edge
<1>9. CASE set_timelapse_enabled
  BY <1>1, <1>9, IdleKeeps DEF set_timelapse_enabled, printer
<1>10. CASE TakeShot \/ DropShots
  BY <1>1, <1>10, IdleKeeps DEF TakeShot, DropShots, gpio, printer
<1>11. CASE StoreFrame
  BY <1>11, StoreKeeps
<1>12. CASE Crash
  BY <1>1, <1>12, IdleKeeps DEF Crash, printer
<1>13. CASE UNCHANGED vars
  BY <1>1, <1>13, IdleKeeps DEF vars, gpio, printer
<1> QED
  BY <1>2, <1>3, <1>4, <1>5, <1>6, <1>7, <1>8, <1>9, <1>10, <1>11, <1>12, <1>13 DEF Next

\* A session that is over and holds a frame has been given to the build manager, whatever
\* ended it: the pin, a restart, new settings or a failed read (_close_and_build and
\* _arm_recording in gpio_trigger.py).
THEOREM EveryClosedSessionIsBuilt == Spec => []ClosedIsBuilt
<1>1. IInv => ClosedIsBuilt
  BY DEF IInv
<1> QED
  BY <1>1, IInvInit, IInvStep, PTL DEF Spec

\* A frame is only ever added to the session the marker names, never to one whose build was
\* asked for (session_frame_dir, read after the capture in timelapse_loop).
THEOREM BuiltSessionsStayComplete == Spec => BuiltStaysComplete
<1>1. IInv /\ [Next]_vars => \A s \in requested : frames'[s] = frames[s]
  <2> SUFFICES ASSUME IInv, [Next]_vars, NEW s \in requested PROVE frames'[s] = frames[s]
    OBVIOUS
  <2>1. s \in DOMAIN frames /\ s # marker
    BY DEF IInv, Typed, OpenIsNotBuilt
  <2>2. CASE StoreFrame
    BY <2>1, <2>2 DEF StoreFrame
  <2>3. CASE ~StoreFrame
    BY <2>3 DEF Next, vars, StartPrint, LayerPulse, EndPrint, Boot, ChangeSettings, Reapply,
                ReadFails, handle_edge, set_timelapse_enabled, TakeShot, DropShots, Crash
  <2> QED
    BY <2>2, <2>3
<1>2. IInv /\ [Next]_vars => [\A s \in requested : frames'[s] = frames[s]]_vars
  BY <1>1
<1> QED
  BY <1>2, IInvInit, IInvStep, PTL DEF Spec, BuiltStaysComplete

-----------------------------------------------------------------------------
(* The stream multiplexer that the shots are taken from *)

HIDE GpioAssumption DEF Root, Sessions

Conn == [st: {"off", "boot", "join", "live"}, q: Seq(Nat), boot: Seq(Nat), sent: Nat,
         shed: BOOLEAN, frames: Nat, trigger: Nat, picked: Nat]

MuxTyped ==
  /\ m_kinds \in Seq(Mux!Kinds) /\ m_kf_buf \in Seq(Nat) /\ m_keyframe \in Seq(Nat)
  /\ m_cl \in [Clients -> Conn]

\* The last chunk the queues of a client's channel were given: the one just read, or the one
\* before while the channel still waits for it.
LastGiven(c, todo, read) == IF Mux!Channel(c) \in todo THEN read - 1 ELSE read

\* A queue holds consecutive chunks up to the last one given.
RunTo(q, last) == \A i \in 1..Len(q) : q[i] + Len(q) = last + i

\* What a connection has to send when its channel was given the chunks up to last: without a
\* loss exactly those after the one it sent, after a loss fewer.
Fits(st, q, sent, shed, last) ==
  /\ st = "live" => RunTo(q, last)
  /\ st = "live" /\ sent # 0 =>
       /\ sent + Len(q) <= last
       /\ ~shed => sent + Len(q) = last
  /\ st # "live" => sent = 0 /\ q = <<>> /\ ~shed
InStep(r, last) == Fits(r.st, r.q, r.sent, r.shed, last)

MuxInv == MuxTyped /\ \A c \in Clients : InStep(m_cl[c], LastGiven(c, m_todo, Len(m_kinds)))

\* A new chunk at the end of a queue.
LEMMA RunAppend ==
  ASSUME NEW q \in Seq(Nat), NEW n \in Nat, RunTo(q, n - 1)
  PROVE  /\ Append(q, n) \in Seq(Nat) /\ Len(Append(q, n)) = Len(q) + 1
         /\ RunTo(Append(q, n), n)
<1>1. /\ Append(q, n) \in Seq(Nat) /\ Len(Append(q, n)) = Len(q) + 1 /\ Len(q) \in Nat
      /\ Append(q, n)[Len(q) + 1] = n
      /\ \A i \in 1..Len(q) : Append(q, n)[i] = q[i] /\ q[i] \in Nat
  OBVIOUS
<1>2. ASSUME NEW i \in 1..(Len(q) + 1)
      PROVE  Append(q, n)[i] + (Len(q) + 1) = n + i
  <2>1. CASE i = Len(q) + 1
    BY <1>1, <2>1
  <2>2. CASE i \in 1..Len(q)
    <3>1. q[i] + Len(q) = (n - 1) + i
      BY <2>2 DEF RunTo
    <3>2. Append(q, n)[i] = q[i] /\ q[i] \in Nat /\ Len(q) \in Nat
      BY <1>1, <2>2
    <3> DEFINE x == q[i]
               l == Len(q)
    <3>3. x + l = (n - 1) + i /\ x \in Nat /\ l \in Nat /\ i \in Nat
      BY <3>1, <3>2
    <3> HIDE DEF x, l
    <3>4. x + (l + 1) = n + i
      BY <3>3
    <3> QED
      BY <3>2, <3>4, Zenon DEF x, l
  <2> QED
    BY <1>1, <2>1, <2>2
<1> QED
  BY <1>1, <1>2 DEF RunTo

\* The oldest chunk of a queue is taken out.
LEMMA RunTail ==
  ASSUME NEW q \in Seq(Nat), NEW last \in Int, RunTo(q, last), q # <<>>
  PROVE  /\ Tail(q) \in Seq(Nat) /\ Len(Tail(q)) = Len(q) - 1 /\ Len(q) \in Nat \ {0}
         /\ Head(q) \in Nat /\ Head(q) + Len(q) = last + 1
         /\ RunTo(Tail(q), last)
<1>1. /\ Tail(q) \in Seq(Nat) /\ Len(Tail(q)) = Len(q) - 1 /\ Len(q) \in Nat \ {0}
      /\ Head(q) = q[1] /\ q[1] \in Nat
      /\ \A i \in 1..(Len(q) - 1) : Tail(q)[i] = q[i + 1] /\ q[i + 1] \in Nat
  OBVIOUS
<1>2. Head(q) + Len(q) = last + 1
  BY <1>1 DEF RunTo
<1>3. ASSUME NEW i \in 1..(Len(q) - 1)
      PROVE  Tail(q)[i] + (Len(q) - 1) = last + i
  <2>1. i + 1 \in 1..Len(q) /\ Tail(q)[i] = q[i + 1] /\ q[i + 1] \in Nat
    BY <1>1
  <2>2. q[i + 1] + Len(q) = last + (i + 1)
    BY <2>1 DEF RunTo
  <2>3. \A x, l, j \in Nat : x + l = last + (j + 1) => x + (l - 1) = last + j
    OBVIOUS
  <2>4. Len(q) \in Nat /\ i \in Nat
    BY <1>1
  <2>5. q[i + 1] + (Len(q) - 1) = last + i
    BY <2>1, <2>2, <2>3, <2>4, Zenon
  <2> QED
    BY <2>1, <2>5, Zenon
<1> QED
  BY <1>1, <1>2, <1>3 DEF RunTo

\* The record of a connection, as far as its queue goes.
Shows(r, st, q, sent, shed) ==
  r \in Conn /\ r.st = st /\ r.q = q /\ r.sent = sent /\ r.shed = shed

\* What a connection's record holds.
LEMMA ConnFields ==
  ASSUME NEW r \in Conn
  PROVE  /\ r.q \in Seq(Nat) /\ r.boot \in Seq(Nat) /\ r.sent \in Nat /\ r.shed \in BOOLEAN
         /\ r.frames \in Nat /\ r.picked \in Nat /\ Len(r.q) \in Nat
         /\ r.st \in {"off", "boot", "join", "live"}
         /\ Shows(r, r.st, r.q, r.sent, r.shed)
BY DEF Conn, Shows

\* How the steps of a client's thread change a field of its record.
LEMMA SetField ==
  ASSUME NEW r, NEW st, NEW q, NEW sent, NEW shed, Shows(r, st, q, sent, shed)
  PROVE  /\ \A s \in {"off", "boot", "join", "live"} :
              Shows([r EXCEPT !.st = s], s, q, sent, shed)
         /\ \A p \in Seq(Nat) : Shows([r EXCEPT !.q = p], st, p, sent, shed)
         /\ \A b \in Seq(Nat) : Shows([r EXCEPT !.boot = b], st, q, sent, shed)
         /\ \A n \in Nat : Shows([r EXCEPT !.sent = n], st, q, n, shed)
         /\ \A b \in BOOLEAN : Shows([r EXCEPT !.shed = b], st, q, sent, b)
         /\ \A n \in Nat : /\ Shows([r EXCEPT !.frames = n], st, q, sent, shed)
                           /\ Shows([r EXCEPT !.trigger = n], st, q, sent, shed)
                           /\ Shows([r EXCEPT !.picked = n], st, q, sent, shed)
BY DEF Shows, Conn

\* A record is in step when what it shows is.
LEMMA ShowsInStep ==
  ASSUME NEW r, NEW st, NEW q, NEW sent, NEW shed, NEW last, Shows(r, st, q, sent, shed)
  PROVE  r \in Conn /\ r.sent = sent /\ (InStep(r, last) <=> Fits(st, q, sent, shed, last))
BY Zenon DEF Shows, InStep

\* A closed connection.
LEMMA IdleShows == Shows(Mux!Idle, "off", <<>>, 0, FALSE) /\ \A last : InStep(Mux!Idle, last)
<1>1. Shows(Mux!Idle, "off", <<>>, 0, FALSE)
  BY DEF Shows, Conn, Mux!Idle, Mux!None
<1>2. \A last : Fits("off", <<>>, 0, FALSE, last)
  BY DEF Fits
<1> QED
  BY <1>1, <1>2, ShowsInStep

\* A chunk is appended to a live client's queue, which sheds its oldest when it is full.
LEMMA EnqueueFits ==
  ASSUME NEW q \in Seq(Nat), NEW sent \in Nat, NEW shed \in BOOLEAN, NEW n \in Nat,
         Fits("live", q, sent, shed, n - 1),
         NEW b \in BOOLEAN, b <=> (shed \/ Len(q) >= MaxQueue)
  PROVE  Mux!Enqueue(q, n) \in Seq(Nat) /\ Fits("live", Mux!Enqueue(q, n), sent, b, n)
<1> DEFINE p == Mux!Enqueue(q, n)
<1>a. MaxQueue \in Nat /\ MaxQueue > 0
  BY MuxAssumption
<1>b. Len(q) \in Nat
  OBVIOUS
<1>0. MaxQueue \in Nat /\ MaxQueue > 0 /\ Len(q) \in Nat
  BY <1>a, <1>b
<1>1. /\ RunTo(q, n - 1)
      /\ sent # 0 => /\ sent + Len(q) <= n - 1
                     /\ ~shed => sent + Len(q) = n - 1
  BY Zenon DEF Fits
<1>2. CASE Len(q) < MaxQueue
  <2>1. p = Append(q, n)
    BY <1>2, Zenon DEF Mux!Enqueue
  <2>2. p \in Seq(Nat) /\ RunTo(p, n) /\ Len(p) = Len(q) + 1
    BY <1>1, <2>1, RunAppend
  <2> HIDE DEF p
  <2>3. sent # 0 => sent + Len(p) <= n
    BY <1>0, <1>1, <2>2
  <2>4. ~(Len(q) >= MaxQueue)
    BY <1>0, <1>2
  <2>5. ~b => ~shed
    BY <2>4, Zenon
  <2>6. sent # 0 /\ ~shed => sent + Len(p) = n
    BY <1>0, <1>1, <2>2
  <2> QED
    BY <2>2, <2>3, <2>5, <2>6, Zenon DEF Fits, p
<1>3. CASE ~(Len(q) < MaxQueue)
  <2>1. p = Append(Tail(q), n)
    BY <1>3, Zenon DEF Mux!Enqueue
  <2>2. Len(q) >= MaxQueue /\ q # <<>>
    BY <1>0, <1>3
  <2>3. Tail(q) \in Seq(Nat) /\ Len(Tail(q)) = Len(q) - 1 /\ RunTo(Tail(q), n - 1)
    BY <1>1, <2>2, RunTail
  <2>4. p \in Seq(Nat) /\ RunTo(p, n) /\ Len(p) = (Len(q) - 1) + 1
    BY <2>1, <2>3, RunAppend
  <2> HIDE DEF p
  <2>5. sent # 0 => sent + Len(p) <= n
    BY <1>0, <1>1, <2>4
  <2>6. b
    BY <2>2, Zenon
  <2> QED
    BY <2>4, <2>5, <2>6, Zenon DEF Fits, p
<1> QED
  BY <1>2, <1>3

\* broadcast on the record of a live client.
LEMMA Enqueues ==
  ASSUME NEW r \in Conn, r.st = "live", NEW n \in Nat, InStep(r, n - 1),
         NEW b \in BOOLEAN, b <=> (r.shed \/ Len(r.q) >= MaxQueue)
  PROVE  LET x == [r EXCEPT !.q = Mux!Enqueue(r.q, n), !.shed = b]
         IN  x \in Conn /\ InStep(x, n) /\ x.sent = r.sent
<1> DEFINE q == Mux!Enqueue(r.q, n)
           r1 == [r EXCEPT !.q = q]
<1>1. /\ r.q \in Seq(Nat) /\ r.sent \in Nat /\ r.shed \in BOOLEAN
      /\ Shows(r, "live", r.q, r.sent, r.shed)
  BY ConnFields, Zenon
<1>2. Fits("live", r.q, r.sent, r.shed, n - 1)
  BY Zenon DEF InStep
<1>3. q \in Seq(Nat) /\ Fits("live", q, r.sent, b, n)
  BY <1>1, <1>2, EnqueueFits, Zenon
<1> HIDE DEF q
<1>4. Shows(r1, "live", q, r.sent, r.shed)
  BY <1>1, <1>3, SetField, Zenon
<1> HIDE DEF r1
<1>5. Shows([r1 EXCEPT !.shed = b], "live", q, r.sent, b)
  BY <1>4, SetField
<1>6. LET x == [r1 EXCEPT !.shed = b] IN x \in Conn /\ InStep(x, n) /\ x.sent = r.sent
  BY <1>3, <1>5, ShowsInStep, Zenon
<1> QED
  BY <1>6, Zenon DEF r1, q

\* What GapNeedsOverflow says of a chunk n sent after the chunk sent.
Follows(sent, shed, n) ==
  sent # 0 => \/ n = sent + 1
              \/ shed /\ n > sent

\* A live client is sent the oldest chunk of its queue.
LEMMA SendFits ==
  ASSUME NEW q \in Seq(Nat), q # <<>>, NEW sent \in Nat, NEW shed \in BOOLEAN, NEW last \in Int,
         Fits("live", q, sent, shed, last)
  PROVE  /\ Tail(q) \in Seq(Nat) /\ Head(q) \in Nat
         /\ Fits("live", Tail(q), Head(q), FALSE, last)
         /\ Follows(sent, shed, Head(q))
<1> DEFINE l == Len(q)
           t == Tail(q)
           h == Head(q)
<1>1. /\ RunTo(q, last)
      /\ sent # 0 => sent + l <= last
      /\ sent # 0 /\ ~shed => sent + l = last
  BY Zenon DEF Fits
<1>2. /\ t \in Seq(Nat) /\ Len(t) = l - 1 /\ RunTo(t, last)
      /\ h \in Nat /\ h + l = last + 1 /\ l \in Nat
  BY <1>1, RunTail
<1> HIDE DEF l, t, h
<1>a. \A a, b \in Nat : a + b = last + 1 => a + (b - 1) = last
  OBVIOUS
<1>b. h + Len(t) = last
  BY <1>2, <1>a, Zenon
<1>c. last <= last
  OBVIOUS
<1>3. h + Len(t) = last /\ last <= last
  BY <1>b, <1>c
<1>4. Fits("live", t, h, FALSE, last)
  BY <1>2, <1>3, Zenon DEF Fits
<1>5. sent # 0 /\ ~shed => h = sent + 1
  BY <1>1, <1>2
<1>6. sent # 0 => h > sent
  BY <1>1, <1>2
<1> QED
  BY <1>2, <1>4, <1>5, <1>6, Zenon DEF Follows, t, h

\* SendChunk on the record of a live client.
LEMMA Sends ==
  ASSUME NEW r \in Conn, r.st = "live", r.q # <<>>, NEW last \in Int, InStep(r, last),
         NEW p \in Nat
  PROVE  LET x == [r EXCEPT !.q = Tail(r.q), !.sent = Head(r.q), !.frames = Keep,
                            !.shed = FALSE, !.picked = p]
         IN  /\ x \in Conn /\ InStep(x, last)
             /\ Follows(r.sent, r.shed, x.sent)
<1> DEFINE q == Tail(r.q)
           n == Head(r.q)
           r1 == [r EXCEPT !.q = q]
           r2 == [r1 EXCEPT !.sent = n]
           r3 == [r2 EXCEPT !.frames = Keep]
           r4 == [r3 EXCEPT !.shed = FALSE]
           r5 == [r4 EXCEPT !.picked = p]
<1>1. /\ r.q \in Seq(Nat) /\ r.sent \in Nat /\ r.shed \in BOOLEAN
      /\ Shows(r, "live", r.q, r.sent, r.shed)
  BY ConnFields, Zenon
<1>2. Fits("live", r.q, r.sent, r.shed, last)
  BY Zenon DEF InStep
<1>3. /\ q \in Seq(Nat) /\ n \in Nat /\ Fits("live", q, n, FALSE, last)
      /\ Follows(r.sent, r.shed, n)
  BY <1>1, <1>2, SendFits, Zenon
<1> HIDE DEF q, n
<1>4. Shows(r1, "live", q, r.sent, r.shed)
  BY <1>1, <1>3, SetField, Zenon
<1> HIDE DEF r1
<1>5. Shows(r2, "live", q, n, r.shed)
  BY <1>3, <1>4, SetField, Zenon
<1> HIDE DEF r2
<1>6. Shows(r3, "live", q, n, r.shed)
  BY <1>5, SetField, MuxAssumption, Zenon
<1> HIDE DEF r3
<1>7. Shows(r4, "live", q, n, FALSE)
  BY <1>6, SetField
<1> HIDE DEF r4
<1>8. Shows(r5, "live", q, n, FALSE)
  BY <1>7, SetField, Zenon
<1> HIDE DEF r5
<1>9. /\ r5 \in Conn /\ InStep(r5, last)
      /\ Follows(r.sent, r.shed, r5.sent)
  BY <1>3, <1>8, ShowsInStep, Zenon
<1> QED
  BY <1>9, Zenon DEF r1, r2, r3, r4, r5, q, n

\* What a step does to a client's record: it stays in step, and GapNeedsOverflow holds of it.
Moves(r, x, last) ==
  /\ x \in Conn /\ InStep(x, last)
  /\ x.sent # r.sent /\ r.sent # 0 /\ x.sent # 0 => Follows(r.sent, r.shed, x.sent)

\* A client that is not in the live stream has sent nothing, whatever its channel was given.
LEMMA NotLive ==
  ASSUME NEW r \in Conn, r.st # "live", NEW last, InStep(r, last)
  PROVE  /\ r.sent = 0 /\ r.q = <<>> /\ r.shed = FALSE
         /\ \A n : Moves(r, r, n)
<1>1. r.sent = 0 /\ r.q = <<>> /\ ~r.shed
  BY Zenon DEF InStep, Fits
<1>2. r.shed = FALSE
  BY <1>1, ConnFields
<1>3. \A n : InStep(r, n)
  BY <1>1, Zenon DEF InStep, Fits
<1> QED
  BY <1>1, <1>2, <1>3, Zenon DEF Moves

\* A record that shows no chunk sent is a step of any other, and so is a closed connection.
LEMMA UnsentMoves ==
  ASSUME NEW r, NEW x, NEW st \in {"off", "boot", "join", "live"}, NEW last \in Int,
         Shows(x, st, <<>>, 0, FALSE)
  PROVE  Moves(r, x, last)
<1>1. RunTo(<<>>, last)
  BY DEF RunTo
<1>2. Fits(st, <<>>, 0, FALSE, last)
  BY <1>1 DEF Fits
<1>3. x \in Conn /\ x.sent = 0 /\ InStep(x, last)
  BY <1>2, ShowsInStep, Zenon
<1> QED
  BY <1>3, Zenon DEF Moves

\* pick_fresh_frame gives a chunk or none.
LEMMA Picks ==
  ASSUME NEW r \in Conn, NEW b \in Seq(Nat), NEW late
  PROVE  Mux!pick_fresh_frame(r, b, late) \in Nat
<1> DEFINE i == IF r.frames >= Keep THEN 1 ELSE Keep - r.frames + 1
<1>1. r.frames \in Nat /\ r.picked \in Nat
  BY ConnFields, Zenon
<1>2. Keep \in Nat
  BY MuxAssumption
<1>3. i \in Nat /\ i >= 1
  BY <1>1, <1>2
<1> HIDE DEF i
<1>4. Len(b) >= i => b[i] \in Nat
  BY <1>3
<1>5. \/ Mux!pick_fresh_frame(r, b, late) = b[i] /\ Len(b) >= i
      \/ Mux!pick_fresh_frame(r, b, late) = r.picked
  BY Zenon DEF Mux!pick_fresh_frame, i
<1> QED
  BY <1>1, <1>4, <1>5, Zenon

\* A step of one client's thread.
LEMMA ClientMoves ==
  ASSUME MuxInv, NEW c \in Clients, NEW x, m_cl' = [m_cl EXCEPT ![c] = x], Mux!KeepMux,
         Moves(m_cl[c], x, LastGiven(c, m_todo, Len(m_kinds)))
  PROVE  /\ MuxInv'
         /\ \A d \in Clients : Moves(m_cl[d], m_cl'[d], LastGiven(d, m_todo, Len(m_kinds))')
<1>1. m_cl \in [Clients -> Conn]
  BY DEF MuxInv, MuxTyped
<1>2. \A d \in Clients : m_cl[d] \in Conn /\ InStep(m_cl[d], LastGiven(d, m_todo, Len(m_kinds)))
  BY <1>1 DEF MuxInv
<1>3. m_todo' = m_todo /\ m_kinds' = m_kinds
  BY DEF Mux!KeepMux
<1>4. ASSUME NEW d \in Clients
      PROVE  Moves(m_cl[d], m_cl'[d], LastGiven(d, m_todo, Len(m_kinds)))
  <2>1. CASE d = c
    BY <1>1, <2>1
  <2>2. CASE d # c
    <3>1. m_cl'[d] = m_cl[d]
      BY <1>1, <2>2
    <3> QED
      BY <1>2, <3>1, Zenon DEF Moves
  <2> QED
    BY <2>1, <2>2
<1>5. m_cl' \in [Clients -> Conn]
  BY <1>1 DEF Moves
<1>6. MuxTyped'
  BY <1>5 DEF MuxInv, MuxTyped, Mux!KeepMux
<1>7. \A d \in Clients : Moves(m_cl[d], m_cl'[d], LastGiven(d, m_todo, Len(m_kinds))')
  BY <1>3, <1>4, Zenon
<1> QED
  BY <1>6, <1>7, Zenon DEF MuxInv, Moves

\* The mux starts without clients and without a chunk.
LEMMA MuxInit == Mux!Init => MuxInv
<1> SUFFICES ASSUME Mux!Init PROVE MuxInv
  OBVIOUS
<1>1. Mux!Idle \in Conn
  BY IdleShows DEF Shows
<1>2. MuxTyped
  BY <1>1 DEF Mux!Init, MuxTyped
<1>3. \A c \in Clients : m_cl[c] = Mux!Idle
  BY DEF Mux!Init
<1> QED
  BY <1>2, <1>3, IdleShows, Zenon DEF MuxInv

\* A chunk is read: the queues still end with the one before.
LEMMA MuxReads ==
  ASSUME MuxInv, NEW kind \in Mux!Kinds, Mux!ReadChunk(kind)
  PROVE  /\ MuxInv'
         /\ \A c \in Clients : Moves(m_cl[c], m_cl'[c], LastGiven(c, m_todo, Len(m_kinds))')
<1>1. /\ m_kinds \in Seq(Mux!Kinds) /\ m_kf_buf \in Seq(Nat) /\ m_keyframe \in Seq(Nat)
      /\ m_cl \in [Clients -> Conn]
  BY DEF MuxInv, MuxTyped
<1>2. /\ m_todo = {} /\ m_todo' = Mux!Channels /\ m_cl' = m_cl
      /\ m_kinds' = Append(m_kinds, kind)
  BY DEF Mux!ReadChunk
<1>3. /\ m_kinds' \in Seq(Mux!Kinds) /\ Len(m_kinds) \in Nat
      /\ Len(m_kinds') = Len(m_kinds) + 1
  BY <1>1, <1>2
<1>4. m_kf_buf' \in Seq(Nat) /\ m_keyframe' \in Seq(Nat)
  <2>1. Len(m_kinds) + 1 \in Nat
    BY <1>3
  <2>2. <<Len(m_kinds) + 1>> \in Seq(Nat) /\ Append(m_kf_buf, Len(m_kinds) + 1) \in Seq(Nat)
    BY <1>1, <2>1
  <2>3. /\ m_kf_buf' \in {<<Len(m_kinds) + 1>>, <<>>, m_kf_buf}
        /\ m_keyframe' \in {Append(m_kf_buf, Len(m_kinds) + 1), m_keyframe}
    BY Zenon DEF Mux!ReadChunk, Mux!Read
  <2>4. <<>> \in Seq(Nat)
    OBVIOUS
  <2> QED
    BY <1>1, <2>2, <2>3, <2>4, Zenon
<1>5. MuxTyped'
  BY <1>1, <1>2, <1>3, <1>4 DEF MuxTyped
<1>6. ASSUME NEW c \in Clients
      PROVE  Moves(m_cl[c], m_cl'[c], LastGiven(c, m_todo, Len(m_kinds))')
  <2>1. LastGiven(c, m_todo, Len(m_kinds)) = Len(m_kinds)
    BY <1>2 DEF LastGiven
  <2>2. Mux!Channel(c) \in m_todo'
    BY <1>2 DEF Mux!Channel, Mux!Channels
  <2>3. LastGiven(c, m_todo, Len(m_kinds))' = Len(m_kinds') - 1
    BY <2>2, Zenon DEF LastGiven
  <2>4. Len(m_kinds') - 1 = Len(m_kinds)
    BY <1>3
  <2>5. m_cl[c] \in Conn /\ InStep(m_cl[c], Len(m_kinds))
    BY <1>1, <2>1 DEF MuxInv
  <2> QED
    BY <1>2, <2>3, <2>4, <2>5, Zenon DEF Moves
<1> QED
  BY <1>5, <1>6, Zenon DEF MuxInv, Moves

\* A channel gets the chunk: each live queue of it takes the chunk.
LEMMA MuxBroadcasts ==
  ASSUME MuxInv, NEW ch, Mux!broadcast(ch)
  PROVE  /\ MuxInv'
         /\ \A c \in Clients : Moves(m_cl[c], m_cl'[c], LastGiven(c, m_todo, Len(m_kinds))')
<1> DEFINE n == Len(m_kinds)
<1>1. MuxTyped
  BY DEF MuxInv
<1>2. /\ ch \in m_todo /\ m_todo' = m_todo \ {ch} /\ m_kinds' = m_kinds
      /\ m_kf_buf' = m_kf_buf /\ m_keyframe' = m_keyframe
  BY Zenon DEF Mux!broadcast
<1>3. n \in Nat
  BY <1>1 DEF MuxTyped
<1>4. ASSUME NEW c \in Clients
      PROVE  Moves(m_cl[c], m_cl'[c], LastGiven(c, m_todo', n))
  <2> DEFINE r == m_cl[c]
             b == r.shed \/ Len(r.q) >= MaxQueue
             x == [r EXCEPT !.q = Mux!Enqueue(r.q, n), !.shed = b]
  <2>1. r \in Conn /\ InStep(r, LastGiven(c, m_todo, n))
    BY <1>1 DEF MuxInv, MuxTyped
  <2>2. m_cl'[c] = IF Mux!Channel(c) = ch /\ r.st = "live" THEN x ELSE r
    BY Zenon DEF Mux!broadcast, Mux!Read
  <2>3. CASE Mux!Channel(c) = ch /\ r.st = "live"
    <3>1. LastGiven(c, m_todo, n) = n - 1 /\ LastGiven(c, m_todo', n) = n
      BY <1>2, <2>3, Zenon DEF LastGiven
    <3>2. b \in BOOLEAN
      BY Zenon
    <3>3. r.st = "live" /\ InStep(r, n - 1)
      BY <2>1, <2>3, <3>1, Zenon
    <3> HIDE DEF n, r
    <3>4. x \in Conn /\ InStep(x, n) /\ x.sent = r.sent
      BY <1>3, <2>1, <3>2, <3>3, Enqueues, Zenon
    <3> QED
      BY <2>2, <2>3, <3>1, <3>4, Zenon DEF Moves, r
  <2>4. CASE Mux!Channel(c) = ch /\ r.st # "live"
    BY <2>1, <2>2, <2>4, NotLive, Zenon
  <2>5. CASE Mux!Channel(c) # ch
    <3>1. LastGiven(c, m_todo', n) = LastGiven(c, m_todo, n)
      BY <1>2, <2>5, Zenon DEF LastGiven
    <3> QED
      BY <2>1, <2>2, <2>5, <3>1, Zenon DEF Moves
  <2> QED
    BY <2>3, <2>4, <2>5
<1>5. m_cl' \in [Clients -> Conn]
  <2>1. \A c \in Clients : m_cl'[c] \in Conn
    BY <1>4, Zenon DEF Moves
  <2>2. m_cl' = [c \in Clients |-> m_cl'[c]]
    BY Zenon DEF Mux!broadcast
  <2> QED
    BY <2>1, <2>2, Zenon
<1>6. MuxTyped'
  BY <1>1, <1>2, <1>5 DEF MuxTyped
<1>7. \A c \in Clients : Moves(m_cl[c], m_cl'[c], LastGiven(c, m_todo, Len(m_kinds))')
  BY <1>2, <1>4, Zenon
<1> QED
  BY <1>6, <1>7, Zenon DEF MuxInv, Moves

\* _handle accepts a client, which has sent nothing yet.
LEMMA MuxAccepts ==
  ASSUME MuxInv, NEW c \in Clients, Mux!Accept(c)
  PROVE  /\ MuxInv'
         /\ \A d \in Clients : Moves(m_cl[d], m_cl'[d], LastGiven(d, m_todo, Len(m_kinds))')
<1> DEFINE r1 == [Mux!Idle EXCEPT !.st = "boot"]
           r2 == [r1 EXCEPT !.boot = m_keyframe]
           r3 == [r2 EXCEPT !.trigger = Len(m_kinds)]
<1>1. m_keyframe \in Seq(Nat) /\ Len(m_kinds) \in Nat
  BY DEF MuxInv, MuxTyped
<1>2. m_cl' = [m_cl EXCEPT ![c] = r3] /\ Mux!KeepMux
  BY Zenon DEF Mux!Accept, Mux!Client, Mux!Read
<1>3. Shows(r1, "boot", <<>>, 0, FALSE)
  BY IdleShows, SetField, Zenon
<1> HIDE DEF r1
<1>4. Shows(r2, "boot", <<>>, 0, FALSE)
  BY <1>1, <1>3, SetField, Zenon
<1> HIDE DEF r2
<1>5. Shows(r3, "boot", <<>>, 0, FALSE)
  BY <1>1, <1>4, SetField, Zenon
<1> HIDE DEF r3
<1>6. LastGiven(c, m_todo, Len(m_kinds)) \in Int
  BY <1>1 DEF LastGiven
<1>7. Moves(m_cl[c], r3, LastGiven(c, m_todo, Len(m_kinds)))
  BY <1>5, <1>6, UnsentMoves, Zenon
<1> QED
  BY <1>2, <1>7, ClientMoves, Zenon

\* The steps of a client's thread after that: the bootstrap, the registration, a chunk of the
\* queue, the end of the connection.
LEMMA MuxServes ==
  ASSUME MuxInv, NEW c \in Clients,
         Mux!SendBootstrap(c) \/ Mux!Register(c) \/ Mux!SendChunk(c) \/ Mux!Leave(c)
  PROVE  /\ MuxInv'
         /\ \A d \in Clients : Moves(m_cl[d], m_cl'[d], LastGiven(d, m_todo, Len(m_kinds))')
<1> DEFINE r == m_cl[c]
           last == LastGiven(c, m_todo, Len(m_kinds))
<1>1. r \in Conn /\ InStep(r, last) /\ Len(m_kinds) \in Nat
  BY DEF MuxInv, MuxTyped
<1>2. last \in Int
  BY <1>1 DEF LastGiven
<1>3. r.boot \in Seq(Nat) /\ Shows(r, r.st, r.q, r.sent, r.shed)
  BY <1>1, ConnFields, Zenon
<1>4. \E x : m_cl' = [m_cl EXCEPT ![c] = x] /\ Mux!KeepMux /\ Moves(r, x, last)
  <2>1. CASE Mux!SendBootstrap(c)
    <3>1. PICK late \in BOOLEAN :
             Mux!Client(c, "boot",
               [r EXCEPT !.st = "join", !.frames = Len(r.boot),
                         !.picked = Mux!pick_fresh_frame(r, r.boot, late)])
      BY <2>1, Zenon DEF Mux!SendBootstrap
    <3> DEFINE p == Mux!pick_fresh_frame(r, r.boot, late)
               r1 == [r EXCEPT !.st = "join"]
               r2 == [r1 EXCEPT !.frames = Len(r.boot)]
               r3 == [r2 EXCEPT !.picked = p]
    <3>2. r.st = "boot" /\ m_cl' = [m_cl EXCEPT ![c] = r3] /\ Mux!KeepMux
      BY <2>1, <3>1, Zenon DEF Mux!Client, Mux!SendBootstrap
    <3>3. p \in Nat
      BY <1>1, <1>3, Picks, Zenon
    <3>4. Len(r.boot) \in Nat
      BY <1>3
    <3>5. Shows(r, "boot", <<>>, 0, FALSE)
      <4>1. r.sent = 0 /\ r.q = <<>> /\ r.shed = FALSE
        BY <1>1, <3>2, NotLive
      <4> QED
        BY <1>3, <3>2, <4>1, Zenon
    <3> HIDE DEF r, p
    <3>6. Shows(r1, "join", <<>>, 0, FALSE)
      BY <3>5, SetField, Zenon
    <3> HIDE DEF r1
    <3>7. Shows(r2, "join", <<>>, 0, FALSE)
      BY <3>4, <3>6, SetField, Zenon
    <3> HIDE DEF r2
    <3>8. Shows(r3, "join", <<>>, 0, FALSE)
      BY <3>3, <3>7, SetField, Zenon
    <3> HIDE DEF r3
    <3> QED
      BY <1>2, <3>2, <3>8, UnsentMoves, Zenon
  <2>2. CASE Mux!Register(c)
    <3> DEFINE x == [r EXCEPT !.st = "live"]
    <3>1. r.st = "join" /\ m_cl' = [m_cl EXCEPT ![c] = x] /\ Mux!KeepMux
      BY <2>2, Zenon DEF Mux!Client, Mux!Register
    <3>2. Shows(r, "join", <<>>, 0, FALSE)
      <4>1. r.sent = 0 /\ r.q = <<>> /\ r.shed = FALSE
        BY <1>1, <3>1, NotLive
      <4> QED
        BY <1>3, <3>1, <4>1, Zenon
    <3>3. Shows(x, "live", <<>>, 0, FALSE)
      BY <3>2, SetField, Zenon
    <3> HIDE DEF x
    <3> QED
      BY <1>2, <3>1, <3>3, UnsentMoves, Zenon
  <2>3. CASE Mux!SendChunk(c)
    <3> DEFINE p == Mux!pick_fresh_frame(r, <<Head(r.q)>>, TRUE)
               x == [r EXCEPT !.q = Tail(r.q), !.sent = Head(r.q), !.frames = Keep,
                              !.shed = FALSE, !.picked = p]
    <3>1. /\ r.q # <<>> /\ r.st = "live"
          /\ m_cl' = [m_cl EXCEPT ![c] = x] /\ Mux!KeepMux
      BY <2>3, Zenon DEF Mux!Client, Mux!SendChunk
    <3>2. <<Head(r.q)>> \in Seq(Nat)
      <4>1. r.q \in Seq(Nat)
        BY <1>1, ConnFields, Zenon
      <4>2. Head(r.q) \in Nat
        BY <3>1, <4>1
      <4> QED
        BY <4>2
    <3>3. p \in Nat
      BY <1>1, <3>2, Picks, Zenon
    <3> HIDE DEF p, r, last
    <3>4. x \in Conn /\ InStep(x, last) /\ Follows(r.sent, r.shed, x.sent)
      BY <1>1, <1>2, <3>1, <3>3, Sends, Zenon
    <3> HIDE DEF x
    <3> QED
      BY <3>1, <3>4, Zenon DEF Moves
  <2>4. CASE Mux!Leave(c)
    <3>1. m_cl' = [m_cl EXCEPT ![c] = Mux!Idle] /\ Mux!KeepMux
      BY <2>4, Zenon DEF Mux!Leave
    <3> QED
      BY <1>2, <3>1, IdleShows, UnsentMoves, Zenon
  <2> QED
    BY <2>1, <2>2, <2>3, <2>4
<1> QED
  BY <1>4, ClientMoves, Zenon

\* The capture dies and the unit starts again: every connection is closed.
LEMMA MuxRestarts ==
  ASSUME MuxInv, Mux!Restart
  PROVE  /\ MuxInv'
         /\ \A c \in Clients : Moves(m_cl[c], m_cl'[c], LastGiven(c, m_todo, Len(m_kinds))')
<1>1. /\ m_kinds' = <<>> /\ m_kf_buf' = <<>> /\ m_keyframe' = <<>> /\ m_todo' = {}
      /\ m_cl' = [c \in Clients |-> Mux!Idle]
  BY Zenon DEF Mux!Restart
<1>2. Mux!Idle \in Conn
  BY IdleShows DEF Shows
<1>3. MuxTyped'
  BY <1>1, <1>2 DEF MuxTyped
<1>4. \A c \in Clients : m_cl'[c] = Mux!Idle
  BY <1>1
<1>5. \A c \in Clients : LastGiven(c, m_todo, Len(m_kinds))' \in Int
  BY <1>1 DEF LastGiven
<1>6. \A c \in Clients : Moves(m_cl[c], m_cl'[c], LastGiven(c, m_todo, Len(m_kinds))')
  BY <1>4, <1>5, IdleShows, UnsentMoves, Zenon
<1> QED
  BY <1>3, <1>6, Zenon DEF MuxInv, Moves

\* Every step of the multiplexer keeps its queues in step, and lets no client miss a chunk
\* unless its own queue overflowed.
LEMMA MuxStep ==
  ASSUME MuxInv, Mux!Next
  PROVE  /\ MuxInv'
         /\ \A c \in Clients :
              m_cl'[c].sent # m_cl[c].sent /\ m_cl[c].sent # 0 /\ m_cl'[c].sent # 0
                => Follows(m_cl[c].sent, m_cl[c].shed, m_cl'[c].sent)
<1>1. /\ MuxInv'
      /\ \A c \in Clients : Moves(m_cl[c], m_cl'[c], LastGiven(c, m_todo, Len(m_kinds))')
  <2>1. CASE \E kind \in Mux!Kinds : Mux!ReadChunk(kind)
    BY <2>1, MuxReads, Zenon
  <2>2. CASE \E ch \in Mux!Channels : Mux!broadcast(ch)
    BY <2>2, MuxBroadcasts, Zenon
  <2>3. CASE \E c \in Clients : Mux!Accept(c)
    BY <2>3, MuxAccepts, Zenon
  <2>4. CASE \E c \in Clients : \/ Mux!SendBootstrap(c) \/ Mux!Register(c)
                                \/ Mux!SendChunk(c) \/ Mux!Leave(c)
    BY <2>4, MuxServes, Zenon
  <2>5. CASE Mux!Restart
    BY <2>5, MuxRestarts, Zenon
  <2> QED
    BY <2>1, <2>2, <2>3, <2>4, <2>5, Zenon DEF Mux!Next
<1> QED
  BY <1>1, Zenon DEF Moves

\* stream_mux.py: a client in the live stream is sent every chunk its channel was given, in
\* order and once, unless its own queue overflowed.
THEOREM NoSilentGap == Mux!Spec => GapNeedsOverflow
<1>1. Mux!Init => MuxInv
  BY MuxInit
<1>2. MuxInv /\ [Mux!Next]_(Mux!vars) => MuxInv'
  BY MuxStep DEF Mux!vars, MuxInv, MuxTyped
<1>3. MuxInv /\ [Mux!Next]_(Mux!vars) =>
        [\A c \in Clients :
           m_cl'[c].sent # m_cl[c].sent /\ m_cl[c].sent # Mux!None /\ m_cl'[c].sent # Mux!None =>
             \/ m_cl'[c].sent = m_cl[c].sent + 1
             \/ m_cl[c].shed /\ m_cl'[c].sent > m_cl[c].sent]_(Mux!vars)
  <2> SUFFICES ASSUME MuxInv, Mux!Next, NEW c \in Clients,
                      m_cl'[c].sent # m_cl[c].sent, m_cl[c].sent # 0, m_cl'[c].sent # 0
               PROVE  \/ m_cl'[c].sent = m_cl[c].sent + 1
                      \/ m_cl[c].shed /\ m_cl'[c].sent > m_cl[c].sent
    BY DEF Mux!vars, Mux!None
  <2> QED
    BY MuxStep, Zenon DEF Follows
<1> QED
  BY <1>1, <1>2, <1>3, PTL DEF Mux!Spec, GapNeedsOverflow, Mux!GapNeedsOverflow
=============================================================================
