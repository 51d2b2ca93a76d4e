----------------------------- MODULE MediaBuild -----------------------------
(***************************************************************************)
(* The timelapse builds: a BuildManager in the camera runtime ("cam",      *)
(* automatic session builds with a retry queue) and one in the console     *)
(* ("web", builds on request), sharing the lock file in the media          *)
(* directory (app/media_build.py), and the build that the Prusa trigger    *)
(* and the MQTT button start directly (build_timelapse_video in main.py).  *)
(* Each thread inside a manager is modelled; `start` holds the manager's   *)
(* own lock while it works on the lock file.                               *)
(***************************************************************************)
EXTENDS Integers, Sequences, FiniteSets

CONSTANTS
  Sessions,      \* per-print session folders
  MaxRetries,    \* QUEUE_MAX_RETRIES
  MaxCrashes,    \* bound on the restarts of a process in mid-build
  WebTargets,    \* what the console builds: session folders or the root frames
  DirectBuilds,  \* may the Prusa trigger or MQTT start a build?
  LockAgesLive   \* may the lock of a running build get older than lock_stale?

ASSUME MediaAssumption ==
  /\ MaxRetries \in Nat \ {0} /\ MaxCrashes \in Nat
  /\ LockAgesLive \in BOOLEAN /\ DirectBuilds \in BOOLEAN

Procs == {"cam", "web"}
Threads == {"request", "timer", "builder1", "builder2"}
None == "none"
Targets == Sessions \cup WebTargets
NoItem == <<None, 0>>

VARIABLES
  lock,      \* the lock file: "none", "fresh" or "stale"
  held,      \* the processes with _lock_held
  jobs,      \* the sessions with an active job, per manager
  broken,    \* has a manager unlinked the lock file of a running build?
  queue,     \* cam's _queue: <<session, attempts>> pairs
  spent,     \* has a drain run out of attempts?
  timer,     \* is the _retry_timer armed?
  at,        \* where each thread is
  of,        \* the queue item it works on: <<session, attempts>>
  direct,    \* the build outside the managers: "idle" or "busy"
  fate,      \* what became of the automatic build of each session
  crashes

vars == <<lock, held, jobs, broken, queue, spent, timer, at, of, direct, fate, crashes>>

Init ==
  /\ lock = "none"
  /\ held = {}
  /\ jobs = [p \in Procs |-> {}]
  /\ broken = FALSE
  /\ queue = <<>>
  /\ spent = FALSE
  /\ timer = "off"
  /\ at = [p \in Procs |-> [t \in Threads |-> "idle"]]
  /\ of = [p \in Procs |-> [t \in Threads |-> NoItem]]
  /\ direct = "idle"
  /\ fate = [s \in Sessions |-> "recording"]
  /\ crashes = 0

Move(p, t, l) == at' = [at EXCEPT ![p][t] = l]

Done(p, t) == Move(p, t, "idle") /\ of' = [of EXCEPT ![p][t] = NoItem]

\* start returns: the console answers its request, cam's caller looks at the result.
Return(p, t, l) ==
  IF p = "web" THEN Done(p, t) ELSE Move(p, t, l) /\ UNCHANGED of

\* The manager's _lock is free: no thread is inside _acquire_lock.
Unlocked(p) == \A t \in Threads : at[p][t] \notin {"stat", "unlink", "recreate"}

Queued(s) == \E i \in DOMAIN queue : queue[i][1] = s

Without(s) == SelectSeq(queue, LAMBDA e : e[1] # s)

(***************************************************************************)
(* start                                                                   *)
(***************************************************************************)
\* enqueue_session at the end of a print, or the console's build request.
Request(p, s) ==
  /\ at[p]["request"] = "idle"
  /\ \/ p = "cam" /\ s \in Sessions /\ fate[s] = "recording"
        /\ fate' = [fate EXCEPT ![s] = "wanted"]
     \/ p = "web" /\ s \in WebTargets /\ UNCHANGED fate
  /\ of' = [of EXCEPT ![p]["request"] = <<s, 0>>]
  /\ Move(p, "request", "start")
  /\ UNCHANGED <<lock, held, jobs, broken, queue, spent, timer, direct, crashes>>

\* The lock file is created and the job is registered.
Win(p, t) ==
  /\ lock' = "fresh"
  /\ held' = held \cup {p}
  /\ jobs' = [jobs EXCEPT ![p] = @ \cup {of[p][t][1]}]
  /\ Return(p, t, "started")

Lose(p, t, l) == Return(p, t, l) /\ UNCHANGED <<lock, held, jobs>>

\* Mutant: the lock file is opened without O_EXCL.
StartNoExcl(p, t) ==
  /\ at[p][t] = "start" /\ Unlocked(p)
  /\ IF jobs[p] = {} THEN Win(p, t) ELSE Lose(p, t, "busy")
  /\ UNCHANGED <<broken, queue, spent, timer, direct, fate, crashes>>

\* A bad session name or one of the preflight gates rejects; an active job or
\* _lock_held makes the manager busy; else the lock file is created, or the one
\* in the way is looked at.
start(p, t) ==
  /\ at[p][t] = "start" /\ Unlocked(p)
  /\ \/ Lose(p, t, "rejected")
     \/ /\ jobs[p] # {} \/ p \in held
        /\ Lose(p, t, "busy")
     \/ /\ jobs[p] = {} /\ p \notin held
        /\ IF lock = "none" THEN Win(p, t)
           ELSE Move(p, t, "stat") /\ UNCHANGED <<lock, held, jobs, of>>
  /\ UNCHANGED <<broken, queue, spent, timer, direct, fate, crashes>>

\* A lock file that has vanished counts as stale.
_lock_is_stale(p, t) ==
  /\ at[p][t] = "stat"
  /\ IF lock = "fresh" THEN Return(p, t, "busy") ELSE Move(p, t, "unlink") /\ UNCHANGED of
  /\ UNCHANGED <<lock, held, jobs, broken, queue, spent, timer, direct, fate, crashes>>

\* os.unlink fails when there is nothing to unlink.
BreakLock(p, t) ==
  /\ at[p][t] = "unlink"
  /\ lock' = "none"
  /\ broken' = (broken \/ (lock # "none" /\ held # {}))
  /\ IF lock = "none" THEN Return(p, t, "busy") ELSE Move(p, t, "recreate") /\ UNCHANGED of
  /\ UNCHANGED <<held, jobs, queue, spent, timer, direct, fate, crashes>>

_try_create_lock(p, t) ==
  /\ at[p][t] = "recreate"
  /\ IF lock = "none" THEN Win(p, t) ELSE Lose(p, t, "busy")
  /\ UNCHANGED <<broken, queue, spent, timer, direct, fate, crashes>>

(***************************************************************************)
(* The callers of start                                                    *)
(***************************************************************************)
Settle(s, f) ==
  fate' = IF s \in Sessions /\ fate[s] = "wanted" THEN [fate EXCEPT ![s] = f] ELSE fate

\* Mutant: a busy session build is queued but no retry is scheduled.
EnqueueWithoutTimer ==
  LET s == of["cam"]["request"][1]
  IN /\ Unlocked("cam")
     /\ at["cam"]["request"] \in {"started", "rejected", "busy"}
     /\ queue' = IF at["cam"]["request"] = "busy" THEN Append(queue, <<s, 0>>) ELSE queue
     /\ Done("cam", "request")
     /\ UNCHANGED <<lock, held, jobs, broken, spent, timer, direct, fate, crashes>>

\* The rest of enqueue_session: a busy manager gets the request into the queue,
\* and _schedule_retry arms the timer.
enqueue_session ==
  LET s == of["cam"]["request"][1]
      busy == at["cam"]["request"] = "busy"
  IN /\ Unlocked("cam")
     /\ at["cam"]["request"] \in {"started", "rejected", "busy"}
     /\ queue' = IF busy /\ ~Queued(s) THEN Append(queue, <<s, 0>>) ELSE queue
     /\ timer' = IF busy THEN "armed" ELSE timer
     /\ IF at["cam"]["request"] = "rejected" THEN Settle(s, "dropped") ELSE UNCHANGED fate
     /\ Done("cam", "request")
     /\ UNCHANGED <<lock, held, jobs, broken, spent, direct, crashes>>

_retry ==
  /\ timer = "armed" /\ at["cam"]["timer"] = "idle" /\ Unlocked("cam")
  /\ timer' = "off"
  /\ Move("cam", "timer", "pick")
  /\ UNCHANGED <<lock, held, jobs, broken, queue, spent, of, direct, fate, crashes>>

\* _drain_queue looks at the head without removing it.
Pick(t) ==
  /\ at["cam"][t] = "pick" /\ Unlocked("cam")
  /\ IF queue = <<>>
       THEN Done("cam", t)
       ELSE Move("cam", t, "start") /\ of' = [of EXCEPT !["cam"][t] = Head(queue)]
  /\ UNCHANGED <<lock, held, jobs, broken, queue, spent, timer, direct, fate, crashes>>

\* The rest of _drain_queue: a started or rejected session leaves the queue (and
\* after a rejection the next one is tried); a busy one is counted, from the
\* count read at the start, and retried until the count is spent.
_drain_queue(t) ==
  LET s == of["cam"][t][1]
      n == of["cam"][t][2] + 1
  IN /\ t # "request" /\ Unlocked("cam")
     /\ \/ /\ at["cam"][t] = "started"
           /\ queue' = Without(s)
           /\ Done("cam", t)
           /\ UNCHANGED <<spent, timer, fate>>
        \/ /\ at["cam"][t] = "rejected"
           /\ queue' = Without(s)
           /\ IF Queued(s) THEN Settle(s, "dropped") ELSE UNCHANGED fate
           /\ Move("cam", t, "pick")
           /\ of' = [of EXCEPT !["cam"][t] = NoItem]
           /\ UNCHANGED <<spent, timer>>
        \/ /\ at["cam"][t] = "busy" /\ n >= MaxRetries
           /\ queue' = Without(s)
           /\ IF Queued(s) THEN Settle(s, "gave up") ELSE UNCHANGED fate
           /\ Done("cam", t)
           /\ spent' = TRUE
           /\ UNCHANGED timer
        \/ /\ at["cam"][t] = "busy" /\ n < MaxRetries
           /\ queue' = [i \in DOMAIN queue |->
                          IF queue[i][1] = s THEN <<s, n>> ELSE queue[i]]
           /\ timer' = IF queue = <<>> THEN timer ELSE "armed"
           /\ Done("cam", t)
           /\ UNCHANGED <<spent, fate>>
     /\ UNCHANGED <<lock, held, jobs, broken, direct, crashes>>

(***************************************************************************)
(* The build threads                                                       *)
(***************************************************************************)
\* Whatever lock file is there is unlinked, if this manager thinks it holds it.
_release_lock_locked(p) ==
  /\ lock' = IF p \in held THEN "none" ELSE lock
  /\ held' = held \ {p}

\* _run has built or failed: the terminal state and the release of the lock are
\* one critical section; then the thread drains the queue.
_finish(p) ==
  /\ Unlocked(p)
  /\ \E s \in jobs[p] :
       /\ jobs' = [jobs EXCEPT ![p] = @ \ {s}]
       /\ Settle(s, "ended")
  /\ _release_lock_locked(p)
  /\ IF p = "cam"
       THEN \E t \in {"builder1", "builder2"} :
              at[p][t] = "idle" /\ Move(p, t, "pick")
       ELSE UNCHANGED at
  /\ UNCHANGED <<broken, queue, spent, timer, of, direct, crashes>>

\* build_timelapse_video: neither a manager nor the lock file is involved.
build_timelapse_video ==
  /\ DirectBuilds
  /\ direct' = IF direct = "idle" THEN "busy" ELSE "idle"
  /\ UNCHANGED <<lock, held, jobs, broken, queue, spent, timer, at, of, fate, crashes>>

(***************************************************************************)
(* The environment                                                         *)
(***************************************************************************)
\* The file's mtime falls an hour behind the wall clock: after a crash, or, on a
\* device without a clock chip, by a long build or the first time sync.
LockAges ==
  /\ lock = "fresh"
  /\ LockAgesLive \/ held = {}
  /\ lock' = "stale"
  /\ UNCHANGED <<held, jobs, broken, queue, spent, timer, at, of, direct, fate, crashes>>

\* A process is killed and restarted; the lock file stays.
Crash(p) ==
  /\ crashes < MaxCrashes
  /\ crashes' = crashes + 1
  /\ held' = held \ {p}
  /\ jobs' = [jobs EXCEPT ![p] = {}]
  /\ at' = [at EXCEPT ![p] = [t \in Threads |-> "idle"]]
  /\ of' = [of EXCEPT ![p] = [t \in Threads |-> NoItem]]
  /\ IF p = "cam" THEN /\ queue' = <<>> /\ timer' = "off" /\ direct' = "idle"
                       /\ fate' = [s \in Sessions |->
                                     IF fate[s] = "wanted" THEN "forgotten" ELSE fate[s]]
                  ELSE UNCHANGED <<queue, timer, direct, fate>>
  /\ UNCHANGED <<lock, broken, spent>>

Step(p, t) ==
  start(p, t) \/ _lock_is_stale(p, t) \/ BreakLock(p, t) \/ _try_create_lock(p, t)

Next ==
  \/ \E p \in Procs, s \in Targets : Request(p, s)
  \/ \E p \in Procs, t \in Threads : Step(p, t)
  \/ \E p \in Procs : _finish(p) \/ Crash(p)
  \/ \E t \in Threads : Pick(t) \/ _drain_queue(t)
  \/ enqueue_session \/ _retry \/ build_timelapse_video \/ LockAges

Spec == Init /\ [][Next]_vars

\* Threads are scheduled, timers fire and builds end; nobody has to request a
\* build, and a lock left by a crashed build gets old.
FairSpec ==
  /\ Spec
  /\ \A p \in Procs : WF_vars(_finish(p))
  /\ \A p \in Procs, t \in Threads : WF_vars(Step(p, t))
  /\ \A t \in Threads : WF_vars(Pick(t) \/ _drain_queue(t))
  /\ WF_vars(enqueue_session) /\ WF_vars(_retry)

(***************************************************************************)
(* Properties                                                              *)
(***************************************************************************)
\* The only type invariant of this module.
TypeOK ==
  /\ lock \in {"none", "fresh", "stale"}
  /\ held \subseteq Procs
  /\ jobs \in [Procs -> SUBSET Targets]
  /\ broken \in BOOLEAN /\ spent \in BOOLEAN
  /\ \A i \in DOMAIN queue : queue[i] \in Sessions \X (0..(MaxRetries - 1))
  /\ timer \in {"off", "armed"}
  /\ at \in [Procs -> [Threads -> {"idle", "pick", "start", "stat", "unlink", "recreate",
                                   "started", "busy", "rejected"}]]
  /\ of \in [Procs -> [Threads -> (Targets \cup {None}) \X (0..MaxRetries)]]
  /\ direct \in {"idle", "busy"}
  /\ fate \in [Sessions -> {"recording", "wanted", "ended", "dropped", "gave up", "forgotten"}]
  /\ crashes \in 0..MaxCrashes

Building == {p \in Procs : jobs[p] # {}}

\* Only a manager that unlinks the lock file of a running build can bring two
\* builds about; until then at most one manager builds, and the lock file exists
\* as long as it does, which is what the console looks at before it deletes a
\* session (media_library.build_running).
LockProtectsBuild ==
  ~broken => Cardinality(Building) <= 1 /\ (Building # {} => lock # "none")

\* The automatic build of a closed session does not get lost while the process
\* lives: it ends, a preflight gate rejects it, or it is given up with a warning
\* (enqueue_session: "never drop it silently").
SessionIsSettled == \A s \in Sessions : fate[s] = "wanted" ~> fate[s] # "wanted"

\* The same as long as no drain of the queue has run out of attempts.
SettledUnlessSpent ==
  \A s \in Sessions :
    fate[s] = "wanted" ~> fate[s] # "wanted" \/ spent

\* The lock file "prevents a duplicate/concurrent build even if a second admin
\* process is started" (media_build.py, module docstring).
ManagersExclude == Cardinality(Building) <= 1

\* "Only one build runs at a time", whoever asked for it (docs/user-guide.md).
OnlyOneBuild == ~broken => Cardinality(Building) + (IF direct = "busy" THEN 1 ELSE 0) <= 1
=============================================================================
