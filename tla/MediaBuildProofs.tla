-------------------------- MODULE MediaBuildProofs --------------------------
(***************************************************************************)
(* Proofs about the build managers and their lock file, for every set of   *)
(* sessions and of console targets and every number of retries and of      *)
(* crashes, whether or not the lock of a running build may get old and the *)
(* Prusa trigger may build beside the managers.                            *)
(***************************************************************************)
EXTENDS MediaBuild, FiniteSetTheorems, TLAPS

\* Where a thread of a manager works on the lock file, with the manager's _lock held.
AtLockFile == {"stat", "unlink", "recreate"}
Places == AtLockFile \cup {"idle", "pick", "start", "started", "busy", "rejected"}

\* What the proof needs of the types.
Typed ==
  /\ held \subseteq Procs /\ broken \in BOOLEAN
  /\ DOMAIN jobs = Procs
  /\ at \in [Procs -> [Threads -> Places]]

\* _lock_held and the active job of a manager come and go together.
HeldIsBuilding ==
  \A p \in Procs :
    /\ p \in held <=> jobs[p] # {}
    /\ \A r, s \in jobs[p] : r = s

\* A thread only goes to the lock file when its manager has no job, and it goes alone:
\* the others wait for _lock.
LockFileIsOwn ==
  \A p \in Procs, t \in Threads :
    at[p][t] \in AtLockFile =>
      /\ jobs[p] = {}
      /\ \A u \in Threads : at[p][u] \in AtLockFile => u = t

\* Until a lock of a running build is unlinked, one manager holds it and its file exists.
OneHolder ==
  ~broken => /\ \A p, q \in held : p = q
             /\ held # {} => lock # "none"

IInv == Typed /\ HeldIsBuilding /\ LockFileIsOwn /\ OneHolder

\* The managers start idle, without a lock file.
LEMMA IInvInit == Init => IInv
<1> SUFFICES ASSUME Init PROVE IInv
  OBVIOUS
<1> USE DEF Init
<1>1. Typed /\ HeldIsBuilding
  BY DEF Typed, HeldIsBuilding, Places
<1>2. LockFileIsOwn /\ OneHolder
  BY DEF LockFileIsOwn, OneHolder, AtLockFile
<1> QED
  BY <1>1, <1>2 DEF IInv

-----------------------------------------------------------------------------
\* A move of one thread leaves the others where they are.
LEMMA MoveMoves ==
  ASSUME Typed, NEW p \in Procs, NEW t \in Threads, NEW l \in Places, Move(p, t, l)
  PROVE  /\ at' \in [Procs -> [Threads -> Places]]
         /\ \A q \in Procs, u \in Threads :
              at'[q][u] = IF q = p /\ u = t THEN l ELSE at[q][u]
BY DEF Move, Typed

\* A thread that moves within the lock file's code, away from it or outside it, while the
\* jobs and the locks held stay as they are.
LEMMA MoveKeeps ==
  ASSUME IInv, NEW p \in Procs, NEW t \in Threads, NEW l \in Places,
         Move(p, t, l), UNCHANGED <<held, jobs>>, broken' \in BOOLEAN, OneHolder',
         l \in AtLockFile => at[p][t] \in AtLockFile
  PROVE  IInv'
<1> USE DEF IInv
<1>1. Typed'
  BY MoveMoves DEF Typed
<1>2. LockFileIsOwn'
  <2>1. \A q \in Procs, u \in Threads : at'[q][u] \in AtLockFile => at[q][u] \in AtLockFile
    BY MoveMoves
  <2> QED
    BY <2>1 DEF LockFileIsOwn
<1>3. HeldIsBuilding'
  BY DEF HeldIsBuilding
<1> QED
  BY <1>1, <1>2, <1>3

\* A manager with no job whose thread finds no lock file: it registers the job and the
\* lock, and leaves the lock file.
LEMMA WinKeeps ==
  ASSUME IInv, NEW p \in Procs, NEW t \in Threads, Win(p, t), UNCHANGED broken,
         lock = "none", jobs[p] = {},
         \A u \in Threads \ {t} : at[p][u] \notin AtLockFile
  PROVE  IInv'
<1> USE DEF IInv
<1>1. PICK l \in Places \ AtLockFile : Move(p, t, l)
  BY DEF Win, Return, Done, Places, AtLockFile
<1>2. jobs' = [jobs EXCEPT ![p] = {of[p][t][1]}]
  BY DEF Win
<1>3. Typed'
  BY <1>1, <1>2, MoveMoves DEF Typed, Win
<1>4. HeldIsBuilding'
  <2>1. \A q \in Procs : jobs'[q] = IF q = p THEN {of[p][t][1]} ELSE jobs[q]
    BY <1>2 DEF Typed
  <2>2. held' = held \cup {p}
    BY DEF Win
  <2> QED
    BY <2>1, <2>2 DEF HeldIsBuilding
<1>5. LockFileIsOwn'
  <2>1. \A q \in Procs, u \in Threads :
          at'[q][u] \in AtLockFile => q # p /\ at[q][u] \in AtLockFile
    BY <1>1, MoveMoves
  <2>2. \A q \in Procs : q # p => jobs'[q] = jobs[q]
    BY <1>2 DEF Typed
  <2> QED
    BY <2>1, <2>2 DEF LockFileIsOwn
<1>6. OneHolder'
  BY DEF OneHolder, Win
<1> QED
  BY <1>3, <1>4, <1>5, <1>6

\* When start returns, its thread is outside the lock file's code.
LEMMA ReturnMoves ==
  ASSUME NEW p, NEW t, NEW l \in Places \ AtLockFile, Return(p, t, l)
  PROVE  \E m \in Places \ AtLockFile : Move(p, t, m)
BY DEF Return, Done, Places, AtLockFile

\* One holder is still one holder when nothing of the lock changes, or its file gets old.
LEMMA OneHolderKept ==
  ASSUME OneHolder, UNCHANGED <<held, broken>>, lock' = lock \/ lock' = "stale"
  PROVE  OneHolder'
BY DEF OneHolder

-----------------------------------------------------------------------------
\* start, as far as it needs the manager's lock: a thread is refused, wins the lock file,
\* or goes to look at the one in its way.
LEMMA StartKeeps ==
  ASSUME IInv, NEW p \in Procs, NEW t \in Threads, start(p, t)
  PROVE  IInv'
<1>1. broken' = broken /\ broken' \in BOOLEAN
  BY DEF start, IInv, Typed
<1>2. \A u \in Threads : at[p][u] \notin AtLockFile
  BY DEF start, Unlocked, AtLockFile
<1>3. ASSUME NEW l \in Places \ AtLockFile, Lose(p, t, l) PROVE IInv'
  <2>1. PICK m \in Places \ AtLockFile : Move(p, t, m)
    BY <1>3, ReturnMoves DEF Lose
  <2>2. OneHolder'
    BY <1>1, <1>3, OneHolderKept DEF Lose, IInv
  <2> QED
    BY <1>1, <1>3, <2>1, <2>2, MoveKeeps DEF Lose
<1>4. CASE jobs[p] = {} /\ lock = "none" /\ Win(p, t)
  BY <1>1, <1>2, <1>4, WinKeeps
<1>5. CASE jobs[p] = {} /\ Move(p, t, "stat") /\ UNCHANGED <<lock, held, jobs, of>>
  <2>1. "stat" \in Places
    BY DEF Places, AtLockFile
  <2>2. /\ at' \in [Procs -> [Threads -> Places]]
        /\ \A q \in Procs, u \in Threads :
             at'[q][u] = IF q = p /\ u = t THEN "stat" ELSE at[q][u]
    BY <1>5, <2>1, MoveMoves DEF IInv
  <2>3. Typed' /\ HeldIsBuilding' /\ OneHolder'
    BY <1>1, <1>5, <2>2 DEF IInv, Typed, HeldIsBuilding, OneHolder
  <2>4. LockFileIsOwn'
    BY <1>2, <1>5, <2>2 DEF IInv, LockFileIsOwn
  <2> QED
    BY <2>3, <2>4 DEF IInv
<1>6. "rejected" \in Places \ AtLockFile /\ "busy" \in Places \ AtLockFile
  BY DEF Places, AtLockFile
<1> QED
  BY <1>3, <1>4, <1>5, <1>6 DEF start

\* The three steps at the lock file: its age, its removal and its creation.
LEMMA LockFileKeeps ==
  ASSUME IInv, NEW p \in Procs, NEW t \in Threads,
         _lock_is_stale(p, t) \/ BreakLock(p, t) \/ _try_create_lock(p, t)
  PROVE  IInv'
<1>0. "busy" \in Places \ AtLockFile /\ {"unlink", "recreate"} \subseteq Places \cap AtLockFile
  BY DEF Places, AtLockFile
<1>1. CASE _lock_is_stale(p, t)
  <2>1. OneHolder' /\ broken' \in BOOLEAN /\ UNCHANGED <<held, jobs>>
    BY <1>1, OneHolderKept DEF _lock_is_stale, IInv, Typed
  <2>2. PICK m \in Places : Move(p, t, m)
    BY <1>0, <1>1, ReturnMoves DEF _lock_is_stale
  <2>3. at[p][t] \in AtLockFile
    BY <1>1 DEF _lock_is_stale, AtLockFile
  <2> QED
    BY <2>1, <2>2, <2>3, MoveKeeps
<1>2. CASE BreakLock(p, t)
  <2>1. OneHolder' /\ broken' \in BOOLEAN /\ UNCHANGED <<held, jobs>>
    BY <1>2 DEF BreakLock, IInv, Typed, OneHolder
  <2>2. PICK m \in Places : Move(p, t, m)
    BY <1>0, <1>2, ReturnMoves DEF BreakLock
  <2>3. at[p][t] \in AtLockFile
    BY <1>2 DEF BreakLock, AtLockFile
  <2> QED
    BY <2>1, <2>2, <2>3, MoveKeeps
<1>3. CASE _try_create_lock(p, t)
  <2>1. at[p][t] \in AtLockFile /\ UNCHANGED broken
    BY <1>3 DEF _try_create_lock, AtLockFile
  <2>2. CASE lock = "none" /\ Win(p, t)
    BY <2>1, <2>2, WinKeeps DEF IInv, LockFileIsOwn
  <2>3. CASE Lose(p, t, "busy")
    <3>1. OneHolder' /\ broken' \in BOOLEAN /\ UNCHANGED <<held, jobs>>
      BY <2>1, <2>3, OneHolderKept DEF Lose, IInv, Typed
    <3>2. PICK m \in Places : Move(p, t, m)
      BY <1>0, <2>3, ReturnMoves DEF Lose
    <3> QED
      BY <2>1, <3>1, <3>2, MoveKeeps
  <2> QED
    BY <1>3, <2>2, <2>3 DEF _try_create_lock
<1> QED
  BY <1>1, <1>2, <1>3

\* The end of a build: the job and the lock go in one critical section, so a manager that
\* has let go of the lock has no job left.
LEMMA FinishKeeps ==
  ASSUME IInv, NEW p \in Procs, _finish(p)
  PROVE  IInv'
<1> USE DEF IInv
<1>1. PICK s \in jobs[p] : jobs' = [jobs EXCEPT ![p] = @ \ {s}]
  BY DEF _finish
<1>2. jobs[p] \ {s} = {} /\ p \in held
  BY DEF HeldIsBuilding
<1>3. \A q \in Procs : jobs'[q] = IF q = p THEN {} ELSE jobs[q]
  BY <1>1, <1>2 DEF Typed
<1>4. held' = held \ {p} /\ UNCHANGED broken
  BY DEF _finish, _release_lock_locked
<1>5. /\ at' \in [Procs -> [Threads -> Places]]
      /\ \A q \in Procs, u \in Threads : at'[q][u] = at[q][u] \/ at'[q][u] = "pick"
  <2>1. CASE p = "cam"
    <3>1. PICK t \in Threads : Move(p, t, "pick")
      BY <2>1 DEF _finish, Threads
    <3>2. "pick" \in Places
      BY DEF Places
    <3> QED
      BY <3>1, <3>2, MoveMoves
  <2>2. CASE p # "cam"
    BY <2>2 DEF _finish, Typed
  <2> QED
    BY <2>1, <2>2
<1>6. Typed'
  BY <1>1, <1>4, <1>5 DEF Typed
<1>7. HeldIsBuilding'
  BY <1>3, <1>4 DEF HeldIsBuilding
<1>8. LockFileIsOwn'
  <2>1. \A q \in Procs, u \in Threads : at'[q][u] \in AtLockFile => at[q][u] \in AtLockFile
    BY <1>5 DEF AtLockFile
  <2>2. \A q \in Procs : jobs[q] = {} => jobs'[q] = {}
    BY <1>3
  <2> QED
    BY <2>1, <2>2 DEF LockFileIsOwn
<1>9. OneHolder'
  BY <1>2, <1>4 DEF OneHolder
<1> QED
  BY <1>6, <1>7, <1>8, <1>9

\* A crash takes the process's threads, its job and its hold on the lock; the lock file
\* stays.
LEMMA CrashKeeps ==
  ASSUME IInv, NEW p \in Procs, Crash(p)
  PROVE  IInv'
<1> USE DEF IInv
<1>1. \A q \in Procs : jobs'[q] = IF q = p THEN {} ELSE jobs[q]
  BY DEF Crash, Typed
<1>2. held' = held \ {p} /\ UNCHANGED <<lock, broken>>
  BY DEF Crash
<1>3. /\ at' \in [Procs -> [Threads -> Places]]
      /\ \A q \in Procs, u \in Threads : at'[q][u] = IF q = p THEN "idle" ELSE at[q][u]
  BY DEF Crash, Typed, Places
<1>4. Typed'
  BY <1>2, <1>3 DEF Typed, Crash
<1>5. HeldIsBuilding'
  BY <1>1, <1>2 DEF HeldIsBuilding
<1>6. LockFileIsOwn'
  <2>1. \A q \in Procs, u \in Threads :
          at'[q][u] \in AtLockFile => q # p /\ at[q][u] \in AtLockFile
    BY <1>3 DEF AtLockFile
  <2> QED
    BY <1>1, <2>1 DEF LockFileIsOwn
<1>7. OneHolder'
  BY <1>2 DEF OneHolder
<1> QED
  BY <1>4, <1>5, <1>6, <1>7

-----------------------------------------------------------------------------
\* Every step of a thread, of the build threads and of the environment.
LEMMA IInvStep == IInv /\ [Next]_vars => IInv'
<1> SUFFICES ASSUME IInv, [Next]_vars PROVE IInv'
  OBVIOUS
<1>0. broken \in BOOLEAN /\ OneHolder
  BY DEF IInv, Typed
<1>1. {"idle", "pick", "start"} \subseteq Places \ AtLockFile
  BY DEF Places, AtLockFile
<1>2. ASSUME NEW p \in Procs, NEW t \in Threads, NEW l \in {"idle", "pick", "start"},
             Move(p, t, l), UNCHANGED <<lock, held, jobs, broken>>
      PROVE  IInv'
  <2>1. OneHolder' /\ broken' \in BOOLEAN
    BY <1>0, <1>2, OneHolderKept
  <2> QED
    BY <1>1, <1>2, <2>1, MoveKeeps
<1>3. {"request", "timer", "builder1", "builder2"} = Threads /\ {"cam", "web"} = Procs
  BY DEF Threads, Procs
<1>4. ASSUME NEW p \in Procs, NEW s \in Targets, Request(p, s) PROVE IInv'
  BY <1>2, <1>3, <1>4 DEF Request
<1>5. ASSUME NEW p \in Procs, NEW t \in Threads, Step(p, t) PROVE IInv'
  BY <1>5, StartKeeps, LockFileKeeps DEF Step
<1>6. ASSUME NEW p \in Procs, _finish(p) \/ Crash(p) PROVE IInv'
  BY <1>6, FinishKeeps, CrashKeeps
<1>7. ASSUME NEW t \in Threads, Pick(t) PROVE IInv'
  BY <1>2, <1>3, <1>7 DEF Pick, Done
<1>8. ASSUME NEW t \in Threads, _drain_queue(t) PROVE IInv'
  <2>1. Move("cam", t, "idle") \/ Move("cam", t, "pick")
    BY <1>8 DEF _drain_queue, Done
  <2>2. UNCHANGED <<lock, held, jobs, broken>>
    BY <1>8 DEF _drain_queue
  <2> QED
    BY <1>2, <1>3, <2>1, <2>2
<1>9. CASE enqueue_session
  BY <1>2, <1>3, <1>9 DEF enqueue_session, Done
<1>10. CASE _retry
  BY <1>2, <1>3, <1>10 DEF _retry
<1>11. CASE build_timelapse_video \/ UNCHANGED vars
  BY <1>11 DEF build_timelapse_video, vars, IInv, Typed, HeldIsBuilding, LockFileIsOwn, OneHolder
<1>12. CASE LockAges
  <2>1. OneHolder'
    BY <1>0, <1>12, OneHolderKept DEF LockAges
  <2> QED
    BY <1>12, <2>1 DEF LockAges, IInv, Typed, HeldIsBuilding, LockFileIsOwn
<1> QED
  BY <1>4, <1>5, <1>6, <1>7, <1>8, <1>9, <1>10, <1>11, <1>12 DEF Next

\* Until a manager unlinks the lock file of a running build, at most one of them builds, and
\* the lock file exists as long as it does (_acquire_lock, _finish and
\* _release_lock_locked in media_build.py): for every interleaving of the two managers'
\* threads and every crash.
THEOREM LockProtects == Spec => []LockProtectsBuild
<1>1. IInv => LockProtectsBuild
  <2> SUFFICES ASSUME IInv, ~broken
               PROVE  Cardinality(Building) <= 1 /\ (Building # {} => lock # "none")
    BY DEF LockProtectsBuild
  <2>1. Building = held
    BY DEF IInv, Typed, HeldIsBuilding, Building
  <2>2. held = {} \/ \E p : held = {p}
    BY DEF IInv, OneHolder
  <2>3. Cardinality(held) \in {0, 1}
    BY <2>2, FS_EmptySet, FS_Singleton, Zenon
  <2> QED
    BY <2>1, <2>3 DEF IInv, OneHolder
<1> QED
  BY <1>1, IInvInit, IInvStep, PTL DEF Spec
=============================================================================
