---------------------------- MODULE ConsoleProofs ----------------------------
(***************************************************************************)
(* Proofs about three parts of the console, for every value of their       *)
(* bounds: its re-auth windows (Console), the one thread behind the polled *)
(* live view (LiveView, through ServicesView), and the two configuration   *)
(* documents its handlers save (ConfigDocs, through ApplianceDocs).        *)
(***************************************************************************)
EXTENDS Console, ServicesView, ApplianceDocs, FiniteSetTheorems, TLAPS

USE ConsoleAssumption DEF Restrict

Session == [created: Nat, seen: Nat, proved: Nat \cup {None}]

\* A session table s and a window table r, after n logins, at the time c: tokens are handed
\* out once, no session was seen in the future, and a token with a session and a window has
\* its proof at the time the window says.
Tables(s, r, n, c) ==
  /\ DOMAIN s \subseteq 1..n /\ DOMAIN r \subseteq 1..n
  /\ \A t \in DOMAIN s : s[t] \in Session /\ s[t].seen <= c
  /\ \A t \in DOMAIN r : r[t] \in Nat
  /\ \A t \in DOMAIN s \cap DOMAIN r : s[t].proved = r[t]

IInv ==
  /\ now \in Nat /\ logins \in Nat
  /\ Tables(sessions, reauth_at, logins, now)
  /\ PrivilegedNeedsOwnProof

\* Sessions and windows may go at any time.
LEMMA FewerTables ==
  ASSUME NEW s, NEW r, NEW n, NEW c, NEW s2, NEW r2, Tables(s, r, n, c),
         DOMAIN s2 \subseteq DOMAIN s, \A t \in DOMAIN s2 : s2[t] = s[t],
         DOMAIN r2 \subseteq DOMAIN r, \A t \in DOMAIN r2 : r2[t] = r[t]
  PROVE  Tables(s2, r2, n, c)
BY DEF Tables

\* create: the new token has no window from an earlier session, since no session ever had it.
LEMMA CreateKeeps ==
  ASSUME now \in Nat, logins \in Nat, Tables(sessions, reauth_at, logins, now)
  PROVE  Tables(create(logins + 1), reauth_at, logins + 1, now)
<1> DEFINE n == logins + 1
           new == [created |-> now, seen |-> now, proved |-> None]
           s == With(_prune_sessions, n, new)
<1>1. DOMAIN s = DOMAIN _prune_sessions \cup {n} /\ s[n] = new
  BY DEF With
<1>2. \A t \in DOMAIN s : t # n => t \in DOMAIN sessions /\ s[t] = sessions[t]
  BY DEF With, _prune_sessions
<1>3. new \in Session
  BY DEF Session
<1>4. n \notin DOMAIN reauth_at
  BY DEF Tables
<1>5. Tables(s, reauth_at, n, now)
  <2> HIDE DEF s, new
  <2>1. DOMAIN s \subseteq 1..n /\ DOMAIN reauth_at \subseteq 1..n
    BY <1>1, <1>2 DEF Tables
  <2>2. \A t \in DOMAIN s : s[t] \in Session /\ s[t].seen <= now
    BY <1>1, <1>2, <1>3 DEF Tables, new
  <2>3. \A t \in DOMAIN s \cap DOMAIN reauth_at : s[t].proved = reauth_at[t]
    BY <1>2, <1>4 DEF Tables
  <2> QED
    BY <2>1, <2>2, <2>3 DEF Tables
<1>6. create(n) = s \/ create(n) = _evict_oldest(s)
  BY DEF create
<1>7. DOMAIN _evict_oldest(s) \subseteq DOMAIN s
      /\ \A t \in DOMAIN _evict_oldest(s) : _evict_oldest(s)[t] = s[t]
  BY DEF _evict_oldest, Without
<1> HIDE DEF s
<1> QED
  BY <1>5, <1>6, <1>7, FewerTables

\* validate: the session table after it, for a session that is live and for any other token.
LEMMA ValidateKeeps ==
  ASSUME now \in Nat, NEW t, Tables(sessions, reauth_at, logins, now)
  PROVE  /\ Tables(validate(t), reauth_at, logins, now)
         /\ Live(t) => /\ DOMAIN validate(t) = DOMAIN sessions
                       /\ validate(t)[t].seen = now
                       /\ validate(t)[t].proved = sessions[t].proved
<1>1. CASE Live(t)
  <2>1. validate(t) = [sessions EXCEPT ![t].seen = now] /\ t \in DOMAIN sessions
    BY <1>1 DEF validate, Live
  <2>2. sessions[t] \in Session
    BY <2>1 DEF Tables
  <2> DEFINE v == validate(t)
  <2>3. DOMAIN v = DOMAIN sessions /\ v[t] = [sessions[t] EXCEPT !.seen = now]
        /\ \A u \in DOMAIN sessions : u # t => v[u] = sessions[u]
    BY <2>1
  <2>4. v[t] \in Session /\ v[t].seen = now /\ v[t].proved = sessions[t].proved
    BY <2>2, <2>3 DEF Session
  <2> HIDE DEF v
  <2>5. \A u \in DOMAIN v : v[u] \in Session /\ v[u].seen <= now /\ v[u].proved = sessions[u].proved
    <3> SUFFICES ASSUME NEW u \in DOMAIN v
                 PROVE  v[u] \in Session /\ v[u].seen <= now /\ v[u].proved = sessions[u].proved
      OBVIOUS
    <3>1. CASE u = t
      BY <2>4, <3>1
    <3>2. CASE u # t
      BY <2>3, <3>2 DEF Tables
    <3> QED
      BY <3>1, <3>2
  <2>6. Tables(v, reauth_at, logins, now)
    BY <2>3, <2>5 DEF Tables
  <2> QED
    BY <2>3, <2>4, <2>6 DEF v
<1>2. CASE ~Live(t)
  <2>1. validate(t) = sessions \/ validate(t) = Without(sessions, {t})
    BY <1>2 DEF validate, Live
  <2>2. DOMAIN Without(sessions, {t}) \subseteq DOMAIN sessions
        /\ \A u \in DOMAIN Without(sessions, {t}) : Without(sessions, {t})[u] = sessions[u]
    BY DEF Without
  <2> QED
    BY <1>2, <2>1, <2>2, FewerTables
<1> QED
  BY <1>1, <1>2

\* The handler of a request that _authorize let through, on the tables s and r: behind a
\* re-auth policy only with a proof of the session's own that is young enough.
LEMMA HandleKeeps ==
  ASSUME now \in Nat, logins \in Nat, UNCHANGED <<now, logins>>,
         NEW op \in Ops, NEW t, NEW s, NEW r, Tables(s, r, logins, now), Handle(op, t, s, r),
         Policy(op) # "authenticated" =>
           t \in DOMAIN s /\ s[t].proved # None /\ s[t].seen - s[t].proved < REAUTH_WINDOW
  PROVE  IInv'
<1>1. CASE op = "logout"
  <2>1. did' = Idle
    BY <1>1 DEF Handle, Policy
  <2>2. Tables(sessions', reauth_at', logins, now)
    <3>1. sessions' = Without(s, {t}) /\ reauth_at' = Without(r, {t})
      BY <1>1 DEF Handle
    <3> QED
      BY <3>1, FewerTables DEF Without
  <2> QED
    BY <2>1, <2>2 DEF IInv, PrivilegedNeedsOwnProof
<1>2. CASE op # "logout"
  <2>1. sessions' = s /\ reauth_at' = r
    BY <1>2 DEF Handle
  <2>2. did' # Idle => did'.token = t /\ Policy(op) # "authenticated"
    BY DEF Handle
  <2> QED
    BY <2>1, <2>2 DEF IInv, PrivilegedNeedsOwnProof
<1> QED
  BY <1>1, <1>2

\* _authorize and the handler, whichever way the request goes.
LEMMA DispatchKeeps ==
  ASSUME IInv, NEW op \in Ops, NEW t, _dispatch(op, t)
  PROVE  IInv'
<1> DEFINE s == validate(t)
           r == IF Live(t) THEN _prune_reauth(s) ELSE reauth_at
<1>0. now \in Nat /\ logins \in Nat /\ UNCHANGED <<now, logins>>
  BY DEF IInv, _dispatch
<1>1. /\ Tables(s, reauth_at, logins, now)
      /\ Live(t) => t \in DOMAIN s /\ s[t].seen = now
  BY ValidateKeeps DEF IInv, Live
<1>2. /\ DOMAIN r \subseteq DOMAIN reauth_at
      /\ \A u \in DOMAIN r : r[u] = reauth_at[u] /\ (Live(t) => now - r[u] < REAUTH_WINDOW)
  BY DEF _prune_reauth
<1>3. Tables(s, r, logins, now)
  <2> HIDE DEF s, r
  <2> QED
    BY <1>1, <1>2, FewerTables
<1>4. CASE Refuse(s, r)
  BY <1>0, <1>3, <1>4 DEF Refuse, IInv, PrivilegedNeedsOwnProof
<1>5. CASE Live(t) /\ (Policy(op) = "authenticated" \/ t \in DOMAIN r) /\ Handle(op, t, s, r)
  <2> HIDE DEF s, r
  <2>1. ASSUME t \in DOMAIN r
        PROVE  s[t].proved # None /\ s[t].seen - s[t].proved < REAUTH_WINDOW
    <3>1. s[t].proved = r[t] /\ r[t] \in Nat
      BY <1>1, <1>3, <1>5, <2>1 DEF Tables
    <3> QED
      BY <1>1, <1>2, <1>5, <2>1, <3>1 DEF None
  <2> QED
    BY <1>0, <1>1, <1>3, <1>5, <2>1, HandleKeeps
<1>6. CASE Live(t) /\ Handle(op, t, [s EXCEPT ![t].proved = now], With(r, t, now))
  <2> DEFINE s2 == [s EXCEPT ![t].proved = now]
             r2 == With(r, t, now)
  <2> HIDE DEF s, r
  <2>1. t \in DOMAIN s /\ s[t] \in Session /\ s[t].seen = now /\ t \in 1..logins
    BY <1>1, <1>6 DEF Tables
  <2>2. DOMAIN s2 = DOMAIN s /\ s2[t] = [s[t] EXCEPT !.proved = now]
        /\ \A u \in DOMAIN s : u # t => s2[u] = s[u]
    BY <2>1
  <2>3. s2[t] \in Session /\ s2[t].seen = now /\ s2[t].proved = now
    BY <1>0, <2>1, <2>2 DEF Session
  <2>4. DOMAIN r2 = DOMAIN r \cup {t} /\ r2[t] = now
        /\ \A u \in DOMAIN r : u # t => r2[u] = r[u]
    BY DEF With
  <2> HIDE DEF s2, r2
  <2>5. Tables(s2, r2, logins, now)
    <3>1. DOMAIN s2 \subseteq 1..logins /\ DOMAIN r2 \subseteq 1..logins
      BY <1>3, <2>1, <2>2, <2>4 DEF Tables
    <3>2. \A u \in DOMAIN s2 : s2[u] \in Session /\ s2[u].seen <= now
      <4> SUFFICES ASSUME NEW u \in DOMAIN s2 PROVE s2[u] \in Session /\ s2[u].seen <= now
        OBVIOUS
      <4>1. CASE u = t
        BY <1>0, <2>3, <4>1
      <4>2. CASE u # t
        BY <1>3, <2>2, <4>2 DEF Tables
      <4> QED
        BY <4>1, <4>2
    <3>3. \A u \in DOMAIN r2 : r2[u] \in Nat
      BY <1>0, <1>3, <2>4 DEF Tables
    <3>4. \A u \in DOMAIN s2 \cap DOMAIN r2 : s2[u].proved = r2[u]
      BY <1>3, <2>2, <2>3, <2>4 DEF Tables
    <3> QED
      BY <3>1, <3>2, <3>3, <3>4 DEF Tables
  <2>6. t \in DOMAIN s2 /\ s2[t].proved # None /\ s2[t].seen - s2[t].proved < REAUTH_WINDOW
    BY <1>0, <2>1, <2>2, <2>3 DEF None
  <2>7. Handle(op, t, s2, r2)
    BY <1>6 DEF s2, r2
  <2> QED
    BY <1>0, <2>5, <2>6, <2>7, HandleKeeps
<1>7. \/ Refuse(s, r)
      \/ Live(t) /\ (Policy(op) = "authenticated" \/ t \in DOMAIN r) /\ Handle(op, t, s, r)
      \/ Live(t) /\ Handle(op, t, [s EXCEPT ![t].proved = now], With(r, t, now))
  BY Zenon DEF _dispatch
<1> QED
  BY <1>4, <1>5, <1>6, <1>7

-----------------------------------------------------------------------------
\* The console starts with empty tables.
LEMMA IInvInit == Init => IInv
BY DEF Init, IInv, Tables, PrivilegedNeedsOwnProof

\* Logins, requests, the clock and a restart.
LEMMA IInvStep == IInv /\ [Next]_vars => IInv'
<1> SUFFICES ASSUME IInv, [Next]_vars PROVE IInv'
  OBVIOUS
<1>1. ASSUME NEW p \in Peers, NEW right \in BOOLEAN, _handle_login(p, right) PROVE IInv'
  <2>1. did' = Idle /\ UNCHANGED <<now, reauth_at>>
    BY <1>1 DEF _handle_login
  <2>2. CASE UNCHANGED <<sessions, logins>>
    BY <2>1, <2>2 DEF IInv, PrivilegedNeedsOwnProof
  <2>3. CASE logins' = logins + 1 /\ sessions' = create(logins + 1)
    BY <2>1, <2>3, CreateKeeps DEF IInv, PrivilegedNeedsOwnProof
  <2> QED
    BY <1>1, <2>2, <2>3 DEF _handle_login
<1>2. CASE Request
  BY <1>2, DispatchKeeps DEF Request
<1>3. CASE Tick
  BY <1>3 DEF Tick, table, IInv, Tables, Session, PrivilegedNeedsOwnProof
<1>4. CASE Restart
  BY <1>4 DEF Restart, IInv, Tables, PrivilegedNeedsOwnProof
<1>5. CASE UNCHANGED vars
  BY <1>5 DEF vars, table, IInv, Tables, PrivilegedNeedsOwnProof
<1> QED
  BY <1>1, <1>2, <1>3, <1>4, <1>5 DEF Next, Login

\* A handler behind a re-auth policy is only reached by a session that is in the table and
\* whose own holder gave the password less than a window ago (_authorize, _prune_reauth and
\* _reauth_at in admin_http.py): tokens are not reused, so no window outlives its session
\* into another one.
THEOREM OwnProofNeeded == Spec => []PrivilegedNeedsOwnProof
<1>1. IInv => PrivilegedNeedsOwnProof
  BY DEF IInv
<1> QED
  BY <1>1, IInvInit, IInvStep, PTL DEF Spec

-----------------------------------------------------------------------------
(* The console's polled live view *)

Places == {"dead", "check", "idle", "backoff", "capture", "break"}

\* A producer thread that is not dead is that of the current generation, with the flag up: a
\* new generation starts only once the flag is down or the thread of the last one is dead.
ProducerInv ==
  /\ v_gen \in 0..1 /\ v_thread \in [0..1 -> Places] /\ v_running \in BOOLEAN
  /\ \A g \in 0..1 : v_thread[g] # "dead" => g = v_gen /\ v_running

\* _ensure_running starts a thread only when none lives.
LEMMA EnsureKeepsProducer == ASSUME ProducerInv, Local!_ensure_running PROVE ProducerInv'
<1>1. CASE v_running /\ v_thread[v_gen] # "dead"
  BY <1>1 DEF ProducerInv, Local!_ensure_running
<1>2. CASE ~(v_running /\ v_thread[v_gen] # "dead")
  <2>1. /\ v_gen' = 1 - v_gen /\ v_running' = TRUE
        /\ v_thread' = [v_thread EXCEPT ![1 - v_gen] = "check"]
    BY <1>2 DEF Local!_ensure_running
  <2>2. \A g \in 0..1 : v_thread[g] = "dead"
    BY <1>2 DEF ProducerInv
  <2>3. v_gen \in 0..1 /\ 1 - v_gen \in 0..1 /\ v_thread \in [0..1 -> Places]
    BY DEF ProducerInv
  <2> QED
    BY <2>1, <2>2, <2>3 DEF ProducerInv, Places
<1> QED
  BY <1>1, <1>2

\* A living thread goes on, or the finally of _run lowers the flag as it ends.
LEMMA ThreadKeepsProducer ==
  ASSUME ProducerInv, NEW g \in 0..1, Local!Look(g) \/ Local!_capture_once(g) \/ Local!Exit(g)
  PROVE  ProducerInv'
<1>1. CASE Local!Look(g) \/ Local!_capture_once(g)
  <2>1. v_gen' = v_gen /\ v_running' = v_running
    BY <1>1 DEF Local!Look, Local!_capture_once, Local!KeepViewers
  <2>2. PICK to \in Places : v_thread' = [v_thread EXCEPT ![g] = to]
    BY <1>1 DEF Local!Look, Local!_capture_once, Local!At, Places
  <2>3. v_thread[g] # "dead"
    BY <1>1 DEF Local!Look, Local!_capture_once, Local!At
  <2> QED
    BY <2>1, <2>2, <2>3 DEF ProducerInv
<1>2. CASE Local!Exit(g)
  BY <1>2 DEF ProducerInv, Local!Exit, Local!At, Local!KeepViewers, Places
<1> QED
  BY <1>1, <1>2

\* live_monitor.py: one thread at most captures from the stream, however viewers come and go,
\* captures fail and the monitor is stopped while its thread is on its way out.
THEOREM SingleProducer == Local!Spec => []OneProducer
<1>1. Local!Init => ProducerInv
  <2>1. ASSUME Local!Init
        PROVE  v_gen = 0 /\ v_running = FALSE /\ v_thread = [g \in 0..1 |-> "dead"]
    BY <2>1, Zenon DEF Local!Init
  <2> QED
    BY <2>1 DEF ProducerInv, Places
<1>2. ProducerInv /\ [Local!Next]_(Local!vars) => ProducerInv'
  <2> SUFFICES ASSUME ProducerInv, [Local!Next]_(Local!vars) PROVE ProducerInv'
    OBVIOUS
  <2>1. ASSUME UNCHANGED <<v_gen, v_thread, v_running>> PROVE ProducerInv'
    BY <2>1 DEF ProducerInv
  <2>2. ASSUME NEW p \in Pollers,
               Local!Open(p) \/ Local!Close(p) \/ Local!_handle_live_frame(p) \/ Local!Expire(p)
        PROVE  ProducerInv'
    <3>1. CASE Local!_handle_live_frame(p)
      BY <3>1, EnsureKeepsProducer DEF Local!_handle_live_frame, Local!touch
    <3>2. CASE Local!Open(p) \/ Local!Close(p) \/ Local!Expire(p)
      BY <2>1, <3>2 DEF Local!Open, Local!Close, Local!Expire
    <3> QED
      BY <2>2, <3>1, <3>2
  <2>3. CASE Local!Stale \/ Local!StopMonitor
    BY <2>1, <2>3 DEF Local!Stale, Local!StopMonitor, Local!KeepViewers
  <2>4. CASE Local!Producer
    BY <2>4, ThreadKeepsProducer DEF Local!Producer
  <2>5. ASSUME NEW w \in Watchers,
               \/ Local!try_acquire(w) \/ Local!Prepare(w) \/ Local!start(w) \/ Local!_create_offer(w)
               \/ Local!Ice(w) \/ Local!_connect_watchdog(w) \/ Local!_check_disconnected(w)
               \/ Local!on_ended(w) \/ Local!Hangup(w) \/ Local!stop(w) \/ Local!release(w)
        PROVE  ProducerInv'
    <3>1. Local!KeepMonitor
      BY <2>5, Zenon DEF Local!try_acquire, Local!Prepare, Local!start, Local!_create_offer, Local!Ice,
           Local!_connect_watchdog, Local!_check_disconnected, Local!on_ended, Local!Hangup, Local!stop,
           Local!release
    <3> QED
      BY <2>1, <3>1 DEF Local!KeepMonitor, Local!monitor
  <2>6. CASE UNCHANGED Local!vars
    BY <2>1, <2>6 DEF Local!vars, Local!monitor
  <2> QED
    BY <2>2, <2>3, <2>4, <2>5, <2>6, Zenon DEF Local!Next
<1>3. ProducerInv => OneProducer
  <2>a. \A T : Local!Cardinality(T) = Cardinality(T)
    BY Zenon DEF Local!Cardinality, Cardinality
  <2> SUFFICES ASSUME ProducerInv
               PROVE  Cardinality({g \in 0..1 : v_thread[g] # "dead"}) <= 1
    BY <2>a, Zenon DEF OneProducer, Local!OneProducer
  <2> DEFINE S == {g \in 0..1 : v_thread[g] # "dead"}
  <2>1. S \subseteq {v_gen}
    BY DEF ProducerInv
  <2>2. IsFiniteSet({v_gen}) /\ Cardinality({v_gen}) = 1
    BY FS_Singleton
  <2> QED
    BY <2>1, <2>2, FS_Subset, FS_CardinalityType
<1> QED
  BY <1>1, <1>2, <1>3, PTL DEF Local!Spec

-----------------------------------------------------------------------------
(* The configuration documents that the console's handlers rewrite *)

\* Counting up stays among the natural numbers.
LEMMA Succ == \A n \in Nat : n + 1 \in Nat
OBVIOUS

DevDoc == [Docs!Device -> Nat]
SecDoc == [Docs!Secrets -> Nat]
DocPair == [dev: DevDoc, sec: SecDoc]

\* Before the first rename of a save, and between it and the end of the save.
Untouched == {"idle", "restart", "dev", "dev_rename"}
HalfWay == {"sec", "sec_rename", "undo", "undo_rename"}
SaveOp == [kind: Docs!Kinds \cup {"none"}, step: Untouched \cup HalfWay, new: DocPair, old: DevDoc]

DocsTyped ==
  /\ d_docs \in DocPair /\ d_acked \in DocPair /\ d_op \in SaveOp
  /\ d_draft \in [open: BOOLEAN, docs: DocPair] /\ d_changes \in Nat

\* What the worker of a save knows: its backup is the device document it replaces, a save of
\* one document carries the other as it is, and between the two renames the device document is
\* the new one and everything else what was acknowledged.
SaveKnows ==
  /\ d_op.step \in {"dev", "dev_rename"} =>
       d_op.old = d_docs.dev /\ (d_op.kind = "expert_device" => d_op.new.sec = d_docs.sec)
  /\ d_op.step \in Untouched /\ ~d_excused => d_docs = d_acked
  /\ d_op.step \in HalfWay /\ ~d_excused =>
       /\ d_docs.dev = d_op.new.dev /\ d_docs.sec = d_acked.sec /\ d_op.old = d_acked.dev

DocsInv == DocsTyped /\ SaveKnows

\* A pair is its two documents.
LEMMA SamePair == \A p, q \in DocPair : p.dev = q.dev /\ p.sec = q.sec => p = q
BY DEF DocPair

\* Two documents make a pair.
LEMMA PairOf ==
  /\ \A p \in DocPair, d \in DevDoc :
       /\ [p EXCEPT !.dev = d] \in DocPair
       /\ [p EXCEPT !.dev = d].dev = d /\ [p EXCEPT !.dev = d].sec = p.sec
  /\ \A p \in DocPair, s \in SecDoc :
       /\ [p EXCEPT !.sec = s] \in DocPair
       /\ [p EXCEPT !.sec = s].sec = s /\ [p EXCEPT !.sec = s].dev = p.dev
  /\ \A p \in DocPair : p.dev \in DevDoc /\ p.sec \in SecDoc
  /\ \A d \in DevDoc, s \in SecDoc : [dev |-> d, sec |-> s] \in DocPair
BY DEF DocPair

\* The documents of the image, of an older release, and a changed one are documents.
LEMMA DocsOf ==
  /\ Docs!Defaults \in DocPair /\ Docs!Broken \in DevDoc
  /\ \A d \in DevDoc, v \in Nat : \A S : Docs!Changed(d, S, v) \in DevDoc
  /\ \A s \in SecDoc, v \in Nat : \A S : Docs!Changed(s, S, v) \in SecDoc
<1>1. Docs!Defaults \in DocPair
  BY DEF Docs!Defaults, DocPair, DevDoc, SecDoc
<1>2. DocsChanges + 1 \in Nat
  BY DocsAssumption, Succ, Zenon
<1>3. Docs!Broken \in DevDoc
  BY <1>2 DEF Docs!Broken, DevDoc
<1> QED
  BY <1>1, <1>3 DEF Docs!Changed, DevDoc, SecDoc

\* An idle worker.
LEMMA IdleOf == Docs!Idle \in SaveOp /\ Docs!Idle.step = "idle"
BY DocsOf, PairOf DEF Docs!Idle, SaveOp, Untouched, HalfWay

\* A device as shipped.
LEMMA DocsInit == Docs!Init => DocsInv
<1> SUFFICES ASSUME Docs!Init PROVE DocsInv
  OBVIOUS
<1>1. /\ d_docs = Docs!Defaults /\ d_acked = Docs!Defaults /\ d_op = Docs!Idle
      /\ d_draft = Docs!NoDraft /\ d_changes = 0
  BY DEF Docs!Init
<1>2. d_draft \in [open: BOOLEAN, docs: DocPair]
  BY <1>1, DocsOf DEF Docs!NoDraft
<1>3. DocsTyped
  BY <1>1, <1>2, DocsOf, IdleOf DEF DocsTyped
<1> QED
  BY <1>1, <1>3, IdleOf DEF DocsInv, SaveKnows, Untouched, HalfWay

\* A handler starts a save.
LEMMA SaveStarts ==
  ASSUME DocsInv, d_op = Docs!Idle, NEW kind \in Docs!Kinds, NEW dev \in DevDoc,
         NEW sec \in SecDoc, UNCHANGED <<d_docs, d_acked, d_excused>>,
         d_changes' = d_changes + 1,
         d_op' = [kind |-> kind, step |-> "dev", new |-> [dev |-> dev, sec |-> sec],
                  old |-> d_docs.dev],
         d_draft' \in [open: BOOLEAN, docs: DocPair],
         kind = "expert_device" => sec = d_docs.sec
  PROVE  DocsInv'
<1>2. d_changes' \in Nat
  BY Succ, Zenon DEF DocsInv, DocsTyped
<1>3. d_op' \in SaveOp
  BY PairOf DEF SaveOp, Untouched, DocsInv, DocsTyped
<1>4. DocsTyped'
  BY <1>2, <1>3 DEF DocsInv, DocsTyped
<1>5. d_docs = d_acked \/ d_excused
  BY IdleOf DEF DocsInv, SaveKnows, Untouched
<1> QED
  BY <1>4, <1>5, PairOf DEF DocsInv, SaveKnows, Untouched, HalfWay, DocsTyped

\* The answer ends the save, or goes on to restart the camera; only a success moves what is
\* acknowledged.
LEMMA AnswerEnds ==
  ASSUME DocsInv, NEW ok \in BOOLEAN, Docs!Answer(ok)
  PROVE  /\ d_op' \in SaveOp /\ d_op'.step \in {"idle", "restart"}
         /\ d_acked' = IF ok THEN d_op.new ELSE d_acked
         /\ d_acked' \in DocPair
         /\ ~ok => d_op' = Docs!Idle
BY IdleOf DEF DocsInv, DocsTyped, SaveOp, Untouched, HalfWay, Docs!Answer

\* A save moves on to its next write.
LEMMA StepMoves ==
  ASSUME DocsInv, NEW s \in Untouched \cup HalfWay, d_op' = [d_op EXCEPT !.step = s]
  PROVE  /\ d_op' \in SaveOp /\ d_op'.step = s /\ d_op'.kind = d_op.kind
         /\ d_op'.new = d_op.new /\ d_op'.old = d_op.old
BY DEF DocsInv, DocsTyped, SaveOp

\* A save that has not renamed anything, or that is undone, ends where it began.
LEMMA EndsUnchanged ==
  ASSUME DocsInv, Docs!Answer(FALSE), d_docs' \in DocPair, UNCHANGED <<d_draft, d_changes>>,
         ~d_excused' => d_docs' = d_acked
  PROVE  DocsInv'
<1>1. d_op' = Docs!Idle /\ d_acked' = d_acked
  BY AnswerEnds
<1>2. DocsTyped'
  BY <1>1, IdleOf DEF DocsInv, DocsTyped
<1> QED
  BY <1>1, <1>2, IdleOf DEF DocsInv, SaveKnows, Untouched, HalfWay

\* A temporary file is there: the rename is next, and nothing else has changed.
LEMMA RenameIsNext ==
  ASSUME DocsInv, NEW step \in {"dev", "sec", "undo"}, d_op.step = step,
         d_op' = [d_op EXCEPT !.step = Docs!Renaming[step]],
         UNCHANGED <<d_docs, d_acked, d_draft, d_changes, d_excused>>
  PROVE  DocsInv'
<1>1. PICK s \in {"dev_rename", "sec_rename", "undo_rename"} :
        /\ d_op' = [d_op EXCEPT !.step = s]
        /\ step = "dev" <=> s = "dev_rename"
  BY DEF Docs!Renaming
<1>2. /\ d_op' \in SaveOp /\ d_op'.step = s /\ d_op'.kind = d_op.kind
      /\ d_op'.new = d_op.new /\ d_op'.old = d_op.old
  BY <1>1, StepMoves DEF Untouched, HalfWay
<1>3. DocsTyped'
  BY <1>2 DEF DocsInv, DocsTyped
<1> QED
  BY <1>1, <1>2, <1>3 DEF DocsInv, SaveKnows, Untouched, HalfWay

\* The secrets could not be written: the rollback is next, and nothing else has changed.
LEMMA RollbackIsNext ==
  ASSUME DocsInv, d_op.step \in {"sec", "sec_rename"}, Docs!SecretsFailed,
         UNCHANGED <<d_docs, d_draft, d_changes, d_excused>>
  PROVE  DocsInv'
<1>1. d_op' = [d_op EXCEPT !.step = "undo"] /\ UNCHANGED d_acked
  BY DEF Docs!SecretsFailed, Docs!Rollback
<1>2. d_op' \in SaveOp /\ d_op'.step = "undo" /\ d_op'.new = d_op.new /\ d_op'.old = d_op.old
  BY <1>1, StepMoves DEF HalfWay
<1>3. DocsTyped'
  BY <1>1, <1>2 DEF DocsInv, DocsTyped
<1> QED
  BY <1>1, <1>2, <1>3 DEF DocsInv, SaveKnows, Untouched, HalfWay

\* Every request, every write of a save and every fault.
LEMMA DocsStep == DocsInv /\ (Docs!Next \/ UNCHANGED Docs!vars) => DocsInv'
<1> SUFFICES ASSUME DocsInv, Docs!Next \/ UNCHANGED Docs!vars PROVE DocsInv'
  OBVIOUS
<1>0. d_changes + 1 \in Nat /\ d_docs.dev \in DevDoc /\ d_docs.sec \in SecDoc
  BY Succ, PairOf, Zenon DEF DocsInv, DocsTyped
<1>1. ASSUME NEW kind \in Docs!Kinds \ {"expert_device"}, NEW devs, NEW secs,
             Docs!Put(kind, devs, secs)
      PROVE  DocsInv'
  <2>1. Docs!Save(kind, Docs!Changed(d_docs.dev, devs, d_changes + 1),
                        Docs!Changed(d_docs.sec, secs, d_changes + 1))
    BY <1>1 DEF Docs!Put
  <2>2. d_op = Docs!Idle /\ UNCHANGED <<d_docs, d_acked, d_excused>>
    BY <1>1 DEF Docs!Put
  <2>3. d_draft' \in [open: BOOLEAN, docs: DocPair]
    BY <1>1 DEF Docs!Put, DocsInv, DocsTyped
  <2>4. /\ Docs!Changed(d_docs.dev, devs, d_changes + 1) \in DevDoc
        /\ Docs!Changed(d_docs.sec, secs, d_changes + 1) \in SecDoc
    BY <1>0, DocsOf, Zenon
  <2> QED
    BY <1>1, <2>1, <2>2, <2>3, <2>4, SaveStarts DEF Docs!Save
<1>2. CASE \/ Docs!_handle_integrations_mqtt_put \/ Docs!_handle_integrations_prusa_put
           \/ Docs!set_hostname \/ Docs!_finalize
  BY <1>1, <1>2 DEF Docs!_handle_integrations_mqtt_put, Docs!_handle_integrations_prusa_put,
     Docs!set_hostname, Docs!_finalize, Docs!Kinds
<1>3. CASE Docs!current_config
  <2>1. UNCHANGED <<d_docs, d_op, d_changes, d_acked, d_excused>>
    BY <1>3 DEF Docs!current_config
  <2>2. \E d \in DevDoc : d_draft' = [open |-> TRUE, docs |-> [d_docs EXCEPT !.dev = d]]
    BY <1>0, <1>3, DocsOf, PairOf DEF Docs!current_config, DocsInv, DocsTyped
  <2>3. d_draft' \in [open: BOOLEAN, docs: DocPair]
    BY <2>2, PairOf DEF DocsInv, DocsTyped
  <2> QED
    BY <2>1, <2>3 DEF DocsInv, DocsTyped, SaveKnows
<1>4. CASE Docs!apply_candidate
  <2>1. d_op = Docs!Idle /\ UNCHANGED <<d_docs, d_acked, d_excused>> /\ d_draft' = Docs!NoDraft
    BY <1>4 DEF Docs!apply_candidate
  <2>2. d_draft' \in [open: BOOLEAN, docs: DocPair]
    BY <2>1, DocsOf DEF Docs!NoDraft
  <2>3. d_draft.docs.dev \in DevDoc /\ d_draft.docs.sec \in SecDoc
    BY PairOf DEF DocsInv, DocsTyped
  <2>4. \/ Docs!Save("expert", Docs!Changed(d_draft.docs.dev, Docs!Device, d_changes + 1),
                               Docs!Changed(d_draft.docs.sec, Docs!Secrets, d_changes + 1))
        \/ Docs!Save("expert_device", Docs!Changed(d_draft.docs.dev, {"mqtt"}, d_changes + 1),
                                      d_docs.sec)
    BY <1>4, Zenon DEF Docs!apply_candidate
  <2>5. "expert" # "expert_device" /\ "expert" \in Docs!Kinds /\ "expert_device" \in Docs!Kinds
    BY DEF Docs!Kinds
  <2>6. /\ Docs!Changed(d_draft.docs.dev, Docs!Device, d_changes + 1) \in DevDoc
        /\ Docs!Changed(d_draft.docs.sec, Docs!Secrets, d_changes + 1) \in SecDoc
        /\ Docs!Changed(d_draft.docs.dev, {"mqtt"}, d_changes + 1) \in DevDoc
    BY <1>0, <2>3, DocsOf, Zenon
  <2> QED
    BY <1>0, <2>1, <2>2, <2>4, <2>5, <2>6, SaveStarts DEF Docs!Save
<1>5. CASE Docs!CreateDevice
  <2>1. d_op.step = "dev" /\ UNCHANGED <<d_docs, d_draft, d_changes, d_excused>>
    BY <1>5, Zenon DEF Docs!CreateDevice, Docs!Create
  <2>2. CASE d_op' = [d_op EXCEPT !.step = Docs!Renaming["dev"]] /\ UNCHANGED d_acked
    BY <2>1, <2>2, RenameIsNext
  <2>3. CASE Docs!Answer(FALSE)
    BY <2>1, <2>3, EndsUnchanged DEF DocsInv, SaveKnows, DocsTyped, Untouched
  <2> QED
    BY <1>5, <2>2, <2>3, Zenon DEF Docs!CreateDevice, Docs!Create
<1>6. CASE Docs!CreateSecrets
  <2>1. d_op.step = "sec" /\ UNCHANGED <<d_docs, d_draft, d_changes, d_excused>>
    BY <1>6, Zenon DEF Docs!CreateSecrets, Docs!Create
  <2>2. CASE d_op' = [d_op EXCEPT !.step = Docs!Renaming["sec"]] /\ UNCHANGED d_acked
    BY <2>1, <2>2, RenameIsNext
  <2>3. CASE Docs!SecretsFailed
    BY <2>1, <2>3, RollbackIsNext
  <2> QED
    BY <1>6, <2>2, <2>3, Zenon DEF Docs!CreateSecrets, Docs!Create
<1>7. CASE Docs!RenameDevice
  <2>1. d_op.step = "dev_rename" /\ UNCHANGED <<d_draft, d_changes, d_excused>>
    BY <1>7 DEF Docs!RenameDevice
  <2>2. CASE /\ d_docs' = [d_docs EXCEPT !.dev = d_op.new.dev] /\ d_op.kind = "expert_device"
             /\ Docs!Answer(TRUE)
    <3>1. d_docs' = d_op.new
      <4>1. d_op.new \in DocPair /\ d_op.new.sec = d_docs.sec
        BY <2>1, <2>2 DEF DocsInv, DocsTyped, SaveKnows, SaveOp
      <4>2. d_op.new.dev \in DevDoc /\ d_docs \in DocPair
        BY <4>1, PairOf DEF DocsInv, DocsTyped
      <4>3. d_docs' \in DocPair /\ d_docs'.dev = d_op.new.dev /\ d_docs'.sec = d_docs.sec
        BY <2>2, <4>2, PairOf
      <4> QED
        BY <4>1, <4>3, SamePair
    <3>2. d_acked' = d_op.new /\ d_op' \in SaveOp /\ d_op'.step \in {"idle", "restart"}
      BY <2>2, AnswerEnds
    <3>3. DocsTyped'
      BY <2>1, <3>1, <3>2 DEF DocsInv, DocsTyped, SaveOp
    <3> QED
      BY <3>1, <3>2, <3>3 DEF DocsInv, SaveKnows, Untouched, HalfWay
  <2>3. CASE /\ d_docs' = [d_docs EXCEPT !.dev = d_op.new.dev] /\ UNCHANGED d_acked
             /\ d_op' = [d_op EXCEPT !.step = "sec"]
    <3>1. d_op.new.dev \in DevDoc
      BY PairOf DEF DocsInv, DocsTyped, SaveOp
    <3>2. d_docs' \in DocPair /\ d_docs'.dev = d_op.new.dev /\ d_docs'.sec = d_docs.sec
      BY <2>3, <3>1, PairOf DEF DocsInv, DocsTyped
    <3>3. d_op' \in SaveOp /\ d_op'.step = "sec" /\ d_op'.new = d_op.new /\ d_op'.old = d_op.old
      BY <2>3, StepMoves DEF HalfWay
    <3>4. DocsTyped'
      BY <2>1, <2>3, <3>2, <3>3 DEF DocsInv, DocsTyped
    <3> QED
      BY <2>1, <2>3, <3>2, <3>3, <3>4 DEF DocsInv, SaveKnows, Untouched, HalfWay
  <2>4. CASE Docs!Answer(FALSE) /\ UNCHANGED d_docs
    BY <2>1, <2>4, EndsUnchanged DEF DocsInv, SaveKnows, DocsTyped, Untouched
  <2> QED
    BY <1>7, <2>2, <2>3, <2>4, Zenon DEF Docs!RenameDevice
<1>8. CASE Docs!RenameSecrets
  <2>1. d_op.step = "sec_rename" /\ UNCHANGED <<d_draft, d_changes, d_excused>>
    BY <1>8 DEF Docs!RenameSecrets
  <2>2. CASE d_docs' = [d_docs EXCEPT !.sec = d_op.new.sec] /\ Docs!Answer(TRUE)
    <3>1. d_docs' \in DocPair /\ (~d_excused => d_docs' = d_op.new)
      <4>1. d_op.new \in DocPair /\ (~d_excused => d_op.new.dev = d_docs.dev)
        BY <2>1 DEF DocsInv, DocsTyped, SaveKnows, SaveOp, HalfWay
      <4>2. d_op.new.sec \in SecDoc /\ d_docs \in DocPair
        BY <4>1, PairOf DEF DocsInv, DocsTyped
      <4>3. d_docs' \in DocPair /\ d_docs'.sec = d_op.new.sec /\ d_docs'.dev = d_docs.dev
        BY <2>2, <4>2, PairOf
      <4> QED
        BY <4>1, <4>3, SamePair
    <3>2. d_acked' = d_op.new /\ d_op' \in SaveOp /\ d_op'.step \in {"idle", "restart"}
      BY <2>2, AnswerEnds
    <3>3. DocsTyped'
      BY <2>1, <3>1, <3>2 DEF DocsInv, DocsTyped, SaveOp
    <3> QED
      BY <2>1, <3>1, <3>2, <3>3 DEF DocsInv, SaveKnows, Untouched, HalfWay
  <2>3. CASE Docs!SecretsFailed /\ UNCHANGED d_docs
    BY <2>1, <2>3, RollbackIsNext
  <2> QED
    BY <1>8, <2>2, <2>3, Zenon DEF Docs!RenameSecrets
<1>9. CASE Docs!_restore_text
  <2>1. CASE /\ Docs!Create("dev", "undo", Docs!Answer(FALSE))
             /\ d_excused' = (d_excused \/ d_op'.step = "idle")
    <3>1. d_op.step = "undo" /\ UNCHANGED <<d_docs, d_draft, d_changes>>
      BY <2>1, Zenon DEF Docs!Create
    <3>2. CASE d_op' = [d_op EXCEPT !.step = Docs!Renaming["undo"]] /\ UNCHANGED d_acked
      <4>1. d_op'.step = "undo_rename"
        BY <3>2 DEF Docs!Renaming, DocsInv, DocsTyped, SaveOp
      <4>2. d_excused' <=> d_excused
        BY <2>1, <4>1
      <4>3. d_op' \in SaveOp /\ d_op'.new = d_op.new /\ d_op'.old = d_op.old
        BY <3>2, StepMoves DEF Docs!Renaming, HalfWay
      <4>4. DocsTyped'
        BY <3>1, <3>2, <4>3 DEF DocsInv, DocsTyped
      <4> QED
        BY <3>1, <3>2, <4>1, <4>2, <4>3, <4>4 DEF DocsInv, SaveKnows, Untouched, HalfWay
    <3>3. CASE Docs!Answer(FALSE)
      <4>1. d_excused'
        BY <2>1, <3>3, AnswerEnds, IdleOf
      <4> QED
        BY <3>1, <3>3, <4>1, EndsUnchanged DEF DocsInv, DocsTyped
    <3> QED
      BY <2>1, <3>2, <3>3, Zenon DEF Docs!Create
  <2>2. CASE /\ d_op.step = "undo_rename" /\ Docs!Answer(FALSE) /\ UNCHANGED <<d_draft, d_changes>>
             /\ d_docs' = [d_docs EXCEPT !.dev = d_op.old] /\ UNCHANGED d_excused
    <3>1. d_docs' \in DocPair /\ d_docs'.dev = d_op.old /\ d_docs'.sec = d_docs.sec
      BY <2>2, PairOf DEF DocsInv, DocsTyped, SaveOp
    <3>2. ~d_excused' => d_docs' = d_acked
      <4>1. ~d_excused => d_docs.sec = d_acked.sec /\ d_op.old = d_acked.dev
        BY <2>2 DEF DocsInv, SaveKnows, HalfWay
      <4>2. d_acked \in DocPair
        BY DEF DocsInv, DocsTyped
      <4> QED
        BY <2>2, <3>1, <4>1, <4>2, SamePair
    <3> QED
      BY <2>2, <3>1, <3>2, EndsUnchanged
  <2>3. CASE /\ Docs!Answer(FALSE) /\ UNCHANGED <<d_draft, d_changes, d_docs>>
             /\ d_excused' = TRUE
    BY <2>3, EndsUnchanged DEF DocsInv, DocsTyped
  <2> QED
    BY <1>9, <2>1, <2>2, <2>3, Zenon DEF Docs!_restore_text
<1>10. CASE Docs!_restart_camera
  <2>1. /\ d_op.step = "restart" /\ d_op' = Docs!Idle
        /\ UNCHANGED <<d_docs, d_draft, d_changes, d_acked, d_excused>>
    BY <1>10 DEF Docs!_restart_camera
  <2> QED
    BY <2>1, IdleOf DEF DocsInv, DocsTyped, SaveKnows, Untouched, HalfWay
<1>11. CASE Docs!load_appliance_config \/ Docs!CameraRestarts \/ UNCHANGED Docs!vars
  <2>1. UNCHANGED <<d_docs, d_op, d_draft, d_changes, d_acked, d_excused>>
    BY <1>11, Zenon DEF Docs!load_appliance_config, Docs!CameraRestarts, Docs!vars
  <2> QED
    BY <2>1 DEF DocsInv, DocsTyped, SaveKnows
<1>12. CASE Docs!PowerCut
  <2>1. /\ d_acked' = d_docs /\ d_op' = Docs!Idle /\ d_draft' = Docs!NoDraft
        /\ UNCHANGED <<d_docs, d_changes>>
    BY <1>12 DEF Docs!PowerCut
  <2>2. d_draft' \in [open: BOOLEAN, docs: DocPair]
    BY <2>1, DocsOf DEF Docs!NoDraft
  <2> QED
    BY <2>1, <2>2, IdleOf DEF DocsInv, DocsTyped, SaveKnows, Untouched, HalfWay
<1>13. CASE Docs!Downgrade
  <2>1. /\ d_op = Docs!Idle /\ d_docs' = [d_docs EXCEPT !.dev = Docs!Broken]
        /\ d_acked' = [d_acked EXCEPT !.dev = Docs!Broken]
        /\ UNCHANGED <<d_op, d_draft, d_changes, d_excused>>
    BY <1>13 DEF Docs!Downgrade
  <2>2. d_docs' \in DocPair /\ d_acked' \in DocPair
    BY <2>1, DocsOf, PairOf DEF DocsInv, DocsTyped
  <2>3. ~d_excused => d_docs' = d_acked'
    BY <2>1, IdleOf DEF DocsInv, SaveKnows, Untouched
  <2> QED
    BY <2>1, <2>2, <2>3, IdleOf DEF DocsInv, DocsTyped, SaveKnows, Untouched, HalfWay
<1> QED
  BY <1>2, <1>3, <1>4, <1>5, <1>6, <1>7, <1>8, <1>9, <1>10, <1>11, <1>12, <1>13 DEF Docs!Next

\* Between requests the two documents are those the acknowledged requests made: a refused or
\* failed save (config_schema.save_pair, expert_config.apply_candidate) changes neither and no handler
\* loses what another saved, unless the power was cut between the two renames or the rollback
\* failed itself.
THEOREM DocumentsAreAcknowledged == Docs!Spec => []StoredIsAcked
<1>1. Docs!Init => DocsInv
  BY DocsInit
<1>2. DocsInv /\ [Docs!Next]_(Docs!vars) => DocsInv'
  BY DocsStep
<1>3. DocsInv => StoredIsAcked
  BY DEF DocsInv, SaveKnows, Untouched, StoredIsAcked, Docs!StoredIsAcked
<1> QED
  BY <1>1, <1>2, <1>3, PTL DEF Docs!Spec
=============================================================================
