------------------------------ MODULE Console ------------------------------
(***************************************************************************)
(* The policy core of the admin console: the session table and the login   *)
(* limiter (app/admin_auth.py), the route policies and the re-auth windows *)
(* (app/admin_http.py).  One worker thread runs the core, so a request is  *)
(* one step; what interleaves is the requests of several browsers, the     *)
(* clock and a restart of the console.                                     *)
(***************************************************************************)
EXTENDS Integers, Sequences, FiniteSets, FiniteSetsExt, Functions, TLC

CONSTANTS
  Peers,           \* the addresses the limiter tells apart
  MaxLogins,       \* bound on sessions ever made; tokens are 1..MaxLogins
  MaxClock,        \* bound on the clock
  MaxFailures,     \* bound on the wrong passwords of a peer since its last right one
  max_sessions,    \* bound on the session table
  max_keys,        \* bound on the limiter's table
  idle_ttl, absolute_ttl,
  REAUTH_WINDOW,
  max_attempts, window, lockout, max_lockout

ASSUME ConsoleAssumption ==
  /\ {MaxLogins, MaxClock, MaxFailures} \subseteq Nat
  /\ {max_sessions, max_keys, idle_ttl, absolute_ttl, REAUTH_WINDOW,
      max_attempts, window, lockout, max_lockout} \subseteq Nat \ {0}

Tokens == 1..MaxLogins
PeerSymmetry == Permutations(Peers)
None == -1

VARIABLES
  now,
  sessions,    \* token -> [created, seen]; proved is a ghost: when the session's holder
               \* last gave the right password
  entries,     \* peer -> [failures, locked, streak], only the peers with an entry
  reauth_at,   \* token -> when its password was last checked
  logins,
  failed,      \* ghost: peer -> every failure since its last success
  did          \* ghost: the last request, if it reached a handler behind a re-auth policy

table == <<sessions, entries, reauth_at>>
vars == <<now, table, logins, failed, did>>

Idle == [op |-> "none", token |-> 0]

Init ==
  /\ now = 0
  /\ sessions = <<>> /\ entries = <<>> /\ reauth_at = <<>>
  /\ logins = 0
  /\ failed = [p \in Peers |-> <<>>]
  /\ did = Idle

Without(f, S) == Restrict(f, DOMAIN f \ S)
With(f, k, v) == [x \in DOMAIN f \cup {k} |-> IF x = k THEN v ELSE f[x]]

(***************************************************************************)
(* SessionStore                                                            *)
(***************************************************************************)
Expired(r) == now - r.created >= absolute_ttl \/ now - r.seen >= idle_ttl

\* validate: a live session is refreshed, an expired one removed.
Live(t) == t \in DOMAIN sessions /\ ~Expired(sessions[t])
validate(t) ==
  CASE Live(t) -> [sessions EXCEPT ![t].seen = now]
    [] t \in DOMAIN sessions /\ Expired(sessions[t]) -> Without(sessions, {t})
    [] OTHER -> sessions

_prune_sessions == Restrict(sessions, {t \in DOMAIN sessions : ~Expired(sessions[t])})

\* Unseen for longer; of sessions last seen together, made earlier.
Older(s, t, u) == s[t].seen < s[u].seen \/ (s[t].seen = s[u].seen /\ t < u)

_evict_oldest(s) == Without(s, {t \in DOMAIN s : \A u \in DOMAIN s \ {t} : Older(s, t, u)})

create(t) ==
  LET s == With(_prune_sessions, t, [created |-> now, seen |-> now, proved |-> None])
  IN IF Cardinality(DOMAIN s) > max_sessions THEN _evict_oldest(s) ELSE s

(***************************************************************************)
(* LoginRateLimiter                                                        *)
(***************************************************************************)
Recent(failures) == SelectSeq(failures, LAMBDA t : now - t < window)

_activity(e) == IF e.failures = <<>> THEN e.locked
                ELSE Max({e.failures[Len(e.failures)], e.locked})

\* Entries without recent failures and lock go; then the least active ones
\* beyond the bound (ties in any order).
_prune(es) ==
  LET fresh == [p \in DOMAIN es |-> [es[p] EXCEPT !.failures = Recent(es[p].failures)]]
      live == {p \in DOMAIN es : fresh[p].failures # <<>> \/ fresh[p].locked > now}
      kept == {S \in SUBSET live :
                 /\ Cardinality(S) = Min({Cardinality(live), max_keys})
                 /\ \A p \in S, q \in live \ S : _activity(fresh[p]) >= _activity(fresh[q])}
  IN {Restrict(fresh, S) : S \in kept}

Locked(es, p) == p \in DOMAIN es /\ es[p].locked > now

record_failure(es, p) ==
  LET e == IF p \in DOMAIN es THEN es[p] ELSE [failures |-> <<>>, locked |-> 0, streak |-> 0]
      failures == Recent(Append(e.failures, now))
      over == Len(failures) >= max_attempts
      streak == IF over THEN e.streak + 1 ELSE e.streak
  IN _prune(With(es, p,
       [failures |-> failures, streak |-> streak,
        locked |-> IF over THEN now + Min({lockout * 2^(streak - 1), max_lockout}) ELSE e.locked]))

record_success(es, p) == Without(es, {p})

(***************************************************************************)
(* Requests                                                                *)
(***************************************************************************)
\* The route table, one operation for each way a route treats the core's state:
\* `view` and `change` are the authenticated routes without and with a CSRF token,
\* `reauth` those that take the password, `window` those that take the window only.
Ops == {"view", "change", "logout", "reauth", "window"}
Policy(op) ==
  CASE op \in {"view", "change", "logout"} -> "authenticated"
    [] op = "reauth" -> "reauth_required"
    [] op = "window" -> "reauth_window_only"
Mutating(op) == op # "view"

\* _handle_login: the limiter first, then the password.
_handle_login(p, right) ==
  /\ \E es \in _prune(entries) :
       \/ /\ Locked(es, p)
          /\ entries' = es
          /\ UNCHANGED <<sessions, logins, failed>>
       \/ /\ ~Locked(es, p) /\ right /\ logins < MaxLogins
          /\ entries' = record_success(es, p)
          /\ logins' = logins + 1
          /\ sessions' = create(logins + 1)
          /\ failed' = [failed EXCEPT ![p] = <<>>]
       \/ /\ ~Locked(es, p) /\ ~right /\ Len(failed[p]) < MaxFailures
          /\ entries' \in record_failure(es, p)
          /\ failed' = [failed EXCEPT ![p] = Append(@, now)]
          /\ UNCHANGED <<sessions, logins>>
  /\ did' = Idle
  /\ UNCHANGED <<now, reauth_at>>

\* Mutant: the window belongs to the console, not to the session.
FreshForAll(s) ==
  IF \E u \in DOMAIN reauth_at : now - reauth_at[u] < REAUTH_WINDOW
  THEN [u \in DOMAIN s |-> now] ELSE <<>>

\* _prune_reauth: what is left of the windows of the sessions in s.
_prune_reauth(s) ==
  Restrict(reauth_at, {u \in DOMAIN reauth_at : now - reauth_at[u] < REAUTH_WINDOW /\ u \in DOMAIN s})

\* Only one handler changes what _authorize has left: the logout.
Handle(op, t, s, r) ==
  /\ did' = IF Policy(op) = "authenticated" THEN Idle ELSE [op |-> op, token |-> t]
  /\ \/ op = "logout" /\ sessions' = Without(s, {t}) /\ reauth_at' = Without(r, {t})
     \/ op # "logout" /\ sessions' = s /\ reauth_at' = r

Refuse(s, r) == sessions' = s /\ reauth_at' = r /\ did' = Idle

\* _authorize and the handler: session, windows, CSRF token, then the policy.
_dispatch(op, t) ==
  LET s == validate(t)
      r == IF Live(t) THEN _prune_reauth(s) ELSE reauth_at
      fresh == t \in DOMAIN r
  IN /\ \/ \* no session, or no CSRF token on a mutating request
           Refuse(s, r) /\ (~Live(t) \/ Mutating(op)) /\ UNCHANGED <<entries, failed>>
        \/ /\ Live(t) /\ (Policy(op) = "authenticated" \/ fresh)
           /\ Handle(op, t, s, r) /\ UNCHANGED <<entries, failed>>
        \/ /\ Live(t) /\ Policy(op) = "reauth_required" /\ ~fresh
           /\ \E p \in Peers, right \in BOOLEAN, es \in _prune(entries) :
                \/ /\ Locked(es, p) /\ entries' = es
                   /\ Refuse(s, r) /\ UNCHANGED failed
                \/ /\ ~Locked(es, p) /\ right
                   /\ entries' = record_success(es, p)
                   /\ Handle(op, t, [s EXCEPT ![t].proved = now], With(r, t, now))
                   /\ failed' = [failed EXCEPT ![p] = <<>>]
                \/ /\ ~Locked(es, p) /\ ~right /\ Len(failed[p]) < MaxFailures
                   /\ entries' \in record_failure(es, p)
                   /\ Refuse(s, r)
                   /\ failed' = [failed EXCEPT ![p] = Append(@, now)]
     /\ UNCHANGED <<now, logins>>

Tick ==
  /\ now < MaxClock /\ now' = now + 1 /\ did' = Idle
  /\ UNCHANGED <<table, logins, failed>>

\* Everything but the clock is in the memory of the console's process.
Restart ==
  /\ sessions' = <<>> /\ entries' = <<>> /\ reauth_at' = <<>>
  /\ failed' = [p \in Peers |-> <<>>] /\ did' = Idle
  /\ UNCHANGED <<now, logins>>

Login == \E p \in Peers, right \in BOOLEAN : _handle_login(p, right)
\* 0 stands for every token that is not in the table.
Request == \E op \in Ops, t \in DOMAIN sessions \cup {0} : _dispatch(op, t)
Next == Login \/ Request \/ Tick \/ Restart
Spec == Init /\ [][Next]_vars

(***************************************************************************)
(* Properties                                                              *)
(***************************************************************************)
\* The only type invariant of this module; both tables keep their bound.
TypeOK ==
  /\ now \in 0..MaxClock
  /\ DOMAIN sessions \subseteq Tokens /\ Cardinality(DOMAIN sessions) <= max_sessions
  /\ \A t \in DOMAIN sessions : sessions[t].created <= sessions[t].seen /\ sessions[t].seen <= now
  /\ DOMAIN entries \subseteq Peers /\ Cardinality(DOMAIN entries) <= max_keys
  /\ DOMAIN reauth_at \subseteq Tokens

\* A request that reaches a re-auth handler comes from a session that is still in
\* the table (unless the request ended it) and whose own holder gave the password
\* less than a window ago: no other session's proof, no earlier one and no
\* refresh by use opens it.
PrivilegedNeedsOwnProof ==
  did # Idle =>
    /\ did.token \in DOMAIN sessions
    /\ sessions[did.token].proved # None
    /\ sessions[did.token].seen - sessions[did.token].proved < REAUTH_WINDOW

\* The session a login has just made survives that login, at any load of the table.
NewSessionSurvives == [][logins' # logins => logins' \in DOMAIN sessions']_vars

\* A peer is only ever locked out for max_attempts wrong passwords of its own within
\* one window, none before its last right one, and for max_lockout at most.
LockoutIsEarned ==
  \A p \in Peers : Locked(entries, p) =>
    \E i \in DOMAIN failed[p] :
      /\ entries[p].locked <= failed[p][i] + max_lockout
      /\ Cardinality({j \in 1..i : failed[p][i] - failed[p][j] < window}) >= max_attempts
=============================================================================
