------------------------------- MODULE WebAuth -------------------------------
(* Web authentication: the password file and its cache (AuthStore), the       *)
(* sessions and the login rate limiter of webui/auth.py, driven by the        *)
(* handlers of webui/app.py.                                                  *)
(*                                                                            *)
(* The async handlers share one event loop: a handler runs alone between two  *)
(* awaits, here the reading of the form, so each is two actions. The handlers *)
(* that render pages run in a thread pool and use the password file at the    *)
(* same time, and so does scripts/reset_admin_password.py, a process of its   *)
(* own. A hash is its generation, since each has a new salt; the limiter's    *)
(* entry is that of the one address all browsers share.                       *)
EXTENDS Naturals, Sequences, FiniteSets, Functions

CONSTANTS
    Browsers,
    Passwords,    \* passwords people use, the empty one among them
    Lifetime,     \* of a session
    MaxFailures,  \* LoginRateLimiter.max_failures
    Cooldown,     \* LoginRateLimiter.cooldown_seconds
    MaxGen,       \* bound: passwords set
    MaxSessions,  \* bound: sessions opened
    MaxAttempts,  \* bound: failed logins since the last successful one
    MaxTime       \* bound: the clock

ASSUME NumbersAssumption ==
    /\ Lifetime \in Nat /\ Cooldown \in Nat /\ MaxGen \in Nat
    /\ MaxFailures \in Nat \ {0}

VARIABLES
    stored,       \* the password file: generation and password, or NoPassword
    cache,        \* _empty_password_cache
    setting,      \* the hash set_password has written but not yet cached, or NoPassword
    sessions,     \* the open sessions, by token
    cookie,       \* the session cookie of each browser, 0 when it has none
    request,      \* the handler that awaits each browser's form
    failures,     \* the limiter's entry
    reader,       \* the page thread that computes authentication_disabled
    changes,      \* number of passwords set through the web so far
    failed,       \* times of the failed logins since the last successful one
    opened,       \* number of sessions opened so far
    now

vars == <<stored, cache, setting, sessions, cookie, request, failures, reader,
          changes, failed, opened, now>>
login == <<cookie, failures, failed, opened>>

Empty == "empty"
NoPassword == [gen |-> 0, pw |-> "none"]
NoEntry == [count |-> 0, until |-> 0]

Init ==
    /\ stored = NoPassword /\ setting = NoPassword
    /\ cache = [gen |-> 0, empty |-> FALSE]
    /\ sessions = <<>> /\ cookie = [b \in Browsers |-> 0]
    /\ request = [b \in Browsers |-> "none"]
    /\ failures = NoEntry /\ failed = <<>>
    /\ reader = [pc |-> "idle", gen |-> 0, empty |-> FALSE]
    /\ changes = 0 /\ opened = 0 /\ now = 0

(* ---------------------------------- store --------------------------------- *)
Configured == stored # NoPassword
Verify(password) == Configured /\ password = stored.pw

(* authentication_disabled, as the event loop evaluates it. *)
Disabled == Configured /\ IF cache.gen = stored.gen THEN cache.empty ELSE Verify(Empty)

LoopFree == setting = NoPassword

(* The same in a page thread, step by step: the hash is read twice. *)
ReaderReads ==
    /\ reader.pc = "idle"
    /\ IF ~Configured
       THEN cache' = [gen |-> 0, empty |-> FALSE] /\ UNCHANGED reader
       ELSE /\ cache.gen # stored.gen
            /\ reader' = [reader EXCEPT !.pc = "verify", !.gen = stored.gen]
            /\ UNCHANGED cache
    /\ UNCHANGED <<stored, setting, sessions, request, changes, now, login>>

ReaderVerifies ==
    /\ reader.pc = "verify"
    /\ reader' = [reader EXCEPT !.pc = "store", !.empty = Verify(Empty)]
    /\ UNCHANGED <<stored, cache, setting, sessions, request, changes, now, login>>

(* Mutant: the cache is keyed by the hash in the file at this moment. *)
CacheKeyNow == stored.gen

(* The cache is keyed by the hash read first. *)
CacheKey == reader.gen

ReaderStores ==
    /\ reader.pc = "store"
    /\ cache' = [gen |-> CacheKey, empty |-> reader.empty]
    /\ reader' = [reader EXCEPT !.pc = "idle"]
    /\ UNCHANGED <<stored, setting, sessions, request, changes, now, login>>

(* set_password replaces the file ... *)
Replace(password) ==
    /\ stored.gen < MaxGen
    /\ stored' = [gen |-> stored.gen + 1, pw |-> password]

(* Mutant: sessions survive a change of the password. *)
SessionsAfterSetKept == sessions

SessionsAfterSet == <<>>

(* ... and caches what it wrote; the handler then ends every session. *)
SetFinishes ==
    /\ ~LoopFree
    /\ cache' = [gen |-> setting.gen, empty |-> setting.pw = Empty]
    /\ sessions' = SessionsAfterSet
    /\ changes' = changes + 1
    /\ setting' = NoPassword
    /\ UNCHANGED <<stored, request, reader, now, login>>

(* scripts/reset_admin_password.py; it leaves the sessions of the running     *)
(* process alone, and tells the operator to restart the service.              *)
CommandLineReset(password) ==
    /\ Replace(password)
    /\ UNCHANGED <<cache, setting, sessions, request, reader, changes, now, login>>

(* --------------------------------- limiter -------------------------------- *)
Limited == failures.count >= MaxFailures /\ now < failures.until
Expired == failures.until # 0 /\ now >= failures.until

(* Mutant: a failure during the cooldown does not extend it. *)
AfterFailureOnce ==
    LET count == IF Expired THEN 1 ELSE failures.count + 1
    IN [count |-> count,
        until |-> IF count = MaxFailures THEN now + Cooldown ELSE IF Expired THEN 0 ELSE failures.until]

AfterFailure ==
    LET count == IF Expired THEN 1 ELSE failures.count + 1
    IN [count |-> count,
        until |-> IF count >= MaxFailures THEN now + Cooldown ELSE IF Expired THEN 0 ELSE failures.until]

(* --------------------------------- handlers ------------------------------- *)
Live(b) == cookie[b] \in DOMAIN sessions /\ sessions[cookie[b]].expires > now

Await(b, handler) == request[b] = "none" /\ LoopFree /\ request' = [request EXCEPT ![b] = handler]
Resume(b, handler) == request[b] = handler /\ LoopFree /\ request' = [request EXCEPT ![b] = "none"]

LoginBegins(b) ==
    /\ Await(b, "login")
    /\ Configured /\ ~Disabled /\ ~Limited
    /\ failures' = IF Expired THEN NoEntry ELSE failures
    /\ UNCHANGED <<stored, cache, setting, sessions, cookie, reader, changes, failed, opened, now>>

LoginSucceeds(b, password) ==
    /\ Resume(b, "login")
    /\ Verify(password)
    /\ opened < MaxSessions
    /\ opened' = opened + 1
    /\ sessions' = [t \in DOMAIN sessions \cup {opened'} |->
                      IF t = opened' THEN [expires |-> now + Lifetime, changes |-> changes] ELSE sessions[t]]
    /\ cookie' = [cookie EXCEPT ![b] = opened']
    /\ failures' = NoEntry /\ failed' = <<>>
    /\ UNCHANGED <<stored, cache, setting, reader, changes, now>>

LoginFails(b, password) ==
    /\ Resume(b, "login")
    /\ ~Verify(password)
    /\ Len(failed) < MaxAttempts
    /\ failures' = AfterFailure /\ failed' = Append(failed, now)
    /\ UNCHANGED <<stored, cache, setting, sessions, cookie, reader, changes, opened, now>>

SetupBegins(b) ==
    /\ Await(b, "setup")
    /\ ~Configured
    /\ UNCHANGED <<stored, cache, setting, sessions, reader, changes, now, login>>

Sets(b, handler, password) ==
    /\ Resume(b, handler)
    /\ Replace(password)
    /\ setting' = stored'
    /\ UNCHANGED <<cache, sessions, reader, changes, now, login>>

SetupEnds(b, password) == Sets(b, "setup", password)

(* require_csrf: the token of a live session, or the anonymous one. *)
ChangeBegins(b) ==
    /\ Await(b, "change")
    /\ Disabled \/ (Configured /\ Live(b))
    /\ UNCHANGED <<stored, cache, setting, sessions, reader, changes, now, login>>

ChangeEnds(b, current, password) == Verify(current) /\ Sets(b, "change", password)

(* The form is refused: the two new passwords differ, or the current one is wrong. *)
FormRefused(b) ==
    /\ \E handler \in {"setup", "change"} : Resume(b, handler)
    /\ UNCHANGED <<stored, cache, setting, sessions, reader, changes, now, login>>

Logout(b) ==
    /\ LoopFree /\ ~Disabled /\ Live(b)
    /\ sessions' = Restrict(sessions, DOMAIN sessions \ {cookie[b]})
    /\ cookie' = [cookie EXCEPT ![b] = 0]
    /\ UNCHANGED <<stored, cache, setting, request, failures, reader, changes, failed, opened, now>>

(* SessionManager.get drops an expired session when it is asked for it. *)
Visit(b) ==
    /\ LoopFree /\ Configured /\ ~Disabled
    /\ cookie[b] \in DOMAIN sessions /\ ~Live(b)
    /\ sessions' = Restrict(sessions, DOMAIN sessions \ {cookie[b]})
    /\ UNCHANGED <<stored, cache, setting, request, reader, changes, now, login>>

Tick == now < MaxTime /\ now' = now + 1
        /\ UNCHANGED <<stored, cache, setting, sessions, request, reader, changes, login>>

Next ==
    \/ ReaderReads \/ ReaderVerifies \/ ReaderStores \/ SetFinishes \/ Tick
    \/ \E password \in Passwords : CommandLineReset(password)
    \/ \E b \in Browsers :
         \/ LoginBegins(b) \/ SetupBegins(b) \/ ChangeBegins(b) \/ FormRefused(b)
         \/ Logout(b) \/ Visit(b)
         \/ \E password \in Passwords :
              \/ LoginSucceeds(b, password) \/ LoginFails(b, password) \/ SetupEnds(b, password)
              \/ \E current \in Passwords : ChangeEnds(b, current, password)

Spec == Init /\ [][Next]_vars

(* ------------------------------- properties ------------------------------- *)
TypeOK ==
    /\ stored \in [gen : 0..MaxGen, pw : Passwords \cup {"none"}]
    /\ \A b \in Browsers : cookie[b] \in 0..opened
    /\ \A t \in DOMAIN sessions : t \in 1..opened /\ sessions[t].expires <= now + Lifetime
    /\ failures.until <= now + Cooldown

(* Every session was opened under the password set last through the web: a    *)
(* change ends all earlier ones, also one whose login was already under way.  *)
SessionsAreCurrent == \A t \in DOMAIN sessions : sessions[t].changes = changes

(* The cached answer for the hash in the file is right, whatever page threads,*)
(* the event loop and the command line do to file and cache at the same time. *)
CacheTruthful == cache.gen = stored.gen /\ Configured => cache.empty = (stored.pw = Empty)

(* Nobody is logged in, and nothing is cached, under an earlier password.     *)
AuthInv ==
    /\ TypeOK
    /\ SessionsAreCurrent
    /\ CacheTruthful

(* A login is refused when MaxFailures of the logins since the last success   *)
(* failed within the cooldown. It is refused only if that many failed since   *)
(* then and the last within the cooldown: failures that block nobody are      *)
(* never forgotten (LoginRateLimiter.failure).                                *)
RecentFailures == Cardinality({i \in DOMAIN failed : failed[i] + Cooldown > now})
LimiterMatches ==
    /\ RecentFailures >= MaxFailures => Limited
    /\ Limited => RecentFailures > 0 /\ Len(failed) >= MaxFailures
==============================================================================
