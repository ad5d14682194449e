---------------------------- MODULE PendingConfirm ----------------------------
(* The two-step changes of webui/app.py: an import of a configuration and a   *)
(* change of the network settings are first validated and kept under a token, *)
(* and made when the token is confirmed. The token is bound to the scope of   *)
(* the request, its session if it has one, and expires.                       *)
(*                                                                            *)
(* Handlers run on one event loop and await the form between the check of the *)
(* CSRF token and everything else, so each is two actions; what happens to    *)
(* the session and to the token in between is the point. Any number of POSTs  *)
(* may be under way, from any browser and with any token.                     *)
EXTENDS Naturals, Functions, FiniteSets

CONSTANTS
    Browsers,
    Posts,        \* the POSTs that may be under way at a time
    Lifetime,     \* of a token of each kind: IMPORT_TTL and 300 s
    MaxTokens,    \* bound: tokens given out
    MaxSessions,  \* bound: sessions opened
    MaxTime       \* bound: the clock

Kinds == {"import", "network"}
ASSUME LifetimeAssumption == Lifetime \in [Kinds -> Nat]

VARIABLES
    open,      \* the sessions that are open
    disabled,  \* authentication is disabled by an empty password
    session,   \* the session cookie of each browser
    request,   \* the handler of each POST, awaiting its form
    pending,   \* the changes waiting for confirmation, by token
    done,      \* the changes made: token, how often, whether late, the session of each step
    opened,    \* number of sessions opened so far
    tokens,    \* number of tokens given out so far
    now

vars == <<open, disabled, session, request, pending, done, opened, tokens, now>>
people == <<open, disabled, session, opened, now>>

NoRequest == [op |-> "none", kind |-> "import", token |-> 0, cookie |-> 0]

Init ==
    /\ open = {} /\ disabled = FALSE /\ session = [b \in Browsers |-> 0]
    /\ request = [r \in Posts |-> NoRequest]
    /\ pending = <<>> /\ done = {}
    /\ opened = 0 /\ tokens = 0 /\ now = 0

(* current_session, require_csrf and import_scope. All browsers share one     *)
(* address, so a scope without a session is the same for all of them.         *)
Current(cookie) == IF ~disabled /\ cookie \in open THEN cookie ELSE 0
CsrfOk(cookie) == disabled \/ Current(cookie) # 0
Scope(cookie) == IF Current(cookie) # 0 THEN <<"session", Current(cookie)>>
                 ELSE IF disabled THEN <<"auth-disabled", 0>> ELSE <<"no-auth", 0>>

(* pending_imports and pending_network are two tables.                        *)
PendingOf(kind) == {t \in DOMAIN pending : pending[t].kind = kind}
Without(tokenSet) == Restrict(pending, DOMAIN pending \ tokenSet)
ExpiredImports == {t \in PendingOf("import") : pending[t].expires <= now}

Begin(r, b, op, kind, token) ==
    /\ request[r] = NoRequest
    /\ CsrfOk(session[b])
    /\ request' = [request EXCEPT ![r] = [op |-> op, kind |-> kind, token |-> token, cookie |-> session[b]]]
    /\ UNCHANGED <<pending, done, tokens, people>>

Resume(r, op, kind) ==
    /\ request[r].op = op /\ request[r].kind = kind
    /\ request' = [request EXCEPT ![r] = NoRequest]

(* What was sent does not validate. *)
Refuse(r) ==
    /\ \E kind \in Kinds : Resume(r, "validate", kind)
    /\ UNCHANGED <<pending, done, tokens, people>>

Keep(r, kind) ==
    /\ Resume(r, "validate", kind)
    /\ tokens < MaxTokens
    /\ tokens' = tokens + 1
    /\ pending' = [t \in (DOMAIN pending \ IF kind = "import" THEN ExpiredImports ELSE {}) \cup {tokens'} |->
                     IF t = tokens'
                     THEN [kind |-> kind, scope |-> Scope(request[r].cookie), expires |-> now + Lifetime[kind],
                           under |-> Current(request[r].cookie)]
                     ELSE pending[t]]
    /\ UNCHANGED <<done, people>>

Make(r, token) ==
    done' = done \cup {[token |-> token, times |-> Cardinality({d \in done : d.token = token}) + 1,
                        late |-> now > pending[token].expires,
                        kept |-> pending[token].under, confirmed |-> Current(request[r].cookie)]}

(* Mutants: the scope is not compared; an import stays pending. *)
ScopeIgnored(r, token) == TRUE
AfterImportKept(token) == Without(ExpiredImports)

ScopeMatches(r, token) == pending[token].scope = Scope(request[r].cookie)
AfterImport(token) == Without(ExpiredImports \cup {token})

(* An import is dropped from the table only when it is made ... *)
ConfirmImport(r) ==
    /\ Resume(r, "confirm", "import")
    /\ LET token == request[r].token
       IN IF token \in PendingOf("import") \ ExpiredImports /\ ScopeMatches(r, token)
          THEN pending' = AfterImport(token) /\ Make(r, token)
          ELSE pending' = Without(ExpiredImports) /\ UNCHANGED done
    /\ UNCHANGED <<tokens, people>>

(* Mutant: the expiry of a network change is not tested. *)
UnexpiredIgnored(token) == TRUE

Unexpired(token) == pending[token].expires >= now

(* ... a change of the network whenever it is asked for. *)
ConfirmNetwork(r) ==
    /\ Resume(r, "confirm", "network")
    /\ LET token == request[r].token
       IN /\ pending' = Without({token} \cap PendingOf("network"))
          /\ IF token \in PendingOf("network") /\ Unexpired(token) /\ ScopeMatches(r, token)
             THEN Make(r, token) ELSE UNCHANGED done
    /\ UNCHANGED <<tokens, people>>

LogIn(b) ==
    /\ ~disabled /\ opened < MaxSessions
    /\ opened' = opened + 1
    /\ open' = open \cup {opened'}
    /\ session' = [session EXCEPT ![b] = opened']
    /\ UNCHANGED <<disabled, request, pending, done, tokens, now>>

(* A logout, or the expiry of the session. *)
SessionEnds(s) ==
    /\ open' = open \ {s}
    /\ UNCHANGED <<disabled, session, request, pending, done, opened, tokens, now>>

(* A change of the password ends all sessions. *)
PasswordChanges ==
    /\ open' = {} /\ disabled' \in BOOLEAN
    /\ UNCHANGED <<session, request, pending, done, opened, tokens, now>>

Tick == now < MaxTime /\ now' = now + 1
        /\ UNCHANGED <<open, disabled, session, request, pending, done, opened, tokens>>

Next ==
    \/ \E r \in Posts, kind \in Kinds :
         \/ \E b \in Browsers : \/ Begin(r, b, "validate", kind, 0)
                               \/ \E t \in 1..tokens : Begin(r, b, "confirm", kind, t)
         \/ Keep(r, kind)
    \/ \E r \in Posts : Refuse(r) \/ ConfirmImport(r) \/ ConfirmNetwork(r)
    \/ \E b \in Browsers : LogIn(b)
    \/ \E s \in open : SessionEnds(s)
    \/ PasswordChanges \/ Tick

Spec == Init /\ [][Next]_vars

(* ------------------------------- properties ------------------------------- *)
TypeOK ==
    /\ \A b \in Browsers : session[b] \in 0..opened
    /\ \A r \in Posts : request[r].token \in 0..tokens
    /\ \A t \in DOMAIN pending : t \in 1..tokens /\ pending[t].expires <= now + Lifetime[pending[t].kind]
    /\ \A d \in done : d.token \in 1..tokens \ DOMAIN pending

(* A change is made at most once, even when it is confirmed twice at a time,  *)
(* from one browser or several.                                               *)
MadeOnce == \A d \in done : d.times = 1

(* No change is made after its token has expired. *)
MadeInTime == \A d \in done : ~d.late

(* A change validated or confirmed in a session was validated and confirmed   *)
(* in the same session, also when sessions end between the steps.             *)
SameSession == \A d \in done : d.kept = d.confirmed

(* A change is made once, in time, and by the session that asked for it.      *)
ConfirmInv ==
    /\ TypeOK
    /\ MadeOnce
    /\ MadeInTime
    /\ SameSession
==============================================================================
