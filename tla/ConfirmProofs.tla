---------------------------- MODULE ConfirmProofs ----------------------------
(* Proofs about PendingConfirm: what is confirmed is made once, in time and   *)
(* for the session it was shown to, for any browsers and sessions; and about  *)
(* NetworkChange: the settings of the machine are never a mixture of two, and *)
(* what the handler reports is true, for any addresses.                       *)
EXTENDS MCConfirm, FiniteSetTheorems, TLAPS

SessionScope(p) == p.scope = <<"session", p.under>> /\ p.under # 0
OtherScope(p) == p.scope \in {<<"auth-disabled", 0>>, <<"no-auth", 0>>} /\ p.under = 0

RequestInv ==
    /\ DOMAIN request = Posts
    /\ \A r \in Posts : request[r].token \in 0..tokens /\ request[r].cookie \in Nat

(* A pending change has an older token than the next one, its scope says      *)
(* which session it was kept in, and it was not made yet.                     *)
PendingInv ==
    /\ now \in Nat /\ tokens \in Nat /\ opened \in Nat
    /\ \A b \in Browsers : session[b] \in 0..opened
    /\ session \in [Browsers -> Nat]
    /\ RequestInv
    /\ \A t \in DOMAIN pending :
         /\ t \in 1..tokens /\ pending[t].kind \in Kinds /\ pending[t].expires \in Nat
         /\ pending[t].expires <= now + Lifetime[pending[t].kind]
         /\ SessionScope(pending[t]) \/ OtherScope(pending[t])
    /\ \A d \in done : d.token \in 1..tokens \ DOMAIN pending

DoneInv == MadeOnce /\ MadeInTime /\ SameSession

IInv == PendingInv /\ DoneInv

LEMMA InitInv == Init => IInv
BY LifetimeAssumption
DEF Init, IInv, PendingInv, DoneInv, MadeOnce, MadeInTime, SameSession, NoRequest, RequestInv

(* Who logs in and out, and the time, change nothing that is pending or done. *)
LEMMA PeopleStep ==
  ASSUME IInv,
         \/ \E b \in Browsers : LogIn(b)
         \/ \E s \in open : SessionEnds(s)
         \/ PasswordChanges \/ Tick \/ UNCHANGED vars
  PROVE  IInv'
<1>. USE LifetimeAssumption
     DEF IInv, PendingInv, DoneInv, MadeOnce, MadeInTime, SameSession, SessionScope, OtherScope,
         RequestInv
<1>1. ASSUME NEW b \in Browsers, LogIn(b) PROVE IInv'
  BY <1>1 DEF LogIn
<1>2. ASSUME NEW s \in open, SessionEnds(s) PROVE IInv'
  BY <1>2 DEF SessionEnds
<1>3. CASE PasswordChanges \/ UNCHANGED vars
  BY <1>3 DEF PasswordChanges, vars
<1>4. CASE Tick
  BY <1>4 DEF Tick
<1>. QED
  BY <1>1, <1>2, <1>3, <1>4

LEMMA RequestStep ==
  ASSUME IInv, NEW r \in Posts,
         \/ \E b \in Browsers, kind \in Kinds :
              Begin(r, b, "validate", kind, 0) \/ \E t \in 1..tokens : Begin(r, b, "confirm", kind, t)
         \/ Refuse(r)
  PROVE  IInv'
<1>. USE DEF IInv, PendingInv, DoneInv, MadeOnce, MadeInTime, SameSession, SessionScope, OtherScope,
             people
<1>1. ASSUME NEW b \in Browsers, NEW op, NEW kind, NEW t \in 0..tokens, Begin(r, b, op, kind, t)
      PROVE IInv'
  <2>1. /\ request' = [request EXCEPT ![r] = [op |-> op, kind |-> kind, token |-> t, cookie |-> session[b]]]
        /\ UNCHANGED <<pending, done, tokens, session, opened, now>>
    BY <1>1 DEF Begin
  <2>2. RequestInv'
    BY <1>1, <2>1 DEF RequestInv
  <2>. QED
    BY <2>1, <2>2
<1>2. CASE Refuse(r)
  <2>1. /\ request' = [request EXCEPT ![r] = NoRequest]
        /\ UNCHANGED <<pending, done, tokens, session, opened, now>>
    BY <1>2 DEF Refuse, Resume
  <2>2. RequestInv'
    BY <2>1 DEF NoRequest, RequestInv
  <2>. QED
    BY <2>1, <2>2
<1>3. 0 \in 0..tokens /\ \A t \in 1..tokens : t \in 0..tokens
  OBVIOUS
<1>. HIDE DEF IInv
<1>. QED
  BY <1>1, <1>2, <1>3

LEMMA KeepStep ==
  ASSUME IInv, NEW r \in Posts, NEW kind \in Kinds, Keep(r, kind)
  PROVE  IInv'
<1>. USE LifetimeAssumption DEF IInv, people
<1>1. DoneInv'
  BY DEF Keep, DoneInv, MadeOnce, MadeInTime, SameSession
<1>2. /\ tokens' = tokens + 1 /\ request' = [request EXCEPT ![r] = NoRequest]
      /\ UNCHANGED <<now, opened, session, done>>
  BY DEF Keep, Resume
<1>3. /\ tokens' \in DOMAIN pending' /\ DOMAIN pending' \subseteq DOMAIN pending \cup {tokens'}
      /\ pending'[tokens'] = [kind |-> kind, scope |-> Scope(request[r].cookie),
                              expires |-> now + Lifetime[kind],
                              under |-> Current(request[r].cookie)]
      /\ \A t \in DOMAIN pending' \ {tokens'} : pending'[t] = pending[t]
  BY DEF Keep, Resume
<1>4. /\ pending'[tokens'].kind \in Kinds /\ pending'[tokens'].expires \in Nat
      /\ pending'[tokens'].expires <= now + Lifetime[pending'[tokens'].kind]
  BY <1>3 DEF PendingInv
<1>5. SessionScope(pending'[tokens']) \/ OtherScope(pending'[tokens'])
  BY <1>3 DEF Scope, SessionScope, OtherScope, Current
<1>6. \A t \in DOMAIN pending' :
        /\ t \in 1..tokens' /\ pending'[t].kind \in Kinds /\ pending'[t].expires \in Nat
        /\ pending'[t].expires <= now' + Lifetime[pending'[t].kind]
        /\ SessionScope(pending'[t]) \/ OtherScope(pending'[t])
  BY <1>2, <1>3, <1>4, <1>5 DEF PendingInv
<1>7. RequestInv'
  BY <1>2 DEF PendingInv, RequestInv, NoRequest
<1>8. \A d \in done' : d.token \in 1..tokens' \ DOMAIN pending'
  BY <1>2, <1>3 DEF PendingInv
<1>. QED
  BY <1>1, <1>2, <1>6, <1>7, <1>8 DEF PendingInv, SessionScope, OtherScope

(* A change that is made was pending, has not expired, and was confirmed under*)
(* the scope it was kept under.                                               *)
LEMMA MakeStep ==
  ASSUME IInv, NEW r \in Posts, NEW token \in DOMAIN pending, Make(r, token),
         pending[token].expires >= now, ScopeMatches(r, token)
  PROVE  DoneInv' /\ \A d \in done' : d \in done \/ d.token = token
<1>. USE DEF IInv, PendingInv
<1>1. {d \in done : d.token = token} = {}
  OBVIOUS
<1>2. Cardinality({d \in done : d.token = token}) = 0
  BY <1>1, FS_EmptySet
<1>3. ~(now > pending[token].expires)
  OBVIOUS
<1>. DEFINE d == [token |-> token, times |-> Cardinality({e \in done : e.token = token}) + 1,
                  late |-> now > pending[token].expires,
                  kept |-> pending[token].under, confirmed |-> Current(request[r].cookie)]
<1>5. /\ done' = done \cup {d} /\ d.token = token /\ d.times = 1 /\ ~d.late
      /\ d.kept = pending[token].under /\ d.confirmed = Current(request[r].cookie)
  <2>1. done' = done \cup {d}
    BY Zenon DEF Make
  <2>2. d.token = token /\ d.kept = pending[token].under /\ d.confirmed = Current(request[r].cookie)
    OBVIOUS
  <2>3. d.times = 1
    BY <1>2
  <2>4. d.late = (now > pending[token].expires)
    BY Zenon
  <2>. QED
    BY <1>3, <2>1, <2>2, <2>3, <2>4, Zenon
<1>. HIDE DEF d
<1>4. pending[token].under = Current(request[r].cookie)
  BY DEF ScopeMatches, Scope, SessionScope, OtherScope
<1>. QED
  BY <1>4, <1>5 DEF DoneInv, MadeOnce, MadeInTime, SameSession

LEMMA ConfirmStep ==
  ASSUME IInv, NEW r \in Posts, ConfirmImport(r) \/ ConfirmNetwork(r)
  PROVE  IInv'
<1>. DEFINE token == request[r].token
<1>1. /\ request' = [request EXCEPT ![r] = NoRequest]
      /\ UNCHANGED <<now, opened, session, tokens>>
      /\ DOMAIN pending' \subseteq DOMAIN pending
      /\ \A t \in DOMAIN pending' : pending'[t] = pending[t]
  BY DEF ConfirmImport, ConfirmNetwork, Resume, AfterImport, Without, Restrict, people
<1>2. CASE UNCHANGED done
  BY <1>1, <1>2 DEF IInv, PendingInv, DoneInv, MadeOnce, MadeInTime, SameSession, NoRequest, RequestInv,
                    SessionScope, OtherScope
<1>3. CASE /\ token \in DOMAIN pending /\ Make(r, token) /\ pending[token].expires >= now
           /\ ScopeMatches(r, token) /\ token \notin DOMAIN pending'
  <2>1. DoneInv' /\ \A d \in done' : d \in done \/ d.token = token
    BY <1>3, MakeStep
  <2>2. \A d \in done' : d.token \in 1..tokens' \ DOMAIN pending'
    BY <1>1, <1>3, <2>1 DEF IInv, PendingInv
  <2>. QED
    BY <1>1, <2>1, <2>2 DEF IInv, PendingInv, NoRequest, RequestInv, SessionScope, OtherScope
<1>4. ASSUME ConfirmImport(r), done' # done
      PROVE  /\ token \in DOMAIN pending /\ Make(r, token) /\ pending[token].expires >= now
             /\ ScopeMatches(r, token) /\ token \notin DOMAIN pending'
  <2>1. /\ token \in PendingOf("import") \ ExpiredImports
        /\ ScopeMatches(r, token) /\ pending' = AfterImport(token) /\ Make(r, token)
    BY <1>4 DEF ConfirmImport, Resume
  <2>2. token \in DOMAIN pending /\ pending[token].expires \in Nat /\ now \in Nat
    BY <2>1 DEF IInv, PendingInv, PendingOf
  <2>. QED
    BY <2>1, <2>2 DEF ExpiredImports, PendingOf, AfterImport, Without, Restrict
<1>5. ASSUME ConfirmNetwork(r), done' # done
      PROVE  /\ token \in DOMAIN pending /\ Make(r, token) /\ pending[token].expires >= now
             /\ ScopeMatches(r, token) /\ token \notin DOMAIN pending'
  BY <1>5 DEF ConfirmNetwork, Unexpired, PendingOf, Without, Restrict
<1>. QED
  BY <1>2, <1>3, <1>4, <1>5

LEMMA StepInv == IInv /\ [Next]_vars => IInv'
<1>. SUFFICES ASSUME IInv, [Next]_vars PROVE IInv'
  OBVIOUS
<1>. QED
  BY PeopleStep, RequestStep, KeepStep, ConfirmStep DEF Next

(* Types, bounds on every expiry, and that a token that was used is gone.     *)
THEOREM TypeCorrect == Spec => []TypeOK
<1>1. IInv => TypeOK
  BY DEF IInv, PendingInv, RequestInv, TypeOK
<1>. QED
  BY <1>1, InitInv, StepInv, PTL DEF Spec

(* A change is made at most once, however often and from wherever its token is*)
(* confirmed at the same time.                                                *)
THEOREM ConfirmedOnce == Spec => []MadeOnce
<1>1. IInv => MadeOnce
  BY DEF IInv, DoneInv
<1>. QED
  BY <1>1, InitInv, StepInv, PTL DEF Spec

(* No change is made after its token expired.                                 *)
THEOREM ConfirmedInTime == Spec => []MadeInTime
<1>1. IInv => MadeInTime
  BY DEF IInv, DoneInv
<1>. QED
  BY <1>1, InitInv, StepInv, PTL DEF Spec

(* A change is made in the session it was validated in, or in none if it was  *)
(* validated in none, whichever sessions end in between.                      *)
THEOREM ConfirmedInSession == Spec => []SameSession
<1>1. IInv => SameSession
  BY DEF IInv, DoneInv
<1>. QED
  BY <1>1, InitInv, StepInv, PTL DEF Spec

(* The four together: a change is made once, in time, and by the session that *)
(* asked for it.                                                              *)
THEOREM ConfirmedProperly == Spec => []ConfirmInv
<1>1. TypeOK /\ MadeOnce /\ MadeInTime /\ SameSession => ConfirmInv
  BY DEF ConfirmInv
<1>. QED
  BY <1>1, TypeCorrect, ConfirmedOnce, ConfirmedInTime, ConfirmedInSession, PTL

(* ---------------------------- NetworkChange ------------------------------- *)
(* One helper works at a time, of however many there are.  Nothing in the code*)
(* enforces it: a helper that outlives its handler's 30 s, or a restore that  *)
(* an operator starts from the script, reads and writes beside the next.      *)
OneAtATime == \A g, h \in Helpers : helper[g].pc # "idle" /\ helper[h].pc # "idle" => g = h

Whole == {Network!Dhcp} \cup {Network!Static(a) : a \in Addresses}
Methods == {"none", "auto", "manual"}
Settings == [method : Methods, address : Addresses \cup {0}]
Working == {"method", "address", "save", "read", "modify", "up"}
Ended == {"refused", "done", "failed"}

(* What a helper has read and written so far: the method read is the one of   *)
(* the profile, then the snapshot is the profile; once modified, the profile  *)
(* is what was asked for, and once done, also the settings in use.            *)
Progressed(r, stored, used) ==
    /\ r.pc = "address" => r.snapshot.method = stored.method
    /\ r.pc = "save" => r.snapshot = stored
    /\ r.pc = "up" => stored = r.to
    /\ r.pc = "done" => used = r.to

(* A helper that applies has something to apply; one that restores does when  *)
(* it has read the backup.                                                    *)
Asked(r) ==
    /\ r.pc \in {"method", "address", "save", "modify", "up", "done"} => r.to \in Whole
    /\ r.pc = "read" => r.op = "restore"

Records == [pc : {"idle"} \cup Working \cup Ended, op : {"apply", "restore"},
            to : Settings, snapshot : Settings]

HelperIInv ==
    /\ helper \in [Helpers -> Records]
    /\ \A h \in Helpers : Asked(helper[h]) /\ Progressed(helper[h], profile, active)

(* The handler waits for a helper that applies what its answer is about.      *)
WaitIInv ==
    /\ waiting \in Helpers \cup {0}
    /\ waiting # 0 => /\ helper[waiting].op = "apply" /\ helper[waiting].pc # "idle"
                      /\ answer.to = helper[waiting].to
    /\ answer \in [status : {"none", "done", "failed"}, to : Settings]

SettingsIInv ==
    /\ {profile, active} \subseteq had /\ had \subseteq Whole
    /\ backup \in had \cup {Network!NoSettings}

(* On an allowed interface the helper refuses only what a script asked for.   *)
AgreeInv ==
    interface \in Network!AllowedInterfaces =>
        \A h \in Helpers : helper[h].pc = "refused" => helper[h].op = "restore"

NetworkIInv == HelperIInv /\ WaitIInv /\ SettingsIInv /\ AgreeInv

LEMMA WholeAreSettings == Whole \subseteq Settings /\ Network!NoSettings \in Settings \ Whole
<1>1. Network!Dhcp \in Settings
  BY DEF Settings, Methods, Network!Dhcp
<1>2. ASSUME NEW a \in Addresses PROVE Network!Static(a) \in Settings
  BY DEF Settings, Methods, Network!Static
<1>3. Network!NoSettings \in Settings
  BY DEF Settings, Methods, Network!NoSettings
<1>4. Network!NoSettings \notin Whole
  <2>1. Network!NoSettings.method = "none" /\ Network!Dhcp.method = "auto"
    BY DEF Network!NoSettings, Network!Dhcp
  <2>2. ASSUME NEW a \in Addresses PROVE Network!Static(a).method = "manual"
    BY DEF Network!Static
  <2>. QED
    BY <2>1, <2>2 DEF Whole
<1>. QED
  BY <1>1, <1>2, <1>3, <1>4 DEF Whole

LEMMA NetworkInitInv == MCInit => NetworkIInv
<1>. SUFFICES ASSUME MCInit PROVE NetworkIInv
  OBVIOUS
<1>. USE HelpersAssumption, WholeAreSettings DEF MCInit, Network!Init
<1>1. HelperIInv
  BY DEF HelperIInv, Records, Asked, Progressed, Network!Idle, Working, Ended
<1>2. WaitIInv
  BY DEF WaitIInv
<1>3. SettingsIInv
  BY DEF SettingsIInv, Whole
<1>4. AgreeInv
  BY DEF AgreeInv, Network!Idle
<1>. QED
  BY <1>1, <1>2, <1>3, <1>4 DEF NetworkIInv

(* One helper works: what is to be shown after its step is that it asked for  *)
(* whole settings and did what its record says.                               *)
LEMMA HelperSteps ==
  ASSUME OneAtATime', NEW h \in Helpers, helper' \in [Helpers -> Records], helper'[h].pc # "idle",
         Asked(helper'[h]), Progressed(helper'[h], profile', active')
  PROVE  HelperIInv'
<1>1. \A g \in Helpers : g = h \/ helper'[g].pc = "idle"
  BY DEF OneAtATime
<1>2. \A r : r.pc = "idle" => Asked(r) /\ Progressed(r, profile', active')
  BY DEF Asked, Progressed
<1>. QED
  BY <1>1, <1>2 DEF HelperIInv

(* The handler goes on waiting for it, unless it stops waiting.               *)
LEMMA WaitSteps ==
  ASSUME OneAtATime, NetworkIInv, NEW h \in Helpers, helper[h].pc # "idle",
         helper'[h].op = helper[h].op, helper'[h].pc # "idle",
         helper[h].pc # "read" => helper'[h].to = helper[h].to,
         UNCHANGED <<waiting, answer>>
  PROVE  WaitIInv'
<1>1. CASE waiting = 0
  BY <1>1 DEF NetworkIInv, WaitIInv
<1>2. CASE waiting # 0
  <2>1. waiting = h
    BY <1>2 DEF NetworkIInv, WaitIInv, OneAtATime
  <2>2. helper[h].pc # "read"
    BY <1>2, <2>1 DEF NetworkIInv, HelperIInv, WaitIInv, Asked
  <2>. QED
    BY <1>2, <2>1, <2>2 DEF NetworkIInv, WaitIInv
<1>. QED
  BY <1>1, <1>2

(* The helper that works was not refused, and no other is there.              *)
LEMMA AgreeSteps ==
  ASSUME OneAtATime', NEW h \in Helpers, helper'[h].pc \notin {"idle", "refused"}
  PROVE  AgreeInv'
BY DEF OneAtATime, AgreeInv

LEMMA RequestedIsWhole ==
  ASSUME NEW a \in Addresses PROVE Network!Static(a) \in Whole
BY DEF Whole

(* On an interface it allows, the helper accepts what the web process does.   *)
LEMMA HelperIsNoStricter ==
  \A i \in Network!AllowedInterfaces, address, gateway \in Network!AllAddresses, prefix \in 0..Width :
      Network!WebAccepts(address, prefix, gateway) => Network!HelperAccepts(i, address, prefix, gateway)
BY DEF Network!WebAccepts, Network!HelperAccepts

(* A helper has started that is refused or goes on to its first step.         *)
LEMMA StartedStep ==
  ASSUME OneAtATime', NetworkIInv, NEW h \in Helpers, NEW op, NEW to \in Settings, NEW first,
         Network!Start(h, op, to, first),
         \/ op = "apply" /\ to \in Whole /\ first \in {"method", "refused"}
         \/ op = "restore" /\ first \in {"read", "refused"}
  PROVE  /\ HelperIInv' /\ SettingsIInv' /\ interface' = interface
         /\ helper[h].pc = "idle" /\ helper'[h].op = op /\ helper'[h].to = to /\ helper'[h].pc = first
         /\ \A g \in Helpers \ {h} : helper'[g] = helper[g]
<1>. DEFINE r == [pc |-> first, op |-> op, to |-> to, snapshot |-> Network!NoSettings]
<1>1. /\ helper' = [helper EXCEPT ![h] = r] /\ helper[h].pc = "idle"
      /\ UNCHANGED <<interface, profile, active, had, backup>>
  BY DEF Network!Start, Network!nm
<1>2. r \in Records
  BY WholeAreSettings DEF Records, Working, Ended
<1>3. r.pc # "idle" /\ Asked(r) /\ Progressed(r, profile', active')
  BY DEF Asked, Progressed
<1>4. r.op = op /\ r.to = to /\ r.pc = first
  OBVIOUS
<1>. HIDE DEF r
<1>5. helper' \in [Helpers -> Records] /\ helper'[h] = r
  BY <1>1, <1>2 DEF NetworkIInv, HelperIInv
<1>6. HelperIInv'
  BY <1>3, <1>5, HelperSteps
<1>7. \A g \in Helpers \ {h} : helper'[g] = helper[g]
  BY <1>1 DEF NetworkIInv, HelperIInv
<1>. QED
  BY <1>1, <1>4, <1>5, <1>6, <1>7 DEF NetworkIInv, SettingsIInv

LEMMA StartSteps ==
  ASSUME OneAtATime', NetworkIInv, NEW h \in Helpers, Network!Request(h) \/ Network!Restore(h)
  PROVE  NetworkIInv'
<1>. USE DEF Network!FirstStep
<1>1. CASE Network!Restore(h)
  <2>1. PICK first \in {"read", "refused"} :
          Network!Start(h, "restore", Network!NoSettings, first) /\ UNCHANGED <<waiting, answer>>
    BY <1>1 DEF Network!Restore
  <2>2. /\ HelperIInv' /\ SettingsIInv' /\ interface' = interface
        /\ helper[h].pc = "idle" /\ helper'[h].op = "restore"
        /\ \A g \in Helpers \ {h} : helper'[g] = helper[g]
    BY <2>1, StartedStep, WholeAreSettings
  <2>3. waiting # h
    BY <2>2, HelpersAssumption DEF NetworkIInv, WaitIInv
  <2>4. WaitIInv'
    BY <2>1, <2>2, <2>3 DEF NetworkIInv, WaitIInv
  <2>5. AgreeInv'
    BY <2>2 DEF NetworkIInv, AgreeInv
  <2>. QED
    BY <2>2, <2>4, <2>5 DEF NetworkIInv
<1>2. CASE Network!Request(h)
  <2>1. PICK to \in Whole, first \in {"method", "refused"} :
          /\ Network!Start(h, "apply", to, first) /\ waiting' = h
          /\ answer' = [status |-> "none", to |-> helper'[h].to]
          /\ interface \in Network!AllowedInterfaces => first = "method"
    <3>1. Network!Dhcp \in Whole
      BY DEF Whole
    <3>2. CASE \E first \in {"method", "refused"} :
            /\ Network!Start(h, "apply", Network!Dhcp, first)
            /\ interface \in Network!AllowedInterfaces => first = "method"
      BY <1>2, <3>1, <3>2 DEF Network!Request
    <3>3. CASE \E address \in Addresses, first \in {"method", "refused"} :
            /\ Network!Start(h, "apply", Network!Static(address), first)
            /\ interface \in Network!AllowedInterfaces => first = "method"
      BY <1>2, <3>3, RequestedIsWhole DEF Network!Request
    <3>4. ASSUME NEW address, NEW prefix \in 0..Width, NEW gateway \in Network!AllAddresses,
                 Network!WebAccepts(address, prefix, gateway), interface \in Network!AllowedInterfaces
          PROVE Network!HelperAccepts(interface, address, prefix, gateway)
      BY <3>4 DEF Network!WebAccepts, Network!HelperAccepts
    <3>. QED
      BY <1>2, <3>2, <3>3, <3>4 DEF Network!Request
  <2>2. /\ HelperIInv' /\ SettingsIInv' /\ interface' = interface
        /\ helper'[h].op = "apply" /\ helper'[h].to = to /\ helper'[h].pc = first
        /\ \A g \in Helpers \ {h} : helper'[g] = helper[g]
    BY <2>1, StartedStep, WholeAreSettings
  <2>3. WaitIInv'
    BY <2>1, <2>2, HelpersAssumption, WholeAreSettings DEF WaitIInv
  <2>4. AgreeInv'
    BY <2>1, <2>2 DEF NetworkIInv, AgreeInv
  <2>. QED
    BY <2>2, <2>3, <2>4 DEF NetworkIInv
<1>. QED
  BY <1>1, <1>2

LEMMA ReadingSteps ==
  ASSUME OneAtATime, OneAtATime', NetworkIInv, NEW h \in Helpers,
         Network!ReadMethod(h) \/ Network!ReadAddress(h) \/ Network!SaveBackup(h) \/ Network!ReadBackup(h)
  PROVE  NetworkIInv'
<1>. USE DEF Network!web, Network!nm
<1>. DEFINE old == helper[h]
            new == helper'[h]
<1>1. /\ old \in Records /\ Asked(old) /\ Progressed(old, profile, active)
      /\ profile \in had /\ backup \in had \cup {Network!NoSettings} /\ had \subseteq Whole
      /\ \A s \in had \cup {Network!NoSettings} : s \in Settings
  BY WholeAreSettings DEF NetworkIInv, HelperIInv, SettingsIInv
<1>2. /\ UNCHANGED <<profile, active, had, waiting, answer>> /\ backup' \in {backup, old.snapshot}
      /\ old.pc # "idle"
  BY DEF Network!ReadMethod, Network!ReadAddress, Network!SaveBackup, Network!ReadBackup, Network!Goes
<1>3. ASSUME helper' \in [Helpers -> Records], new.op = old.op, new.pc \notin {"idle", "refused"},
             old.pc # "read" => new.to = old.to, backup' \in had \cup {Network!NoSettings},
             Asked(new), Progressed(new, profile, active)
      PROVE NetworkIInv'
  <2>1. HelperIInv'
    BY <1>2, <1>3, HelperSteps
  <2>2. WaitIInv'
    BY <1>2, <1>3, WaitSteps
  <2>3. AgreeInv'
    BY <1>3, AgreeSteps
  <2>. QED
    BY <1>2, <1>3, <2>1, <2>2, <2>3 DEF NetworkIInv, SettingsIInv
<1>4. CASE Network!ReadMethod(h)
  <2>. DEFINE method == profile.method
  <2>4. method \in Methods
    BY <1>1 DEF Settings
  <2>5. helper' = [helper EXCEPT ![h].pc = "address", ![h].snapshot.method = method]
    BY <1>4 DEF Network!ReadMethod, Network!MethodShown
  <2>. HIDE DEF old, new, method
  <2>. DEFINE read == [helper[h].snapshot EXCEPT !.method = method]
  <2>6. read \in Settings
    BY <2>4 DEF NetworkIInv, HelperIInv, Records, Settings
  <2>7. helper' = [helper EXCEPT ![h].pc = "address", ![h].snapshot = read]
    BY <2>5
  <2>. HIDE DEF read
  <2>1. helper' \in [Helpers -> Records]
    BY <2>6, <2>7 DEF NetworkIInv, HelperIInv, Records, Working
  <2>. USE DEF old, new
  <2>2. /\ old.pc = "method" /\ new.pc = "address" /\ new.op = old.op /\ new.to = old.to
        /\ new.snapshot.method = profile.method /\ backup' = backup
    BY <1>4 DEF Network!ReadMethod, Network!MethodShown, NetworkIInv, HelperIInv, Records, Settings
  <2>. HIDE DEF old, new
  <2>3. Asked(new) /\ Progressed(new, profile, active)
    BY <1>1, <2>2 DEF Asked, Progressed
  <2>. QED
    BY <1>1, <1>3, <2>1, <2>2, <2>3
<1>5. CASE Network!ReadAddress(h)
  <2>1. helper' \in [Helpers -> Records]
    BY <1>1, <1>5 DEF Network!ReadAddress, NetworkIInv, HelperIInv, Records, Settings, Working
  <2>2. /\ old.pc = "address" /\ new.pc = "save" /\ new.op = old.op /\ new.to = old.to
        /\ new.snapshot.address = profile.address /\ new.snapshot.method = old.snapshot.method
        /\ backup' = backup
    BY <1>5 DEF Network!ReadAddress, NetworkIInv, HelperIInv, Records, Settings
  <2>3. new.snapshot \in Settings /\ profile \in Settings
    BY <1>1, <2>1 DEF Records
  <2>4. old.snapshot.method = profile.method
    BY <1>1, <2>2 DEF Progressed
  <2>. HIDE DEF old, new
  <2>5. new.snapshot = profile
    BY <2>2, <2>3, <2>4 DEF Settings
  <2>6. Asked(new) /\ Progressed(new, profile, active)
    BY <1>1, <2>2, <2>5 DEF Asked, Progressed
  <2>. QED
    BY <1>1, <1>3, <2>1, <2>2, <2>6
<1>6. CASE Network!SaveBackup(h)
  <2>1. helper' \in [Helpers -> Records]
    BY <1>6 DEF Network!SaveBackup, Network!Goes, NetworkIInv, HelperIInv, Records, Working
  <2>2. /\ old.pc = "save" /\ new.pc = "modify" /\ new.op = old.op /\ new.to = old.to
        /\ backup' = old.snapshot
    BY <1>6 DEF Network!SaveBackup, Network!Goes, NetworkIInv, HelperIInv, Records
  <2>. HIDE DEF old, new
  <2>3. Asked(new) /\ Progressed(new, profile, active)
    BY <1>1, <2>2 DEF Asked, Progressed
  <2>4. backup' \in had
    BY <1>1, <2>2 DEF Progressed
  <2>. QED
    BY <1>3, <2>1, <2>2, <2>3, <2>4
<1>7. CASE Network!ReadBackup(h)
  <2>1. backup \in Whole /\ backup \in Settings /\ backup' = backup
    BY <1>1, <1>7 DEF Network!ReadBackup, Network!BackupThere
  <2>5. helper' = [helper EXCEPT ![h].pc = "modify", ![h].to = backup]
    BY <1>7 DEF Network!ReadBackup
  <2>. HIDE DEF old, new
  <2>2. helper' \in [Helpers -> Records]
    BY <2>1, <2>5 DEF NetworkIInv, HelperIInv, Records, Working
  <2>. USE DEF old, new
  <2>3. old.pc = "read" /\ new.pc = "modify" /\ new.op = old.op /\ new.to = backup
    BY <1>7 DEF Network!ReadBackup, NetworkIInv, HelperIInv, Records
  <2>. HIDE DEF old, new
  <2>4. Asked(new) /\ Progressed(new, profile, active)
    BY <2>1, <2>3 DEF Asked, Progressed
  <2>. QED
    BY <1>1, <1>3, <2>1, <2>2, <2>3, <2>4
<1>. QED
  BY <1>4, <1>5, <1>6, <1>7

LEMMA WritingSteps ==
  ASSUME OneAtATime, OneAtATime', NetworkIInv, NEW h \in Helpers,
         Network!Modify(h) \/ Network!Up(h) \/ Network!Fail(h)
  PROVE  NetworkIInv'
<1>. USE DEF Network!web, Network!nm
<1>. DEFINE old == helper[h]
            new == helper'[h]
<1>1. /\ old \in Records /\ Asked(old) /\ Progressed(old, profile, active)
      /\ profile \in had /\ active \in had /\ backup \in had \cup {Network!NoSettings} /\ had \subseteq Whole
  BY DEF NetworkIInv, HelperIInv, SettingsIInv
<1>2. UNCHANGED <<backup, waiting, answer>> /\ helper' \in [Helpers -> Records] /\ old.pc # "idle"
  BY DEF Network!Modify, Network!Up, Network!Fail, Network!Failed, Network!Goes, NetworkIInv, HelperIInv,
         Records, Working, Ended
<1>3. ASSUME new.op = old.op, new.to = old.to, new.pc \notin {"idle", "refused"},
             Asked(new), Progressed(new, profile', active'), SettingsIInv'
      PROVE NetworkIInv'
  <2>1. HelperIInv'
    BY <1>2, <1>3, HelperSteps
  <2>2. WaitIInv'
    BY <1>2, <1>3, WaitSteps
  <2>3. AgreeInv'
    BY <1>3, AgreeSteps
  <2>. QED
    BY <1>3, <2>1, <2>2, <2>3 DEF NetworkIInv
<1>4. CASE Network!Modify(h)
  <2>1. /\ old.pc = "modify" /\ new.pc = "up" /\ new.op = old.op /\ new.to = old.to
        /\ profile' = old.to /\ had' = had \cup {old.to} /\ active' = active
    BY <1>4 DEF Network!Modify, Network!Modified, Network!Goes, NetworkIInv, HelperIInv, Records
  <2>. HIDE DEF old, new
  <2>2. Asked(new) /\ Progressed(new, profile', active')
    BY <1>1, <2>1 DEF Asked, Progressed
  <2>3. SettingsIInv'
    BY <1>1, <1>2, <2>1 DEF SettingsIInv, Asked
  <2>. QED
    BY <1>3, <2>1, <2>2, <2>3
<1>5. CASE Network!Up(h)
  <2>1. /\ old.pc = "up" /\ new.pc = "done" /\ new.op = old.op /\ new.to = old.to
        /\ active' = profile /\ UNCHANGED <<profile, had>>
    BY <1>5 DEF Network!Up, Network!Goes, NetworkIInv, HelperIInv, Records
  <2>. HIDE DEF old, new
  <2>2. Asked(new) /\ Progressed(new, profile', active')
    BY <1>1, <2>1 DEF Asked, Progressed
  <2>3. SettingsIInv'
    BY <1>1, <1>2, <2>1 DEF SettingsIInv
  <2>. QED
    BY <1>3, <2>1, <2>2, <2>3
<1>6. CASE Network!Fail(h)
  <2>1. /\ new.pc = "failed" /\ new.op = old.op /\ new.to = old.to
        /\ UNCHANGED <<profile, active, had>>
    BY <1>6 DEF Network!Fail, Network!Failed, NetworkIInv, HelperIInv, Records
  <2>. HIDE DEF old, new
  <2>2. Asked(new) /\ Progressed(new, profile', active')
    BY <2>1 DEF Asked, Progressed
  <2>3. SettingsIInv'
    BY <1>1, <1>2, <2>1 DEF SettingsIInv
  <2>. QED
    BY <1>3, <2>1, <2>2, <2>3
<1>. QED
  BY <1>4, <1>5, <1>6

LEMMA EndingSteps ==
  ASSUME NetworkIInv,
         (\E h \in Helpers : Network!Exit(h)) \/ Network!TimeOut \/ Network!Reboot
  PROVE  NetworkIInv'
<1>. USE DEF Network!web, Network!nm
<1>. DEFINE none == Network!Idle
<1>1. none \in Records /\ none.pc = "idle" /\ Network!NoSettings \in Settings
  <2>1. none = [pc |-> "idle", op |-> "apply", to |-> Network!NoSettings, snapshot |-> Network!NoSettings]
    BY DEF Network!Idle
  <2>. QED
    BY <2>1, WholeAreSettings DEF Records
<1>2. \A stored, used : Asked(none) /\ Progressed(none, stored, used)
  <2>. HIDE DEF none
  <2>. QED
    BY <1>1 DEF Asked, Progressed
<1>3. ASSUME NEW h \in Helpers, Network!Exit(h) PROVE NetworkIInv'
  <2>. HIDE DEF none
  <2>1. helper' = [helper EXCEPT ![h] = none] /\ UNCHANGED <<interface, profile, active, had, backup>>
    BY <1>3 DEF Network!Exit, none
  <2>5. helper' \in [Helpers -> Records] /\ helper'[h] = none
    BY <1>1, <2>1 DEF NetworkIInv, HelperIInv
  <2>2. HelperIInv'
    BY <1>2, <2>1, <2>5 DEF NetworkIInv, HelperIInv
  <2>6. AgreeInv'
    BY <1>1, <2>1 DEF NetworkIInv, HelperIInv, AgreeInv
  <2>3. CASE waiting = h
    <3>1. /\ waiting' = 0
          /\ \E s \in {"done", "failed"} : answer' = [answer EXCEPT !.status = s]
      BY <1>3, <2>3 DEF Network!Exit
    <3>2. WaitIInv'
      BY <3>1 DEF NetworkIInv, WaitIInv
    <3>. QED
      BY <2>1, <2>2, <2>6, <3>2 DEF NetworkIInv, SettingsIInv
  <2>4. CASE waiting # h
    <3>1. UNCHANGED <<waiting, answer>>
      BY <1>3, <2>4 DEF Network!Exit
    <3>2. WaitIInv'
      BY <2>1, <2>4, <3>1 DEF NetworkIInv, WaitIInv, HelperIInv
    <3>. QED
      BY <2>1, <2>2, <2>6, <3>2 DEF NetworkIInv, SettingsIInv
  <2>. QED
    BY <2>3, <2>4
<1>4. CASE Network!TimeOut
  <2>1. WaitIInv'
    BY <1>4 DEF Network!TimeOut, NetworkIInv, WaitIInv
  <2>. QED
    BY <1>4, <2>1 DEF Network!TimeOut, NetworkIInv, HelperIInv, SettingsIInv, AgreeInv
<1>5. CASE Network!Reboot
  <2>. HIDE DEF none
  <2>1. HelperIInv'
    BY <1>1, <1>2, <1>5 DEF Network!Reboot, HelperIInv, none
  <2>2. WaitIInv'
    BY <1>1, <1>5 DEF Network!Reboot, WaitIInv
  <2>3. AgreeInv'
    BY <1>1, <1>5 DEF Network!Reboot, AgreeInv, none
  <2>. QED
    BY <1>5, <2>1, <2>2, <2>3 DEF Network!Reboot, NetworkIInv, SettingsIInv
<1>. QED
  BY <1>3, <1>4, <1>5

LEMMA NetworkStepInv ==
  NetworkIInv /\ OneAtATime /\ OneAtATime' /\ [MCNext]_mcVars => NetworkIInv'
<1>. SUFFICES ASSUME NetworkIInv, OneAtATime, OneAtATime', [MCNext]_mcVars PROVE NetworkIInv'
  OBVIOUS
<1>1. CASE UNCHANGED networkVars
  BY <1>1 DEF networkVars, NetworkIInv, HelperIInv, WaitIInv, SettingsIInv, AgreeInv
<1>2. CASE Network!Next
  BY <1>2, StartSteps, ReadingSteps, WritingSteps, EndingSteps DEF Network!Next
<1>. QED
  BY <1>1, <1>2 DEF MCNext, mcVars

(* The settings of the profile, of the device and of the backup are DHCP or   *)
(* an address somebody asked for, whichever nmcli calls fail, whatever is     *)
(* restored and whenever the machine restarts, as long as no helper starts    *)
(* beside another; and on an interface the helper allows it does not refuse   *)
(* what the web process accepts.                                              *)
THEOREM SettingsAreWhole == MCSpec /\ []OneAtATime => []NetworkInv
<1>1. NetworkIInv => NetworkInv
  <2>. SUFFICES ASSUME NetworkIInv PROVE Network!NetworkInv
    BY DEF NetworkInv
  <2>1. Network!TypeOK
    BY WholeAreSettings
    DEF Network!TypeOK, NetworkIInv, HelperIInv, WaitIInv, SettingsIInv, Asked, Records
  <2>2. Network!HelperAgrees
    BY HelperIsNoStricter DEF Network!HelperAgrees, NetworkIInv, AgreeInv
  <2>3. Network!SettingsWhole /\ Network!BackupWhole
    BY DEF Network!SettingsWhole, Network!BackupWhole, NetworkIInv, SettingsIInv, Whole
  <2>. QED
    BY <2>1, <2>2, <2>3 DEF Network!NetworkInv
<1>. QED
  BY <1>1, NetworkInitInv, NetworkStepInv, PTL DEF MCSpec

(* When the handler reports success, the machine uses what was asked for: the *)
(* helper it waited for activated it, and nothing ran since.                  *)
THEOREM SuccessIsReal == MCSpec /\ []OneAtATime => AnswerIsReal
<1>1. ASSUME NetworkIInv, [MCNext]_mcVars, answer'.status = "done", answer.status # "done"
      PROVE active' = answer'.to
  <2>1. PICK h \in Helpers : Network!Exit(h)
    <3>1. ASSUME NEW h \in Helpers, Network!Request(h) PROVE answer'.status = "none"
      <4>1. PICK to : answer' = [status |-> "none", to |-> to]
        BY <3>1 DEF Network!Request
      <4>. QED
        BY <4>1
    <3>2. ASSUME NEW h \in Helpers,
                 \/ Network!Restore(h) \/ Network!ReadMethod(h) \/ Network!ReadAddress(h)
                 \/ Network!SaveBackup(h) \/ Network!ReadBackup(h) \/ Network!Modify(h)
                 \/ Network!Up(h) \/ Network!Fail(h)
          PROVE answer' = answer
      BY <3>2 DEF Network!Restore, Network!ReadMethod, Network!ReadAddress, Network!SaveBackup,
                  Network!ReadBackup, Network!Modify, Network!Up, Network!Fail, Network!web
    <3>3. ASSUME Network!TimeOut PROVE answer'.status = "failed"
      BY <1>1, <3>3 DEF Network!TimeOut, NetworkIInv, WaitIInv
    <3>4. ASSUME Network!Reboot PROVE answer'.status = "none"
      BY <3>4 DEF Network!Reboot
    <3>5. Network!Next
      BY <1>1 DEF MCNext, mcVars, networkVars
    <3>. QED
      BY <1>1, <3>1, <3>2, <3>3, <3>4, <3>5 DEF Network!Next
  <2>2. waiting = h /\ helper[h].pc = "done" /\ answer'.to = answer.to /\ active' = active
    BY <1>1, <2>1 DEF Network!Exit, NetworkIInv, WaitIInv, Network!nm
  <2>3. active = helper[h].to /\ answer.to = helper[h].to
    BY <1>1, <2>2, HelpersAssumption DEF NetworkIInv, WaitIInv, HelperIInv, Progressed
  <2>. QED
    BY <2>2, <2>3
<1>2. NetworkIInv /\ [MCNext]_mcVars
      => [answer'.status = "done" /\ answer.status # "done" => active' = answer'.to]_(Network!vars)
  BY <1>1
<1>. QED
  BY <1>2, NetworkInitInv, NetworkStepInv, PTL DEF MCSpec, AnswerIsReal, Network!AnswerIsReal
==============================================================================
