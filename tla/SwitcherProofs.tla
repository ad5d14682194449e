--------------------------- MODULE SwitcherProofs ---------------------------
(* Proofs about the backends.  VmixBackend keeps the contract of the switcher *)
(* backends, for any number of retries, commands, failing attempts and moves  *)
(* of the vMix operator.  OseeSession never mixes up two sessions, for any    *)
(* number of reconnects, faults and messages, as long as no apply connects    *)
(* the backend beside its loop.  The client of OseeDeckManual answers a       *)
(* command by the feedback of that command, as long as nobody works at the    *)
(* panel.  GspParser makes of a stream of any length, cut in any way, what    *)
(* the stream contains.                                                       *)
EXTENDS MCSwitchers, SequenceTheorems, WellFoundedInduction, TLAPS

(* The attempts of a command are counted where they are: under way, carried   *)
(* out, or lost.                                                              *)
Types ==
    /\ vmix \in [program : Sources, preview : Sources, fading : BOOLEAN]
    /\ requests \subseteq Request /\ answered \subseteq Request
    /\ \A r \in requests : r.op = "preview" => r.src \in Sources
    /\ fields \in [program : Known, preview : Known] /\ connected \in BOOLEAN
    /\ pc \in {"idle", "waiting", "sync"}
    /\ pc = "waiting" => /\ cmd \in [n : Commands, op : Ops, src : Known, attempt : Attempts,
                                     preview : Sources, syncs : BOOLEAN]
                         /\ cmd.op = "preview" => cmd.src \in Sources
    /\ issued \in 0..MaxCommands /\ tries \in [Commands -> 0..(Retries + 1)]
    /\ result \in [Commands -> {"none", "waiting", "done", "failed"}]

(* No request has a number that its command has not reached, and none that is *)
(* under way is one that was carried out; commands are numbered as they are   *)
(* issued, and only the current one waits, for its latest attempt.            *)
TriesInv ==
    /\ \A r \in requests \cup answered : r.attempt < tries[r.n] /\ r.n <= issued
    /\ \A r \in requests, q \in requests \cup answered :
         r.n = q.n /\ r.attempt = q.attempt => r = q /\ q \notin answered
    /\ \A n \in Commands : n > issued => tries[n] = 0 /\ result[n] = "none"
    /\ pc = "waiting" => /\ cmd.n <= issued /\ result[cmd.n] = "waiting"
                         /\ tries[cmd.n] = cmd.attempt + 1

IInv == Types /\ TriesInv

LEMMA InitInv == Init => IInv
<1>. SUFFICES ASSUME Init PROVE IInv
  OBVIOUS
<1>. USE VmixAssumption DEF Init
<1>1. Types
  <2>1. fields \in [program : Known, preview : Known]
    BY DEF Known
  <2>2. issued \in 0..MaxCommands /\ tries \in [Commands -> 0..(Retries + 1)]
    OBVIOUS
  <2>3. vmix \in [program : Sources, preview : Sources, fading : BOOLEAN]
    OBVIOUS
  <2>. QED
    BY <2>1, <2>2, <2>3 DEF Types
<1>2. TriesInv
  BY DEF TriesInv, Commands
<1>. QED
  BY <1>1, <1>2 DEF IInv

LEMMA IssueStep ==
  ASSUME IInv, NEW op \in Ops, NEW src \in Known, NEW syncs \in BOOLEAN, Command(op, src, syncs),
         op = "preview" => src \in Sources
  PROVE  IInv'
<1>. USE VmixAssumption DEF IInv, viewVars, boundVars, Commands, Attempts
<1>. DEFINE c == [n |-> issued + 1, op |-> op, src |-> src, attempt |-> 0,
                  preview |-> vmix.preview, syncs |-> syncs]
<1>1. /\ issued \in Nat /\ issued < MaxCommands /\ issued' = issued + 1
      /\ result' = [result EXCEPT ![c.n] = "waiting"] /\ requests' = requests \cup {RequestOf(c)}
      /\ tries' = [tries EXCEPT ![c.n] = 1]
      /\ pc' = "waiting" /\ cmd' = c /\ UNCHANGED <<vmix, answered, fields, connected>>
  BY DEF Command, Types
<1>2. c \in [n : Commands, op : Ops, src : Known, attempt : Attempts, preview : Sources, syncs : BOOLEAN]
  BY <1>1 DEF Types
<1>3. /\ RequestOf(c) \in Request /\ RequestOf(c).n = issued + 1 /\ RequestOf(c).attempt = 0
      /\ (RequestOf(c).op = "preview" => RequestOf(c).src \in Sources)
  BY <1>2 DEF RequestOf, Request
<1>4. Types'
  BY <1>1, <1>2, <1>3 DEF Types
<1>5. TriesInv'
  <2>1. \A r \in requests \cup answered : r.n \in Nat /\ r.n <= issued /\ r.n # issued + 1 /\ r.attempt \in Nat
    BY <1>1 DEF Types, TriesInv, Request
  <2>2. \A r \in requests \cup answered : tries'[r.n] = tries[r.n]
    BY <1>1, <2>1 DEF Types
  <2>3. \A r \in requests' \cup answered' : r.attempt < tries'[r.n] /\ r.n <= issued'
    BY <1>1, <1>3, <2>1, <2>2 DEF Types, TriesInv
  <2>4. \A r \in requests', q \in requests' \cup answered' :
           r.n = q.n /\ r.attempt = q.attempt => r = q /\ q \notin answered'
    BY <1>1, <1>3, <2>1 DEF TriesInv
  <2>5. /\ \A n \in Commands : n > issued' => tries'[n] = 0 /\ result'[n] = "none"
        /\ cmd'.n <= issued' /\ result'[cmd'.n] = "waiting" /\ tries'[cmd'.n] = cmd'.attempt + 1
    BY <1>1 DEF Types, TriesInv
  <2>. QED
    BY <2>3, <2>4, <2>5 DEF TriesInv
<1>. QED
  BY <1>4, <1>5

LEMMA PollTypes ==
  ASSUME fields \in [program : Known, preview : Known],
         vmix \in [program : Sources, preview : Sources, fading : BOOLEAN], Poll
  PROVE  fields' \in [program : Known, preview : Known] /\ connected' \in BOOLEAN /\ pc' = "idle"
<1>1. Shown \in [program : Known, preview : Known]
  BY DEF Shown, Known
<1>2. /\ pc' = "idle"
      /\ (fields' = Shown /\ connected' = TRUE) \/ (fields' = fields /\ connected' = FALSE)
  BY DEF Poll
<1>. QED
  BY <1>1, <1>2

LEMMA FailStep ==
  ASSUME IInv, AttemptFails
  PROVE  IInv'
<1>. USE VmixAssumption DEF IInv
<1>. DEFINE next == [cmd EXCEPT !.attempt = cmd.attempt + 1]
<1>1. /\ pc = "waiting" /\ cmd.n \in Commands /\ cmd.attempt \in 0..Retries
      /\ cmd \in [n : Commands, op : Ops, src : Known, attempt : Attempts, preview : Sources, syncs : BOOLEAN]
      /\ UNCHANGED <<vmix, answered, fields, connected, issued>>
  BY DEF AttemptFails, Types, Attempts, viewVars
<1>2. CASE LastAttempt
  <2>1. /\ requests' \subseteq requests /\ result' = [result EXCEPT ![cmd.n] = "failed"]
        /\ pc' = "idle" /\ UNCHANGED tries
    BY <1>2 DEF AttemptFails
  <2>. QED
    BY <1>1, <2>1 DEF Types, TriesInv
<1>3. CASE ~LastAttempt
  <2>1. PICK rest \in SUBSET requests :
          /\ requests' = rest \cup {RequestOf(next)} /\ tries' = [tries EXCEPT ![cmd.n] = tries[cmd.n] + 1]
          /\ cmd' = next /\ pc' = pc /\ result' = result
    BY <1>3 DEF AttemptFails
  <2>2. cmd.attempt + 1 \in Attempts /\ tries[cmd.n] = cmd.attempt + 1
    BY <1>1, <1>3 DEF LastAttempt, Attempts, TriesInv
  <2>3. /\ next \in [n : Commands, op : Ops, src : Known, attempt : Attempts, preview : Sources, syncs : BOOLEAN]
        /\ next.n = cmd.n /\ next.attempt = cmd.attempt + 1 /\ next.op = cmd.op /\ next.src = cmd.src
    BY <1>1, <2>2
  <2>4. /\ RequestOf(next) \in Request /\ RequestOf(next).n = cmd.n
        /\ RequestOf(next).attempt = cmd.attempt + 1
    BY <2>3 DEF RequestOf, Request
  <2>5. /\ RequestOf(next).op = "preview" => RequestOf(next).src \in Sources
        /\ next.op = "preview" => next.src \in Sources
    BY <1>1, <2>3 DEF RequestOf, Types
  <2>. HIDE DEF next
  <2>6. tries' \in [Commands -> 0..(Retries + 1)]
    BY <1>1, <2>1, <2>2 DEF Types, Attempts
  <2>7. Types'
    BY <1>1, <2>1, <2>3, <2>4, <2>5, <2>6 DEF Types
  <2>8. \A r \in requests \cup answered : r.n \in Commands /\ r.attempt \in Nat /\ tries[r.n] <= tries'[r.n]
    BY <1>1, <2>1 DEF Types, Request, Attempts
  <2>9. \A r \in requests' \cup answered' : r.attempt < tries'[r.n] /\ r.n <= issued'
    BY <1>1, <2>1, <2>2, <2>4, <2>8 DEF Types, TriesInv, Attempts, Commands
  <2>10. \A r \in requests', q \in requests' \cup answered' :
           r.n = q.n /\ r.attempt = q.attempt => r = q /\ q \notin answered'
    BY <1>1, <2>1, <2>2, <2>4, <2>8 DEF TriesInv
  <2>11. /\ \A n \in Commands : n > issued' => tries'[n] = 0 /\ result'[n] = "none"
         /\ cmd'.n <= issued' /\ result'[cmd'.n] = "waiting" /\ tries'[cmd'.n] = cmd'.attempt + 1
    BY <1>1, <2>1, <2>2, <2>3 DEF Types, TriesInv, Commands
  <2>. QED
    BY <2>7, <2>9, <2>10, <2>11 DEF TriesInv
<1>. QED
  BY <1>2, <1>3

LEMMA LoopStep ==
  ASSUME IInv, Poll \/ RefuseCommand \/ Succeed
  PROVE  IInv'
<1>. USE VmixAssumption DEF IInv, Types, TriesInv, serverVars, viewVars, loopVars, boundVars
<1>1. CASE Poll
  <2>1. fields' \in [program : Known, preview : Known] /\ connected' \in BOOLEAN /\ pc' = "idle"
    <3>1. /\ fields \in [program : Known, preview : Known]
          /\ vmix \in [program : Sources, preview : Sources, fading : BOOLEAN]
      OBVIOUS
    <3>. QED
      BY <1>1, <3>1, PollTypes
  <2>. QED
    BY <1>1, <2>1 DEF Poll
<1>2. CASE RefuseCommand
  <2>1. issued \in Nat /\ issued' = issued + 1 /\ issued + 1 \in Commands
    BY <1>2 DEF RefuseCommand, Commands
  <2>2. /\ result' = [result EXCEPT ![issued + 1] = "failed"] /\ pc = "idle"
        /\ UNCHANGED <<vmix, requests, answered, fields, connected, pc, cmd, tries>>
    BY <1>2 DEF RefuseCommand
  <2>3. \A r \in requests \cup answered : r.n \in Nat
    BY DEF Request, Commands
  <2>. QED
    BY <2>1, <2>2, <2>3 DEF Commands
<1>3. CASE Succeed
  <2>1. Expected \in [program : Known, preview : Known]
    BY <1>3 DEF Succeed, Expected
  <2>. QED
    BY <1>3, <2>1 DEF Succeed
<1>. QED
  BY <1>1, <1>2, <1>3

LEMMA ServerStep ==
  ASSUME IInv, (\E r \in requests : Execute(r)) \/ FadeEnds \/ (\E s \in Sources : Panel(s))
  PROVE  IInv'
<1>. USE DEF IInv, Types, TriesInv, viewVars, loopVars, boundVars
<1>0. Swapped \in [program : Sources, preview : Sources, fading : BOOLEAN]
  BY DEF Swapped
<1>1. ASSUME NEW r \in requests, Execute(r) PROVE IInv'
  <2>1. r \in Request /\ r.n \in Commands /\ r.op \in Ops
    BY DEF Request
  <2>2. vmix' \in [program : Sources, preview : Sources, fading : BOOLEAN]
    BY <1>0, <1>1, <2>1 DEF Execute, Ops
  <2>4. /\ requests' = requests \ {r} /\ answered' = answered \cup {r}
        /\ UNCHANGED <<fields, connected, pc, cmd, issued, tries, result>>
    BY <1>1 DEF Execute
  <2>. QED
    BY <2>1, <2>2, <2>4 DEF Commands
<1>2. CASE FadeEnds
  BY <1>0, <1>2 DEF FadeEnds
<1>3. ASSUME NEW s \in Sources, Panel(s) PROVE IInv'
  BY <1>3 DEF Panel
<1>. QED
  BY <1>1, <1>2, <1>3

LEMMA AnyCommand ==
  ASSUME IInv, CommandAny
  PROVE  \E op \in Ops, src \in Known, syncs \in BOOLEAN :
           Command(op, src, syncs) /\ (op = "preview" => src \in Sources)
<1>1. ASSUME NEW s \in Sources, Command("preview", s, FALSE)
      PROVE  \E op \in Ops, src \in Known, syncs \in BOOLEAN :
               Command(op, src, syncs) /\ (op = "preview" => src \in Sources)
  BY <1>1 DEF Ops, Known
<1>2. CASE Command("cut", NoSource, TRUE) \/ Command("fade", NoSource, TRUE)
  BY <1>2 DEF Ops, Known
<1>3. CASE fields.program # NoSource /\ Command("preview", fields.program, TRUE)
  BY <1>3 DEF Ops, Known, IInv, Types
<1>. QED
  BY <1>1, <1>2, <1>3 DEF CommandAny

LEMMA StepInv ==
  ASSUME IInv, [Next]_vars
  PROVE  IInv'
<1>1. CASE UNCHANGED vars
  BY <1>1 DEF vars, IInv, Types, TriesInv
<1>2. CASE CommandAny
  BY <1>2, AnyCommand, IssueStep
<1>. QED
  BY <1>1, <1>2, LoopStep, FailStep, ServerStep DEF Next

(* Every request is one of the attempts its command has got to, and what is   *)
(* under way has not been carried out.                                        *)
THEOREM TriesInvariant == Spec => []IInv
BY InitInv, StepInv, PTL DEF Spec

(* Types of the vMix backend, for any number of retries: no command is sent   *)
(* more often than once and once more for every retry.                        *)
THEOREM TypeCorrect == Spec => []TypeOK
<1>1. IInv => TypeOK
  BY DEF IInv, Types, TypeOK
<1>. QED
  BY <1>1, TriesInvariant, PTL

(* ------------------------------ refinement -------------------------------- *)
LEMMA StepRefines ==
  ASSUME IInv, [Next]_vars
  PROVE  [Contract!Next]_(Contract!vars)
<1>. USE VmixAssumption DEF IInv, Commands
<1>. DEFINE carried == {<<r.n, r.attempt + 1>> : r \in answered}
<1>0. issued \in 0..MaxCommands /\ tries \in [Commands -> 0..(Retries + 1)]
  BY DEF Types
<1>1. ASSUME NEW op, NEW src, NEW syncs, Command(op, src, syncs) PROVE Contract!Next
  <2>1. issued + 1 \in Commands /\ 1..issued' = 1..issued \cup {issued + 1} /\ issued + 1 \notin 1..issued
    BY <1>0, <1>1 DEF Command
  <2>2. Contract!Issue(issued + 1)
    BY <1>1, <2>1 DEF Command, Contract!Issue
  <2>. QED
    BY <2>1, <2>2 DEF Contract!Next
<1>2. CASE RefuseCommand
  <2>1. issued + 1 \in Commands /\ 1..issued' = 1..issued \cup {issued + 1} /\ issued + 1 \notin 1..issued
    BY <1>0, <1>2 DEF RefuseCommand
  <2>2. UNCHANGED <<answered, tries>> /\ result' = [result EXCEPT ![issued + 1] = "failed"]
    BY <1>2 DEF RefuseCommand, serverVars
  <2>3. tries' = [tries EXCEPT ![issued + 1] = 0]
    BY <1>0, <2>1, <2>2 DEF TriesInv
  <2>4. Contract!Refuse(issued + 1)
    BY <2>1, <2>2, <2>3 DEF Contract!Refuse
  <2>. QED
    BY <2>1, <2>4 DEF Contract!Next
<1>3. CASE Succeed
  <2>1. /\ cmd.n \in Commands /\ tries[cmd.n] = cmd.attempt + 1 /\ result[cmd.n] = "waiting"
        /\ RequestOf(cmd) \in answered
    BY <1>3 DEF Succeed, Types, TriesInv
  <2>2. RequestOf(cmd).n = cmd.n /\ RequestOf(cmd).attempt = cmd.attempt
    BY DEF RequestOf
  <2>3. <<cmd.n, tries[cmd.n]>> \in carried
    BY <2>1, <2>2
  <2>4. Contract!Succeed(cmd.n)
    BY <1>3, <2>1, <2>3 DEF Succeed, Contract!Succeed, serverVars
  <2>. QED
    BY <2>1, <2>4 DEF Contract!Next
<1>4. CASE AttemptFails
  <2>1. /\ cmd.n \in Commands /\ cmd.attempt \in 0..Retries /\ tries[cmd.n] = cmd.attempt + 1
        /\ result[cmd.n] = "waiting"
    BY <1>4 DEF AttemptFails, Types, TriesInv, Attempts
  <2>2. CASE LastAttempt
    <3>1. Contract!Fail(cmd.n)
      BY <1>4, <2>1, <2>2 DEF AttemptFails, Contract!Fail
    <3>. QED
      BY <2>1, <3>1 DEF Contract!Next
  <2>3. CASE ~LastAttempt
    <3>1. tries[cmd.n] < Retries + 1
      BY <2>1, <2>3 DEF LastAttempt
    <3>2. Contract!Retry(cmd.n)
      BY <1>4, <2>1, <2>3, <3>1 DEF AttemptFails, Contract!Retry
    <3>. QED
      BY <2>1, <3>2 DEF Contract!Next
  <2>. QED
    BY <2>2, <2>3
<1>5. ASSUME NEW r \in requests, Execute(r) PROVE Contract!Next
  <2>1. r.n \in Commands /\ r.attempt \in Nat /\ r.attempt + 1 \in 1..tries[r.n]
    BY <1>0 DEF Types, TriesInv, Request, Attempts
  <2>2. <<r.n, r.attempt + 1>> \notin carried
    <3>1. ASSUME NEW q \in answered, <<r.n, r.attempt + 1>> = <<q.n, q.attempt + 1>> PROVE FALSE
      <4>1. q.attempt \in Nat
        BY DEF Types, Request, Attempts
      <4>. QED
        BY <2>1, <3>1, <4>1 DEF TriesInv
    <3>. QED
      BY <3>1
  <2>3. answered' = answered \cup {r} /\ UNCHANGED <<issued, tries, result>>
    BY <1>5 DEF Execute
  <2>4. carried' = carried \cup {<<r.n, r.attempt + 1>>}
    BY <2>3
  <2>. HIDE DEF carried
  <2>5. Contract!Execute(r.n)
    <3>1. /\ <<r.n, r.attempt + 1>> \notin {<<q.n, q.attempt + 1>> : q \in answered}
          /\ {<<q.n, q.attempt + 1>> : q \in answered'}
             = {<<q.n, q.attempt + 1>> : q \in answered} \cup {<<r.n, r.attempt + 1>>}
      BY <2>2, <2>4 DEF carried
    <3>. QED
      BY <2>1, <2>3, <3>1 DEF Contract!Execute
  <2>. QED
    BY <2>1, <2>5 DEF Contract!Next
<1>6. ASSUME UNCHANGED <<issued, tries, answered, result>> PROVE UNCHANGED Contract!vars
  BY <1>6 DEF Contract!vars
<1>7. CASE Poll \/ FadeEnds \/ (\E s \in Sources : Panel(s)) \/ UNCHANGED vars
  BY <1>6, <1>7 DEF Poll, FadeEnds, Panel, vars, serverVars
<1>. QED
  BY <1>1, <1>2, <1>3, <1>4, <1>5, <1>7 DEF Next, CommandAny

(* With any number of retries the backend is a SwitcherContract: a command is *)
(* sent at most once more for every retry and never after it was reported,    *)
(* no request is carried out twice and none is reported as done that was not  *)
(* carried out, whatever is lost or delayed.                                  *)
THEOREM Refinement == Spec => ImplementsContract
<1>1. Init => Contract!Init
  <2>. SUFFICES ASSUME Init PROVE Contract!Init
    OBVIOUS
  <2>1. 1..issued = {} /\ {<<r.n, r.attempt + 1>> : r \in answered} = {}
    BY DEF Init
  <2>. QED
    BY <2>1 DEF Init, Contract!Init
<1>2. IInv /\ [Next]_vars => [Contract!Next]_(Contract!vars)
  BY StepRefines
<1>. QED
  BY <1>1, <1>2, TriesInvariant, PTL DEF Spec, ImplementsContract, Contract!Spec

-----------------------------------------------------------------------------
(* OseeSession, whose connection may be lost without notice and which an      *)
(* apply may disconnect, retire or keep: the behaviours where none of it      *)
(* happens are among these.                                                   *)

(* What the client asks for: a source to be set is one of the switcher's.     *)
SoundRequests == [op : {"getPreview", "getProgram", "cut", "auto"}, src : {NoSource}]
                 \cup [op : {"set"}, src : OseeSources]

(* An apply connects and polls a backend beside its loop.                     *)
WebConnecting == {"connect", "opening", "flag", "getPreview", "getProgram", "sync", "got"}

WebIInv ==
    /\ web \in {"idle", "closing", "making", "retired", "done"} \cup WebConnecting
    /\ webBatch \in Seq(Osee!Messages) /\ webOf \in 0..OseeTransports /\ shared \in BOOLEAN
    /\ web = "got" => webBatch # <<>>
    /\ web = "opening" => webOf \in Osee!Transports
    /\ web \in WebConnecting => shared

OseeTypes ==
    /\ oseeSw \in [program : OseeSources, preview : OseeSources, fading : BOOLEAN]
    /\ session \in 0..OseeTransports /\ open \subseteq Osee!Transports
    /\ toSwitcher \in Seq(SoundRequests) /\ toClient \in Seq(Osee!Messages) /\ batch \in Seq(Osee!Messages)
    /\ {transport, controller} \subseteq Osee!Transports
    /\ state \in [program : Osee!Known, preview : Osee!Known] /\ chosen \in Osee!Known
    /\ oseeConnected \in BOOLEAN /\ noticed \in BOOLEAN
    /\ worker \in {"off", "close", "build", "control", "connect", "flag", "getPreview", "getProgram"}
    /\ loop \in {"start", "idle", "got", "entering"}

(* What the worker is replacing: it has found the transport of use no more,   *)
(* closed it, built the next one, and not opened it yet.                      *)
WorkerIInv ==
    /\ worker \in {"close", "build"} => transport < OseeTransports
    /\ ~shared =>
         /\ worker = "close" => ~Osee!is_connected
         /\ worker \in {"build", "control", "connect"} => open = {}
         /\ worker # "control" => controller = transport
         /\ open \subseteq {transport}

(* The loop holds messages of a transport that was open when it read them,    *)
(* and the worker does not begin before it has handled them.                  *)
LoopIInv ==
    /\ loop = "got" => batch # <<>>
    /\ ~shared /\ loop = "got" =>
         /\ batchOf = controller
         /\ worker \notin {"close", "build", "control", "connect"}

OseeIInv == OseeTypes /\ WorkerIInv /\ LoopIInv

LEMMA OseeInitInv == (\E parts : Parts(parts)) => OseeIInv /\ WebIInv
<1>. SUFFICES ASSUME NEW parts, Parts(parts) PROVE OseeIInv /\ WebIInv
  OBVIOUS
<1>. USE SwitcherBounds DEF Parts, Osee!Init, Osee!Transports
<1>1. OseeTypes
  <2>1. <<>> \in Seq(SoundRequests) /\ <<>> \in Seq(Osee!Messages)
    OBVIOUS
  <2>2. state \in [program : Osee!Known, preview : Osee!Known] /\ chosen \in Osee!Known
    BY DEF Osee!Unknown, Osee!Known
  <2>3. oseeSw \in [program : OseeSources, preview : OseeSources, fading : BOOLEAN]
    OBVIOUS
  <2>4. /\ session \in 0..OseeTransports /\ open \subseteq Osee!Transports
        /\ {transport, controller} \subseteq Osee!Transports
    OBVIOUS
  <2>. QED
    BY <2>1, <2>2, <2>3, <2>4 DEF OseeTypes
<1>2. WorkerIInv /\ LoopIInv
  BY DEF WorkerIInv, LoopIInv
<1>3. WebIInv
  <2>1. /\ web \in {"idle", "connect"} /\ shared \in BOOLEAN /\ (web = "connect" => shared)
        /\ webOf = 0 /\ webBatch = <<>>
    OBVIOUS
  <2>. QED
    BY <2>1 DEF WebIInv, WebConnecting
<1>. QED
  BY <1>1, <1>2, <1>3 DEF OseeIInv

(* Closing a transport and sending change only the session and its messages.  *)
LEMMA CloseTypes ==
  ASSUME OseeIInv, NEW t, Osee!Close(t)
  PROVE  /\ session' \in 0..OseeTransports /\ open' = open \ {t} /\ UNCHANGED <<oseeSw, noticed>>
         /\ toSwitcher' \in Seq(SoundRequests) /\ toClient' \in Seq(Osee!Messages)
BY SwitcherBounds DEF Osee!Close, OseeIInv, OseeTypes

LEMMA SendTypes ==
  ASSUME OseeIInv, NEW t, NEW r \in SoundRequests, Osee!Send(t, r)
  PROVE  /\ noticed' \in BOOLEAN /\ toSwitcher' \in Seq(SoundRequests)
         /\ UNCHANGED <<oseeSw, session, toClient, open>>
<1>1. /\ UNCHANGED <<oseeSw, session, toClient, open>>
      /\ \/ toSwitcher' = Append(toSwitcher, r) /\ noticed' = noticed
         \/ toSwitcher' = toSwitcher /\ noticed' = TRUE
  BY DEF Osee!Send
<1>2. toSwitcher \in Seq(SoundRequests) /\ noticed \in BOOLEAN
  BY DEF OseeIInv, OseeTypes
<1>3. Append(toSwitcher, r) \in Seq(SoundRequests)
  BY <1>2
<1>. QED
  BY <1>1, <1>2, <1>3

LEMMA SendRaisesTypes ==
  ASSUME OseeIInv, NEW t, Osee!SendRaises(t)
  PROVE  /\ session' \in 0..OseeTransports /\ open' \in {open, open \ {t}} /\ UNCHANGED <<oseeSw, noticed>>
         /\ toSwitcher' \in Seq(SoundRequests) /\ toClient' \in Seq(Osee!Messages)
<1>1. CASE t \notin open /\ UNCHANGED <<Osee!switcherVars, open>>
  BY <1>1 DEF Osee!switcherVars, OseeIInv, OseeTypes
<1>2. CASE Osee!Close(t)
  BY <1>2, CloseTypes
<1>. QED
  BY <1>1, <1>2 DEF Osee!SendRaises

LEMMA WorkerSteps ==
  ASSUME OseeIInv, Osee!Worker
  PROVE  OseeIInv'
<1>. USE SwitcherBounds DEF OseeIInv, Osee!loopVars, Osee!webVars, Osee!clientVars, Osee!switcherVars, Osee!boundVars,
         Osee!Transports
<1>1. CASE Osee!WorkerCloses
  <2>. USE <1>1 DEF Osee!WorkerCloses
  <2>1. OseeTypes'
    BY CloseTypes DEF OseeTypes
  <2>2. WorkerIInv' /\ LoopIInv'
    BY CloseTypes DEF WorkerIInv, LoopIInv
  <2>. QED
    BY <2>1, <2>2
<1>2. CASE Osee!WorkerBuilds
  <2>. USE <1>2 DEF Osee!WorkerBuilds
  <2>0. /\ transport \in 1..OseeTransports /\ transport < OseeTransports /\ transport' = transport + 1
    BY DEF OseeTypes, WorkerIInv
  <2>1. transport' \in 1..OseeTransports
    <3>1. OseeTransports \in Nat
      OBVIOUS
    <3>. HIDE SwitcherBounds
    <3>. QED
      BY <2>0, <3>1
  <2>2. OseeTypes'
    BY <2>1 DEF OseeTypes
  <2>3. WorkerIInv' /\ LoopIInv'
    BY DEF WorkerIInv, LoopIInv
  <2>. QED
    BY <2>2, <2>3
<1>3. CASE Osee!WorkerControls
  <2>. USE <1>3 DEF Osee!WorkerControls, Osee!NewController
  <2>1. state' \in [program : Osee!Known, preview : Osee!Known]
    BY DEF Osee!Unknown, Osee!Known
  <2>2. OseeTypes'
    BY <2>1 DEF OseeTypes
  <2>3. WorkerIInv' /\ LoopIInv'
    BY DEF WorkerIInv, LoopIInv
  <2>. QED
    BY <2>2, <2>3
<1>4. CASE Osee!WorkerConnects
  <2>7. \/ /\ worker' = "flag" /\ open' = open \cup {transport} /\ session' = transport
           /\ toSwitcher' = <<>> /\ toClient' = <<>> /\ noticed' = FALSE /\ oseeConnected' = oseeConnected
        \/ /\ worker' \in {"off", "flag"} /\ oseeConnected' \in {oseeConnected, FALSE}
           /\ UNCHANGED <<open, session, toSwitcher, toClient, noticed>>
    BY <1>4 DEF Osee!WorkerConnects, Osee!Opens
  <2>8. worker = "connect" /\ UNCHANGED <<oseeSw, transport, controller, state, loop, batch, batchOf, chosen, web, webOf, webBatch, shared>>
    BY <1>4 DEF Osee!WorkerConnects, Osee!Opens
  <2>3. /\ transport \in 1..OseeTransports /\ session \in 0..OseeTransports /\ open \subseteq 1..OseeTransports
        /\ toSwitcher \in Seq(SoundRequests) /\ toClient \in Seq(Osee!Messages)
        /\ oseeConnected \in BOOLEAN /\ noticed \in BOOLEAN
    BY DEF OseeTypes
  <2>9. \/ /\ open' = open \cup {transport} /\ session' = transport
           /\ toSwitcher' = <<>> /\ toClient' = <<>>
        \/ open' = open /\ session' = session /\ toSwitcher' = toSwitcher /\ toClient' = toClient
    BY <2>7
  <2>4. /\ session' \in 0..OseeTransports /\ open' \subseteq 1..OseeTransports
        /\ toSwitcher' \in Seq(SoundRequests) /\ toClient' \in Seq(Osee!Messages)
    <3>1. CASE open' = open \cup {transport} /\ session' = transport /\ toSwitcher' = <<>> /\ toClient' = <<>>
      BY <2>3, <3>1
    <3>2. CASE open' = open /\ session' = session /\ toSwitcher' = toSwitcher /\ toClient' = toClient
      BY <2>3, <3>2
    <3>. QED
      BY <2>9, <3>1, <3>2
  <2>6. oseeConnected' \in BOOLEAN /\ noticed' \in BOOLEAN /\ worker' \in {"flag", "off"}
        /\ UNCHANGED <<oseeSw, transport, controller, state, loop, batch, batchOf, chosen, web, webOf, webBatch, shared>>
    BY <2>3, <2>7, <2>8
  <2>1. OseeTypes'
    BY <2>4, <2>6 DEF OseeTypes
  <2>2. WorkerIInv' /\ LoopIInv'
    BY <2>7, <2>8 DEF WorkerIInv, LoopIInv
  <2>. QED
    BY <2>1, <2>2
<1>5. CASE Osee!WorkerFlags
  <2>. USE <1>5 DEF Osee!WorkerFlags
  <2>1. OseeTypes'
    BY DEF OseeTypes
  <2>2. WorkerIInv' /\ LoopIInv'
    BY DEF WorkerIInv, LoopIInv
  <2>. QED
    BY <2>1, <2>2
<1>6. CASE Osee!WorkerRequests
  <2>. DEFINE r == [op |-> worker, src |-> NoSource]
  <2>1. /\ worker \in {"getPreview", "getProgram"} /\ worker' \in {"getProgram", "off"}
        /\ Osee!Send(transport, r) \/ Osee!SendRaises(transport)
        /\ UNCHANGED <<transport, controller, state, oseeConnected, loop, batch, batchOf, chosen, web, webOf, webBatch, shared>>
    BY <1>6 DEF Osee!WorkerRequests, Osee!NextRequest
  <2>2. r \in SoundRequests
    BY <2>1 DEF SoundRequests
  <2>. HIDE DEF r
  <2>3. /\ session' \in 0..OseeTransports /\ open' \subseteq open /\ noticed' \in BOOLEAN /\ oseeSw' = oseeSw
        /\ toSwitcher' \in Seq(SoundRequests) /\ toClient' \in Seq(Osee!Messages)
    <3>1. CASE Osee!Send(transport, r)
      BY <2>2, <3>1, SendTypes DEF OseeTypes
    <3>2. CASE Osee!SendRaises(transport)
      BY <3>2, SendRaisesTypes DEF OseeTypes
    <3>. QED
      BY <2>1, <3>1, <3>2
  <2>4. OseeTypes'
    BY <2>1, <2>3 DEF OseeTypes
  <2>5. WorkerIInv' /\ LoopIInv'
    BY <2>1, <2>3 DEF WorkerIInv, LoopIInv
  <2>. QED
    BY <2>4, <2>5
<1>. QED
  BY <1>1, <1>2, <1>3, <1>4, <1>5, <1>6 DEF Osee!Worker

(* One recv takes a part of what has arrived.                                 *)
LEMMA ReceivedTypes ==
  ASSUME NEW s \in Seq(Osee!Messages), NEW k \in 1..Len(s)
  PROVE  /\ SubSeq(s, 1, k) \in Seq(Osee!Messages) /\ SubSeq(s, 1, k) # <<>>
         /\ SubSeq(s, k + 1, Len(s)) \in Seq(Osee!Messages)
<1>1. Len(s) \in Nat
  OBVIOUS
<1>2. /\ \A i \in 1..k : s[i] \in Osee!Messages
      /\ \A i \in k + 1 .. Len(s) : s[i] \in Osee!Messages
  BY <1>1, ElementOfSeq, SMTT(30)
<1>3. SubSeq(s, 1, k) \in Seq(Osee!Messages) /\ Len(SubSeq(s, 1, k)) = k
  BY <1>1, <1>2, SubSeqProperties
<1>4. SubSeq(s, k + 1, Len(s)) \in Seq(Osee!Messages)
  BY <1>1, <1>2, SubSeqProperties
<1>5. Len(SubSeq(s, 1, k)) # 0
  BY <1>3
<1>. QED
  BY <1>3, <1>4, <1>5

LEMMA LoopSteps ==
  ASSUME OseeIInv, Osee!Loop
  PROVE  OseeIInv'
<1>. USE SwitcherBounds DEF OseeIInv, Osee!loopVars, Osee!webVars, Osee!clientVars, Osee!switcherVars, Osee!boundVars,
         Osee!Transports
<1>1. CASE Osee!StartLoop \/ Osee!PollTimesOut
  <2>1. /\ UNCHANGED <<oseeSw, session, toSwitcher, toClient, noticed, open, transport, controller, state,
                        oseeConnected, worker, batch, batchOf, chosen, web, webOf, webBatch, shared>>
        /\ loop' \in {loop, "idle"}
    BY <1>1 DEF Osee!StartLoop, Osee!PollTimesOut, Osee!vars
  <2>2. OseeTypes'
    BY <2>1 DEF OseeTypes
  <2>3. WorkerIInv' /\ LoopIInv'
    BY <2>1 DEF WorkerIInv, LoopIInv, Osee!is_connected
  <2>. QED
    BY <2>2, <2>3
<1>2. CASE Osee!Reconnect
  <2>. USE <1>2 DEF Osee!Reconnect, Osee!NeedsReconnect
  <2>1. OseeTypes'
    BY DEF OseeTypes
  <2>2. WorkerIInv' /\ LoopIInv'
    BY DEF WorkerIInv, LoopIInv, Osee!is_connected, OseeTypes
  <2>. QED
    BY <2>1, <2>2
<1>3. CASE Osee!PollReceives
  <2>. USE DEF Osee!PollReceives
  <2>1. PICK k \in 1..Len(toClient) :
          batch' = SubSeq(toClient, 1, k) /\ toClient' = SubSeq(toClient, k + 1, Len(toClient))
    BY <1>3
  <2>2. toClient \in Seq(Osee!Messages) /\ Len(toClient) \in Nat
    BY DEF OseeTypes
  <2>3. batch' \in Seq(Osee!Messages) /\ batch' # <<>> /\ toClient' \in Seq(Osee!Messages)
    BY <2>1, <2>2, ReceivedTypes
  <2>4. OseeTypes'
    BY <1>3, <2>3 DEF OseeTypes
  <2>5. WorkerIInv'
    BY <1>3 DEF WorkerIInv, Osee!is_connected
  <2>6. LoopIInv'
    BY <1>3, <2>3 DEF WorkerIInv, LoopIInv, Osee!is_connected, OseeTypes
  <2>. QED
    BY <2>4, <2>5, <2>6
<1>4. CASE Osee!PollFails
  <2>. USE <1>4 DEF Osee!PollFails
  <2>1. OseeTypes'
    BY CloseTypes DEF OseeTypes
  <2>2. WorkerIInv' /\ LoopIInv'
    BY CloseTypes DEF WorkerIInv, LoopIInv, Osee!is_connected
  <2>. QED
    BY <2>1, <2>2
<1>5. CASE Osee!HandleMessage
  <2>. USE DEF Osee!HandleMessage
  <2>1. batch \in Seq(Osee!Messages) /\ batch # <<>>
    BY <1>5 DEF OseeTypes, LoopIInv
  <2>2. Head(batch) \in Osee!Messages /\ Tail(batch) \in Seq(Osee!Messages)
    BY <2>1
  <2>. DEFINE m == Head(batch)
  <2>3. m.src \in Osee!Known
    BY <2>2 DEF Osee!Messages
  <2>. HIDE DEF m
  <2>4. Osee!Handled(state, m) \in [program : Osee!Known, preview : Osee!Known]
    BY <2>3 DEF Osee!Handled, OseeTypes
  <2>5. OseeTypes'
    BY <1>5, <2>2, <2>4 DEF OseeTypes, m
  <2>6. WorkerIInv' /\ LoopIInv'
    BY <1>5 DEF WorkerIInv, LoopIInv, Osee!is_connected
  <2>. QED
    BY <2>5, <2>6
<1>6. CASE Osee!EnterPreview
  <2>. USE <1>6 DEF Osee!EnterPreview
  <2>1. OseeTypes'
    BY DEF OseeTypes, Osee!Known
  <2>2. WorkerIInv' /\ LoopIInv'
    BY DEF WorkerIInv, LoopIInv, Osee!is_connected
  <2>. QED
    BY <2>1, <2>2
<1>. QED
  BY <1>1, <1>2, <1>3, <1>4, <1>5, <1>6 DEF Osee!Loop

LEMMA CommandSteps ==
  ASSUME OseeIInv,
         \/ \E s \in OseeSources : Osee!SendPreview(s)
         \/ \E op \in {"cut", "auto"} : Osee!SendTransition(op)
  PROVE  OseeIInv'
<1>. USE SwitcherBounds DEF OseeIInv, Osee!loopVars, Osee!webVars, Osee!Transports
<1>1. ASSUME NEW r \in SoundRequests, Osee!Send(controller, r) \/ Osee!SendRaises(controller),
             UNCHANGED <<transport, controller, state, oseeConnected, worker, batch, batchOf, web, webOf, webBatch, shared>>,
             chosen' \in Osee!Known, loop' \in {loop, "entering"}
      PROVE OseeIInv'
  <2>1. /\ session' \in 0..OseeTransports /\ open' \subseteq open /\ noticed' \in BOOLEAN /\ oseeSw' = oseeSw
        /\ toSwitcher' \in Seq(SoundRequests) /\ toClient' \in Seq(Osee!Messages)
    <3>1. CASE Osee!Send(controller, r)
      BY <3>1, SendTypes DEF OseeTypes
    <3>2. CASE Osee!SendRaises(controller)
      BY <3>2, SendRaisesTypes DEF OseeTypes
    <3>. QED
      BY <1>1, <3>1, <3>2
  <2>2. OseeTypes'
    BY <1>1, <2>1 DEF OseeTypes
  <2>3. WorkerIInv' /\ LoopIInv'
    BY <1>1, <2>1 DEF WorkerIInv, LoopIInv, Osee!is_connected
  <2>. QED
    BY <2>2, <2>3
<1>2. ASSUME NEW s \in OseeSources, Osee!SendPreview(s) PROVE OseeIInv'
  <2>. DEFINE r == [op |-> "set", src |-> s]
  <2>1. r \in SoundRequests
    BY DEF SoundRequests
  <2>2. Osee!Send(controller, r) \/ Osee!SendRaises(controller)
    BY <1>2 DEF Osee!SendPreview
  <2>3. /\ UNCHANGED <<transport, controller, state, oseeConnected, worker, batch, batchOf, web, webOf, webBatch, shared>>
        /\ chosen' \in Osee!Known /\ loop' \in {loop, "entering"}
    BY <1>2 DEF Osee!SendPreview, OseeTypes, Osee!Known
  <2>. HIDE DEF r, OseeIInv
  <2>. QED
    BY <1>1, <2>1, <2>2, <2>3
<1>3. ASSUME NEW op \in {"cut", "auto"}, Osee!SendTransition(op) PROVE OseeIInv'
  <2>. DEFINE r == [op |-> op, src |-> NoSource]
  <2>1. r \in SoundRequests
    BY DEF SoundRequests
  <2>2. Osee!Send(controller, r) \/ Osee!SendRaises(controller)
    BY <1>3 DEF Osee!SendTransition
  <2>3. /\ UNCHANGED <<transport, controller, state, oseeConnected, worker, batch, batchOf, web, webOf, webBatch, shared>>
        /\ chosen' \in Osee!Known /\ loop' \in {loop, "entering"}
    BY <1>3 DEF Osee!SendTransition, OseeTypes
  <2>. HIDE DEF r, OseeIInv
  <2>. QED
    BY <1>1, <2>1, <2>2, <2>3
<1>. QED
  BY <1>2, <1>3

LEMMA WebLeaves ==
  ASSUME OseeIInv, Osee!WebCloses \/ Osee!WebUnflags \/ Osee!WebMakes
  PROVE  OseeIInv'
<1>. USE DEF OseeIInv, Osee!loopVars, Osee!webVars, Osee!clientVars, Osee!switcherVars, Osee!boundVars
<1>1. CASE Osee!WebCloses
  <2>. USE <1>1 DEF Osee!WebCloses
  <2>1. OseeTypes'
    BY CloseTypes DEF OseeTypes
  <2>2. WorkerIInv' /\ LoopIInv'
    BY CloseTypes DEF WorkerIInv, LoopIInv, Osee!is_connected
  <2>. QED
    BY <2>1, <2>2
<1>2. CASE Osee!WebUnflags
  BY <1>2 DEF Osee!WebUnflags, OseeTypes, WorkerIInv, LoopIInv, Osee!is_connected
<1>3. CASE Osee!WebMakes
  <2>1. /\ UNCHANGED <<oseeSw, session, toSwitcher, toClient, noticed, open, transport, controller, state,
                       oseeConnected, worker, loop, batch, batchOf, chosen>>
        /\ shared' = shared \/ shared'
    BY <1>3 DEF Osee!WebMakes
  <2>2. OseeTypes'
    BY <2>1 DEF OseeTypes
  <2>3. WorkerIInv' /\ LoopIInv'
    BY <2>1 DEF WorkerIInv, LoopIInv, Osee!is_connected
  <2>. QED
    BY <2>2, <2>3
<1>. QED
  BY <1>1, <1>2, <1>3

(* An apply that connects a backend keeps its types; what else it may mix up  *)
(* is no claim about a shared backend.                                        *)
LEMMA WebConnectsTypes ==
  ASSUME OseeIInv, WebIInv, Osee!WebConnects \/ Osee!WebOpens \/ Osee!WebFlags \/ Osee!WebRequests
  PROVE  OseeTypes' /\ UNCHANGED <<worker, transport, loop, batch, shared>>
<1>. USE DEF Osee!loopVars, Osee!webVars, Osee!clientVars, Osee!switcherVars, Osee!boundVars, Osee!Transports
<1>0. OseeTypes
  BY DEF OseeIInv
<1>1. CASE Osee!WebConnects
  BY <1>0, <1>1 DEF Osee!WebConnects, OseeTypes
<1>2. CASE Osee!WebOpens
  <2>1. /\ web = "opening"
        /\ UNCHANGED <<oseeSw, transport, controller, state, oseeConnected, worker, loop, batch, batchOf,
                       chosen, webBatch, shared>>
    BY <1>2 DEF Osee!WebOpens, Osee!Opens
  <2>2. \/ /\ open' = open \cup {webOf} /\ session' = webOf /\ toSwitcher' = <<>> /\ toClient' = <<>>
           /\ noticed' \in BOOLEAN
        \/ UNCHANGED <<open, session, toSwitcher, toClient, noticed>>
    BY <1>2 DEF Osee!WebOpens, Osee!Opens
  <2>3. /\ open' \subseteq 1..OseeTransports /\ session' \in 0..OseeTransports /\ noticed' \in BOOLEAN
        /\ toSwitcher' \in Seq(SoundRequests) /\ toClient' \in Seq(Osee!Messages)
    <3>1. /\ webOf \in 1..OseeTransports /\ webOf \in 0..OseeTransports
          /\ open \subseteq 1..OseeTransports /\ session \in 0..OseeTransports /\ noticed \in BOOLEAN
          /\ toSwitcher \in Seq(SoundRequests) /\ toClient \in Seq(Osee!Messages)
      BY <1>0, <2>1 DEF OseeTypes, WebIInv
    <3>2. CASE UNCHANGED <<open, session, toSwitcher, toClient, noticed>>
      BY <3>1, <3>2
    <3>3. CASE /\ open' = open \cup {webOf} /\ session' = webOf /\ toSwitcher' = <<>> /\ toClient' = <<>>
               /\ noticed' \in BOOLEAN
      BY <3>1, <3>3
    <3>. QED
      BY <2>2, <3>2, <3>3
  <2>. QED
    BY <1>0, <2>1, <2>3 DEF OseeTypes
<1>3. CASE Osee!WebFlags
  BY <1>0, <1>3 DEF Osee!WebFlags, OseeTypes
<1>4. CASE Osee!WebRequests
  <2>. DEFINE r == [op |-> web, src |-> NoSource]
  <2>1. /\ web \in {"getPreview", "getProgram"}
        /\ Osee!Send(transport, r) \/ Osee!SendRaises(transport)
        /\ UNCHANGED <<transport, controller, state, oseeConnected, worker, loop, batch, batchOf, chosen,
                       webOf, webBatch, shared>>
    BY <1>4 DEF Osee!WebRequests
  <2>2. r \in SoundRequests
    BY <2>1 DEF SoundRequests
  <2>. HIDE DEF r
  <2>3. /\ session' \in 0..OseeTransports /\ open' \subseteq open /\ noticed' \in BOOLEAN /\ oseeSw' = oseeSw
        /\ toSwitcher' \in Seq(SoundRequests) /\ toClient' \in Seq(Osee!Messages)
    <3>1. CASE Osee!Send(transport, r)
      BY <1>0, <2>2, <3>1, SendTypes DEF OseeTypes
    <3>2. CASE Osee!SendRaises(transport)
      BY <1>0, <3>2, SendRaisesTypes DEF OseeTypes
    <3>. QED
      BY <2>1, <3>1, <3>2
  <2>. QED
    BY <1>0, <2>1, <2>3 DEF OseeTypes
<1>. QED
  BY <1>1, <1>2, <1>3, <1>4

LEMMA WebPollsTypes ==
  ASSUME OseeIInv, WebIInv, Osee!WebPolls \/ Osee!WebHandles
  PROVE  /\ OseeTypes' /\ webBatch' \in Seq(Osee!Messages) /\ (web' = "got" => webBatch' # <<>>)
         /\ web' \in {"got", "done"} /\ UNCHANGED <<worker, transport, loop, batch, shared, webOf>>
<1>. USE DEF Osee!loopVars, Osee!webVars, Osee!clientVars, Osee!switcherVars, Osee!boundVars, Osee!Transports
<1>0. OseeTypes /\ webBatch \in Seq(Osee!Messages)
  BY DEF OseeIInv, WebIInv
<1>1. CASE Osee!WebPolls
  <2>1. UNCHANGED <<worker, loop, batch, batchOf, chosen, webOf, shared>>
    BY <1>1 DEF Osee!WebPolls
  <2>2. \/ web' = "done" /\ UNCHANGED <<Osee!switcherVars, Osee!clientVars, webBatch>>
        \/ /\ \E k \in 1..Len(toClient) :
                 webBatch' = SubSeq(toClient, 1, k) /\ toClient' = SubSeq(toClient, k + 1, Len(toClient))
           /\ web' = "got" /\ UNCHANGED <<oseeSw, session, toSwitcher, noticed, Osee!clientVars>>
        \/ /\ Osee!Close(transport) /\ oseeConnected' = FALSE
           /\ web' = "done" /\ UNCHANGED <<transport, controller, state, webBatch>>
    BY <1>1 DEF Osee!WebPolls
  <2>3. CASE web' = "done" /\ UNCHANGED <<Osee!switcherVars, Osee!clientVars, webBatch>>
    BY <1>0, <2>1, <2>3 DEF OseeTypes
  <2>4. CASE /\ \E k \in 1..Len(toClient) :
                 webBatch' = SubSeq(toClient, 1, k) /\ toClient' = SubSeq(toClient, k + 1, Len(toClient))
             /\ web' = "got" /\ UNCHANGED <<oseeSw, session, toSwitcher, noticed, Osee!clientVars>>
    <3>1. toClient \in Seq(Osee!Messages)
      BY <1>0 DEF OseeTypes
    <3>2. webBatch' \in Seq(Osee!Messages) /\ webBatch' # <<>> /\ toClient' \in Seq(Osee!Messages)
      BY <2>4, <3>1, ReceivedTypes
    <3>. QED
      BY <1>0, <2>1, <2>4, <3>2 DEF OseeTypes
  <2>5. CASE /\ Osee!Close(transport) /\ oseeConnected' = FALSE
             /\ web' = "done" /\ UNCHANGED <<transport, controller, state, webBatch>>
    BY <1>0, <2>1, <2>5, CloseTypes DEF OseeTypes
  <2>. QED
    BY <2>2, <2>3, <2>4, <2>5
<1>2. CASE Osee!WebHandles
  <2>1. webBatch \in Seq(Osee!Messages) /\ webBatch # <<>>
    BY <1>0, <1>2 DEF WebIInv, Osee!WebHandles
  <2>2. Head(webBatch) \in Osee!Messages /\ Tail(webBatch) \in Seq(Osee!Messages)
    BY <2>1
  <2>. DEFINE m == Head(webBatch)
  <2>3. m.src \in Osee!Known
    BY <2>2 DEF Osee!Messages
  <2>. HIDE DEF m
  <2>4. Osee!Handled(state, m) \in [program : Osee!Known, preview : Osee!Known]
    BY <1>0, <2>3 DEF Osee!Handled, OseeTypes
  <2>5. /\ state' = Osee!Handled(state, m) /\ webBatch' = Tail(webBatch)
        /\ web' = IF webBatch' = <<>> THEN "done" ELSE "got"
        /\ UNCHANGED <<oseeSw, session, toSwitcher, toClient, noticed, open, transport, controller,
                       oseeConnected, worker, loop, batch, batchOf, chosen, webOf, shared>>
    BY <1>2 DEF Osee!WebHandles, m
  <2>. QED
    BY <1>0, <2>2, <2>4, <2>5 DEF OseeTypes
<1>. QED
  BY <1>1, <1>2

LEMMA WebTypes ==
  ASSUME OseeTypes, WebIInv, Osee!WebCloses \/ Osee!Web,
         Osee!WebPolls \/ Osee!WebHandles =>
           /\ webBatch' \in Seq(Osee!Messages) /\ (web' = "got" => webBatch' # <<>>)
           /\ web' \in {"got", "done"} /\ UNCHANGED <<shared, webOf>>
  PROVE  WebIInv'
<1>. USE DEF Osee!Transports
<1>1. CASE Osee!WebPolls \/ Osee!WebHandles
  <2>1. web \in WebConnecting
    BY <1>1 DEF Osee!WebPolls, Osee!WebHandles, WebConnecting
  <2>. QED
    BY <1>1, <2>1 DEF WebIInv, WebConnecting
<1>2. CASE Osee!WebConnects
  <2>1. /\ web = "connect" /\ web' \in {"sync", "flag", "opening"} /\ webOf' \in {transport, 0}
        /\ (web' = "opening" => webOf' = transport) /\ UNCHANGED <<webBatch, shared>>
    BY <1>2 DEF Osee!WebConnects
  <2>2. transport \in 1..OseeTransports /\ OseeTransports \in Nat
    BY SwitcherBounds DEF OseeTypes
  <2>3. webOf' \in 0..OseeTransports /\ (web' = "opening" => webOf' \in 1..OseeTransports)
    BY <2>1, <2>2
  <2>. QED
    BY <2>1, <2>3 DEF WebIInv, WebConnecting
<1>3. CASE Osee!WebOpens
  <2>1. /\ web = "opening" /\ web' \in {"sync", "flag"} /\ webOf' = 0 /\ UNCHANGED <<webBatch, shared>>
    BY <1>3 DEF Osee!WebOpens
  <2>2. 0 \in 0..OseeTransports
    <3>1. OseeTransports \in Nat
      BY SwitcherBounds
    <3>. QED
      BY <3>1
  <2>. QED
    BY <2>1, <2>2 DEF WebIInv, WebConnecting
<1>4. CASE Osee!WebCloses \/ Osee!WebUnflags
  BY <1>4 DEF Osee!WebCloses, Osee!WebUnflags, WebIInv, WebConnecting
<1>5. CASE Osee!WebMakes
  <2>1. /\ UNCHANGED <<webOf, webBatch>>
        /\ (web' = "retired" /\ shared' = shared) \/ (web' = "connect" /\ shared' = TRUE)
    BY <1>5 DEF Osee!WebMakes
  <2>. QED
    BY <2>1 DEF WebIInv, WebConnecting
<1>6. CASE Osee!WebFlags
  BY <1>6 DEF Osee!WebFlags, WebIInv, WebConnecting
<1>7. CASE Osee!WebRequests
  <2>1. web \in {"getPreview", "getProgram"} /\ web' \in {"getProgram", "sync"} /\ UNCHANGED <<webOf, webBatch, shared>>
    BY <1>7 DEF Osee!WebRequests
  <2>. QED
    BY <2>1 DEF WebIInv, WebConnecting
<1>. QED
  BY <1>1, <1>2, <1>3, <1>4, <1>5, <1>6, <1>7 DEF Osee!Web

LEMMA WebSteps ==
  ASSUME OseeIInv, WebIInv, Osee!WebCloses \/ Osee!Web
  PROVE  OseeIInv' /\ WebIInv'
<1>1. OseeIInv'
  <2>1. CASE Osee!WebCloses \/ Osee!WebUnflags \/ Osee!WebMakes
    BY <2>1, WebLeaves
  <2>2. CASE \/ Osee!WebConnects \/ Osee!WebOpens \/ Osee!WebFlags \/ Osee!WebRequests
             \/ Osee!WebPolls \/ Osee!WebHandles
    <3>1. shared
      BY <2>2 DEF WebIInv, WebConnecting, Osee!WebConnects, Osee!WebOpens, Osee!WebFlags, Osee!WebRequests,
         Osee!WebPolls, Osee!WebHandles
    <3>2. OseeTypes' /\ UNCHANGED <<worker, transport, loop, batch, shared>>
      BY <2>2, WebConnectsTypes, WebPollsTypes
    <3>. QED
      BY <3>1, <3>2 DEF OseeIInv, WorkerIInv, LoopIInv
  <2>. QED
    BY <2>1, <2>2 DEF Osee!Web
<1>2. WebIInv'
  BY WebPollsTypes, WebTypes DEF OseeIInv
<1>. QED
  BY <1>1, <1>2

(* What the switcher sends names its sources.                                 *)
LEMMA PushesAreMessages ==
  ASSUME NEW s \in [program : OseeSources, preview : OseeSources, fading : BOOLEAN]
  PROVE  Osee!Pushes(s) \in Seq(Osee!Messages)
<1>. DEFINE x == IF s.program # oseeSw.program THEN <<Osee!Msg("pgm", s.program)>> ELSE <<>>
            y == IF s.preview # oseeSw.preview THEN <<Osee!Msg("pvw", s.preview)>> ELSE <<>>
<1>1. Osee!Msg("pgm", s.program) \in Osee!Messages /\ Osee!Msg("pvw", s.preview) \in Osee!Messages
  BY DEF Osee!Msg, Osee!Messages, Osee!Known
<1>2. x \in Seq(Osee!Messages)
  BY <1>1
<1>3. y \in Seq(Osee!Messages)
  BY <1>1
<1>4. Osee!Pushes(s) = x \o y
  BY DEF Osee!Pushes
<1>. HIDE DEF x, y
<1>. QED
  BY <1>2, <1>3, <1>4, ConcatProperties

LEMMA EnterTypes ==
  ASSUME OseeIInv, NEW s \in [program : OseeSources, preview : OseeSources, fading : BOOLEAN],
         NEW reply \in Seq(Osee!Messages), Osee!Enter(s, reply)
  PROVE  oseeSw' = s /\ toClient' \in Seq(Osee!Messages)
<1>1. toClient \in Seq(Osee!Messages) /\ Osee!Pushes(s) \in Seq(Osee!Messages)
  BY PushesAreMessages DEF OseeIInv, OseeTypes
<1>2. toClient \o reply \in Seq(Osee!Messages)
  BY <1>1, ConcatProperties
<1>3. toClient \o reply \o Osee!Pushes(s) \in Seq(Osee!Messages)
  BY <1>1, <1>2, ConcatProperties
<1>4. oseeSw' = s /\ toClient' \in {toClient, toClient \o reply \o Osee!Pushes(s)}
  BY DEF Osee!Enter
<1>. QED
  BY <1>1, <1>3, <1>4

LEMMA SwitcherSteps ==
  ASSUME OseeIInv, Osee!Switcher
  PROVE  OseeIInv'
<1>. DEFINE States == [program : OseeSources, preview : OseeSources, fading : BOOLEAN]
<1>1. /\ oseeSw \in States /\ Osee!Swapped \in States /\ [oseeSw EXCEPT !.fading = TRUE] \in States
      /\ \A s \in OseeSources : [oseeSw EXCEPT !.preview = s] \in States
  BY DEF OseeIInv, OseeTypes, Osee!Swapped
<1>2. ASSUME NEW s \in States, NEW reply \in Seq(Osee!Messages), Osee!Enter(s, reply),
             toSwitcher' \in Seq(SoundRequests),
             UNCHANGED <<session, noticed, open, transport, controller, state, oseeConnected, worker,
                         loop, batch, batchOf, chosen, web, webOf, webBatch, shared>>
      PROVE OseeIInv'
  <2>1. oseeSw' \in States /\ toClient' \in Seq(Osee!Messages)
    BY <1>2, EnterTypes
  <2>2. OseeTypes'
    BY <1>2, <2>1 DEF OseeIInv, OseeTypes, Osee!Transports
  <2>3. WorkerIInv' /\ LoopIInv'
    BY <1>2 DEF OseeIInv, WorkerIInv, LoopIInv, Osee!is_connected
  <2>. QED
    BY <2>2, <2>3 DEF OseeIInv
<1>3. <<>> \in Seq(Osee!Messages) /\ toSwitcher \in Seq(SoundRequests)
  BY DEF OseeIInv, OseeTypes
<1>4. CASE Osee!SwitcherExecutes
  <2>. DEFINE r == Head(toSwitcher)
  <2>1. /\ toSwitcher # <<>> /\ toSwitcher' = Tail(toSwitcher)
        /\ UNCHANGED <<session, noticed, open, transport, controller, state, oseeConnected, worker,
                       loop, batch, batchOf, chosen, web, webOf, webBatch, shared>>
    BY <1>4 DEF Osee!SwitcherExecutes, Osee!clientVars, Osee!loopVars, Osee!webVars
  <2>2. r \in SoundRequests /\ toSwitcher' \in Seq(SoundRequests)
    BY <1>3, <2>1
  <2>3. /\ r.op = "getPreview" => Osee!Enter(oseeSw, <<Osee!Msg("pvw", oseeSw.preview)>>)
        /\ r.op = "getProgram" => Osee!Enter(oseeSw, <<Osee!Msg("pgm", oseeSw.program)>>)
        /\ r.op = "set" => Osee!Enter([oseeSw EXCEPT !.preview = r.src], <<>>)
        /\ r.op = "cut" => Osee!Enter(Osee!Swapped, <<>>)
        /\ r.op = "auto" => Osee!Enter([oseeSw EXCEPT !.fading = TRUE], <<Osee!Msg("status", NoSource)>>)
    BY <1>4 DEF Osee!SwitcherExecutes
  <2>4. /\ <<Osee!Msg("pvw", oseeSw.preview)>> \in Seq(Osee!Messages)
        /\ <<Osee!Msg("pgm", oseeSw.program)>> \in Seq(Osee!Messages)
        /\ <<Osee!Msg("status", NoSource)>> \in Seq(Osee!Messages)
    <3>1. /\ Osee!Msg("pvw", oseeSw.preview) \in Osee!Messages
          /\ Osee!Msg("pgm", oseeSw.program) \in Osee!Messages
          /\ Osee!Msg("status", NoSource) \in Osee!Messages
      BY <1>1 DEF Osee!Msg, Osee!Messages, Osee!Known
    <3>. QED
      BY <3>1
  <2>5. \/ r.op \in {"getPreview", "getProgram", "cut", "auto"}
        \/ r.op = "set" /\ r.src \in OseeSources
    BY <2>2 DEF SoundRequests
  <2>6. PICK s \in States, reply \in Seq(Osee!Messages) : Osee!Enter(s, reply)
    <3>. HIDE DEF r, States
    <3>. QED
      BY <1>1, <1>3, <2>3, <2>4, <2>5
  <2>. HIDE DEF r, States
  <2>. QED
    BY <1>2, <2>1, <2>2, <2>6
<1>5. CASE Osee!TransitionEnds \/ \E s \in OseeSources : Osee!Panel(s)
  <2>1. PICK s \in States : Osee!Enter(s, <<>>)
    BY <1>1, <1>5 DEF Osee!TransitionEnds, Osee!Panel
  <2>2. UNCHANGED <<toSwitcher, session, noticed, open, transport, controller, state, oseeConnected, worker,
                    loop, batch, batchOf, chosen, web, webOf, webBatch, shared>>
    BY <1>5 DEF Osee!TransitionEnds, Osee!Panel, Osee!clientVars, Osee!loopVars, Osee!webVars
  <2>. HIDE DEF States
  <2>. QED
    BY <1>2, <1>3, <2>1, <2>2
<1>6. CASE Osee!Break
  <2>1. /\ session' = 0 /\ toSwitcher' = <<>> /\ toClient' = <<>> /\ noticed' \in BOOLEAN
        /\ UNCHANGED <<oseeSw, open, transport, controller, state, oseeConnected, worker,
                       loop, batch, batchOf, chosen, web, webOf, webBatch, shared>>
    BY <1>6 DEF Osee!Break, Osee!clientVars, Osee!loopVars, Osee!webVars
  <2>2. OseeTypes'
    BY <2>1, SwitcherBounds DEF OseeIInv, OseeTypes, Osee!Transports
  <2>3. WorkerIInv' /\ LoopIInv'
    BY <2>1 DEF OseeIInv, WorkerIInv, LoopIInv, Osee!is_connected
  <2>. QED
    BY <2>2, <2>3 DEF OseeIInv
<1>. QED
  BY <1>4, <1>5, <1>6 DEF Osee!Switcher

(* The other threads and the switcher leave an apply alone.                   *)
LEMMA OthersLeaveWeb ==
  ASSUME \/ Osee!Worker \/ Osee!Loop \/ Osee!Switcher
         \/ \E s \in OseeSources : Osee!SendPreview(s)
         \/ \E op \in {"cut", "auto"} : Osee!SendTransition(op)
  PROVE  UNCHANGED Osee!webVars
<1>1. CASE Osee!Worker
  BY <1>1 DEF Osee!Worker, Osee!WorkerCloses, Osee!WorkerBuilds, Osee!WorkerControls, Osee!WorkerConnects,
     Osee!WorkerFlags, Osee!WorkerRequests
<1>2. CASE Osee!Loop
  BY <1>2 DEF Osee!Loop, Osee!StartLoop, Osee!Reconnect, Osee!PollTimesOut, Osee!PollReceives, Osee!PollFails,
     Osee!HandleMessage, Osee!EnterPreview, Osee!vars, Osee!webVars
<1>3. CASE Osee!Switcher
  <2>1. Osee!SwitcherExecutes => UNCHANGED Osee!webVars
    BY DEF Osee!SwitcherExecutes
  <2>. QED
    BY <1>3, <2>1 DEF Osee!Switcher, Osee!TransitionEnds, Osee!Break, Osee!Panel
<1>4. ASSUME NEW s, Osee!SendPreview(s) PROVE UNCHANGED Osee!webVars
  BY <1>4 DEF Osee!SendPreview
<1>5. ASSUME NEW op, Osee!SendTransition(op) PROVE UNCHANGED Osee!webVars
  BY <1>5 DEF Osee!SendTransition
<1>. QED
  BY <1>1, <1>2, <1>3, <1>4, <1>5

LEMMA OseeStepInv ==
  part \notin HeardParts /\ OseeIInv /\ WebIInv /\ [MCNext]_mcVars
  => (part \notin HeardParts /\ OseeIInv /\ WebIInv)'
<1>. SUFFICES ASSUME part \notin HeardParts, OseeIInv, WebIInv, [MCNext]_mcVars
              PROVE  part' \notin HeardParts /\ OseeIInv' /\ WebIInv'
  BY DEF HeardParts
<1>1. part' = part /\ (UNCHANGED oseeVars \/ Osee!Next)
  BY DEF MCNext, mcVars, HeardParts
<1>2. UNCHANGED Osee!webVars => WebIInv'
  BY DEF WebIInv, Osee!webVars, WebConnecting, Osee!Transports
<1>3. CASE UNCHANGED oseeVars
  <2>1. UNCHANGED Osee!webVars
    BY <1>3 DEF oseeVars, Osee!webVars
  <2>2. OseeIInv'
    BY <1>3 DEF oseeVars, OseeIInv, OseeTypes, WorkerIInv, LoopIInv, Osee!is_connected
  <2>. QED
    BY <1>1, <1>2, <2>1, <2>2
<1>4. CASE Osee!WebCloses \/ Osee!Web
  BY <1>1, <1>4, WebSteps
<1>5. CASE \/ Osee!Worker \/ Osee!Loop \/ Osee!Switcher
           \/ \E s \in OseeSources : Osee!SendPreview(s)
           \/ \E op \in {"cut", "auto"} : Osee!SendTransition(op)
  <2>1. WebIInv'
    BY <1>2, <1>5, OthersLeaveWeb
  <2>2. OseeIInv'
    BY <1>5, WorkerSteps, LoopSteps, CommandSteps, SwitcherSteps
  <2>. QED
    BY <1>1, <2>1, <2>2
<1>. QED
  BY <1>1, <1>3, <1>4, <1>5 DEF Osee!Next

(* However the worker's steps fall between those of the loop and of an apply, *)
(* a message is handled by the controller of the session it came from, and no *)
(* socket stays open but that of the transport in use, for any number of      *)
(* reconnects, faults and messages under way; until an apply that has failed  *)
(* to make another backend connects this one beside its loop.                 *)
THEOREM SessionsNeverMix == MCSpec => []SessionInv
<1>1. OseeIInv /\ WebIInv => SessionInv
  <2>. SUFFICES ASSUME OseeIInv, WebIInv PROVE Osee!SessionInv
    BY DEF SessionInv
  <2>1. SoundRequests \subseteq Osee!Requests
    <3>1. ASSUME NEW r \in SoundRequests PROVE r \in Osee!Requests
      BY DEF SoundRequests, Osee!Requests, Osee!Known
    <3>. QED
      BY <3>1
  <2>2. toSwitcher \in Seq(Osee!Requests)
    <3>1. toSwitcher \in Seq(SoundRequests)
      BY DEF OseeIInv, OseeTypes
    <3>. QED
      BY <2>1, <3>1, SeqMonotonic
  <2>3. Osee!TypeOK
    BY <2>2 DEF OseeIInv, OseeTypes, WebIInv, WebConnecting, Osee!TypeOK
  <2>4. ~shared => Osee!HandledByItsController /\ Osee!NoLeakedSession
    BY DEF OseeIInv, LoopIInv, WorkerIInv, Osee!HandledByItsController, Osee!NoLeakedSession
  <2>. QED
    BY <2>3, <2>4 DEF Osee!SessionInv
<1>2. MCSpec => [](part \notin HeardParts /\ OseeIInv /\ WebIInv)
  <2>1. Parts({"vmix", "osee", "deck", "gsp"}) => part \notin HeardParts /\ OseeIInv /\ WebIInv
    BY OseeInitInv DEF Parts, HeardParts
  <2>. QED
    BY <2>1, OseeStepInv, PTL DEF MCSpec
<1>. QED
  BY <1>1, <1>2, PTL

------------------------------------------------------------------------------

(* The messages and the requests of the Deck.                                 *)
DeckMessages ==
    [id : {"program", "preview"}, value : FewSources]
      \cup [id : {"transition"}, value : {"idle", "active"}]
DeckRequests ==
    [n : {0}, op : {"pgm", "pvw", "transition"}, src : {NoSource}]
      \cup [n : Deck!Commands, op : {"cut", "auto"}, src : {NoSource}]
      \cup [n : Deck!Commands, op : {"preview"}, src : FewSources]
AtWork == {"send", "wait", "waitEnd"}
Awaits == {"wait", "waitEnd"}

DeckTypes ==
    /\ Deck!TypeOK
    /\ deckToSwitcher \in Seq(DeckRequests)
    /\ deckToClient \in Seq(DeckMessages) /\ deckBatch \in Seq(DeckMessages)
    /\ asks \in Seq({"pgm", "pvw", "transition"}) /\ (deckPc = "asking" => asks # <<>>)
    /\ deckCmd \in [n : 0..DeckCommands, op : {"none", "preview", "cut", "auto"},
                    src : Deck!Known, pvw : Nat, pgm : Nat, events : Nat]
    /\ deckIssued \in 0..DeckCommands /\ deckMoves = 0
    /\ executed \subseteq 1..deckIssued /\ ended \subseteq executed
    /\ deckSw.fading # Deck!Nobody => deckSw.fading \in executed
    /\ deckSw.preview \in seen /\ seen \subseteq FewSources

(* Which thread is where.  Nothing has happened before the receiver starts,   *)
(* and an error is reported by a receiver that ends.                          *)
PlaceInv ==
    /\ rx = "off" =>
         /\ deckPc = "off" /\ deckIssued = 0 /\ ~linked /\ ~stop
         /\ deckToSwitcher = <<>> /\ deckToClient = <<>>
    /\ deckPc = "off" => rx \in {"off", "done"}
    /\ deckPc = "asking" => deckIssued = 0
    /\ deckPc = "initial" => deckIssued = 0
    /\ stop => deckPc \in {"joining", "off"}
    /\ rxError => rx = "done"
    /\ rx = "handle" <=> deckBatch # <<>>
    /\ deckPc \in AtWork =>
         /\ deckCmd.n = deckIssued /\ deckCmd.n \in Deck!Commands
         /\ \/ deckCmd.op = "preview" /\ deckCmd.src \in FewSources
            \/ deckCmd.op \in {"cut", "auto"} /\ deckCmd.src = NoSource
         /\ deckCmd.pvw <= counts.pvw /\ deckCmd.events <= Len(history)
    /\ deckPc = "waitEnd" => deckCmd.op = "auto" /\ deckCmd.n \in executed

(* The switcher carries out the requests in the order of their numbers, the   *)
(* GETs of the connect, numbered 0, before any command.                       *)
LineInv ==
    /\ \A i \in 1..Len(deckToSwitcher) :
         /\ deckToSwitcher[i].n <= deckIssued
         /\ \A n \in executed : n < deckToSwitcher[i].n
         /\ deckPc = "send" => deckToSwitcher[i].n < deckCmd.n
         /\ deckPc \in Awaits /\ deckToSwitcher[i].n = deckCmd.n
              => deckToSwitcher[i].op = deckCmd.op
         /\ \A j \in 1..Len(deckToSwitcher) :
              i < j => \/ deckToSwitcher[i].n < deckToSwitcher[j].n
                       \/ deckToSwitcher[i].n = 0 /\ deckToSwitcher[j].n = 0
    /\ deckPc = "send" => deckCmd.n \notin executed

(* What is under way to the client, in order.                                 *)
Stream == deckBatch \o deckToClient
IsActive(m) == m.id = "transition" /\ m.value = "active"
IsIdle(m) == m.id = "transition" /\ m.value = "idle"
FreshEnd ==
    \E i, j \in 1..Len(history) :
      deckCmd.events < i /\ i < j /\ history[i] = "active" /\ history[j] = "idle"
Fresh(v) == \E i \in 1..Len(history) : i > deckCmd.events /\ history[i] = v
Live == deckPc \notin {"off", "closing", "joining"}
Reads == rx \notin {"failed", "done"}
Busy == deckCmd.op = "auto" /\ deckPc \in Awaits /\ deckCmd.n \in executed

(* A Preview under way, and the last one that came since the baseline, was    *)
(* seen on the switcher.                                                      *)
ShownInv ==
    Live =>
      /\ \A i \in 1..Len(Stream) : Stream[i].id = "preview" => Stream[i].value \in seen
      /\ deckPc \in AtWork /\ counts.pvw > deckCmd.pvw => deckState.preview \in seen

(* Only the AUTO at work may be under way, and only its transition is, from   *)
(* the one "active" it causes to the "idle" of its end.                       *)
TransitionIInv ==
    /\ Live /\ Reads =>
         /\ \A i \in 1..Len(deckToSwitcher) :
              deckToSwitcher[i].op = "auto" => deckPc = "wait" /\ deckToSwitcher[i].n = deckCmd.n
         /\ \A i \in 1..Len(Stream) : IsActive(Stream[i]) =>
              /\ Busy /\ deckPc = "wait" /\ ~Fresh("active")
              /\ \A j \in 1..Len(Stream) :
                   /\ IsActive(Stream[j]) => j = i
                   /\ IsIdle(Stream[j]) /\ j > i => deckCmd.n \in ended
    /\ deckCmd.op = "auto" /\ deckPc \in AtWork /\ Fresh("active") =>
         /\ deckCmd.n \in executed
         /\ \A i \in 1..Len(Stream) : IsIdle(Stream[i]) => deckCmd.n \in ended
         /\ FreshEnd => deckCmd.n \in ended
    /\ Busy => deckSw.fading = deckCmd.n \/ deckCmd.n \in ended

DeckIInv == DeckTypes /\ PlaceInv /\ LineInv /\ ShownInv /\ TransitionIInv /\ Deck!AutoIsOurs

LEMMA ConcatIndex ==
  ASSUME NEW S, NEW s \in Seq(S), NEW t \in Seq(S)
  PROVE  /\ s \o t \in Seq(S) /\ Len(s \o t) = Len(s) + Len(t)
         /\ Len(s) \in Nat /\ Len(t) \in Nat
         /\ \A i \in 1..Len(s) : (s \o t)[i] = s[i]
         /\ \A i \in 1..Len(t) : (s \o t)[Len(s) + i] = t[i]
<1>1. /\ s \o t \in Seq(S) /\ Len(s \o t) = Len(s) + Len(t)
      /\ \A i \in 1..Len(s) + Len(t) :
           (s \o t)[i] = IF i <= Len(s) THEN s[i] ELSE t[i - Len(s)]
  BY ConcatProperties
<1>2. Len(s) \in Nat /\ Len(t) \in Nat
  OBVIOUS
<1>3. ASSUME NEW i \in 1..Len(s) PROVE (s \o t)[i] = s[i]
  BY <1>1, <1>2
<1>4. ASSUME NEW i \in 1..Len(t) PROVE (s \o t)[Len(s) + i] = t[i]
  BY <1>1, <1>2
<1>. QED
  BY <1>1, <1>2, <1>3, <1>4

LEMMA SinceProperties ==
  ASSUME DeckTypes, deckCmd.events <= Len(history)
  PROVE  LET a == deckCmd.events + 1
             b == Len(history)
         IN  /\ Len(Deck!Since) = b - a + 1
             /\ \A k \in 1..(b - a + 1) : Deck!Since[k] = history[a + k - 1]
<1>. DEFINE a == deckCmd.events + 1
            b == Len(history)
<1>1. /\ history \in Seq({"idle", "active"}) /\ deckCmd.events \in Nat /\ b \in Nat
  BY DEF DeckTypes, Deck!TypeOK
<1>2. a \in Int /\ b \in Int /\ a <= b + 1
  BY <1>1
<1>3. \A i \in 1..b : history[i] \in {"idle", "active"}
  BY <1>1, ElementOfSeq
<1>4. \A i \in a..b : history[i] \in {"idle", "active"}
  BY <1>1, <1>3
<1>5. Deck!Since = SubSeq(history, a, b)
  BY DEF Deck!Since
<1>. HIDE DEF a, b
<1>6. /\ Len(SubSeq(history, a, b)) = IF a <= b THEN b - a + 1 ELSE 0
      /\ \A i \in 1..b - a + 1 : SubSeq(history, a, b)[i] = history[a + i - 1]
  BY <1>2, <1>4, SubSeqProperties
<1>7. Len(Deck!Since) = b - a + 1
  BY <1>2, <1>5, <1>6
<1>8. \A k \in 1..(b - a + 1) : Deck!Since[k] = history[a + k - 1]
  BY <1>5, <1>6
<1>. QED
  BY <1>7, <1>8 DEF a, b

LEMMA StartedMeans ==
  ASSUME DeckTypes, deckCmd.events <= Len(history)
  PROVE  Deck!Started <=> Fresh("active")
<1>. DEFINE e == deckCmd.events
            b == Len(history)
<1>1. e \in Nat /\ b \in Nat
  BY DEF DeckTypes, Deck!TypeOK
<1>2. Len(Deck!Since) = b - (e + 1) + 1
      /\ \A k \in 1..(b - (e + 1) + 1) : Deck!Since[k] = history[e + 1 + k - 1]
  BY SinceProperties
<1>. HIDE DEF e, b
<1>3. Len(Deck!Since) = b - e /\ \A k \in 1..b - e : Deck!Since[k] = history[e + k]
  <2>1. b - (e + 1) + 1 = b - e
    BY <1>1
  <2>2. \A k \in 1..b - e : e + 1 + k - 1 = e + k
    BY <1>1
  <2>. QED
    BY <1>2, <2>1, <2>2
<1>4. ASSUME Deck!Started PROVE Fresh("active")
  <2>1. PICK i \in 1..Len(Deck!Since) : Deck!Since[i] = "active"
    BY <1>4 DEF Deck!Started
  <2>2. e + i \in 1..b /\ e + i > e /\ history[e + i] = "active"
    BY <1>1, <1>3, <2>1
  <2>. QED
    BY <2>2 DEF Fresh, e, b
<1>5. ASSUME Fresh("active") PROVE Deck!Started
  <2>1. PICK i \in 1..b : i > e /\ history[i] = "active"
    BY <1>5 DEF Fresh, e, b
  <2>2. i - e \in 1..b - e /\ e + (i - e) = i
    BY <1>1, <2>1
  <2>3. Deck!Since[i - e] = "active"
    BY <1>3, <2>1, <2>2
  <2>. QED
    BY <1>3, <2>2, <2>3 DEF Deck!Started
<1>. QED
  BY <1>4, <1>5

LEMMA CompletedMeans ==
  ASSUME DeckTypes, deckCmd.events <= Len(history)
  PROVE  Deck!Completed => FreshEnd
<1>. DEFINE e == deckCmd.events
            b == Len(history)
<1>1. e \in Nat /\ b \in Nat
  BY DEF DeckTypes, Deck!TypeOK
<1>2. Len(Deck!Since) = b - (e + 1) + 1
      /\ \A k \in 1..(b - (e + 1) + 1) : Deck!Since[k] = history[e + 1 + k - 1]
  BY SinceProperties
<1>. HIDE DEF e, b
<1>3. Len(Deck!Since) = b - e /\ \A k \in 1..b - e : Deck!Since[k] = history[e + k]
  <2>1. b - (e + 1) + 1 = b - e
    BY <1>1
  <2>2. \A k \in 1..b - e : e + 1 + k - 1 = e + k
    BY <1>1
  <2>. QED
    BY <1>2, <2>1, <2>2
<1>4. ASSUME Deck!Completed PROVE FreshEnd
  <2>1. PICK i, j \in 1..Len(Deck!Since) :
          i < j /\ Deck!Since[i] = "active" /\ Deck!Since[j] = "idle"
    BY <1>4 DEF Deck!Completed
  <2>2. e + i \in 1..b /\ e < e + i /\ history[e + i] = "active"
    BY <1>1, <1>3, <2>1
  <2>3. e + j \in 1..b /\ e + i < e + j /\ history[e + j] = "idle"
    BY <1>1, <1>3, <2>1
  <2>. QED
    BY <2>2, <2>3 DEF FreshEnd, e, b
<1>. QED
  BY <1>4

(* What the receiver takes out of the socket and what it handles leave the    *)
(* order of the stream alone.                                                 *)
LEMMA ReceivingKeepsStream ==
  ASSUME DeckTypes, deckBatch = <<>>, Deck!RxReceives
  PROVE  /\ Stream' = Stream
         /\ deckBatch' \in Seq(DeckMessages) /\ deckToClient' \in Seq(DeckMessages)
<1>. DEFINE S == DeckMessages
            L == Len(deckToClient)
<1>1. PICK k \in 1..L :
        deckBatch' = SubSeq(deckToClient, 1, k) /\ deckToClient' = SubSeq(deckToClient, k + 1, L)
  BY DEF Deck!RxReceives
<1>2. deckToClient \in Seq(S) /\ L \in Nat
  BY DEF DeckTypes
<1>3. /\ Len(deckBatch') = k /\ \A i \in 1..k : deckBatch'[i] = deckToClient[i]
      /\ Len(deckToClient') = L - k /\ \A i \in 1..L - k : deckToClient'[i] = deckToClient[k + i]
  <2>1. \A i \in 1..L : deckToClient[i] \in S
    BY <1>2, ElementOfSeq
  <2>2. /\ Len(SubSeq(deckToClient, 1, k)) = k
        /\ \A i \in 1..k : SubSeq(deckToClient, 1, k)[i] = deckToClient[1 + i - 1]
    BY <1>2, SubSeqProperties
  <2>3. /\ Len(SubSeq(deckToClient, k + 1, L)) = L - k
        /\ \A i \in 1..L - k : SubSeq(deckToClient, k + 1, L)[i] = deckToClient[k + 1 + i - 1]
    BY <1>2, SubSeqProperties
  <2>4. \A i \in 1..k : 1 + i - 1 = i
    BY <1>2
  <2>5. \A i \in 1..L - k : k + 1 + i - 1 = k + i
    BY <1>2
  <2>. QED
    BY <1>1, <2>2, <2>3, <2>4, <2>5
<1>4. deckBatch' \in Seq(S)
  <2>1. \A i \in 1..L : deckToClient[i] \in S
    BY <1>2, ElementOfSeq
  <2>2. \A i \in 1..k : deckToClient[i] \in S
    BY <1>2, <2>1
  <2>. QED
    BY <1>1, <1>2, <2>2, SubSeqProperties
<1>5. deckToClient' \in Seq(S)
  <2>1. \A i \in 1..L : deckToClient[i] \in S
    BY <1>2, ElementOfSeq
  <2>2. \A i \in k + 1..L : deckToClient[i] \in S
    BY <1>2, <2>1
  <2>. QED
    BY <1>1, <1>2, <2>2, SubSeqProperties
<1>6. deckBatch' \o deckToClient' = deckToClient
  <2>. DEFINE b == deckBatch'
              c == deckToClient'
  <2>0. Len(b) = k /\ Len(c) = L - k /\ b \in Seq(S) /\ c \in Seq(S)
    BY <1>3, <1>4, <1>5
  <2>1. /\ b \o c \in Seq(S) /\ Len(b \o c) = L
        /\ \A i \in 1..Len(b) : (b \o c)[i] = b[i]
        /\ \A i \in 1..Len(c) : (b \o c)[Len(b) + i] = c[i]
    <3>. HIDE DEF b, c, S
    <3>0. b \in Seq(S) /\ c \in Seq(S)
      BY <2>0
    <3>1. /\ b \o c \in Seq(S) /\ Len(b \o c) = Len(b) + Len(c)
          /\ \A i \in 1..Len(b) : (b \o c)[i] = b[i]
          /\ \A i \in 1..Len(c) : (b \o c)[Len(b) + i] = c[i]
      BY <3>0, ConcatIndex
    <3>. QED
      BY <1>2, <2>0, <3>1
  <2>2. ASSUME NEW i \in 1..L PROVE (b \o c)[i] = deckToClient[i]
    <3>1. CASE i <= k
      <4>1. i \in 1..Len(b) /\ b[i] = deckToClient[i]
        BY <1>2, <1>3, <3>1
      <4>. HIDE DEF b, c
      <4>. QED
        BY <2>1, <4>1
    <3>2. CASE i > k
      <4>1. i - k \in 1..L - k /\ k + (i - k) = i
        BY <1>2, <3>2
      <4>2. c[i - k] = deckToClient[k + (i - k)]
        BY <1>3, <4>1
      <4>. HIDE DEF b, c
      <4>3. (b \o c)[Len(b) + (i - k)] = c[i - k]
        BY <2>0, <2>1, <4>1
      <4>. QED
        BY <2>0, <4>1, <4>2, <4>3
    <3>3. i <= k \/ i > k
      <4>1. i \in Nat /\ k \in Nat
        BY <1>2
      <4>. QED
        BY <4>1
    <3>. QED
      BY <3>1, <3>2, <3>3
  <2>. HIDE DEF b, c
  <2>3. b \o c = deckToClient
    BY <1>2, <2>1, <2>2, SeqEqual
  <2>. QED
    BY <2>3 DEF b, c
<1>7. Stream = deckToClient
  BY <1>2, ConcatProperties, SeqEqual DEF Stream, DeckTypes
<1>. QED
  BY <1>4, <1>5, <1>6, <1>7 DEF Stream

LEMMA HandlingTakesFirst ==
  ASSUME DeckTypes, deckBatch # <<>>, deckBatch' = Tail(deckBatch), deckToClient' = deckToClient
  PROVE  /\ Head(deckBatch) \in DeckMessages /\ deckBatch' \in Seq(DeckMessages)
         /\ Len(Stream') \in Nat /\ Len(Stream) = Len(Stream') + 1
         /\ Stream[1] = Head(deckBatch)
         /\ \A i \in 1..Len(Stream') : Stream'[i] = Stream[i + 1]
<1>. DEFINE S == DeckMessages
            b == deckBatch
            t == Tail(deckBatch)
            c == deckToClient
<1>1. /\ b \in Seq(S) /\ t \in Seq(S) /\ c \in Seq(S) /\ Head(b) \in S /\ Head(b) = b[1]
      /\ Len(b) \in Nat \ {0} /\ Len(t) = Len(b) - 1 /\ Len(c) \in Nat
      /\ \A i \in 1..Len(t) : t[i] = b[i + 1]
  BY DEF DeckTypes
<1>2. Stream = b \o c /\ Stream' = t \o c
  BY DEF Stream
<1>. HIDE DEF S, b, t, c
<1>0. b \in Seq(S) /\ c \in Seq(S)
  BY <1>1
<1>00. t \in Seq(S) /\ c \in Seq(S)
  BY <1>1
<1>3. /\ Len(b \o c) = Len(b) + Len(c)
      /\ \A i \in 1..Len(b) : (b \o c)[i] = b[i]
      /\ \A i \in 1..Len(c) : (b \o c)[Len(b) + i] = c[i]
  BY <1>0, ConcatIndex
<1>4. /\ Len(t \o c) = Len(t) + Len(c)
      /\ \A i \in 1..Len(t) : (t \o c)[i] = t[i]
      /\ \A i \in 1..Len(c) : (t \o c)[Len(t) + i] = c[i]
  BY <1>00, ConcatIndex
<1>5. ASSUME NEW i \in 1..Len(t \o c) PROVE (t \o c)[i] = (b \o c)[i + 1]
  <2>1. CASE i <= Len(t)
    <3>1. i \in 1..Len(t) /\ i + 1 \in 1..Len(b)
      BY <1>1, <1>4, <2>1
    <3>2. (t \o c)[i] = t[i] /\ t[i] = b[i + 1] /\ (b \o c)[i + 1] = b[i + 1]
      BY <1>1, <1>3, <1>4, <3>1
    <3>. QED
      BY <3>2
  <2>2. CASE i > Len(t)
    <3>1. PICK k \in 1..Len(c) : i = Len(t) + k
      <4>1. i - Len(t) \in 1..Len(c) /\ i = Len(t) + (i - Len(t))
        BY <1>1, <1>4, <2>2
      <4>. QED
        BY <4>1
    <3>2. (t \o c)[Len(t) + k] = c[k] /\ (b \o c)[Len(b) + k] = c[k]
      BY <1>3, <1>4
    <3>3. i + 1 = Len(b) + k
      BY <1>1, <3>1
    <3>. QED
      BY <3>1, <3>2, <3>3
  <2>. QED
    BY <1>1, <1>4, <2>1, <2>2
<1>6. (b \o c)[1] = b[1]
  BY <1>1, <1>3
<1>7. Len(t \o c) \in Nat /\ Len(b \o c) = Len(t \o c) + 1
  BY <1>1, <1>3, <1>4
<1>. QED
  BY <1>1, <1>2, <1>5, <1>6, <1>7 DEF b, t, S

LEMMA AppendingExtends ==
  ASSUME DeckTypes, NEW w \in Seq(DeckMessages), deckToClient' = deckToClient \o w,
         deckBatch' = deckBatch
  PROVE  /\ deckToClient' \in Seq(DeckMessages)
         /\ Len(Stream) \in Nat /\ Len(w) \in Nat /\ Len(Stream') = Len(Stream) + Len(w)
         /\ \A i \in 1..Len(Stream) : Stream'[i] = Stream[i]
         /\ \A i \in 1..Len(w) : Stream'[Len(Stream) + i] = w[i]
<1>. DEFINE S == DeckMessages
            b == deckBatch
            c == deckToClient
<1>1. b \in Seq(S) /\ c \in Seq(S) /\ w \in Seq(S)
  BY DEF DeckTypes
<1>2. Stream = b \o c /\ Stream' = b \o (c \o w) /\ deckToClient' = c \o w
  BY DEF Stream
<1>. HIDE DEF S, b, c
<1>a. ASSUME NEW T, NEW x \in Seq(T), NEW y \in Seq(T), NEW z \in Seq(T)
      PROVE  x \o (y \o z) = (x \o y) \o z
  BY ConcatAssociative, SMTT(30)
<1>3. c \o w \in Seq(S) /\ b \o c \in Seq(S) /\ Len(b \o c) \in Nat /\ Len(w) \in Nat
  BY <1>1, ConcatIndex
<1>4. b \o (c \o w) = (b \o c) \o w
  BY <1>1, <1>a
<1>5. /\ Len((b \o c) \o w) = Len(b \o c) + Len(w)
      /\ \A i \in 1..Len(b \o c) : ((b \o c) \o w)[i] = (b \o c)[i]
      /\ \A i \in 1..Len(w) : ((b \o c) \o w)[Len(b \o c) + i] = w[i]
  BY <1>1, <1>3, ConcatIndex
<1>. QED
  BY <1>2, <1>3, <1>4, <1>5 DEF S

(* What is pushed when the switcher gets into another state.                  *)
LEMMA PushesMean ==
  ASSUME DeckTypes,
         NEW s \in [program : FewSources, preview : FewSources, fading : {Deck!Nobody} \cup Nat]
  PROVE  LET w == Deck!Pushes(s)
         IN  /\ w \in Seq(DeckMessages)
             /\ \A i \in 1..Len(w) : w[i].id = "preview" => w[i].value = s.preview
             /\ \A i \in 1..Len(w) : IsActive(w[i]) =>
                  /\ s.fading # Deck!Nobody /\ s.fading # deckSw.fading
                  /\ \A j \in 1..Len(w) : (IsActive(w[j]) => j = i) /\ ~IsIdle(w[j])
             /\ \A i \in 1..Len(w) : IsIdle(w[i]) => deckSw.fading # Deck!Nobody /\ s.fading = Deck!Nobody
<1>. DEFINE p == Deck!Msg("program", s.program)
            v == Deck!Msg("preview", s.preview)
            t == Deck!Msg("transition", IF s.fading = Deck!Nobody THEN "idle" ELSE "active")
            w == Deck!Pushes(s)
<1>1. /\ p \in DeckMessages /\ v \in DeckMessages /\ t \in DeckMessages
      /\ p.id = "program" /\ v.id = "preview" /\ v.value = s.preview /\ t.id = "transition"
      /\ s.fading = Deck!Nobody => t.value = "idle"
      /\ s.fading # Deck!Nobody => t.value = "active"
  BY DEF Deck!Msg, DeckMessages
<1>2. w = (IF s.program # deckSw.program THEN <<p>> ELSE <<>>) \o <<v>>
            \o (IF s.fading # deckSw.fading THEN <<t>> ELSE <<>>)
  BY DEF Deck!Pushes
<1>. HIDE DEF p, v, t, w
<1>. DEFINE pv == Append(<<p>>, v)
<1>3. \/ s.fading = deckSw.fading /\ (w = <<v>> \/ w = pv)
      \/ s.fading # deckSw.fading /\ (w = Append(<<v>>, t) \/ w = Append(pv, t))
  <2>0. ASSUME NEW q \in Seq(DeckMessages), NEW m \in DeckMessages
        PROVE  q \o <<m>> = Append(q, m) /\ q \o <<>> = q /\ <<>> \o q = q
    BY AppendIsConcat, ConcatEmptySeq
  <2>1. <<p>> \in Seq(DeckMessages) /\ <<v>> \in Seq(DeckMessages) /\ pv \in Seq(DeckMessages)
    BY <1>1
  <2>2. <<p>> \o <<v>> = pv /\ <<>> \o <<v>> = <<v>>
    BY <1>1, <2>0, <2>1
  <2>. HIDE DEF pv
  <2>3. pv \o <<>> = pv /\ <<v>> \o <<>> = <<v>>
    BY <1>1, <2>0, <2>1
  <2>4. pv \o <<t>> = Append(pv, t) /\ <<v>> \o <<t>> = Append(<<v>>, t)
    BY <1>1, <2>0, <2>1
  <2>. QED
    BY <1>2, <2>2, <2>3, <2>4
<1>. DEFINE Good(q) ==
       /\ q \in Seq(DeckMessages)
       /\ \A i \in 1..Len(q) : q[i].id = "preview" => q[i].value = s.preview
       /\ \A i \in 1..Len(q) : IsActive(q[i]) =>
            /\ s.fading # Deck!Nobody /\ s.fading # deckSw.fading
            /\ \A j \in 1..Len(q) : (IsActive(q[j]) => j = i) /\ ~IsIdle(q[j])
       /\ \A i \in 1..Len(q) : IsIdle(q[i]) => deckSw.fading # Deck!Nobody /\ s.fading = Deck!Nobody
<1>8. ~IsActive(p) /\ ~IsActive(v) /\ ~IsIdle(p) /\ ~IsIdle(v) /\ p.id # "preview" /\ t.id # "preview"
      /\ (IsActive(t) <=> s.fading # Deck!Nobody) /\ (IsIdle(t) <=> s.fading = Deck!Nobody)
  BY <1>1 DEF IsActive, IsIdle
<1>4. Good(<<v>>) /\ Good(pv)
  BY <1>1, <1>8
<1>5. s.fading # deckSw.fading => Good(Append(<<v>>, t))
  BY <1>1, <1>8
<1>6. s.fading # deckSw.fading => Good(Append(pv, t))
  BY <1>1, <1>8
<1>. HIDE DEF Good, pv
<1>7. Good(w)
  BY <1>3, <1>4, <1>5, <1>6
<1>. QED
  BY <1>7 DEF w, Good

(* What the switcher pushes keeps the order of the stream, if an "active" is  *)
(* pushed for the AUTO at work and an "idle" for its end.                     *)
LEMMA NewMessages ==
  ASSUME DeckIInv, NEW w \in Seq(DeckMessages), deckToClient' = deckToClient \o w,
         UNCHANGED <<deckBatch, deckState, counts, history, rx, deckPc, deckCmd>>,
         executed \subseteq executed', ended \subseteq ended', seen \subseteq seen',
         \A i \in 1..Len(deckToSwitcher') :
           \E j \in 1..Len(deckToSwitcher) : deckToSwitcher'[i] = deckToSwitcher[j],
         \A i \in 1..Len(w) : w[i].id = "preview" => w[i].value \in seen',
         \A i \in 1..Len(w) : Live /\ Reads /\ IsActive(w[i]) =>
           /\ Busy' /\ deckPc = "wait" /\ deckCmd.n \notin executed
           /\ \A j \in 1..Len(w) : (IsActive(w[j]) => j = i) /\ ~IsIdle(w[j]),
         \A i \in 1..Len(w) : Busy' /\ IsIdle(w[i]) => deckCmd.n \in ended',
         Busy' => deckSw'.fading = deckCmd.n \/ deckCmd.n \in ended'
  PROVE  ShownInv' /\ TransitionIInv'
<1>. DEFINE L == Len(Stream)
<1>1. DeckTypes /\ PlaceInv /\ LineInv /\ ShownInv /\ TransitionIInv
  BY DEF DeckIInv
<1>2. /\ L \in Nat /\ Len(w) \in Nat /\ Len(Stream') = L + Len(w)
      /\ \A i \in 1..L : Stream'[i] = Stream[i]
      /\ \A i \in 1..Len(w) : Stream'[L + i] = w[i]
  BY <1>1, AppendingExtends
<1>. HIDE DEF L
<1>3. ASSUME NEW i \in 1..Len(Stream')
      PROVE \/ i \in 1..L /\ Stream'[i] = Stream[i]
            \/ \E k \in 1..Len(w) : i = L + k /\ Stream'[i] = w[k]
  <2>1. CASE i <= L
    BY <1>2, <2>1
  <2>2. CASE i > L
    <3>1. i - L \in 1..Len(w) /\ i = L + (i - L)
      BY <1>2, <2>2
    <3>. QED
      BY <1>2, <3>1
  <2>. QED
    BY <1>2, <2>1, <2>2
<1>4. ShownInv'
  <2>. SUFFICES ASSUME Live PROVE ShownInv'
    BY DEF ShownInv, Live
  <2>1. ASSUME NEW i \in 1..Len(Stream'), Stream'[i].id = "preview" PROVE Stream'[i].value \in seen'
    <3>1. CASE i \in 1..L /\ Stream'[i] = Stream[i]
      BY <1>1, <2>1, <3>1 DEF ShownInv, L
    <3>2. CASE \E k \in 1..Len(w) : i = L + k /\ Stream'[i] = w[k]
      BY <2>1, <3>2
    <3>. QED
      BY <1>3, <3>1, <3>2
  <2>2. deckPc' \in AtWork /\ counts'.pvw > deckCmd'.pvw => deckState'.preview \in seen'
    BY <1>1 DEF ShownInv
  <2>. QED
    BY <2>1, <2>2 DEF ShownInv
<1>5. ASSUME Busy \/ (Fresh("active") /\ deckCmd.op = "auto" /\ deckPc \in AtWork)
      PROVE Busy' /\ Busy
  <2>1. Fresh("active") /\ deckCmd.op = "auto" /\ deckPc \in AtWork => Busy
    BY <1>1 DEF TransitionIInv, Busy, LineInv, AtWork, Awaits
  <2>. QED
    BY <1>5, <2>1 DEF Busy
<1>6. TransitionIInv'
  <2>1. ASSUME Live', Reads'
        PROVE \A i \in 1..Len(deckToSwitcher') :
                deckToSwitcher'[i].op = "auto"
                  => deckPc' = "wait" /\ deckToSwitcher'[i].n = deckCmd'.n
    BY <1>1, <2>1 DEF TransitionIInv, Live, Reads
  <2>2. ASSUME Live', Reads', NEW i \in 1..Len(Stream'), IsActive(Stream'[i])
        PROVE /\ Busy' /\ deckPc' = "wait" /\ ~Fresh("active")'
              /\ \A j \in 1..Len(Stream') :
                   /\ IsActive(Stream'[j]) => j = i
                   /\ IsIdle(Stream'[j]) /\ j > i => deckCmd'.n \in ended'
    <3>0. Live /\ Reads /\ (Fresh("active")' <=> Fresh("active"))
      BY <2>2 DEF Live, Reads, Fresh
    <3>1. CASE i \in 1..L /\ Stream'[i] = Stream[i]
      <4>1. /\ Busy /\ deckPc = "wait" /\ ~Fresh("active")
            /\ \A j \in 1..L :
                 /\ IsActive(Stream[j]) => j = i
                 /\ IsIdle(Stream[j]) /\ j > i => deckCmd.n \in ended
        BY <1>1, <2>2, <3>0, <3>1 DEF TransitionIInv, L
      <4>2. Busy' /\ deckCmd.n \in executed
        BY <1>5, <4>1 DEF Busy
      <4>3. ASSUME NEW j \in 1..Len(Stream')
            PROVE /\ IsActive(Stream'[j]) => j = i
                  /\ IsIdle(Stream'[j]) /\ j > i => deckCmd'.n \in ended'
        <5>1. CASE j \in 1..L /\ Stream'[j] = Stream[j]
          BY <4>1, <5>1
        <5>2. CASE \E k \in 1..Len(w) : j = L + k /\ Stream'[j] = w[k]
          BY <3>0, <4>2, <5>2
        <5>. QED
          BY <1>3, <5>1, <5>2
      <4>. QED
        BY <3>0, <4>1, <4>2, <4>3
    <3>2. CASE \E k \in 1..Len(w) : i = L + k /\ Stream'[i] = w[k]
      <4>1. PICK k \in 1..Len(w) : i = L + k /\ Stream'[i] = w[k]
        BY <3>2
      <4>2. /\ Busy' /\ deckPc = "wait" /\ deckCmd.n \notin executed
            /\ \A j \in 1..Len(w) : (IsActive(w[j]) => j = k) /\ ~IsIdle(w[j])
        BY <2>2, <3>0, <4>1
      <4>3. ~Busy /\ ~Fresh("active")
        <5>1. ~Busy
          BY <4>2 DEF Busy
        <5>2. deckCmd.op = "auto" /\ deckPc \in AtWork
          BY <4>2 DEF Busy, AtWork, Awaits
        <5>. QED
          BY <1>5, <5>1, <5>2
      <4>4. ASSUME NEW j \in 1..Len(Stream')
            PROVE /\ IsActive(Stream'[j]) => j = i
                  /\ IsIdle(Stream'[j]) /\ j > i => deckCmd'.n \in ended'
        <5>1. CASE j \in 1..L /\ Stream'[j] = Stream[j]
          <6>1. ~(j > i)
            BY <1>2, <4>1, <5>1
          <6>2. ~IsActive(Stream[j])
            BY <1>1, <3>0, <4>3, <5>1 DEF TransitionIInv, L
          <6>. QED
            BY <5>1, <6>1, <6>2
        <5>2. CASE \E m \in 1..Len(w) : j = L + m /\ Stream'[j] = w[m]
          BY <4>1, <4>2, <5>2
        <5>. QED
          BY <1>3, <5>1, <5>2
      <4>. QED
        BY <3>0, <4>2, <4>3, <4>4
    <3>. QED
      BY <1>3, <2>2, <3>1, <3>2
  <2>3. ASSUME deckCmd'.op = "auto", deckPc' \in AtWork, Fresh("active")'
        PROVE /\ deckCmd'.n \in executed'
              /\ \A i \in 1..Len(Stream') : IsIdle(Stream'[i]) => deckCmd'.n \in ended'
              /\ FreshEnd' => deckCmd'.n \in ended'
    <3>1. deckCmd.op = "auto" /\ deckPc \in AtWork /\ Fresh("active")
      BY <2>3 DEF Fresh
    <3>2. Busy' /\ Busy
      BY <1>5, <3>1
    <3>3. /\ deckCmd.n \in executed
          /\ \A i \in 1..L : IsIdle(Stream[i]) => deckCmd.n \in ended
          /\ FreshEnd => deckCmd.n \in ended
      BY <1>1, <3>1 DEF TransitionIInv, L
    <3>4. ASSUME NEW i \in 1..Len(Stream'), IsIdle(Stream'[i]) PROVE deckCmd'.n \in ended'
      <4>1. CASE i \in 1..L /\ Stream'[i] = Stream[i]
        BY <3>3, <3>4, <4>1
      <4>2. CASE \E k \in 1..Len(w) : i = L + k /\ Stream'[i] = w[k]
        BY <3>2, <3>4, <4>2
      <4>. QED
        BY <1>3, <4>1, <4>2
    <3>5. FreshEnd' => FreshEnd
      BY DEF FreshEnd
    <3>. QED
      BY <3>3, <3>4, <3>5
  <2>4. Busy' => deckSw'.fading = deckCmd'.n \/ deckCmd'.n \in ended'
    OBVIOUS
  <2>. QED
    BY <2>1, <2>2, <2>3, <2>4 DEF TransitionIInv
<1>. QED
  BY <1>4, <1>6

(* A step of the switcher, in terms of what it takes from the line and what   *)
(* it pushes.                                                                 *)
LEMMA SwitcherMoves ==
  ASSUME DeckIInv, rx # "off", NEW w \in Seq(DeckMessages), deckToClient' = deckToClient \o w,
         UNCHANGED <<deckBatch, deckState, counts, history, rx, deckPc, deckCmd>>,
         UNCHANGED <<linked, deckOpen, stop, rxError, asks, reports, deckIssued, deckMoves>>,
         \/ deckToSwitcher' = deckToSwitcher
         \/ deckToSwitcher # <<>> /\ deckToSwitcher' = Tail(deckToSwitcher),
         \/ executed' = executed
         \/ /\ deckToSwitcher # <<>> /\ deckToSwitcher' = Tail(deckToSwitcher)
            /\ Head(deckToSwitcher).n \in Deck!Commands
            /\ executed' = executed \cup {Head(deckToSwitcher).n},
         deckSw' \in [program : FewSources, preview : FewSources, fading : {Deck!Nobody} \cup executed'],
         ended \subseteq ended', ended' \subseteq executed', seen \subseteq seen',
         seen' \subseteq FewSources, deckSw'.preview \in seen',
         \A i \in 1..Len(w) : w[i].id = "preview" => w[i].value \in seen',
         \A i \in 1..Len(w) : Live /\ Reads /\ IsActive(w[i]) =>
           /\ Busy' /\ deckPc = "wait" /\ deckCmd.n \notin executed
           /\ \A j \in 1..Len(w) : (IsActive(w[j]) => j = i) /\ ~IsIdle(w[j]),
         \A i \in 1..Len(w) : Busy' /\ IsIdle(w[i]) => deckCmd.n \in ended',
         Busy' => deckSw'.fading = deckCmd.n \/ deckCmd.n \in ended'
  PROVE  DeckIInv'
<1>1. DeckTypes /\ PlaceInv /\ LineInv /\ Deck!AutoIsOurs
  BY DEF DeckIInv
<1>2. /\ deckToSwitcher \in Seq(DeckRequests) /\ Len(deckToSwitcher) \in Nat
      /\ deckIssued \in 0..DeckCommands /\ executed \subseteq 1..deckIssued /\ DeckCommands \in Nat
  <2>1. DeckCommands \in Nat
    BY SwitcherBounds
  <2>2. deckToSwitcher \in Seq(DeckRequests) /\ Len(deckToSwitcher) \in Nat
    BY <1>1 DEF DeckTypes
  <2>. QED
    BY <1>1, <2>1, <2>2 DEF DeckTypes
<1>3. ASSUME deckToSwitcher # <<>>
      PROVE  /\ Head(deckToSwitcher) = deckToSwitcher[1] /\ 1 \in 1..Len(deckToSwitcher)
             /\ Tail(deckToSwitcher) \in Seq(DeckRequests)
             /\ Len(Tail(deckToSwitcher)) = Len(deckToSwitcher) - 1
             /\ \A i \in 1..Len(Tail(deckToSwitcher)) : Tail(deckToSwitcher)[i] = deckToSwitcher[i + 1]
  BY <1>2, <1>3
<1>4. executed \subseteq executed' /\ executed' \subseteq 1..deckIssued
  <2>1. CASE executed' = executed
    BY <1>2, <2>1
  <2>2. CASE /\ deckToSwitcher # <<>> /\ Head(deckToSwitcher).n \in Deck!Commands
             /\ executed' = executed \cup {Head(deckToSwitcher).n}
    <3>1. deckToSwitcher[1].n <= deckIssued
      BY <1>1, <1>3, <2>2 DEF LineInv
    <3>2. Head(deckToSwitcher).n \in 1..deckIssued
      BY <1>2, <1>3, <2>2, <3>1 DEF Deck!Commands
    <3>. QED
      BY <1>2, <2>2, <3>2
  <2>. QED
    BY <2>1, <2>2
<1>5. \A i \in 1..Len(deckToSwitcher') :
        \E j \in 1..Len(deckToSwitcher) : deckToSwitcher'[i] = deckToSwitcher[j]
  <2>1. CASE deckToSwitcher' = deckToSwitcher
    BY <2>1
  <2>2. CASE deckToSwitcher # <<>> /\ deckToSwitcher' = Tail(deckToSwitcher)
    <3>1. ASSUME NEW i \in 1..Len(deckToSwitcher')
          PROVE i + 1 \in 1..Len(deckToSwitcher) /\ deckToSwitcher'[i] = deckToSwitcher[i + 1]
      BY <1>2, <1>3, <2>2, <3>1
    <3>. QED
      BY <3>1
  <2>. QED
    BY <2>1, <2>2
<1>6. ShownInv' /\ TransitionIInv'
  BY <1>4, <1>5, NewMessages
<1>7. DeckTypes'
  <2>1. deckToSwitcher' \in Seq(DeckRequests)
    BY <1>2, <1>3
  <2>2. deckToClient' \in Seq(DeckMessages) /\ deckBatch' \in Seq(DeckMessages)
    BY <1>1, AppendingExtends DEF DeckTypes
  <2>3. /\ executed' \subseteq 1..deckIssued' /\ ended' \subseteq executed'
        /\ deckSw'.fading # Deck!Nobody => deckSw'.fading \in executed'
        /\ deckSw'.preview \in seen' /\ seen' \subseteq FewSources
    BY <1>4
  <2>4. deckSw' \in [program : FewSources, preview : FewSources,
                     fading : {Deck!Nobody, Deck!ByPanel} \cup Deck!Commands]
    <3>1. executed' \subseteq Deck!Commands
      BY <1>2, <1>4 DEF Deck!Commands
    <3>. QED
      BY <3>1
  <2>5. Deck!TypeOK'
    BY <1>1, <2>4 DEF DeckTypes, Deck!TypeOK, Deck!Known, Deck!Commands, Deck!Nobody, Deck!ByPanel, Deck!Waits
  <2>. QED
    BY <1>1, <2>1, <2>2, <2>3, <2>5 DEF DeckTypes, Deck!Known
<1>8. PlaceInv'
  <2>1. deckPc \in AtWork => deckCmd.n \in Deck!Commands /\ deckCmd.n = deckIssued
    BY <1>1 DEF PlaceInv
  <2>. QED
    BY <1>1, <1>4 DEF PlaceInv, Deck!Commands
<1>9. LineInv'
  <2>1. CASE deckToSwitcher' = deckToSwitcher /\ executed' = executed
    BY <1>1, <2>1 DEF LineInv
  <2>2. CASE deckToSwitcher # <<>> /\ deckToSwitcher' = Tail(deckToSwitcher)
    <3>1. ASSUME NEW i \in 1..Len(deckToSwitcher')
          PROVE  /\ i + 1 \in 1..Len(deckToSwitcher) /\ 1 \in 1..Len(deckToSwitcher) /\ 1 < i + 1
                 /\ deckToSwitcher'[i] = deckToSwitcher[i + 1]
      BY <1>2, <1>3, <2>2, <3>1
    <3>2. ASSUME NEW i \in 1..Len(deckToSwitcher') PROVE \A n \in executed' : n < deckToSwitcher'[i].n
      <4>1. \A n \in executed : n < deckToSwitcher[i + 1].n
        BY <1>1, <3>1 DEF LineInv
      <4>2. Head(deckToSwitcher).n \in Deck!Commands => Head(deckToSwitcher).n < deckToSwitcher[i + 1].n
        BY <1>1, <1>3, <2>2, <3>1 DEF LineInv, Deck!Commands
      <4>. QED
        BY <3>1, <4>1, <4>2
    <3>3. ASSUME NEW i \in 1..Len(deckToSwitcher')
          PROVE  /\ deckToSwitcher'[i].n <= deckIssued
                 /\ deckPc = "send" => deckToSwitcher'[i].n < deckCmd.n
                 /\ deckPc \in Awaits /\ deckToSwitcher'[i].n = deckCmd.n
                      => deckToSwitcher'[i].op = deckCmd.op
      BY <1>1, <3>1 DEF LineInv
    <3>4. ASSUME NEW i \in 1..Len(deckToSwitcher'), NEW j \in 1..Len(deckToSwitcher'), i < j
          PROVE  \/ deckToSwitcher'[i].n < deckToSwitcher'[j].n
                 \/ deckToSwitcher'[i].n = 0 /\ deckToSwitcher'[j].n = 0
      <4>. DEFINE a == i + 1
                  b == j + 1
      <4>1. a < b
        BY <3>4
      <4>2. a \in 1..Len(deckToSwitcher) /\ b \in 1..Len(deckToSwitcher)
        BY <3>1
      <4>3. deckToSwitcher'[i] = deckToSwitcher[a] /\ deckToSwitcher'[j] = deckToSwitcher[b]
        BY <3>1
      <4>. HIDE DEF a, b
      <4>4. \/ deckToSwitcher[a].n < deckToSwitcher[b].n
            \/ deckToSwitcher[a].n = 0 /\ deckToSwitcher[b].n = 0
        BY <1>1, <4>1, <4>2 DEF LineInv
      <4>. QED
        BY <4>3, <4>4
    <3>5. deckPc = "send" => deckCmd.n \notin executed'
      <4>1. deckPc = "send" => deckToSwitcher[1].n < deckCmd.n /\ deckCmd.n \notin executed
        BY <1>1, <1>3, <2>2 DEF LineInv
      <4>2. deckPc = "send" => deckCmd.n \in Deck!Commands
        BY <1>1 DEF PlaceInv, AtWork
      <4>. QED
        BY <1>2, <1>3, <2>2, <4>1, <4>2 DEF Deck!Commands
    <3>. QED
      BY <3>2, <3>3, <3>4, <3>5 DEF LineInv
  <2>. QED
    BY <2>1, <2>2
<1>10. Deck!AutoIsOurs'
  BY <1>1, <1>4 DEF Deck!AutoIsOurs, Deck!Commands
<1>. QED
  BY <1>6, <1>7, <1>8, <1>9, <1>10 DEF DeckIInv

LEMMA DeckSwitcherSteps ==
  ASSUME DeckIInv, Deck!Switcher \/ (DeckMoves = 0 /\ Deck!Panel) \/ Deck!Break
  PROVE  DeckIInv'
<1>. DEFINE States(fs) == [program : FewSources, preview : FewSources, fading : {Deck!Nobody} \cup fs]
            r == Head(deckToSwitcher)
<1>1. DeckTypes /\ PlaceInv /\ LineInv /\ TransitionIInv
  BY DEF DeckIInv
<1>2. /\ deckSw \in States(executed) /\ executed \subseteq Nat /\ seen \subseteq FewSources
      /\ deckSw.preview \in seen /\ executed \subseteq 1..deckIssued /\ deckIssued \in Nat
      /\ deckToClient \in Seq(DeckMessages)
  <2>1. /\ deckSw \in [program : FewSources, preview : FewSources,
                       fading : {Deck!Nobody, Deck!ByPanel} \cup Deck!Commands]
        /\ deckSw.fading # Deck!Nobody => deckSw.fading \in executed
    BY <1>1 DEF DeckTypes, Deck!TypeOK
  <2>2. deckSw \in States(executed)
    BY <2>1
  <2>3. /\ executed \subseteq 1..deckIssued /\ deckIssued \in 0..DeckCommands /\ seen \subseteq FewSources
        /\ deckSw.preview \in seen /\ deckToClient \in Seq(DeckMessages)
    BY <1>1 DEF DeckTypes
  <2>4. deckIssued \in Nat /\ 1..deckIssued \subseteq Nat
    BY <2>3
  <2>. HIDE DEF States
  <2>. QED
    BY <2>2, <2>3, <2>4
<1>3. ASSUME NEW s, NEW fs \in SUBSET Nat, s \in States(fs), Deck!Enter(s)
      PROVE  /\ deckSw' = s /\ deckSw' \in States(fs) /\ seen' = seen \cup {s.preview}
             /\ seen' \subseteq FewSources /\ deckSw'.preview \in seen' /\ seen \subseteq seen'
             /\ \E w \in Seq(DeckMessages) :
                  /\ deckToClient' = deckToClient \o w
                  /\ \A i \in 1..Len(w) : w[i].id = "preview" => w[i].value \in seen'
                  /\ \A i \in 1..Len(w) : IsActive(w[i]) =>
                       /\ s.fading # Deck!Nobody /\ s.fading # deckSw.fading
                       /\ \A j \in 1..Len(w) : (IsActive(w[j]) => j = i) /\ ~IsIdle(w[j])
                  /\ \A i \in 1..Len(w) : IsIdle(w[i]) =>
                       deckSw.fading # Deck!Nobody /\ s.fading = Deck!Nobody
  <2>1. /\ deckSw' = s /\ seen' = seen \cup {s.preview}
        /\ deckToClient' = IF linked THEN deckToClient \o Deck!Pushes(s) ELSE deckToClient
    BY <1>3 DEF Deck!Enter
  <2>2. s \in [program : FewSources, preview : FewSources, fading : {Deck!Nobody} \cup Nat]
    BY <1>3
  <2>. DEFINE w == Deck!Pushes(s)
              e == <<>>
  <2>3. /\ w \in Seq(DeckMessages)
        /\ \A i \in 1..Len(w) : w[i].id = "preview" => w[i].value = s.preview
        /\ \A i \in 1..Len(w) : IsActive(w[i]) =>
             /\ s.fading # Deck!Nobody /\ s.fading # deckSw.fading
             /\ \A j \in 1..Len(w) : (IsActive(w[j]) => j = i) /\ ~IsIdle(w[j])
        /\ \A i \in 1..Len(w) : IsIdle(w[i]) => deckSw.fading # Deck!Nobody /\ s.fading = Deck!Nobody
    BY <1>1, <2>2, PushesMean
  <2>4. e \in Seq(DeckMessages) /\ Len(e) = 0 /\ deckToClient \o e = deckToClient
    BY <1>2, ConcatEmptySeq
  <2>. HIDE DEF w, e
  <2>5. \/ deckToClient' = deckToClient \o w
        \/ deckToClient' = deckToClient \o e
    BY <2>1, <2>4 DEF w
  <2>. HIDE DEF States
  <2>6. \E q \in Seq(DeckMessages) :
          /\ deckToClient' = deckToClient \o q
          /\ \A i \in 1..Len(q) : q[i].id = "preview" => q[i].value \in seen'
          /\ \A i \in 1..Len(q) : IsActive(q[i]) =>
               /\ s.fading # Deck!Nobody /\ s.fading # deckSw.fading
               /\ \A j \in 1..Len(q) : (IsActive(q[j]) => j = i) /\ ~IsIdle(q[j])
          /\ \A i \in 1..Len(q) : IsIdle(q[i]) => deckSw.fading # Deck!Nobody /\ s.fading = Deck!Nobody
    <3>1. CASE deckToClient' = deckToClient \o w
      BY <2>1, <2>3, <3>1
    <3>2. CASE deckToClient' = deckToClient \o e
      <4>1. \A i \in 1..Len(e) : FALSE
        BY <2>4
      <4>. QED
        BY <2>4, <3>2, <4>1
    <3>. QED
      BY <2>5, <3>1, <3>2
  <2>7. s.preview \in FewSources
    BY <2>2
  <2>. QED
    BY <1>2, <1>3, <2>1, <2>6, <2>7
<1>4. Deck!Swapped \in States({}) /\ Deck!Swapped \in States(executed) /\ Deck!Swapped.fading = Deck!Nobody
  BY <1>2 DEF Deck!Swapped
<1>5. CASE Deck!SwitcherExecutes
  <2>1. /\ deckToSwitcher # <<>> /\ deckToSwitcher' = Tail(deckToSwitcher)
        /\ UNCHANGED <<deckBatch, deckState, counts, history, rx, deckPc, deckCmd>>
        /\ UNCHANGED <<linked, deckOpen, stop, rxError, asks, reports, deckIssued, deckMoves>>
        /\ ended' = ended
    BY <1>5 DEF Deck!SwitcherExecutes, Deck!clientVars, Deck!flagVars, Deck!rxVars, Deck!callerVars
  <2>2. /\ rx # "off" /\ r \in DeckRequests /\ r = deckToSwitcher[1] /\ 1 \in 1..Len(deckToSwitcher)
        /\ \A n \in executed : n < r.n
    BY <1>1, <2>1, SMTT(30) DEF PlaceInv, DeckTypes, LineInv
  <2>3. ~Busy
    <3>1. CASE deckPc \in Awaits
      <4>1. deckCmd.n = deckIssued /\ r.n <= deckIssued
        BY <1>1, <2>2, <3>1 DEF PlaceInv, AtWork, Awaits, LineInv
      <4>. QED
        BY <1>2, <2>2, <4>1 DEF Busy, DeckRequests, Deck!Commands
    <3>. QED
      BY <3>1 DEF Busy
  <2>4. ended \subseteq executed /\ (r.n # 0 => r.n \in Deck!Commands)
    BY <1>1, <2>2 DEF DeckTypes, DeckRequests
  <2>5. CASE r.n = 0
    <3>1. executed = {} /\ deckSw.fading = Deck!Nobody
      <4>1. ASSUME NEW n \in executed PROVE FALSE
        <5>1. n \in Nat /\ n < r.n
          BY <1>2, <2>2
        <5>. QED
          BY <2>5, <5>1
      <4>. QED
        BY <1>2, <4>1
    <3>. DEFINE m == Deck!Reply(r.op)
                w == <<m>>
    <3>2. /\ deckToClient' = Append(deckToClient, m) /\ deckSw' = deckSw /\ seen' = seen
          /\ executed' = executed
      BY <1>5, <2>5 DEF Deck!SwitcherExecutes
    <3>3. /\ m \in DeckMessages /\ ~IsActive(m) /\ (m.id = "preview" => m.value = deckSw.preview)
      BY <1>2, <3>1 DEF Deck!Reply, Deck!Msg, DeckMessages, IsActive
    <3>. HIDE DEF m
    <3>4. w \in Seq(DeckMessages) /\ Len(w) = 1 /\ w[1] = m /\ deckToClient' = deckToClient \o w
      BY <1>2, <3>2, <3>3, AppendIsConcat
    <3>. HIDE DEF w
    <3>5. ~Busy'
      BY <2>1, <2>3, <3>2 DEF Busy
    <3>6. \A i \in 1..Len(w) : w[i] = m
      BY <3>4
    <3>7. \A i \in 1..Len(w) : w[i].id = "preview" => w[i].value \in seen'
      BY <1>2, <3>2, <3>3, <3>6
    <3>8. \A i \in 1..Len(w) : ~IsActive(w[i])
      BY <3>3, <3>6
    <3>9. deckSw' \in [program : FewSources, preview : FewSources, fading : {Deck!Nobody} \cup executed']
      BY <1>2, <3>2
    <3>. QED
      BY <1>2, <2>1, <2>2, <2>4, <3>2, <3>4, <3>5, <3>7, <3>8, <3>9, SwitcherMoves
  <2>6. CASE r.n # 0 /\ executed' = executed /\ UNCHANGED <<deckSw, deckToClient, seen>>
    <3>. DEFINE w == <<>>
    <3>1. w \in Seq(DeckMessages) /\ Len(w) = 0 /\ deckToClient' = deckToClient \o w
      BY <1>2, <2>6, ConcatEmptySeq
    <3>. HIDE DEF w
    <3>5. ~Busy'
      BY <2>1, <2>3, <2>6 DEF Busy
    <3>9. deckSw' \in [program : FewSources, preview : FewSources, fading : {Deck!Nobody} \cup executed']
      BY <1>2, <2>6
    <3>10. \A i \in 1..Len(w) : FALSE
      BY <3>1
    <3>. QED
      BY <1>2, <2>1, <2>2, <2>4, <2>6, <3>1, <3>5, <3>9, <3>10, SwitcherMoves
  <2>7. ASSUME r.n # 0, executed' = executed \cup {r.n}, NEW s, s \in States(executed'), Deck!Enter(s),
               s.fading = deckSw.fading \/ s.fading = Deck!Nobody \/ (s.fading = r.n /\ r.op = "auto"),
               r.op = "auto" => s.fading = r.n
        PROVE  DeckIInv'
    <3>1. executed' \subseteq Nat /\ r.n \in Deck!Commands
      <4>1. r.n \in Deck!Commands
        BY <2>4, <2>7
      <4>2. r.n \in Nat
        BY <4>1 DEF Deck!Commands
      <4>. QED
        BY <1>2, <2>7, <4>1, <4>2
    <3>2. /\ deckSw' = s /\ deckSw' \in States(executed')
          /\ seen' \subseteq FewSources /\ deckSw'.preview \in seen' /\ seen \subseteq seen'
      BY <1>3, <2>7, <3>1
    <3>3. PICK w \in Seq(DeckMessages) :
            /\ deckToClient' = deckToClient \o w
            /\ \A i \in 1..Len(w) : w[i].id = "preview" => w[i].value \in seen'
            /\ \A i \in 1..Len(w) : IsActive(w[i]) =>
                 /\ s.fading # Deck!Nobody /\ s.fading # deckSw.fading
                 /\ \A j \in 1..Len(w) : (IsActive(w[j]) => j = i) /\ ~IsIdle(w[j])
            /\ \A i \in 1..Len(w) : IsIdle(w[i]) =>
                 deckSw.fading # Deck!Nobody /\ s.fading = Deck!Nobody
      BY <1>3, <2>7, <3>1
    <3>4. Busy' => r.op = "auto" /\ deckCmd.n = r.n
      <4>1. ASSUME Busy' PROVE r.op = "auto" /\ deckCmd.n = r.n
        <5>1. deckCmd.op = "auto" /\ deckPc \in Awaits /\ deckCmd.n = r.n
          BY <2>1, <2>3, <2>7, <4>1 DEF Busy
        <5>. QED
          BY <1>1, <2>2, <5>1 DEF LineInv
      <4>. QED
        BY <4>1
    <3>5. Busy' => deckSw'.fading = deckCmd.n
      BY <2>7, <3>2, <3>4
    <3>6. r.n \in Nat /\ r.n # Deck!Nobody
      BY <3>1 DEF Deck!Commands, Deck!Nobody
    <3>7. \A i \in 1..Len(w) : Busy' /\ IsIdle(w[i]) => deckCmd.n \in ended'
      BY <2>7, <3>3, <3>4, <3>6
    <3>8. ASSUME NEW i \in 1..Len(w), Live, Reads, IsActive(w[i])
          PROVE /\ Busy' /\ deckPc = "wait" /\ deckCmd.n \notin executed
                /\ \A j \in 1..Len(w) : (IsActive(w[j]) => j = i) /\ ~IsIdle(w[j])
      <4>1. r.op = "auto"
        BY <2>7, <3>3, <3>8
      <4>2. deckPc = "wait" /\ deckCmd.n = r.n
        BY <1>1, <2>2, <3>8, <4>1 DEF TransitionIInv
      <4>3. deckCmd.op = "auto" /\ deckCmd.n \notin executed
        BY <1>1, <1>2, <2>2, <3>6, <4>1, <4>2 DEF LineInv, Awaits
      <4>4. Busy'
        BY <2>1, <2>7, <4>2, <4>3 DEF Busy, Awaits
      <4>. QED
        BY <3>3, <3>8, <4>2, <4>3, <4>4
    <3>9. ended \subseteq ended' /\ ended' \subseteq executed'
      BY <2>1, <2>4, <2>7
    <3>10. deckSw' \in [program : FewSources, preview : FewSources, fading : {Deck!Nobody} \cup executed']
      BY <3>2
    <3>11. \A i \in 1..Len(w) : Live /\ Reads /\ IsActive(w[i]) =>
             /\ Busy' /\ deckPc = "wait" /\ deckCmd.n \notin executed
             /\ \A j \in 1..Len(w) : (IsActive(w[j]) => j = i) /\ ~IsIdle(w[j])
      BY <3>8
    <3>12. /\ deckToSwitcher # <<>> /\ deckToSwitcher' = Tail(deckToSwitcher)
           /\ Head(deckToSwitcher).n \in Deck!Commands
           /\ executed' = executed \cup {Head(deckToSwitcher).n}
      BY <2>1, <2>7, <3>1
    <3>. HIDE DEF r, States
    <3>. QED
      BY <2>1, <2>2, <3>2, <3>3, <3>5, <3>7, <3>9, <3>10, <3>11, <3>12, SwitcherMoves
  <2>8. CASE r.n # 0 /\ r.op = "preview"
    <3>1. executed' = executed \cup {r.n} /\ Deck!Enter([deckSw EXCEPT !.preview = r.src])
      BY <1>5, <2>8 DEF Deck!SwitcherExecutes
    <3>. DEFINE s == [deckSw EXCEPT !.preview = r.src]
    <3>2. r.src \in FewSources
      BY <2>2, <2>8 DEF DeckRequests
    <3>3. s \in States(executed') /\ s.fading = deckSw.fading
      BY <1>2, <3>1, <3>2
    <3>. HIDE DEF s, States, r
    <3>. QED
      BY <2>7, <2>8, <3>1, <3>3 DEF s
  <2>9. CASE r.n # 0 /\ r.op = "cut"
    <3>1. executed' = executed \cup {r.n} /\ Deck!Enter(Deck!Swapped)
      BY <1>5, <2>9 DEF Deck!SwitcherExecutes
    <3>2. Deck!Swapped \in States(executed')
      BY <1>4
    <3>. HIDE DEF States, r
    <3>. QED
      BY <1>4, <2>7, <2>9, <3>1, <3>2
  <2>10. CASE r.n # 0 /\ r.op = "auto" /\ deckSw.fading = Deck!Nobody
    <3>1. executed' = executed \cup {r.n} /\ Deck!Enter([deckSw EXCEPT !.fading = r.n])
      BY <1>5, <2>10 DEF Deck!SwitcherExecutes
    <3>. DEFINE s == [deckSw EXCEPT !.fading = r.n]
    <3>2. s \in States(executed') /\ s.fading = r.n
      BY <1>2, <3>1
    <3>. HIDE DEF s, States, r
    <3>. QED
      BY <2>7, <2>10, <3>1, <3>2 DEF s
  <2>11. CASE r.n # 0 /\ r.op = "auto" /\ deckSw.fading # Deck!Nobody
    <3>1. UNCHANGED <<deckSw, deckToClient, seen, executed>>
      BY <1>5, <2>11 DEF Deck!SwitcherExecutes
    <3>. QED
      BY <2>6, <2>11, <3>1
  <2>12. r.n = 0 \/ r.op \in {"preview", "cut", "auto"}
    BY <2>2 DEF DeckRequests
  <2>. QED
    BY <2>5, <2>8, <2>9, <2>10, <2>11, <2>12
<1>6. CASE Deck!TransitionEnds
  <2>1. /\ deckSw.fading # Deck!Nobody /\ Deck!Enter(Deck!Swapped) /\ ended' = ended \cup {deckSw.fading}
        /\ UNCHANGED <<deckBatch, deckState, counts, history, rx, deckPc, deckCmd>>
        /\ UNCHANGED <<linked, deckOpen, stop, rxError, asks, reports, deckIssued, deckMoves>>
        /\ deckToSwitcher' = deckToSwitcher /\ executed' = executed
    BY <1>6 DEF Deck!TransitionEnds, Deck!clientVars, Deck!flagVars, Deck!rxVars, Deck!callerVars
  <2>2. rx # "off" /\ deckSw.fading \in executed /\ ended \subseteq executed
    <3>1. deckSw.fading \in executed /\ ended \subseteq executed
      BY <1>1, <2>1 DEF DeckTypes
    <3>2. deckSw.fading \in 1..deckIssued
      BY <1>2, <3>1
    <3>3. deckIssued # 0
      BY <1>2, <3>2
    <3>. QED
      BY <1>1, <3>1, <3>3 DEF PlaceInv
  <2>3. executed \in SUBSET Nat
    BY <1>2
  <2>4. /\ deckSw' = Deck!Swapped /\ deckSw' \in States(executed)
        /\ seen' \subseteq FewSources /\ deckSw'.preview \in seen' /\ seen \subseteq seen'
    BY <1>3, <1>4, <2>1, <2>3
  <2>5. PICK w \in Seq(DeckMessages) :
          /\ deckToClient' = deckToClient \o w
          /\ \A i \in 1..Len(w) : w[i].id = "preview" => w[i].value \in seen'
          /\ \A i \in 1..Len(w) : IsActive(w[i]) => Deck!Swapped.fading # Deck!Nobody
    BY <1>3, <1>4, <2>1, <2>3
  <2>6. Busy' => deckCmd.n \in ended'
    BY <1>1, <2>1 DEF TransitionIInv, Busy
  <2>7. \A i \in 1..Len(w) : ~IsActive(w[i])
    BY <1>4, <2>5
  <2>8. deckSw' \in [program : FewSources, preview : FewSources, fading : {Deck!Nobody} \cup executed']
    BY <2>1, <2>4
  <2>9. ended \subseteq ended' /\ ended' \subseteq executed'
    BY <2>1, <2>2
  <2>. HIDE DEF States
  <2>. QED
    BY <2>1, <2>2, <2>4, <2>5, <2>6, <2>7, <2>8, <2>9, SwitcherMoves
<1>7. ASSUME DeckMoves = 0, Deck!Panel PROVE FALSE
  BY <1>1, <1>7 DEF Deck!Panel, DeckTypes
<1>8. CASE Deck!Break
  <2>1. /\ linked /\ linked' = FALSE /\ deckToSwitcher' = <<>>
        /\ UNCHANGED <<deckSw, executed, ended, seen, deckMoves, deckToClient, deckOpen, deckState, counts, history>>
        /\ UNCHANGED <<stop, rxError, rx, deckBatch, deckPc, asks, deckCmd, reports, deckIssued>>
    BY <1>8 DEF Deck!Break, Deck!switcherVars, Deck!clientVars, Deck!flagVars, Deck!rxVars, Deck!callerVars
  <2>2. /\ Stream' = Stream /\ (Live' <=> Live) /\ (Reads' <=> Reads) /\ (Busy' <=> Busy)
        /\ (Fresh("active")' <=> Fresh("active")) /\ (FreshEnd' <=> FreshEnd)
    BY <2>1 DEF Stream, Live, Reads, Busy, Fresh, FreshEnd
  <2>3. DeckTypes'
    <3>1. deckToSwitcher' \in Seq(DeckRequests)
      BY <2>1
    <3>2. Deck!TypeOK'
      BY <1>1, <2>1 DEF DeckTypes, Deck!TypeOK
    <3>. QED
      BY <1>1, <2>1, <3>1, <3>2 DEF DeckTypes
  <2>4. PlaceInv'
    BY <1>1, <2>1 DEF PlaceInv
  <2>5. Len(deckToSwitcher') = 0
    BY <2>1
  <2>6. LineInv'
    BY <1>1, <2>1, <2>5 DEF LineInv
  <2>7. ShownInv'
    BY <2>1, <2>2 DEF ShownInv, DeckIInv
  <2>8. TransitionIInv'
    BY <1>1, <2>1, <2>2, <2>5 DEF TransitionIInv
  <2>9. Deck!AutoIsOurs'
    BY <2>1 DEF DeckIInv, Deck!AutoIsOurs
  <2>. QED
    BY <2>3, <2>4, <2>6, <2>7, <2>8, <2>9 DEF DeckIInv
<1>. QED
  BY <1>5, <1>6, <1>7, <1>8 DEF Deck!Switcher

LEMMA DeckInitInv == (\E parts : Parts(parts)) => DeckIInv
<1>. SUFFICES ASSUME Deck!Init PROVE DeckIInv
  BY DEF Parts
<1>. USE SwitcherBounds DEF Deck!Init
<1>1. /\ deckSw.program \in FewSources /\ deckSw.preview \in FewSources /\ deckSw.fading = Deck!Nobody
      /\ deckSw \in [program : FewSources, preview : FewSources,
                     fading : {Deck!Nobody, Deck!ByPanel} \cup Deck!Commands]
  OBVIOUS
<1>2. Deck!TypeOK
  <2>1. /\ deckState \in [program : Deck!Known, preview : Deck!Known, transition : {"none", "idle", "active"}]
        /\ counts \in [pvw : Nat, pgm : Nat] /\ history \in Seq({"idle", "active"})
    BY DEF Deck!Known
  <2>2. reports \in [Deck!Commands -> {"none", "waiting", "confirmed", "started",
                                      "completed", "unconfirmed", "raised"}]
    OBVIOUS
  <2>3. rx = "off" /\ deckPc = "off" /\ {stop, rxError, deckOpen, linked} \subseteq BOOLEAN
    OBVIOUS
  <2>. QED
    BY <1>1, <2>1, <2>2, <2>3 DEF Deck!TypeOK
<1>3. DeckTypes
  BY <1>1, <1>2 DEF DeckTypes, Deck!NoCommand, Deck!Known
<1>4. PlaceInv
  BY DEF PlaceInv, AtWork
<1>5. LineInv
  BY DEF LineInv
<1>6. ShownInv
  BY DEF ShownInv, Live
<1>7. TransitionIInv
  BY DEF TransitionIInv, Live, Busy, Deck!NoCommand
<1>8. Deck!AutoIsOurs
  BY DEF Deck!AutoIsOurs
<1>. QED
  BY <1>3, <1>4, <1>5, <1>6, <1>7, <1>8 DEF DeckIInv

(* The receiver takes messages, handles them one at a time, or ends.          *)
LEMMA DeckReceiverSteps ==
  ASSUME DeckIInv, Deck!Receiver
  PROVE  DeckIInv'
<1>1. DeckTypes /\ PlaceInv /\ LineInv /\ ShownInv /\ TransitionIInv /\ Deck!AutoIsOurs
  BY DEF DeckIInv
<1>2. UNCHANGED <<deckSw, executed, ended, seen, deckMoves, deckToSwitcher, linked, stop>>
      /\ UNCHANGED <<deckPc, asks, deckCmd, reports, deckIssued>>
  BY DEF Deck!Receiver, Deck!RxReceives, Deck!RxStops, Deck!RxFails, Deck!RxReports, Deck!RxHandles,
         Deck!switcherVars, Deck!linkVars, Deck!flagVars, Deck!callerVars
<1>3. LineInv' /\ Deck!AutoIsOurs' /\ (Live' <=> Live) /\ (Busy' <=> Busy)
  <2>1. LineInv'
    BY <1>1, <1>2 DEF LineInv
  <2>2. Deck!AutoIsOurs' /\ (Live' <=> Live) /\ (Busy' <=> Busy)
    BY <1>1, <1>2 DEF Deck!AutoIsOurs, Live, Busy
  <2>. QED
    BY <2>1, <2>2
<1>4. ASSUME Stream' = Stream, UNCHANGED <<deckState, counts, history>>, Reads' => Reads,
             deckBatch' \in Seq(DeckMessages), deckToClient' \in Seq(DeckMessages),
             deckOpen' \in BOOLEAN, rxError' \in BOOLEAN,
             rx' \in {"receive", "handle", "failed", "done"}, rx # "off",
             deckPc = "off" => rx' = "done", rxError' => rx' = "done",
             rx' = "handle" <=> deckBatch' # <<>>
      PROVE  DeckIInv'
  <2>1. (Fresh("active")' <=> Fresh("active")) /\ (FreshEnd' <=> FreshEnd)
    BY <1>2, <1>4 DEF Fresh, FreshEnd
  <2>2. Deck!TypeOK'
    BY <1>1, <1>2, <1>4 DEF DeckTypes, Deck!TypeOK
  <2>3. DeckTypes'
    BY <1>1, <1>2, <1>4, <2>2 DEF DeckTypes
  <2>4. PlaceInv'
    BY <1>1, <1>2, <1>4 DEF PlaceInv
  <2>5. ShownInv'
    BY <1>1, <1>2, <1>3, <1>4 DEF ShownInv
  <2>6. TransitionIInv'
    BY <1>1, <1>2, <1>3, <1>4, <2>1 DEF TransitionIInv
  <2>. QED
    BY <1>3, <2>3, <2>4, <2>5, <2>6 DEF DeckIInv
<1>5. /\ {deckOpen, rxError} \subseteq BOOLEAN
      /\ deckBatch \in Seq(DeckMessages) /\ deckToClient \in Seq(DeckMessages)
      /\ rx = "handle" <=> deckBatch # <<>>
      /\ deckPc = "off" => rx \in {"off", "done"}
      /\ rxError => rx = "done"
  BY <1>1 DEF DeckTypes, Deck!TypeOK, PlaceInv
<1>6. CASE Deck!RxReceives
  <2>1. /\ rx = "receive" /\ rx' = "handle" /\ UNCHANGED <<deckState, counts, history, deckOpen, rxError>>
    BY <1>6 DEF Deck!RxReceives, Deck!clientVars, Deck!flagVars
  <2>2. /\ Stream' = Stream /\ deckBatch' \in Seq(DeckMessages) /\ deckToClient' \in Seq(DeckMessages)
    BY <1>1, <1>5, <1>6, <2>1, ReceivingKeepsStream
  <2>3. deckBatch' # <<>>
    <3>1. PICK k \in 1..Len(deckToClient) : deckBatch' = SubSeq(deckToClient, 1, k)
      BY <1>6 DEF Deck!RxReceives
    <3>2. Len(deckToClient) \in Nat /\ \A i \in 1..k : deckToClient[i] \in DeckMessages
      BY <1>5, ElementOfSeq
    <3>3. Len(SubSeq(deckToClient, 1, k)) = k
      BY <3>2, SubSeqProperties
    <3>. QED
      BY <3>1, <3>2, <3>3
  <2>. QED
    BY <1>4, <1>5, <2>1, <2>2, <2>3 DEF Reads
<1>7. CASE Deck!RxStops \/ Deck!RxFails \/ Deck!RxReports
  <2>1. /\ UNCHANGED <<deckState, counts, history, deckBatch, deckToClient>>
        /\ rx \in {"receive", "failed"} /\ rx' \in {"failed", "done"}
        /\ deckOpen' \in {deckOpen, FALSE}
    BY <1>7 DEF Deck!RxStops, Deck!RxFails, Deck!RxReports, Deck!clientVars, Deck!flagVars, Deck!linkVars
  <2>2. /\ rxError' \in BOOLEAN /\ (rxError' => rx' = "done")
    <3>1. CASE Deck!RxStops
      BY <1>5, <3>1 DEF Deck!RxStops, Deck!flagVars
    <3>2. CASE Deck!RxFails
      BY <1>5, <3>2 DEF Deck!RxFails, Deck!flagVars
    <3>3. CASE Deck!RxReports
      <4>1. rx' = "done" /\ rxError' = (rxError \/ ~stop)
        BY <3>3 DEF Deck!RxReports, Deck!ReportsError
      <4>. QED
        BY <4>1
    <3>. QED
      BY <1>7, <3>1, <3>2, <3>3
  <2>3. Stream' = Stream
    BY <2>1 DEF Stream
  <2>4. deckOpen' \in BOOLEAN
    BY <1>5, <2>1
  <2>5. deckBatch' = <<>>
    BY <1>5, <2>1
  <2>6. deckPc = "off" => FALSE
    BY <1>5, <2>1
  <2>7. Reads' => Reads
    BY <2>1 DEF Reads
  <2>. QED
    BY <1>4, <1>5, <2>1, <2>2, <2>3, <2>4, <2>5, <2>6, <2>7
<1>8. CASE Deck!RxHandles
  <2>. DEFINE m == Head(deckBatch)
  <2>1. /\ rx = "handle" /\ deckBatch' = Tail(deckBatch)
        /\ rx' = IF Len(deckBatch) = 1 THEN "receive" ELSE "handle"
        /\ UNCHANGED <<deckToClient, deckOpen, rxError>>
        /\ deckState' = [deckState EXCEPT ![m.id] = m.value]
        /\ counts' = [pvw |-> counts.pvw + (IF m.id = "preview" THEN 1 ELSE 0),
                      pgm |-> counts.pgm + (IF m.id = "program" THEN 1 ELSE 0)]
        /\ history' = IF m.id = "transition" THEN Append(history, m.value) ELSE history
    BY <1>8 DEF Deck!RxHandles, Deck!Handled, Deck!linkVars, Deck!flagVars
  <2>2. /\ deckBatch # <<>> /\ deckBatch' = Tail(deckBatch) /\ deckToClient' = deckToClient
    BY <1>5, <2>1
  <2>3. /\ m \in DeckMessages /\ deckBatch' \in Seq(DeckMessages)
        /\ Len(Stream') \in Nat /\ Len(Stream) = Len(Stream') + 1 /\ Stream[1] = m
        /\ \A i \in 1..Len(Stream') : Stream'[i] = Stream[i + 1]
    BY <1>1, <2>2, HandlingTakesFirst
  <2>4. /\ 1 \in 1..Len(Stream)
        /\ \A i \in 1..Len(Stream') : i + 1 \in 1..Len(Stream) /\ i + 1 > 1
    BY <2>3
  <2>5. rx' \in {"receive", "handle"} /\ (rx' = "handle" <=> deckBatch' # <<>>)
    <3>1. /\ Len(deckBatch) \in Nat \ {0} /\ Tail(deckBatch) \in Seq(DeckMessages)
          /\ Len(Tail(deckBatch)) = Len(deckBatch) - 1
      BY <1>5, <2>2
    <3>. DEFINE t == Tail(deckBatch)
    <3>3. t \in Seq(DeckMessages)
      BY <3>1
    <3>. HIDE DEF t
    <3>4. t = <<>> <=> Len(t) = 0
      BY <3>3, EmptySeq
    <3>2. Tail(deckBatch) = <<>> <=> Len(Tail(deckBatch)) = 0
      BY <3>4 DEF t
    <3>. QED
      BY <2>1, <2>2, <3>1, <3>2
  <2>6. \/ m.id = "preview" /\ m.value \in FewSources
        \/ m.id = "program" /\ m.value \in FewSources
        \/ m.id = "transition" /\ m.value \in {"idle", "active"}
    BY <2>3 DEF DeckMessages
  <2>7. /\ deckState \in [program : Deck!Known, preview : Deck!Known, transition : {"none", "idle", "active"}]
        /\ counts \in [pvw : Nat, pgm : Nat] /\ history \in Seq({"idle", "active"}) /\ Len(history) \in Nat
    BY <1>1 DEF DeckTypes, Deck!TypeOK
  <2>. HIDE DEF m
  <2>8. /\ deckState' \in [program : Deck!Known, preview : Deck!Known, transition : {"none", "idle", "active"}]
        /\ counts' \in [pvw : Nat, pgm : Nat] /\ history' \in Seq({"idle", "active"})
        /\ counts'.pvw >= counts.pvw /\ Len(history') >= Len(history)
    <3>1. CASE m.id = "preview" /\ m.value \in FewSources
      BY <2>1, <2>7, <3>1 DEF Deck!Known
    <3>2. CASE m.id = "program" /\ m.value \in FewSources
      BY <2>1, <2>7, <3>2 DEF Deck!Known
    <3>3. CASE m.id = "transition" /\ m.value \in {"idle", "active"}
      BY <2>1, <2>7, <3>3
    <3>. QED
      BY <2>6, <3>1, <3>2, <3>3
  <2>9. \/ m.id = "preview" /\ deckState'.preview = m.value
        \/ m.id # "preview" /\ deckState'.preview = deckState.preview /\ counts'.pvw = counts.pvw
    BY <2>1, <2>6, <2>7
  <2>10. DeckTypes'
    <3>1. Deck!TypeOK'
      BY <1>1, <1>2, <2>1, <2>5, <2>8 DEF DeckTypes, Deck!TypeOK, Deck!Known
    <3>. QED
      BY <1>1, <1>2, <2>2, <2>3, <3>1 DEF DeckTypes, Deck!Known
  <2>11. PlaceInv'
    <3>1. deckPc \in AtWork => deckCmd'.pvw <= counts'.pvw /\ deckCmd'.events <= Len(history')
      <4>1. deckCmd.pvw \in Nat /\ deckCmd.events \in Nat /\ counts.pvw \in Nat /\ counts'.pvw \in Nat
            /\ Len(history') \in Nat
        BY <1>1, <2>7, <2>8 DEF DeckTypes
      <4>2. deckPc \in AtWork => deckCmd.pvw <= counts.pvw /\ deckCmd.events <= Len(history)
        BY <1>1 DEF PlaceInv
      <4>. QED
        BY <1>2, <2>7, <2>8, <4>1, <4>2
    <3>. QED
      BY <1>1, <1>2, <1>5, <2>1, <2>5, <3>1 DEF PlaceInv
  <2>12. ShownInv'
    <3>. SUFFICES ASSUME Live PROVE ShownInv'
      BY <1>3 DEF ShownInv
    <3>1. ASSUME NEW i \in 1..Len(Stream'), Stream'[i].id = "preview" PROVE Stream'[i].value \in seen'
      BY <1>1, <1>2, <2>3, <2>4, <3>1 DEF ShownInv
    <3>2. deckPc' \in AtWork /\ counts'.pvw > deckCmd'.pvw => deckState'.preview \in seen'
      <4>1. m.id = "preview" => m.value \in seen
        BY <1>1, <2>3, <2>4 DEF ShownInv
      <4>2. deckPc \in AtWork /\ counts.pvw > deckCmd.pvw => deckState.preview \in seen
        BY <1>1 DEF ShownInv
      <4>. QED
        BY <1>2, <2>9, <4>1, <4>2
    <3>. QED
      BY <3>1, <3>2 DEF ShownInv
  <2>13. /\ Fresh("active")' => Fresh("active") \/ IsActive(m)
         /\ FreshEnd' => FreshEnd \/ (IsIdle(m) /\ Fresh("active"))
         /\ FreshEnd => Fresh("active")
         /\ m.id # "transition" => (Fresh("active")' <=> Fresh("active"))
    <3>1. FreshEnd => Fresh("active")
      BY DEF FreshEnd, Fresh
    <3>2. CASE m.id # "transition"
      <4>1. history' = history
        BY <2>1, <3>2
      <4>. QED
        BY <1>2, <3>1, <3>2, <4>1 DEF Fresh, FreshEnd
    <3>3. CASE m.id = "transition"
      <4>. DEFINE L == Len(history)
      <4>1. /\ Len(history') = L + 1 /\ history'[L + 1] = m.value
            /\ \A i \in 1..L : history'[i] = history[i]
        BY <2>1, <2>6, <2>7, <3>3
      <4>2. L \in Nat /\ \A i \in 1..L + 1 : i \in 1..L \/ i = L + 1
        BY <2>7
      <4>. HIDE DEF L
      <4>3. Fresh("active")' => Fresh("active") \/ IsActive(m)
        BY <1>2, <3>3, <4>1, <4>2 DEF Fresh, IsActive, L
      <4>4. ASSUME FreshEnd' PROVE FreshEnd \/ (IsIdle(m) /\ Fresh("active"))
        <5>1. PICK i, j \in 1..L + 1 : /\ deckCmd.events < i /\ i < j
                                      /\ history'[i] = "active" /\ history'[j] = "idle"
          BY <1>2, <4>1, <4>4 DEF FreshEnd
        <5>2. i \in 1..L /\ history[i] = "active"
          BY <4>1, <4>2, <5>1
        <5>3. CASE j \in 1..L
          BY <4>1, <5>1, <5>2, <5>3 DEF FreshEnd, L
        <5>4. CASE j = L + 1
          BY <3>3, <4>1, <5>1, <5>2, <5>4 DEF Fresh, IsIdle, L
        <5>. QED
          BY <4>2, <5>3, <5>4
      <4>. QED
        BY <3>1, <3>3, <4>3, <4>4
    <3>. QED
      BY <3>2, <3>3
  <2>14. TransitionIInv'
    <3>0. Reads /\ Reads'
      BY <2>1, <2>5 DEF Reads
    <3>1. ASSUME Live, NEW i \in 1..Len(Stream'), IsActive(Stream'[i])
          PROVE /\ Busy' /\ deckPc' = "wait" /\ ~Fresh("active")'
                /\ \A j \in 1..Len(Stream') :
                     /\ IsActive(Stream'[j]) => j = i
                     /\ IsIdle(Stream'[j]) /\ j > i => deckCmd'.n \in ended'
      <4>. DEFINE a == i + 1
      <4>1. a \in 1..Len(Stream) /\ IsActive(Stream[a]) /\ a # 1
        BY <2>3, <2>4, <3>1
      <4>. HIDE DEF a
      <4>2. /\ Busy /\ deckPc = "wait" /\ ~Fresh("active")
            /\ \A j \in 1..Len(Stream) :
                 /\ IsActive(Stream[j]) => j = a
                 /\ IsIdle(Stream[j]) /\ j > a => deckCmd.n \in ended
        BY <1>1, <3>0, <3>1, <4>1 DEF TransitionIInv
      <4>3. ~IsActive(m)
        BY <2>3, <2>4, <4>1, <4>2
      <4>4. ASSUME NEW j \in 1..Len(Stream')
            PROVE /\ IsActive(Stream'[j]) => j = i
                  /\ IsIdle(Stream'[j]) /\ j > i => deckCmd'.n \in ended'
        <5>. DEFINE b == j + 1
        <5>1. b \in 1..Len(Stream) /\ Stream'[j] = Stream[b] /\ (b = a => j = i) /\ (j > i => b > a)
          BY <2>3, <2>4 DEF a
        <5>. HIDE DEF b
        <5>. QED
          BY <1>2, <4>2, <5>1
      <4>. QED
        BY <1>2, <1>3, <2>13, <4>2, <4>3, <4>4
    <3>2. ASSUME deckCmd.op = "auto", deckPc \in AtWork, Fresh("active")'
          PROVE /\ deckCmd'.n \in executed'
                /\ \A i \in 1..Len(Stream') : IsIdle(Stream'[i]) => deckCmd'.n \in ended'
                /\ FreshEnd' => deckCmd'.n \in ended'
      <4>1. CASE Fresh("active")
        <5>1. /\ deckCmd.n \in executed
              /\ \A i \in 1..Len(Stream) : IsIdle(Stream[i]) => deckCmd.n \in ended
              /\ FreshEnd => deckCmd.n \in ended
          BY <1>1, <3>2, <4>1 DEF TransitionIInv
        <5>. QED
          BY <1>2, <2>3, <2>4, <2>13, <5>1
      <4>2. CASE ~Fresh("active") /\ IsActive(m)
        <5>1. Live
          BY <3>2 DEF Live, AtWork
        <5>2. /\ Busy
              /\ \A j \in 1..Len(Stream) : IsIdle(Stream[j]) /\ j > 1 => deckCmd.n \in ended
          BY <1>1, <2>3, <2>4, <3>0, <4>2, <5>1 DEF TransitionIInv
        <5>3. ~FreshEnd'
          BY <2>13, <4>2
        <5>4. deckCmd.n \in executed
          BY <5>2 DEF Busy
        <5>. QED
          BY <1>2, <2>3, <2>4, <5>2, <5>3, <5>4
      <4>. QED
        BY <2>13, <3>2, <4>1, <4>2
    <3>3. Busy' => deckSw'.fading = deckCmd'.n \/ deckCmd'.n \in ended'
      BY <1>1, <1>2, <1>3 DEF TransitionIInv
    <3>4. Live' /\ Reads' =>
            \A i \in 1..Len(deckToSwitcher') :
              deckToSwitcher'[i].op = "auto" => deckPc' = "wait" /\ deckToSwitcher'[i].n = deckCmd'.n
      BY <1>1, <1>2, <1>3, <3>0 DEF TransitionIInv
    <3>5. (Live' <=> Live) /\ deckCmd' = deckCmd /\ deckPc' = deckPc
      BY <1>2, <1>3
    <3>. QED
      BY <3>1, <3>2, <3>3, <3>4, <3>5 DEF TransitionIInv
  <2>. QED
    BY <1>3, <2>10, <2>11, <2>12, <2>14 DEF DeckIInv
<1>. QED
  BY <1>6, <1>7, <1>8 DEF Deck!Receiver

(* The caller's steps outside a command.                                      *)
LEMMA DeckLineSteps ==
  ASSUME DeckIInv,
         \/ Deck!Connect \/ Deck!Ask \/ Deck!InitialStateReturns
         \/ Deck!Quit \/ Deck!Disconnect \/ Deck!JoinReturns
  PROVE  DeckIInv'
<1>1. DeckTypes /\ PlaceInv /\ LineInv /\ ShownInv /\ TransitionIInv /\ Deck!AutoIsOurs
  BY DEF DeckIInv
<1>2. /\ UNCHANGED <<deckSw, executed, ended, seen, deckMoves, deckState, counts, history>>
      /\ UNCHANGED <<deckBatch, rxError, deckCmd, reports, deckIssued>>
  BY DEF Deck!Connect, Deck!Ask, Deck!InitialStateReturns, Deck!Quit, Deck!Disconnect, Deck!JoinReturns,
         Deck!switcherVars, Deck!clientVars, Deck!linkVars, Deck!flagVars, Deck!rxVars
<1>3. Deck!AutoIsOurs'
  BY <1>1, <1>2 DEF Deck!AutoIsOurs
<1>4. Deck!TypeOK
  BY <1>1 DEF DeckTypes
<1>5. (Fresh("active")' <=> Fresh("active")) /\ (FreshEnd' <=> FreshEnd)
  BY <1>2 DEF Fresh, FreshEnd
<1>6. deckToSwitcher \in Seq(DeckRequests) /\ deckToClient \in Seq(DeckMessages) /\ deckIssued \in Nat
  BY <1>1, SwitcherBounds DEF DeckTypes
<1>7. CASE Deck!Connect
  <2>1. /\ deckPc = "off" /\ rx = "off" /\ linked' = TRUE /\ deckOpen' = TRUE /\ rx' = "receive"
        /\ deckPc' = "asking" /\ asks' = <<"pgm", "pvw", "transition">>
        /\ UNCHANGED <<deckToSwitcher, deckToClient, stop>>
    BY <1>7 DEF Deck!Connect, Deck!FirstAsks, Deck!flagVars
  <2>2. deckToSwitcher = <<>> /\ deckToClient = <<>> /\ deckBatch = <<>> /\ deckIssued = 0
    BY <1>1, <2>1 DEF PlaceInv
  <2>3. Len(Stream') = 0
    <3>1. Stream' = <<>> \o <<>>
      BY <1>2, <2>1, <2>2 DEF Stream
    <3>2. <<>> \in Seq(DeckMessages) /\ Len(<<>>) = 0
      OBVIOUS
    <3>. HIDE DEF Stream
    <3>. QED
      BY <3>1, <3>2, ConcatEmptySeq
  <2>4. Deck!TypeOK'
    BY <1>2, <1>4, <2>1 DEF Deck!TypeOK, Deck!Waits
  <2>5. DeckTypes'
    BY <1>1, <1>2, <2>1, <2>4 DEF DeckTypes
  <2>6. PlaceInv'
    BY <1>1, <1>2, <2>1, <2>2 DEF PlaceInv, AtWork
  <2>7. LineInv'
    BY <2>1, <2>2 DEF LineInv
  <2>8. ShownInv'
    BY <2>1, <2>3 DEF ShownInv, AtWork
  <2>9. TransitionIInv'
    BY <2>1, <2>2, <2>3 DEF TransitionIInv, AtWork, Awaits, Busy
  <2>. QED
    BY <1>3, <2>5, <2>6, <2>7, <2>8, <2>9 DEF DeckIInv
<1>8. ASSUME UNCHANGED <<deckToSwitcher, deckToClient, linked, rx>>, deckOpen' \in BOOLEAN,
             UNCHANGED <<stop>>, asks' = asks, deckPc # "send", deckPc \notin {"off", "closing"},
             \/ deckPc' = "ready" /\ deckPc \in {"initial", "ready"}
             \/ deckPc' = "closing" /\ deckPc # "joining"
             \/ deckPc' = "off" /\ rx = "done" /\ deckPc = "joining"
      PROVE  DeckIInv'
  <2>1. Stream' = Stream /\ (Reads' <=> Reads) /\ (Live' => Live)
    BY <1>2, <1>8 DEF Stream, Reads, Live
  <2>2. ~(deckPc' \in AtWork) /\ ~Busy'
    BY <1>8 DEF AtWork, Awaits, Busy
  <2>3. Deck!TypeOK'
    BY <1>2, <1>4, <1>8 DEF Deck!TypeOK, Deck!Waits
  <2>4. DeckTypes'
    BY <1>1, <1>2, <1>8, <2>3 DEF DeckTypes
  <2>5. PlaceInv'
    BY <1>1, <1>2, <1>8, <2>2 DEF PlaceInv, AtWork
  <2>6. LineInv'
    BY <1>1, <1>2, <1>8 DEF LineInv, Awaits
  <2>7. ShownInv'
    BY <1>1, <1>2, <2>1, <2>2 DEF ShownInv
  <2>8. TransitionIInv'
    <3>1. ASSUME Live', Reads', NEW i \in 1..Len(deckToSwitcher'), deckToSwitcher'[i].op = "auto"
          PROVE FALSE
      BY <1>1, <1>8, <2>1, <3>1 DEF TransitionIInv, Live
    <3>2. ASSUME Live', Reads', NEW i \in 1..Len(Stream'), IsActive(Stream'[i])
          PROVE FALSE
      BY <1>1, <1>8, <2>1, <3>2 DEF TransitionIInv, Live
    <3>. QED
      BY <2>2, <3>1, <3>2 DEF TransitionIInv
  <2>. QED
    BY <1>3, <2>4, <2>5, <2>6, <2>7, <2>8 DEF DeckIInv
<1>9. CASE Deck!Ask
  <2>1. deckPc = "asking" /\ UNCHANGED <<stop, rx>>
    BY <1>9 DEF Deck!Ask, Deck!flagVars, Deck!rxVars
  <2>2. asks # <<>> /\ asks \in Seq({"pgm", "pvw", "transition"}) /\ deckIssued = 0 /\ executed \subseteq 1..0
    BY <1>1, <2>1 DEF DeckTypes, PlaceInv
  <2>3. CASE Deck!Raise /\ UNCHANGED asks
    <3>1. UNCHANGED <<deckToSwitcher, deckToClient, linked>> /\ deckOpen' = FALSE /\ deckPc' = "closing"
      BY <2>3 DEF Deck!Raise
    <3>. QED
      BY <1>8, <2>1, <2>3, <3>1
  <2>4. CASE /\ Deck!Send(Deck!Request(0, Head(asks), NoSource))
             /\ asks' = Tail(asks) /\ deckPc' = IF Len(asks) = 1 THEN "initial" ELSE "asking"
    <3>. DEFINE q == Deck!Request(0, Head(asks), NoSource)
    <3>1. q \in DeckRequests /\ q.n = 0 /\ q.op # "auto"
      <4>1. Head(asks) \in {"pgm", "pvw", "transition"}
        BY <2>2
      <4>. QED
        BY <4>1 DEF Deck!Request, DeckRequests
    <3>. HIDE DEF q
    <3>2. /\ deckToSwitcher' = deckToSwitcher \/ deckToSwitcher' = Append(deckToSwitcher, q)
          /\ UNCHANGED <<deckToClient, linked, deckOpen>>
      BY <2>4 DEF Deck!Send, q
    <3>3. asks' \in Seq({"pgm", "pvw", "transition"}) /\ (deckPc' = "asking" => asks' # <<>>)
          /\ deckPc' \in {"initial", "asking"}
      <4>1. /\ Len(asks) \in Nat \ {0} /\ Tail(asks) \in Seq({"pgm", "pvw", "transition"})
            /\ Len(Tail(asks)) = Len(asks) - 1
        BY <2>2
      <4>2. Tail(asks) = <<>> => Len(asks) = 1
        BY <4>1
      <4>. QED
        BY <2>4, <4>1, <4>2
    <3>4. Stream' = Stream /\ Live /\ Live' /\ (Reads' <=> Reads) /\ ~(deckPc' \in AtWork) /\ ~Busy'
      BY <1>2, <2>1, <3>2, <3>3 DEF Stream, Live, Reads, AtWork, Awaits, Busy
    <3>5. Deck!TypeOK'
      <4>1. {stop', rxError', deckOpen', linked'} \subseteq BOOLEAN /\ rx' = rx
        BY <1>2, <1>4, <2>1, <3>2 DEF Deck!TypeOK
      <4>. QED
        BY <1>2, <1>4, <3>3, <4>1 DEF Deck!TypeOK, Deck!Waits
    <3>6. deckToSwitcher' \in Seq(DeckRequests)
      BY <1>6, <3>1, <3>2
    <3>7. DeckTypes'
      BY <1>1, <1>2, <3>2, <3>3, <3>5, <3>6 DEF DeckTypes
    <3>8. PlaceInv'
      BY <1>1, <1>2, <2>1, <2>2, <3>2, <3>3 DEF PlaceInv, AtWork
    <3>9. ASSUME NEW i \in 1..Len(deckToSwitcher')
          PROVE  deckToSwitcher'[i].n = 0 /\ deckToSwitcher'[i].op # "auto"
      <4>1. ASSUME NEW j \in 1..Len(deckToSwitcher)
            PROVE deckToSwitcher[j].n = 0 /\ deckToSwitcher[j].op # "auto"
        <5>1. deckToSwitcher[j].n <= 0 /\ deckToSwitcher[j] \in DeckRequests
          BY <1>1, <1>6, <2>2, ElementOfSeq DEF LineInv
        <5>. QED
          BY <5>1 DEF DeckRequests, Deck!Commands
      <4>2. CASE deckToSwitcher' = deckToSwitcher
        BY <4>1, <4>2
      <4>3. CASE deckToSwitcher' = Append(deckToSwitcher, q)
        <5>1. \/ i \in 1..Len(deckToSwitcher) /\ deckToSwitcher'[i] = deckToSwitcher[i]
              \/ deckToSwitcher'[i] = q
          BY <1>6, <3>1, <4>3
        <5>. QED
          BY <3>1, <4>1, <5>1
      <4>. QED
        BY <3>2, <4>2, <4>3
    <3>10. LineInv'
      <4>1. executed' = {} /\ deckIssued' = 0 /\ deckPc' # "send" /\ ~(deckPc' \in Awaits)
        BY <1>2, <2>2, <3>3 DEF Awaits
      <4>. QED
        BY <3>9, <4>1 DEF LineInv
    <3>11. ShownInv'
      BY <1>1, <1>2, <3>4 DEF ShownInv
    <3>12. TransitionIInv'
      <4>1. ASSUME Reads', NEW i \in 1..Len(Stream'), IsActive(Stream'[i]) PROVE FALSE
        BY <1>1, <2>1, <3>4, <4>1 DEF TransitionIInv
      <4>. QED
        BY <3>4, <3>9, <4>1 DEF TransitionIInv
    <3>. QED
      BY <1>3, <3>7, <3>8, <3>10, <3>11, <3>12 DEF DeckIInv
  <2>. QED
    BY <1>9, <2>3, <2>4 DEF Deck!Ask
<1>10. CASE Deck!InitialStateReturns \/ Deck!Quit \/ Deck!JoinReturns
  <2>1. UNCHANGED <<deckToSwitcher, deckToClient, linked, rx, deckOpen, stop, asks>>
    BY <1>10 DEF Deck!InitialStateReturns, Deck!Quit, Deck!JoinReturns,
                 Deck!linkVars, Deck!flagVars, Deck!rxVars
  <2>2. \/ deckPc' = "ready" /\ deckPc = "initial"
        \/ deckPc' = "closing" /\ deckPc \in {"initial", "wait", "waitEnd", "ready"}
        \/ deckPc' = "off" /\ rx = "done" /\ deckPc = "joining"
    BY <1>10 DEF Deck!InitialStateReturns, Deck!Quit, Deck!JoinReturns, Deck!Waits
  <2>3. deckOpen \in BOOLEAN
    BY <1>4 DEF Deck!TypeOK
  <2>. QED
    BY <1>8, <2>1, <2>2, <2>3
<1>11. CASE Deck!Disconnect
  <2>1. /\ deckPc = "closing" /\ deckPc' = "joining" /\ stop' = TRUE /\ deckOpen' = FALSE /\ linked' = FALSE
        /\ deckToSwitcher' = <<>> /\ deckToClient' = <<>> /\ UNCHANGED <<rx, asks>>
    BY <1>11 DEF Deck!Disconnect, Deck!rxVars
  <2>2. Deck!TypeOK'
    BY <1>2, <1>4, <2>1 DEF Deck!TypeOK, Deck!Waits
  <2>3. DeckTypes'
    BY <1>1, <1>2, <2>1, <2>2 DEF DeckTypes
  <2>4. PlaceInv'
    BY <1>1, <1>2, <2>1 DEF PlaceInv, AtWork
  <2>5. LineInv'
    BY <2>1 DEF LineInv
  <2>6. ShownInv' /\ TransitionIInv'
    BY <2>1 DEF ShownInv, TransitionIInv, Live, AtWork, Awaits, Busy
  <2>. QED
    BY <1>3, <2>3, <2>4, <2>5, <2>6 DEF DeckIInv
<1>. QED
  BY <1>7, <1>9, <1>10, <1>11

LEMMA StreamElements ==
  ASSUME DeckTypes, NEW i \in 1..Len(Stream)
  PROVE  Stream[i] \in Deck!Messages
<1>. DEFINE b == deckBatch
            c == deckToClient
<1>1. b \in Seq(DeckMessages) /\ c \in Seq(DeckMessages) /\ Len(b) \in Nat /\ Len(c) \in Nat
  BY DEF DeckTypes
<1>2. Deck!Messages = {b[k] : k \in 1..Len(b)} \cup {c[k] : k \in 1..Len(c)}
  BY DEF Deck!Messages
<1>3. Stream = b \o c
  BY DEF Stream
<1>. HIDE DEF b, c
<1>4. b \in Seq(DeckMessages) /\ c \in Seq(DeckMessages)
  BY <1>1
<1>5. /\ Len(b \o c) = Len(b) + Len(c)
      /\ \A k \in 1..Len(b) : (b \o c)[k] = b[k]
      /\ \A k \in 1..Len(c) : (b \o c)[Len(b) + k] = c[k]
  BY <1>4, ConcatIndex
<1>6. i \in 1..Len(b) \/ \E k \in 1..Len(c) : i = Len(b) + k
  <2>1. i \in Int /\ 1 <= i /\ i <= Len(b) + Len(c)
    BY <1>1, <1>3, <1>5
  <2>2. CASE i > Len(b)
    <3>1. i - Len(b) \in 1..Len(c) /\ i = Len(b) + (i - Len(b))
      BY <1>1, <2>1, <2>2
    <3>. QED
      BY <3>1
  <2>. QED
    BY <1>1, <2>1, <2>2
<1>. QED
  BY <1>2, <1>3, <1>5, <1>6

(* A command is issued, sent, and answered.                                   *)
LEMMA DeckBeginStep ==
  ASSUME DeckIInv, NEW op \in {"preview", "cut", "auto"}, NEW src, Deck!Begin(op, src),
         \/ op = "preview" /\ src \in FewSources
         \/ op \in {"cut", "auto"} /\ src = NoSource
  PROVE  DeckIInv'
<1>1. DeckTypes /\ PlaceInv /\ LineInv /\ ShownInv /\ TransitionIInv /\ Deck!AutoIsOurs /\ Deck!TypeOK
  BY DEF DeckIInv, DeckTypes
<1>2. /\ deckPc = "ready" /\ deckIssued < DeckCommands
      /\ deckIssued' = deckIssued + 1 /\ deckPc' = "send"
      /\ deckCmd' = [n |-> deckIssued + 1, op |-> op, src |-> src,
                     pvw |-> counts.pvw, pgm |-> counts.pgm, events |-> Len(history)]
      /\ reports' = [reports EXCEPT ![deckIssued + 1] = "waiting"]
      /\ seen' = IF Deck!PreviewUnderWay THEN seen ELSE {deckSw.preview}
      /\ UNCHANGED <<deckSw, executed, ended, deckMoves, deckToSwitcher, deckToClient, linked, deckOpen>>
      /\ UNCHANGED <<deckState, counts, history, stop, rxError, rx, deckBatch, asks>>
  BY DEF Deck!Begin, Deck!BaselineOfHistory, Deck!linkVars, Deck!clientVars, Deck!flagVars, Deck!rxVars
<1>3. /\ deckIssued \in Nat /\ DeckCommands \in Nat /\ deckIssued + 1 \in Deck!Commands
      /\ executed \subseteq 1..deckIssued /\ deckIssued + 1 \notin executed
      /\ deckIssued + 1 \in 0..DeckCommands
      /\ history \in Seq({"idle", "active"}) /\ Len(history) \in Nat
      /\ counts.pvw \in Nat /\ counts.pgm \in Nat
      /\ deckSw.preview \in seen /\ seen \subseteq FewSources
  <2>1. DeckCommands \in Nat
    BY SwitcherBounds
  <2>2. deckIssued \in 0..DeckCommands /\ executed \subseteq 1..deckIssued
    BY <1>1 DEF DeckTypes, Deck!TypeOK
  <2>3. /\ deckIssued \in Nat /\ deckIssued + 1 \in Deck!Commands /\ deckIssued + 1 \notin executed
        /\ deckIssued + 1 \in 0..DeckCommands
    BY <1>2, <2>1, <2>2 DEF Deck!Commands
  <2>4. history \in Seq({"idle", "active"}) /\ Len(history) \in Nat
    BY <1>1 DEF DeckTypes, Deck!TypeOK
  <2>5. counts.pvw \in Nat /\ counts.pgm \in Nat /\ deckSw.preview \in seen /\ seen \subseteq FewSources
    BY <1>1 DEF DeckTypes, Deck!TypeOK
  <2>. QED
    BY <2>1, <2>2, <2>3, <2>4, <2>5
<1>4. Stream' = Stream /\ Live /\ Live' /\ (Reads' <=> Reads) /\ ~Busy' /\ ~Fresh("active")'
  BY <1>2, <1>3 DEF Stream, Live, Reads, Busy, Awaits, Fresh
<1>5. DeckTypes'
  <2>1. Deck!TypeOK'
    <3>1. reports' \in [Deck!Commands -> {"none", "waiting", "confirmed", "started",
                                          "completed", "unconfirmed", "raised"}]
      BY <1>1, <1>2, <1>3 DEF Deck!TypeOK
    <3>. QED
      BY <1>1, <1>2, <3>1 DEF Deck!TypeOK
  <2>2. deckCmd' \in [n : 0..DeckCommands, op : {"none", "preview", "cut", "auto"},
                      src : Deck!Known, pvw : Nat, pgm : Nat, events : Nat]
    BY <1>2, <1>3 DEF Deck!Known
  <2>3. seen' \subseteq FewSources /\ deckSw.preview \in seen'
    BY <1>2, <1>3
  <2>4. executed' \subseteq 1..deckIssued'
    BY <1>2, <1>3
  <2>. QED
    BY <1>1, <1>2, <1>3, <2>1, <2>2, <2>3, <2>4 DEF DeckTypes
<1>6. PlaceInv'
  <2>1. deckCmd'.n = deckIssued' /\ deckCmd'.n \in Deck!Commands /\ deckCmd'.pvw <= counts'.pvw
        /\ deckCmd'.events <= Len(history') /\ deckCmd'.op = op /\ deckCmd'.src = src
    BY <1>2, <1>3
  <2>2. rx # "off"
    BY <1>1, <1>2 DEF PlaceInv
  <2>. QED
    BY <1>1, <1>2, <2>1, <2>2 DEF PlaceInv
<1>7. LineInv'
  <2>1. ASSUME NEW i \in 1..Len(deckToSwitcher)
        PROVE deckToSwitcher[i].n <= deckIssued /\ deckToSwitcher[i].n \in Nat
    <3>1. deckToSwitcher[i] \in DeckRequests
      BY <1>1, ElementOfSeq DEF DeckTypes
    <3>. QED
      BY <1>1, <3>1 DEF LineInv, DeckRequests, Deck!Commands
  <2>2. ASSUME NEW i \in 1..Len(deckToSwitcher)
        PROVE deckToSwitcher[i].n <= deckIssued + 1 /\ deckToSwitcher[i].n < deckIssued + 1
    BY <1>3, <2>1
  <2>. QED
    BY <1>1, <1>2, <1>3, <2>2 DEF LineInv, Awaits
<1>8. ShownInv'
  <2>1. ASSUME NEW i \in 1..Len(Stream), Stream[i].id = "preview" PROVE Stream[i].value \in seen'
    <3>1. Deck!PreviewUnderWay
      BY <1>1, <2>1, StreamElements DEF Deck!PreviewUnderWay
    <3>. QED
      BY <1>1, <1>2, <1>4, <2>1, <3>1 DEF ShownInv
  <2>2. ~(counts'.pvw > deckCmd'.pvw)
    BY <1>2, <1>3
  <2>. QED
    BY <1>4, <2>1, <2>2 DEF ShownInv
<1>9. TransitionIInv'
  <2>1. ASSUME Reads, NEW i \in 1..Len(deckToSwitcher), deckToSwitcher[i].op = "auto" PROVE FALSE
    BY <1>1, <1>2, <1>4, <2>1 DEF TransitionIInv
  <2>2. ASSUME Reads, NEW i \in 1..Len(Stream), IsActive(Stream[i]) PROVE FALSE
    BY <1>1, <1>2, <1>4, <2>2 DEF TransitionIInv
  <2>. QED
    BY <1>2, <1>4, <2>1, <2>2 DEF TransitionIInv
<1>10. Deck!AutoIsOurs'
  BY <1>1, <1>2, <1>3 DEF Deck!AutoIsOurs, Deck!TypeOK
<1>. QED
  BY <1>5, <1>6, <1>7, <1>8, <1>9, <1>10 DEF DeckIInv

LEMMA DeckCommandSteps ==
  ASSUME DeckIInv, Deck!Command
  PROVE  DeckIInv'
<1>0. ASSUME NEW s \in FewSources, Deck!Begin("preview", s) PROVE DeckIInv'
  <2>. DEFINE op == "preview"
  <2>1. /\ op \in {"preview", "cut", "auto"}
        /\ \/ op = "preview" /\ s \in FewSources
           \/ op \in {"cut", "auto"} /\ s = NoSource
    OBVIOUS
  <2>2. Deck!Begin(op, s)
    BY <1>0, Zenon
  <2>. HIDE DEF op
  <2>. QED
    BY <2>1, <2>2, DeckBeginStep
<1>1. CASE \E s \in FewSources \ Unmapped : Deck!Begin("preview", s)
  BY <1>0, <1>1
<1>2. CASE Deck!Begin("cut", NoSource) \/ Deck!Begin("auto", NoSource)
  BY <1>2, DeckBeginStep
<1>3. CASE deckState.program \in FewSources \ Unmapped /\ Deck!Begin("preview", deckState.program)
  <2>1. PICK s \in FewSources : s = deckState.program
    BY <1>3
  <2>2. Deck!Begin("preview", s)
    BY <1>3, <2>1
  <2>. QED
    BY <1>0, <2>2
<1>. QED
  BY <1>1, <1>2, <1>3 DEF Deck!Command

LEMMA DeckSendStep ==
  ASSUME DeckIInv, Deck!SendCommand
  PROVE  DeckIInv'
<1>1. DeckTypes /\ PlaceInv /\ LineInv /\ ShownInv /\ TransitionIInv /\ Deck!AutoIsOurs /\ Deck!TypeOK
  BY DEF DeckIInv, DeckTypes
<1>2. /\ deckPc = "send"
      /\ UNCHANGED <<deckSw, executed, ended, seen, deckMoves, deckState, counts, history>>
      /\ UNCHANGED <<stop, rxError, rx, deckBatch, asks, deckCmd, deckIssued>>
  BY DEF Deck!SendCommand, Deck!switcherVars, Deck!clientVars, Deck!flagVars, Deck!rxVars
<1>. DEFINE q == Deck!Request(deckCmd.n, deckCmd.op, deckCmd.src)
<1>3. \/ deckPc' = "wait" /\ deckOpen' = deckOpen /\ reports' = reports
         /\ (deckToSwitcher' = deckToSwitcher \/ deckToSwitcher' = Append(deckToSwitcher, q))
      \/ deckPc' = "closing" /\ deckOpen' = FALSE /\ deckToSwitcher' = deckToSwitcher
         /\ reports' = [reports EXCEPT ![deckCmd.n] = "raised"]
  BY DEF Deck!SendCommand, Deck!Send, Deck!Raise
<1>4. UNCHANGED <<deckToClient, linked>>
  BY DEF Deck!SendCommand, Deck!Send, Deck!Raise
<1>5. /\ deckCmd.n = deckIssued /\ deckCmd.n \in Deck!Commands /\ deckCmd.n \in Nat
      /\ \/ deckCmd.op = "preview" /\ deckCmd.src \in FewSources
         \/ deckCmd.op \in {"cut", "auto"} /\ deckCmd.src = NoSource
      /\ deckCmd.n \notin executed /\ executed \subseteq 1..deckIssued
      /\ deckToSwitcher \in Seq(DeckRequests) /\ Len(deckToSwitcher) \in Nat
  BY <1>1, <1>2 DEF PlaceInv, AtWork, LineInv, DeckTypes, Deck!Commands
<1>6. q \in DeckRequests /\ q.n = deckCmd.n /\ q.op = deckCmd.op
  BY <1>5 DEF Deck!Request, DeckRequests
<1>. HIDE DEF q
<1>7. Stream' = Stream /\ Live /\ (Reads' <=> Reads) /\ ~Busy' /\ (Fresh("active")' <=> Fresh("active"))
      /\ (FreshEnd' <=> FreshEnd)
  BY <1>2, <1>4, <1>5 DEF Stream, Live, Reads, Busy, Fresh, FreshEnd
<1>8. DeckTypes'
  <2>1. deckToSwitcher' \in Seq(DeckRequests)
    BY <1>3, <1>5, <1>6
  <2>2. Deck!TypeOK'
    <3>1. /\ reports' \in [Deck!Commands -> {"none", "waiting", "confirmed", "started",
                                             "completed", "unconfirmed", "raised"}]
          /\ deckPc' \in {"wait", "closing"} /\ {stop', rxError', deckOpen', linked'} \subseteq BOOLEAN
      BY <1>1, <1>2, <1>3, <1>4, <1>5 DEF Deck!TypeOK
    <3>. QED
      BY <1>1, <1>2, <3>1 DEF Deck!TypeOK, Deck!Waits
  <2>3. deckPc' # "asking"
    BY <1>3
  <2>. QED
    BY <1>1, <1>2, <1>4, <2>1, <2>2, <2>3 DEF DeckTypes
<1>9. PlaceInv'
  <2>1. rx # "off" /\ deckPc' \in {"wait", "closing"}
    BY <1>1, <1>2, <1>3 DEF PlaceInv
  <2>. QED
    BY <1>1, <1>2, <2>1 DEF PlaceInv, AtWork
<1>10. ASSUME NEW i \in 1..Len(deckToSwitcher)
       PROVE /\ deckToSwitcher[i].n <= deckIssued /\ deckToSwitcher[i].n < deckCmd.n
             /\ deckToSwitcher[i].n # deckCmd.n
             /\ \A n \in executed : n < deckToSwitcher[i].n
  <2>1. deckToSwitcher[i] \in DeckRequests
    BY <1>5, ElementOfSeq
  <2>2. deckToSwitcher[i].n \in Nat
    BY <2>1 DEF DeckRequests, Deck!Commands
  <2>. QED
    BY <1>1, <1>2, <1>5, <2>2 DEF LineInv
<1>11. LineInv'
  <2>1. CASE deckToSwitcher' = deckToSwitcher
    BY <1>1, <1>2, <1>3, <1>10, <2>1 DEF LineInv
  <2>2. CASE deckToSwitcher' = Append(deckToSwitcher, q) /\ deckPc' = "wait"
    <3>. DEFINE L == Len(deckToSwitcher)
    <3>1. /\ Len(deckToSwitcher') = L + 1 /\ deckToSwitcher'[L + 1] = q
          /\ \A i \in 1..L : deckToSwitcher'[i] = deckToSwitcher[i]
      BY <1>5, <1>6, <2>2
    <3>2. \A i \in 1..L + 1 : i \in 1..L \/ i = L + 1
      BY <1>5
    <3>3. \A n \in executed : n < deckCmd.n
      <4>1. ASSUME NEW n \in executed PROVE n < deckCmd.n
        <5>1. n \in 1..deckIssued /\ n # deckCmd.n
          BY <1>5
        <5>. QED
          BY <1>5, <5>1
      <4>. QED
        BY <4>1
    <3>4. ASSUME NEW i \in 1..L + 1
          PROVE /\ deckToSwitcher'[i].n <= deckIssued /\ \A n \in executed : n < deckToSwitcher'[i].n
                /\ deckToSwitcher'[i].n = deckCmd.n => deckToSwitcher'[i].op = deckCmd.op
      <4>1. CASE i \in 1..L
        BY <1>10, <3>1, <4>1
      <4>2. CASE i = L + 1
        BY <1>5, <1>6, <3>1, <3>3, <4>2
      <4>. QED
        BY <3>2, <4>1, <4>2
    <3>5. ASSUME NEW i \in 1..L + 1, NEW j \in 1..L + 1, i < j
          PROVE  \/ deckToSwitcher'[i].n < deckToSwitcher'[j].n
                 \/ deckToSwitcher'[i].n = 0 /\ deckToSwitcher'[j].n = 0
      <4>0. i \in 1..L
        BY <1>5, <3>5
      <4>1. CASE j \in 1..L
        <5>1. \/ deckToSwitcher[i].n < deckToSwitcher[j].n
              \/ deckToSwitcher[i].n = 0 /\ deckToSwitcher[j].n = 0
          BY <1>1, <3>5, <4>0, <4>1 DEF LineInv
        <5>. QED
          BY <3>1, <4>0, <4>1, <5>1
      <4>2. CASE j = L + 1
        BY <1>6, <1>10, <3>1, <4>0, <4>2
      <4>. QED
        BY <3>2, <4>1, <4>2
    <3>. HIDE DEF L
    <3>. QED
      BY <1>2, <2>2, <3>1, <3>4, <3>5 DEF LineInv
  <2>. QED
    BY <1>3, <2>1, <2>2
<1>12. ShownInv'
  BY <1>1, <1>2, <1>7 DEF ShownInv, AtWork
<1>13. TransitionIInv'
  <2>1. ASSUME Reads, NEW i \in 1..Len(deckToSwitcher), deckToSwitcher[i].op = "auto" PROVE FALSE
    BY <1>1, <1>2, <1>7, <2>1 DEF TransitionIInv
  <2>2. ASSUME Reads, NEW i \in 1..Len(Stream), IsActive(Stream[i]) PROVE FALSE
    BY <1>1, <1>2, <1>7, <2>2 DEF TransitionIInv
  <2>3. ASSUME Live', Reads', NEW i \in 1..Len(deckToSwitcher'), deckToSwitcher'[i].op = "auto"
        PROVE deckPc' = "wait" /\ deckToSwitcher'[i].n = deckCmd'.n
    <3>1. deckPc' = "wait"
      BY <1>3, <2>3 DEF Live
    <3>2. CASE deckToSwitcher' = deckToSwitcher
      BY <1>7, <2>1, <2>3, <3>2
    <3>3. CASE deckToSwitcher' = Append(deckToSwitcher, q)
      <4>1. \/ i \in 1..Len(deckToSwitcher) /\ deckToSwitcher'[i] = deckToSwitcher[i]
            \/ deckToSwitcher'[i] = q
        BY <1>5, <1>6, <3>3
      <4>. QED
        BY <1>2, <1>6, <1>7, <2>1, <2>3, <3>1, <4>1
    <3>. QED
      BY <1>3, <3>2, <3>3
  <2>4. ~(deckCmd.op = "auto" /\ Fresh("active"))
    BY <1>1, <1>2, <1>5 DEF TransitionIInv, AtWork
  <2>. QED
    BY <1>2, <1>7, <2>2, <2>3, <2>4 DEF TransitionIInv
<1>14. Deck!AutoIsOurs'
  BY <1>1, <1>2, <1>3, <1>5 DEF Deck!AutoIsOurs, Deck!TypeOK
<1>. QED
  BY <1>8, <1>9, <1>11, <1>12, <1>13, <1>14 DEF DeckIInv

LEMMA DeckWaitStep ==
  ASSUME DeckIInv, Deck!WaitReturns
  PROVE  DeckIInv'
<1>1. DeckTypes /\ PlaceInv /\ LineInv /\ ShownInv /\ TransitionIInv /\ Deck!AutoIsOurs /\ Deck!TypeOK
  BY DEF DeckIInv, DeckTypes
<1>2. /\ deckPc \in {"wait", "waitEnd"} /\ (Deck!Predicate \/ rxError \/ stop \/ Deck!Unanswered)
      /\ reports' = [reports EXCEPT ![deckCmd.n] = Deck!Report]
      /\ deckPc' = IF deckPc = "wait" /\ Deck!Report = "started" THEN "waitEnd" ELSE "ready"
      /\ deckCmd' = IF deckPc' = "ready" THEN Deck!NoCommand ELSE deckCmd
      /\ UNCHANGED <<deckSw, executed, ended, seen, deckMoves, deckToSwitcher, deckToClient, linked>>
      /\ UNCHANGED <<deckOpen, deckState, counts, history, stop, rxError, rx, deckBatch, asks, deckIssued>>
  BY DEF Deck!WaitReturns, Deck!switcherVars, Deck!linkVars, Deck!clientVars, Deck!flagVars, Deck!rxVars
<1>3. /\ deckCmd.n = deckIssued /\ deckCmd.n \in Deck!Commands /\ deckCmd.events <= Len(history)
      /\ deckCmd.op \in {"preview", "cut", "auto"}
      /\ deckPc = "waitEnd" => deckCmd.op = "auto" /\ deckCmd.n \in executed
      /\ ~stop /\ (rxError => ~Reads) /\ rxError \in BOOLEAN
      /\ Live /\ deckPc \in AtWork
  BY <1>1, <1>2 DEF PlaceInv, AtWork, Reads, Live, Deck!TypeOK
<1>4. /\ Deck!Started <=> Fresh("active")
      /\ Deck!Completed => FreshEnd
      /\ FreshEnd => Fresh("active")
  <2>1. FreshEnd => Fresh("active")
    BY DEF FreshEnd, Fresh
  <2>. QED
    BY <1>1, <1>3, <2>1, StartedMeans, CompletedMeans
<1>5. /\ Deck!Report \in {"confirmed", "started", "completed", "unconfirmed"}
      /\ deckPc = "wait" /\ Deck!Report \in {"started", "completed"}
           => deckCmd.op = "auto" /\ Fresh("active") /\ Deck!Report = "started"
      /\ Deck!Report = "completed" => FreshEnd
      /\ deckPc = "wait" /\ deckCmd.op = "auto" /\ Deck!Predicate /\ ~rxError => Deck!Report = "started"
      /\ deckPc = "wait" /\ deckCmd.op = "auto" /\ Deck!Predicate => Fresh("active")
  <2>1. CASE deckPc = "wait"
    <3>1. deckCmd.op = "auto" => (Deck!Predicate <=> Deck!Started)
      BY <2>1 DEF Deck!Predicate
    <3>2. Deck!Report = IF Deck!Predicate /\ ~rxError
                        THEN (IF deckCmd.op = "auto" THEN "started" ELSE "confirmed")
                        ELSE "unconfirmed"
      BY <2>1 DEF Deck!Report, Deck!Success
    <3>. QED
      BY <1>4, <2>1, <3>1, <3>2
  <2>2. CASE deckPc = "waitEnd"
    <3>1. Deck!Predicate <=> Deck!Completed
      BY <1>3, <2>2 DEF Deck!Predicate
    <3>2. Deck!Report = IF Deck!Predicate /\ ~rxError THEN "completed" ELSE "started"
      BY <2>2 DEF Deck!Report, Deck!Success
    <3>. QED
      BY <1>4, <2>2, <3>1, <3>2
  <2>. QED
    BY <1>2, <2>1, <2>2
<1>6. /\ Fresh("active") /\ deckCmd.op = "auto" => deckCmd.n \in executed
      /\ FreshEnd /\ deckCmd.op = "auto" => deckCmd.n \in ended
  BY <1>1, <1>3, <1>4 DEF TransitionIInv
<1>7. Deck!AutoIsOurs'
  <2>1. Deck!Report \in {"started", "completed"} => deckCmd.n \in executed
    BY <1>2, <1>3, <1>5, <1>6
  <2>2. Deck!Report = "completed" => deckCmd.n \in ended
    BY <1>2, <1>3, <1>5, <1>6
  <2>. QED
    BY <1>1, <1>2, <1>3, <2>1, <2>2 DEF Deck!AutoIsOurs, Deck!TypeOK
<1>8. Stream' = Stream /\ (Reads' <=> Reads)
  BY <1>2 DEF Stream, Reads
<1>9. Deck!TypeOK'
  <2>1. reports' \in [Deck!Commands -> {"none", "waiting", "confirmed", "started",
                                        "completed", "unconfirmed", "raised"}]
    BY <1>1, <1>2, <1>3, <1>5 DEF Deck!TypeOK
  <2>2. deckPc' \in {"ready", "waitEnd"}
    BY <1>2
  <2>. QED
    BY <1>1, <1>2, <2>1, <2>2 DEF Deck!TypeOK, Deck!Waits
<1>10. CASE deckPc = "wait" /\ Deck!Report = "started"
  <2>1. deckPc' = "waitEnd" /\ deckCmd' = deckCmd
    BY <1>2, <1>10
  <2>2. deckCmd.op = "auto" /\ Fresh("active") /\ deckCmd.n \in executed
    BY <1>5, <1>6, <1>10
  <2>3. (Fresh("active")' <=> Fresh("active")) /\ (FreshEnd' <=> FreshEnd) /\ Live' /\ Busy /\ Busy'
    BY <1>2, <1>3, <1>10, <2>1, <2>2 DEF Fresh, FreshEnd, Live, Busy, Awaits
  <2>4. DeckTypes'
    BY <1>1, <1>2, <1>9, <2>1 DEF DeckTypes
  <2>5. PlaceInv'
    BY <1>1, <1>2, <1>3, <2>1, <2>2 DEF PlaceInv, AtWork
  <2>6. LineInv'
    BY <1>1, <1>2, <1>10, <2>1 DEF LineInv, Awaits
  <2>7. ShownInv'
    BY <1>1, <1>2, <1>3, <1>8, <2>1 DEF ShownInv
  <2>8. TransitionIInv'
    <3>1. ASSUME Reads, NEW i \in 1..Len(deckToSwitcher), deckToSwitcher[i].op = "auto" PROVE FALSE
      <4>1. deckToSwitcher[i].n = deckCmd.n /\ deckCmd.n < deckToSwitcher[i].n /\ deckCmd.n \in Nat
        BY <1>1, <1>3, <2>2, <3>1 DEF TransitionIInv, LineInv, Deck!Commands
      <4>. QED
        BY <4>1
    <3>2. ASSUME Reads, NEW i \in 1..Len(Stream), IsActive(Stream[i]) PROVE FALSE
      BY <1>1, <1>3, <2>2, <3>2 DEF TransitionIInv
    <3>3. /\ \A i \in 1..Len(Stream) : IsIdle(Stream[i]) => deckCmd.n \in ended
          /\ FreshEnd => deckCmd.n \in ended
      BY <1>1, <1>3, <2>2 DEF TransitionIInv
    <3>4. deckSw.fading = deckCmd.n \/ deckCmd.n \in ended
      BY <1>1, <2>3 DEF TransitionIInv
    <3>. QED
      BY <1>2, <1>8, <2>1, <2>2, <2>3, <3>1, <3>2, <3>3, <3>4 DEF TransitionIInv
  <2>. QED
    BY <1>7, <2>4, <2>5, <2>6, <2>7, <2>8 DEF DeckIInv
<1>11. CASE ~(deckPc = "wait" /\ Deck!Report = "started")
  <2>1. deckPc' = "ready" /\ deckCmd' = Deck!NoCommand
    BY <1>2, <1>11
  <2>2. deckCmd'.op = "none" /\ ~(deckPc' \in AtWork) /\ ~Busy'
    BY <2>1 DEF Deck!NoCommand, AtWork, Awaits, Busy
  <2>3. DeckTypes'
    <3>1. deckCmd' \in [n : 0..DeckCommands, op : {"none", "preview", "cut", "auto"},
                        src : Deck!Known, pvw : Nat, pgm : Nat, events : Nat]
      BY <2>1, SwitcherBounds DEF Deck!NoCommand, Deck!Known
    <3>. QED
      BY <1>1, <1>2, <1>9, <2>1, <3>1 DEF DeckTypes
  <2>4. PlaceInv'
    BY <1>1, <1>2, <2>1, <2>2 DEF PlaceInv, AtWork
  <2>5. LineInv'
    BY <1>1, <1>2, <2>1 DEF LineInv, Awaits
  <2>6. ShownInv'
    BY <1>1, <1>2, <1>3, <1>8, <2>2 DEF ShownInv
  <2>7. ASSUME Reads, deckPc = "wait", deckCmd.op = "auto", ~Fresh("active")
        PROVE  deckToSwitcher = <<>> /\ deckToClient = <<>> /\ deckBatch = <<>>
    <3>1. Deck!Unanswered
      BY <1>2, <1>3, <1>5, <2>7
    <3>2. deckToSwitcher = <<>> /\ deckToClient = <<>> /\ rx # "handle"
      BY <2>7, <3>1 DEF Deck!Unanswered
    <3>. QED
      BY <1>1, <3>2 DEF PlaceInv
  <2>8. TransitionIInv'
    <3>1. ASSUME Reads, NEW i \in 1..Len(deckToSwitcher), deckToSwitcher[i].op = "auto" PROVE FALSE
      <4>1. deckPc = "wait" /\ deckToSwitcher[i].n = deckCmd.n
        BY <1>1, <1>3, <3>1 DEF TransitionIInv
      <4>2. deckCmd.op = "auto"
        BY <1>1, <3>1, <4>1 DEF LineInv, Awaits
      <4>3. ~Fresh("active")
        <5>1. ASSUME Fresh("active") PROVE FALSE
          <6>1. Deck!Report = "started"
            <7>1. Deck!Predicate
              BY <1>4, <4>1, <4>2, <5>1 DEF Deck!Predicate
            <7>. QED
              BY <1>3, <1>5, <3>1, <4>1, <4>2, <7>1
          <6>. QED
            BY <1>11, <4>1, <6>1
        <5>. QED
          BY <5>1
      <4>4. Len(deckToSwitcher) = 0
        BY <2>7, <3>1, <4>1, <4>2, <4>3
      <4>. QED
        BY <4>4
    <3>2. ASSUME Reads, NEW i \in 1..Len(Stream), IsActive(Stream[i]) PROVE FALSE
      <4>1. Busy /\ deckPc = "wait" /\ ~Fresh("active")
        BY <1>1, <1>3, <3>2 DEF TransitionIInv
      <4>2. deckToClient = <<>> /\ deckBatch = <<>>
        BY <2>7, <3>2, <4>1 DEF Busy
      <4>3. Stream = <<>>
        <5>1. Stream = <<>> \o <<>>
          BY <4>2 DEF Stream
        <5>2. <<>> \in Seq(DeckMessages)
          OBVIOUS
        <5>. HIDE DEF Stream
        <5>. QED
          BY <5>1, <5>2, ConcatEmptySeq
      <4>4. Len(Stream) = 0
        BY <4>3
      <4>. QED
        BY <4>4
    <3>. QED
      BY <1>2, <1>8, <2>2, <3>1, <3>2 DEF TransitionIInv
  <2>. QED
    BY <1>7, <2>3, <2>4, <2>5, <2>6, <2>8 DEF DeckIInv
<1>. QED
  BY <1>10, <1>11

LEMMA DeckStepInv ==
  DeckMoves = 0 /\ part \notin {"heard", "lost"} /\ DeckIInv /\ [MCNext]_mcVars
    => (part \notin {"heard", "lost"} /\ DeckIInv)'
<1>. SUFFICES ASSUME DeckMoves = 0, part \notin {"heard", "lost"}, DeckIInv, [MCNext]_mcVars
              PROVE  part' \notin {"heard", "lost"} /\ DeckIInv'
  OBVIOUS
<1>1. part' = part
  BY DEF MCNext, mcVars
<1>2. UNCHANGED deckVars \/ Deck!Next
  BY DEF MCNext, mcVars
<1>3. CASE UNCHANGED deckVars
  <2>1. /\ UNCHANGED <<deckSw, deckToSwitcher, deckToClient, linked, deckOpen, deckState, counts, history, stop>>
        /\ UNCHANGED <<rxError, rx, deckBatch, deckPc, asks, deckCmd, reports, executed, ended, seen>>
        /\ UNCHANGED <<deckIssued, deckFaults, deckMoves>>
    BY <1>3 DEF deckVars
  <2>2. DeckTypes' /\ PlaceInv'
    BY <2>1 DEF DeckIInv, DeckTypes, PlaceInv, Deck!TypeOK
  <2>3. LineInv' /\ ShownInv'
    BY <2>1 DEF DeckIInv, LineInv, ShownInv, Live, Stream
  <2>4. TransitionIInv'
    BY <2>1 DEF DeckIInv, TransitionIInv, Live, Reads, Busy, Fresh, FreshEnd, Stream
  <2>5. Deck!AutoIsOurs'
    BY <2>1 DEF DeckIInv, Deck!AutoIsOurs
  <2>. QED
    BY <1>1, <2>2, <2>3, <2>4, <2>5 DEF DeckIInv
<1>4. CASE Deck!Next
  BY <1>1, <1>4, DeckReceiverSteps, DeckLineSteps, DeckCommandSteps, DeckSendStep, DeckWaitStep,
     DeckSwitcherSteps DEF Deck!Next, Deck!Caller, Deck!Environment
<1>. QED
  BY <1>2, <1>3, <1>4

(* A Preview is confirmed only when the switcher showed it since the command, *)
(* or since a command before it whose feedback was still under way; an AUTO   *)
(* is reported started or completed only when its own transition started or   *)
(* ended.  For any number of sources, commands and lost sessions, as long as  *)
(* nobody works at the panel.                                                 *)
THEOREM AnswersAreOurs == DeckMoves = 0 => (MCSpec => []FeedbackInv)
<1>. SUFFICES ASSUME DeckMoves = 0 PROVE MCSpec => []FeedbackInv
  OBVIOUS
<1>1. DeckIInv => FeedbackInv
  <2>. SUFFICES ASSUME DeckIInv PROVE Deck!FeedbackInv
    BY DEF FeedbackInv
  <2>1. ASSUME deckCmd.op = "preview", deckPc = "wait", Deck!Predicate PROVE deckCmd.src \in seen
    <3>1. counts.pvw > deckCmd.pvw /\ deckState.preview = deckCmd.src
      BY <2>1 DEF Deck!Predicate, Deck!PreviewConfirmed
    <3>. QED
      BY <2>1, <3>1 DEF DeckIInv, ShownInv, Live, AtWork
  <2>2. Deck!PreviewWasShown
    BY <2>1 DEF Deck!PreviewWasShown
  <2>. QED
    BY <2>2 DEF DeckIInv, DeckTypes, Deck!FeedbackInv
<1>2. MCSpec => [](part \notin {"heard", "lost"} /\ DeckIInv)
  <2>1. Parts({"vmix", "osee", "deck", "gsp"}) => part \notin {"heard", "lost"} /\ DeckIInv
    BY DeckInitInv DEF Parts
  <2>. QED
    BY <2>1, DeckStepInv, PTL DEF MCSpec
<1>. QED
  BY <1>1, <1>2, PTL

------------------------------------------------------------------------------

(* The parser of GSP frames.  First the little it takes to reason about a     *)
(* recursive function: the induction theorems of the library are about an     *)
(* operator, which no backend can instantiate; said of a set they are first   *)
(* order.                                                                     *)

(* Every set of numbers that is not empty has a least element.                *)
LEMMA LeastNat ==
  ASSUME NEW T, T \subseteq Nat, T # {}
  PROVE  \E x \in T : \A y \in T : x <= y
<1>. DEFINE R == {ss \in Nat \X Nat : ss[1] < ss[2]}
<1>1. IsWellFoundedOn(R, Nat)
  BY NatLessThanWellFounded, Zenon DEF OpToRel
<1>2. \A x, y \in Nat : x < y => <<x, y>> \in R
  OBVIOUS
<1>. HIDE DEF R
<1>3. \E x \in T : \A y \in T : ~(<<y, x>> \in R)
  BY <1>1, WFMin
<1>4. \A x, y \in T : ~(y < x) => x <= y
  OBVIOUS
<1>. QED
  BY <1>2, <1>3, <1>4

(* Induction, said of the set of the numbers that have the property.          *)
LEMMA NatSetInduction ==
  ASSUME NEW S, 0 \in S, \A n \in Nat : n \in S => n + 1 \in S
  PROVE  Nat \subseteq S
<1>. DEFINE T == Nat \ S
<1>. SUFFICES ASSUME T # {} PROVE FALSE
  OBVIOUS
<1>1. PICK x \in T : \A y \in T : x <= y
  BY LeastNat
<1>2. x # 0 /\ x - 1 \in Nat /\ x - 1 \notin T
  BY <1>1
<1>3. (x - 1) + 1 \in S /\ (x - 1) + 1 = x
  BY <1>2
<1>. QED
  BY <1>1, <1>3

(* A function may be defined by recursion: its value at i from its value at   *)
(* next[i], of a lower rank, unless the step at i looks at no value.          *)
Recursion(D, V, n, rank, next, step) ==
    /\ V # {} /\ n \in Nat /\ rank \in [D -> 0..n] /\ next \in [D -> D] /\ step \in [D -> [V -> V]]
    /\ \A i \in D : rank[next[i]] < rank[i] \/ \A v, w \in V : step[i][v] = step[i][w]

THEOREM RecursiveFunction ==
  ASSUME NEW D, NEW V, NEW n, NEW rank, NEW next, NEW step, Recursion(D, V, n, rank, next, step)
  PROVE  \E f \in [D -> V] : \A i \in D : f[i] = step[i][f[next[i]]]
<1>. PICK v0 : v0 \in V
  BY DEF Recursion
<1>. /\ n \in Nat /\ rank \in [D -> 0..n] /\ next \in [D -> D] /\ step \in [D -> [V -> V]]
    /\ \A i \in D : rank[next[i]] < rank[i] \/ \A v, w \in V : step[i][v] = step[i][w]
  BY Zenon DEF Recursion
<1>. DEFINE Solves(f, k) == \A i \in D : rank[i] < k => f[i] = step[i][f[next[i]]]
           S == {k \in Nat : \E f \in [D -> V] : Solves(f, k)}
<1>0. \A a \in 0..n, k \in Nat : a < k + 1 => a = k \/ a < k
  OBVIOUS
<1>1. 0 \in S
  <2>1. [i \in D |-> v0] \in [D -> V]
    OBVIOUS
  <2>2. Solves([i \in D |-> v0], 0)
    OBVIOUS
  <2>. QED
    BY <2>1, <2>2
<1>2. ASSUME NEW k \in Nat, k \in S PROVE k + 1 \in S
  <2>1. PICK f \in [D -> V] : Solves(f, k)
    BY <1>2
  <2>. DEFINE g == [i \in D |-> IF rank[i] = k THEN step[i][f[next[i]]] ELSE f[i]]
  <2>2. g \in [D -> V]
    OBVIOUS
  <2>3. ASSUME NEW i \in D, rank[i] < k + 1
        PROVE  g[i] = step[i][f[next[i]]] /\ step[i][f[next[i]]] = step[i][g[next[i]]]
    <3>a. rank[i] \in 0..n
      BY Zenon
    <3>0. rank[i] = k \/ rank[i] < k
      BY <2>3, <3>a, <1>0, Zenon
    <3>1. g[i] = step[i][f[next[i]]]
      BY <2>1, <3>0
    <3>2. f[next[i]] \in V /\ g[next[i]] \in V
      OBVIOUS
    <3>3. CASE rank[next[i]] < rank[i]
      <4>1. rank[next[i]] # k
        BY <2>3, <3>3
      <4>. QED
        BY <3>1, <4>1
    <3>4. CASE \A v, w \in V : step[i][v] = step[i][w]
      BY <3>1, <3>2, <3>4, Zenon
    <3>. QED
      BY <3>3, <3>4
  <2>4. Solves(g, k + 1)
    BY <2>3
  <2>. HIDE DEF Solves, g
  <2>5. \E h \in [D -> V] : Solves(h, k + 1)
    BY <2>2, <2>4
  <2>. QED
    BY <2>5, k + 1 \in Nat
<1>3. n + 1 \in S
  BY <1>1, <1>2, NatSetInduction
<1>4. PICK f \in [D -> V] : Solves(f, n + 1)
  BY <1>3
<1>5. \A i \in D : rank[i] < n + 1
  <2>1. \A i \in D : rank[i] \in 0..n
    BY Zenon
  <2>. QED
    BY <2>1
<1>. QED
  BY <1>4, <1>5, Zenon

LEMMA ModIsByte ==
  ASSUME NEW a \in Int, NEW t \in Nat
  PROVE  a % (t + 1) \in 0..t
  OBVIOUS

(* What the model asks of its bytes: two of header, and room for the pieces.  *)
LEMMA GspBounds ==
  /\ GspTop \in Nat /\ GspTop >= 4 /\ H1 \in 3..GspTop /\ H2 \in 3..GspTop /\ H1 # H2
  /\ GspLength \in Nat /\ GspLength >= 4
<1>1. H1 \in 3..GspTop /\ H2 \in 3..GspTop /\ H1 # H2 /\ GspTop \in Nat
  BY SwitcherBounds
<1>2. GspTop >= 4
  BY <1>1
<1>. QED
  BY <1>1, <1>2, SwitcherBounds

(* The CRC of bytes is a byte.                                                *)
LEMMA CrcIsByte ==
  ASSUME NEW bytes \in Seq(Gsp!Byte)
  PROVE  Gsp!Crc(bytes) \in Gsp!Byte
<1>. DEFINE n == Len(bytes)
           D == 0..n
           V == Gsp!Byte
           rank == [i \in D |-> i]
           next == [i \in D |-> IF i = 0 THEN 0 ELSE i - 1]
           Next1(i, v) == IF i = 0 THEN 2 ELSE (3 * v + bytes[i] + 1) % (GspTop + 1)
           step == [i \in D |-> [v \in V |-> Next1(i, v)]]
           Eqn(f) == f = [i \in D |-> IF i = 0 THEN 2
                                      ELSE (3 * f[i - 1] + bytes[i] + 1) % (GspTop + 1)]
<1>1. GspTop \in Nat /\ GspTop >= 4 /\ n \in Nat /\ \A i \in 1..n : bytes[i] \in 0..GspTop
  <2>1. n \in Nat /\ \A i \in 1..n : bytes[i] \in Gsp!Byte
    OBVIOUS
  <2>. QED
    BY <2>1, GspBounds DEF Gsp!Byte
<1>2. 2 \in V
  BY <1>1 DEF Gsp!Byte
<1>3. rank \in [D -> 0..n] /\ next \in [D -> D]
  BY <1>1
<1>4. \A i \in D, v \in V : Next1(i, v) \in V
  <2>. SUFFICES ASSUME NEW i \in D, NEW v \in V, i # 0
               PROVE  (3 * v + bytes[i] + 1) % (GspTop + 1) \in V
    BY <1>2
  <2>0. v \in Int /\ bytes[i] \in Int
    BY <1>1 DEF Gsp!Byte
  <2>1. 3 * v + bytes[i] + 1 \in Int /\ GspTop + 1 \in Nat \ {0}
    BY <2>0, <1>1
  <2>. DEFINE a == 3 * v + bytes[i] + 1
  <2>a. a \in Int
    BY <2>1
  <2>2. a % (GspTop + 1) \in 0..GspTop
    <3>. HIDE DEF a
    <3>. QED
      BY <2>a, <1>1, ModIsByte, Zenon
  <2>. QED
    BY <2>2 DEF Gsp!Byte
<1>5. step \in [D -> [V -> V]]
  <2>. HIDE DEF Next1
  <2>. QED
    BY <1>4
<1>6. \A i \in D : rank[next[i]] < rank[i] \/ \A v, w \in V : step[i][v] = step[i][w]
  BY <1>1
<1>7. Recursion(D, V, n, rank, next, step)
  <2>. HIDE DEF D, rank, next, step
  <2>. QED
    BY <1>1, <1>2, <1>3, <1>5, <1>6 DEF Recursion
<1>71. PICK f \in [D -> V] : \A i \in D : f[i] = step[i][f[next[i]]]
  <2>. HIDE DEF D, V, n, rank, next, step
  <2>. QED
    BY <1>7, RecursiveFunction
<1>8. Eqn(f)
  <2>1. \A i \in D : f[i] = Next1(i, f[next[i]])
    <3>. HIDE DEF D, V, Next1
    <3>. QED
      BY <1>71, <1>3
  <2>2. \A i \in D : f[i] = IF i = 0 THEN 2
                            ELSE (3 * f[i - 1] + bytes[i] + 1) % (GspTop + 1)
    BY <2>1
  <2>. QED
    BY <2>2
<1>9. \A g : Eqn(g) => g[n] \in V
  <2>. SUFFICES ASSUME NEW g, Eqn(g) PROVE g[n] \in V
    OBVIOUS
  <2>. DEFINE S == {k \in Nat : k \in D => g[k] \in V}
  <2>1. 0 \in S
    BY <1>2
  <2>2. \A k \in Nat : k \in S => k + 1 \in S
    <3>1. ASSUME NEW k \in Nat, k \in D => g[k] \in V, k + 1 \in D PROVE g[k + 1] \in V
      <4>1. k \in D /\ k + 1 # 0 /\ (k + 1) - 1 = k /\ g[k] \in V
        BY <1>1, <3>1
      <4>2. g[k + 1] = Next1(k + 1, g[k])
        BY <3>1, <4>1
      <4>. HIDE DEF Next1
      <4>. QED
        BY <3>1, <4>1, <4>2, <1>4
    <3>2. \A k \in Nat : k + 1 \in Nat
      OBVIOUS
    <3>. HIDE DEF D, V, Eqn
    <3>. QED
      BY <3>1, <3>2
  <2>3. n \in S
    <3>. HIDE DEF S
    <3>. QED
      BY <2>1, <2>2, <1>1, NatSetInduction
  <2>. QED
    BY <2>3, <1>1
<1>10. Gsp!Crc(bytes) = (CHOOSE g : Eqn(g))[n]
  BY DEF Gsp!Crc
<1>. HIDE DEF Eqn
<1>. QED
  BY <1>8, <1>9, <1>10

Kinds == {"length", "crc", "protocol"}
Results == [commands : Seq(Seq(Gsp!Byte)), issues : Seq(Kinds)]

(* Joining results keeps their type, and nothing joins without a trace.       *)
LEMMA JoinedResults ==
  ASSUME NEW a \in Results, NEW b \in Results
  PROVE  /\ Gsp!Joined(a, b) \in Results
         /\ Gsp!Joined(a, b).commands = a.commands \o b.commands
         /\ Gsp!Joined(Gsp!Nothing, b) = b /\ Gsp!Joined(a, Gsp!Nothing) = a
         /\ Gsp!Nothing \in Results
<1>1. /\ a.commands \in Seq(Seq(Gsp!Byte)) /\ b.commands \in Seq(Seq(Gsp!Byte))
      /\ a.issues \in Seq(Kinds) /\ b.issues \in Seq(Kinds)
  BY DEF Results
<1>2. /\ a.commands \o b.commands \in Seq(Seq(Gsp!Byte)) /\ a.issues \o b.issues \in Seq(Kinds)
      /\ <<>> \o b.commands = b.commands /\ <<>> \o b.issues = b.issues
      /\ a.commands \o <<>> = a.commands /\ a.issues \o <<>> = a.issues
      /\ <<>> \in Seq(Seq(Gsp!Byte)) /\ <<>> \in Seq(Kinds)
  BY <1>1, ConcatProperties, ConcatEmptySeq, EmptySeq
<1>3. a = [commands |-> a.commands, issues |-> a.issues] /\ b = [commands |-> b.commands, issues |-> b.issues]
  BY DEF Results
<1>. QED
  BY <1>2, <1>3 DEF Gsp!Joined, Gsp!Nothing, Results

(* Results may be joined in any order.                                        *)
LEMMA JoinedAssociative ==
  ASSUME NEW a \in Results, NEW b \in Results, NEW c \in Results
  PROVE  Gsp!Joined(Gsp!Joined(a, b), c) = Gsp!Joined(a, Gsp!Joined(b, c))
<1>1. /\ (a.commands \o b.commands) \o c.commands = a.commands \o (b.commands \o c.commands)
      /\ (a.issues \o b.issues) \o c.issues = a.issues \o (b.issues \o c.issues)
  <2>. DEFINE C == Seq(Gsp!Byte)
             a1 == a.commands  b1 == b.commands  c1 == c.commands
             a2 == a.issues    b2 == b.issues    c2 == c.issues
  <2>1. a1 \in Seq(C) /\ b1 \in Seq(C) /\ c1 \in Seq(C)
    BY DEF Results
  <2>2. a2 \in Seq(Kinds) /\ b2 \in Seq(Kinds) /\ c2 \in Seq(Kinds)
    BY DEF Results
  <2>. HIDE DEF C, a1, b1, c1, a2, b2, c2
  <2>3. (a1 \o b1) \o c1 = a1 \o (b1 \o c1)
    BY <2>1, SMTT(30)
  <2>4. (a2 \o b2) \o c2 = a2 \o (b2 \o c2)
    BY <2>2, SMTT(30)
  <2>. QED
    BY <2>3, <2>4 DEF a1, b1, c1, a2, b2, c2
<1>. QED
  BY <1>1 DEF Gsp!Joined

(* What is found at a position is a result, and the rest begins further on.   *)
LEMMA FoundResults ==
  ASSUME NEW s \in Seq(Gsp!Byte), NEW i \in 1..Len(s), ~Gsp!Incomplete(s, i)
  PROVE  /\ Gsp!Found(s, i) \in Results
         /\ Gsp!After(s, i) \in (i + 1)..(Len(s) + 1)
<1>. USE GspBounds
<1>1. \A k \in 1..Len(s) : s[k] \in 0..GspTop
  BY DEF Gsp!Byte
<1>2. Gsp!HasHeaderAt(s, i) => i + 2 <= Len(s)
  BY DEF Gsp!Incomplete
<1>3. CASE ~Gsp!HasHeaderAt(s, i)
  BY <1>3, EmptySeq DEF Gsp!Found, Gsp!After, Gsp!IsPacket, Gsp!Nothing, Results
<1>4. CASE Gsp!HasHeaderAt(s, i) /\ ~Gsp!IsPacket(s, i)
  <2>1. <<"length">> \in Seq(Kinds) /\ <<>> \in Seq(Seq(Gsp!Byte))
    BY EmptySeq DEF Kinds
  <2>. QED
    BY <1>4, <2>1 DEF Gsp!Found, Gsp!After, Results
<1>5. CASE Gsp!IsPacket(s, i)
  <2>. DEFINE p == SubSeq(s, i, i + 2 + s[i + 2])
  <2>1. s[i + 2] \in 1..GspTop /\ i + 2 + s[i + 2] <= Len(s)
    BY <1>1, <1>2, <1>5 DEF Gsp!IsPacket, Gsp!Incomplete, Gsp!InvalidLength, Gsp!MinLength
  <2>2. p \in Seq(Gsp!Byte) /\ Len(p) = 3 + s[i + 2]
    BY <2>1, SubSeqProperties, SMTT(30)
  <2>3. Gsp!Payload(p) \in Seq(Gsp!Byte)
    <3>. HIDE DEF p
    <3>. QED
      BY <2>1, <2>2, SubSeqProperties, SMTT(30) DEF Gsp!Payload, Gsp!HeadLength
  <2>4. Gsp!Outcome(p) \in Results
    <3>1. <<Gsp!Payload(p)>> \in Seq(Seq(Gsp!Byte)) /\ <<>> \in Seq(Seq(Gsp!Byte))
      BY <2>3, EmptySeq
    <3>2. <<"crc">> \in Seq(Kinds) /\ <<"protocol">> \in Seq(Kinds) /\ <<>> \in Seq(Kinds)
      BY EmptySeq DEF Kinds
    <3>. HIDE DEF p, Kinds
    <3>. QED
      BY <3>1, <3>2 DEF Gsp!Outcome, Results
  <2>5. Gsp!HasHeaderAt(s, i)
    BY <1>5 DEF Gsp!IsPacket
  <2>. QED
    BY <1>5, <2>1, <2>4, <2>5 DEF Gsp!Found, Gsp!After
<1>. QED
  BY <1>3, <1>4, <1>5

(* The reference the parser is held to is defined: at every position of every *)
(* stream of bytes the recursion of the parse, which moves on by a packet or  *)
(* by a byte, has a value, and it is the one its equation gives.              *)
THEOREM MeaningDef ==
  ASSUME NEW s \in Seq(Gsp!Byte)
  PROVE  \A i \in 1..(Len(s) + 1) :
           /\ Gsp!Meaning(s)[i] \in Results
           /\ Gsp!Meaning(s)[i] = IF i > Len(s) \/ Gsp!Incomplete(s, i) THEN Gsp!Nothing
                                  ELSE Gsp!Joined(Gsp!Found(s, i), Gsp!Meaning(s)[Gsp!After(s, i)])
<1>. DEFINE n == Len(s)
           D == 1..(n + 1)
           V == Results
           Ends(i) == i > Len(s) \/ Gsp!Incomplete(s, i)
           rank == [i \in D |-> n + 1 - i]
           next == [i \in D |-> IF Ends(i) THEN i ELSE Gsp!After(s, i)]
           Value(i, v) == IF Ends(i) THEN Gsp!Nothing ELSE Gsp!Joined(Gsp!Found(s, i), v)
           step == [i \in D |-> [v \in V |-> Value(i, v)]]
           Eqn(f) == f = [i \in D |-> IF i > Len(s) \/ Gsp!Incomplete(s, i) THEN Gsp!Nothing
                                      ELSE Gsp!Joined(Gsp!Found(s, i), f[Gsp!After(s, i)])]
<1>1. n \in Nat /\ Gsp!Nothing \in V
  <2>1. Gsp!Nothing \in V
    BY EmptySeq DEF Gsp!Nothing, Results
  <2>. QED
    BY <2>1
<1>2. \A i \in D : ~Ends(i) => Gsp!Found(s, i) \in V /\ Gsp!After(s, i) \in (i + 1)..(n + 1)
  BY FoundResults
<1>3. \A i \in D, v \in V : Value(i, v) \in V
  <2>. HIDE DEF D, Ends
  <2>. QED
    BY <1>1, <1>2, JoinedResults
<1>4. rank \in [D -> 0..n] /\ next \in [D -> D] /\ step \in [D -> [V -> V]]
  <2>1. rank \in [D -> 0..n]
    BY <1>1
  <2>2. \A i \in D : (IF Ends(i) THEN i ELSE Gsp!After(s, i)) \in D
    BY <1>1, <1>2
  <2>3. next \in [D -> D]
    <3>. HIDE DEF D, Ends
    <3>. QED
      BY <2>2
  <2>4. step \in [D -> [V -> V]]
    <3>. HIDE DEF D, V, Value
    <3>. QED
      BY <1>3
  <2>. QED
    BY <2>1, <2>3, <2>4
<1>5. \A i \in D : rank[next[i]] < rank[i] \/ \A v, w \in V : step[i][v] = step[i][w]
  <2>. SUFFICES ASSUME NEW i \in D PROVE rank[next[i]] < rank[i] \/ \A v, w \in V : step[i][v] = step[i][w]
    OBVIOUS
  <2>1. CASE Ends(i)
    <3>. HIDE DEF Ends, D, V
    <3>. QED
      BY <2>1
  <2>2. CASE ~Ends(i)
    <3>1. next[i] = Gsp!After(s, i) /\ next[i] \in (i + 1)..(n + 1)
      <4>. HIDE DEF Ends, D
      <4>. QED
        BY <2>2, <1>2
    <3>. HIDE DEF next, Ends
    <3>. QED
      BY <3>1, <1>1
  <2>. QED
    BY <2>1, <2>2
<1>6. PICK f \in [D -> V] : \A i \in D : f[i] = step[i][f[next[i]]]
  <2>1. Recursion(D, V, n, rank, next, step)
    <3>. HIDE DEF D, V, n, rank, next, step
    <3>. QED
      BY <1>1, <1>4, <1>5 DEF Recursion
  <2>. HIDE DEF D, V, n, rank, next, step
  <2>. QED
    BY <2>1, RecursiveFunction
<1>7. Eqn(f)
  <2>1. \A i \in D : f[i] = Value(i, f[next[i]])
    <3>. HIDE DEF D, V, Value
    <3>. QED
      BY <1>6, <1>4
  <2>2. \A i \in D : f[i] = IF Ends(i) THEN Gsp!Nothing
                            ELSE Gsp!Joined(Gsp!Found(s, i), f[Gsp!After(s, i)])
    <3>. HIDE DEF D, Ends
    <3>. QED
      BY <2>1
  <2>. HIDE DEF D
  <2>. QED
    BY <2>2
<1>8. \A g : Eqn(g) => g \in [D -> V]
  <2>. SUFFICES ASSUME NEW g, Eqn(g) PROVE g \in [D -> V]
    OBVIOUS
  <2>1. \A i \in D : g[i] = IF Ends(i) THEN Gsp!Nothing
                            ELSE Gsp!Joined(Gsp!Found(s, i), g[Gsp!After(s, i)])
    BY Zenon
  <2>. DEFINE S == {k \in Nat : \A i \in D : rank[i] < k => g[i] \in V}
  <2>2. 0 \in S
    OBVIOUS
  <2>3. \A k \in Nat : k \in S => k + 1 \in S
    <3>. SUFFICES ASSUME NEW k \in Nat, \A j \in D : rank[j] < k => g[j] \in V,
                        NEW i \in D, rank[i] < k + 1
                 PROVE  g[i] \in V
      OBVIOUS
    <3>0. \A j \in D : rank[j] < k => g[j] \in V
      OBVIOUS
    <3>1. CASE Ends(i)
      <4>. HIDE DEF Ends, D
      <4>. QED
        BY <3>1, <2>1, <1>1
    <3>2. CASE ~Ends(i)
      <4>1. Gsp!After(s, i) \in D /\ rank[Gsp!After(s, i)] < k /\ Gsp!Found(s, i) \in V
        <5>1. Gsp!After(s, i) \in (i + 1)..(n + 1) /\ Gsp!Found(s, i) \in V
          BY <3>2, <1>2
        <5>. HIDE DEF Ends
        <5>. QED
          BY <5>1, <1>1
      <4>2. g[Gsp!After(s, i)] \in V
        <5>. HIDE DEF D, V, rank
        <5>. QED
          BY <4>1, <3>0
      <4>3. g[i] = Gsp!Joined(Gsp!Found(s, i), g[Gsp!After(s, i)])
        <5>. HIDE DEF D, Ends
        <5>. QED
          BY <2>1, <3>2
      <4>4. Gsp!Joined(Gsp!Found(s, i), g[Gsp!After(s, i)]) \in V
        <5>. HIDE DEF D, Ends, rank
        <5>. QED
          BY <4>1, <4>2, JoinedResults
      <4>. HIDE DEF V
      <4>. QED
        BY <4>3, <4>4
    <3>. QED
      BY <3>1, <3>2
  <2>4. n + 1 \in S
    <3>. HIDE DEF S
    <3>. QED
      BY <2>2, <2>3, <1>1, NatSetInduction
  <2>5. \A i \in D : g[i] \in V
    BY <2>4, <1>1
  <2>6. g = [i \in D |-> g[i]]
    BY Zenon
  <2>. HIDE DEF D, V
  <2>. QED
    BY <2>5, <2>6
<1>9. Gsp!Meaning(s) = CHOOSE g : Eqn(g)
  BY DEF Gsp!Meaning
<1>. HIDE DEF Eqn
<1>10. Eqn(Gsp!Meaning(s)) /\ Gsp!Meaning(s) \in [D -> V]
  BY <1>7, <1>8, <1>9
<1>. QED
  BY <1>10 DEF Eqn

(* Four facts about the parse: noise is skipped, an invalid length costs one  *)
(* byte, a packet is read whole, and the rest is kept.                        *)
LEMMA SkipNoise ==
  ASSUME NEW s \in Seq(Gsp!Byte), NEW a \in 1..(Len(s) + 1), NEW b \in a..(Len(s) + 1),
         \A i \in a..(b - 1) : ~Gsp!HasHeaderAt(s, i)
  PROVE  Gsp!Meaning(s)[a] = Gsp!Meaning(s)[b]
<1>. DEFINE n == Len(s)
           M == Gsp!Meaning(s)
           S == {k \in Nat : a + k <= b => M[a] = M[a + k]}
<1>1. n \in Nat /\ a \in Nat /\ b \in Nat /\ a <= b /\ b <= n + 1 /\ a >= 1
  OBVIOUS
<1>2. ASSUME NEW k \in Nat, k \in S, a + (k + 1) <= b PROVE M[a] = M[a + (k + 1)]
  <2>. DEFINE i == a + k
  <2>1. i \in 1..n /\ i \in a..(b - 1) /\ i + 1 \in 1..(n + 1) /\ a + (k + 1) = i + 1
    BY <1>1, <1>2
  <2>2. M[a] = M[i]
    BY <1>1, <1>2
  <2>3. ~Gsp!HasHeaderAt(s, i)
    BY <2>1
  <2>4. ~(i > n \/ Gsp!Incomplete(s, i)) /\ Gsp!Found(s, i) = Gsp!Nothing /\ Gsp!After(s, i) = i + 1
    BY <2>1, <2>3 DEF Gsp!Incomplete, Gsp!Found, Gsp!After, Gsp!IsPacket
  <2>. HIDE DEF M, i
  <2>5. M[i] = Gsp!Joined(Gsp!Nothing, M[i + 1]) /\ M[i + 1] \in Results
    BY <2>1, <2>4, MeaningDef DEF M
  <2>6. M[i] = M[i + 1]
    BY <2>5, JoinedResults
  <2>. QED
    BY <2>1, <2>2, <2>6
<1>3. 0 \in S
  BY <1>1
<1>4. b - a \in S
  <2>1. \A k \in Nat : k \in S => k + 1 \in S
    BY <1>2
  <2>2. b - a \in Nat
    BY <1>1
  <2>. HIDE DEF S
  <2>. QED
    BY <1>3, <2>1, <2>2, NatSetInduction
<1>. HIDE DEF M
<1>. QED
  BY <1>1, <1>4 DEF M

(* The parse where a header states a length no packet has.                    *)
LEMMA ReadBadLength ==
  ASSUME NEW s \in Seq(Gsp!Byte), NEW i \in 1..Len(s), i + 2 <= Len(s),
         Gsp!HasHeaderAt(s, i), Gsp!InvalidLength(s[i + 2])
  PROVE  Gsp!Meaning(s)[i] =
           Gsp!Joined([commands |-> <<>>, issues |-> <<"length">>], Gsp!Meaning(s)[i + 1])
<1>1. ~(i > Len(s) \/ Gsp!Incomplete(s, i)) /\ Gsp!After(s, i) = i + 1
      /\ Gsp!Found(s, i) = [commands |-> <<>>, issues |-> <<"length">>]
  BY DEF Gsp!Incomplete, Gsp!After, Gsp!IsPacket, Gsp!Found
<1>2. i \in 1..(Len(s) + 1)
  OBVIOUS
<1>. QED
  BY <1>1, <1>2, MeaningDef

(* The parse where a packet starts, complete.                                 *)
LEMMA ReadPacket ==
  ASSUME NEW s \in Seq(Gsp!Byte), NEW i \in 1..Len(s), i + 2 <= Len(s),
         Gsp!IsPacket(s, i), i + 2 + s[i + 2] <= Len(s)
  PROVE  Gsp!Meaning(s)[i] =
           Gsp!Joined(Gsp!Outcome(SubSeq(s, i, i + 2 + s[i + 2])), Gsp!Meaning(s)[i + 3 + s[i + 2]])
<1>1. s[i + 2] \in Int
  BY GspBounds DEF Gsp!Byte
<1>2. ~(i > Len(s) \/ Gsp!Incomplete(s, i)) /\ Gsp!After(s, i) = i + 3 + s[i + 2]
      /\ Gsp!Found(s, i) = Gsp!Outcome(SubSeq(s, i, i + 2 + s[i + 2]))
  BY <1>1 DEF Gsp!Incomplete, Gsp!After, Gsp!IsPacket, Gsp!Found
<1>3. i \in 1..(Len(s) + 1)
  OBVIOUS
<1>. QED
  BY <1>2, <1>3, MeaningDef

(* The parse at the end, or where a packet is still to be completed.          *)
LEMMA ReadEnd ==
  ASSUME NEW s \in Seq(Gsp!Byte), NEW i \in 1..(Len(s) + 1), i = Len(s) + 1 \/ Gsp!Incomplete(s, i)
  PROVE  Gsp!Meaning(s)[i] = Gsp!Nothing
<1>1. i > Len(s) \/ Gsp!Incomplete(s, i)
  OBVIOUS
<1>. QED
  BY <1>1, MeaningDef

(* FirstHeader is where the buffer's first header starts.                     *)
LEMMA FirstHeaderIs ==
  ASSUME NEW b \in Seq(Gsp!Byte), Gsp!HasHeader(b)
  PROVE  /\ Gsp!FirstHeader(b) \in 1..Len(b) /\ Gsp!HasHeaderAt(b, Gsp!FirstHeader(b))
         /\ \A j \in 1..(Gsp!FirstHeader(b) - 1) : ~Gsp!HasHeaderAt(b, j)
<1>. DEFINE T == {i \in 1..Len(b) : Gsp!HasHeaderAt(b, i)}
           First(i) == Gsp!HasHeaderAt(b, i) /\ \A j \in 1..(i - 1) : ~Gsp!HasHeaderAt(b, j)
<1>1. T \subseteq Nat /\ T # {}
  BY DEF Gsp!HasHeader
<1>2. PICK i \in T : \A j \in T : i <= j
  <2>. HIDE DEF T
  <2>. QED
    BY <1>1, LeastNat
<1>3. i \in 1..Len(b) /\ Gsp!HasHeaderAt(b, i)
  OBVIOUS
<1>4. \A j \in 1..(i - 1) : ~Gsp!HasHeaderAt(b, j)
  BY <1>2, <1>3
<1>5. Gsp!FirstHeader(b) = CHOOSE k \in 1..Len(b) : First(k)
  BY DEF Gsp!FirstHeader
<1>6. First(i)
  BY <1>3, <1>4
<1>. HIDE DEF First, T
<1>7. Gsp!FirstHeader(b) \in 1..Len(b) /\ First(Gsp!FirstHeader(b))
  BY <1>3, <1>5, <1>6
<1>. QED
  BY <1>7 DEF First

(* Headers within a part of a stream are headers of the stream.               *)
LEMMA HeaderWindow ==
  ASSUME NEW s \in Seq(Gsp!Byte), NEW b \in Seq(Gsp!Byte), NEW p \in Nat, p + Len(b) <= Len(s),
         \A j \in 1..Len(b) : s[p + j] = b[j]
  PROVE  \A j \in 1..(Len(b) - 1) : Gsp!HasHeaderAt(s, p + j) <=> Gsp!HasHeaderAt(b, j)
<1>. SUFFICES ASSUME NEW j \in 1..(Len(b) - 1)
             PROVE  Gsp!HasHeaderAt(s, p + j) <=> Gsp!HasHeaderAt(b, j)
  OBVIOUS
<1>1. Len(b) \in Nat /\ Len(s) \in Nat
  OBVIOUS
<1>2. j \in 1..Len(b) /\ j + 1 \in 1..Len(b) /\ p + (j + 1) = (p + j) + 1
  BY <1>1
<1>3. s[p + j] = b[j] /\ s[(p + j) + 1] = b[j + 1]
  BY <1>2
<1>4. p + j < Len(s) /\ j < Len(b)
  BY <1>1
<1>. QED
  BY <1>3, <1>4 DEF Gsp!HasHeaderAt

(* The buffer is the end of what was received; what was returned and recorded *)
(* is what the part before it says, whatever follows; at rest the buffer says *)
(* nothing yet.                                                               *)
GspPos == taken - Len(buffer)
GspOut == [commands |-> commands, issues |-> issues]
GoesOn(s) == Len(s) >= taken /\ \A j \in 1..taken : s[j] = sent[j]
OutIs(out, pos) ==
  \A s \in Seq(Gsp!Byte) :
    GoesOn(s) => Gsp!Meaning(s)[1] = Gsp!Joined(out, Gsp!Meaning(s)[pos + 1])

GspTypes == Gsp!TypeOK /\ Len(buffer) <= taken
WindowInv == \A j \in 1..Len(buffer) : buffer[j] = sent[GspPos + j]
OutInv == gspConnected => OutIs(GspOut, GspPos)
RestInv == gspConnected /\ ~feeding => Gsp!Meaning(Gsp!Received)[GspPos + 1] = Gsp!Nothing

(* What was received is itself a stream that goes on from there.              *)
LEMMA ReceivedGoesOn ==
  ASSUME GspTypes
  PROVE  Gsp!Received \in Seq(Gsp!Byte) /\ Len(Gsp!Received) = taken /\ GoesOn(Gsp!Received)
<1>1. sent \in Seq(Gsp!Byte) /\ taken \in Nat /\ taken <= Len(sent)
  BY DEF GspTypes, Gsp!TypeOK
<1>2. \A i \in 1..taken : sent[i] \in Gsp!Byte
  BY <1>1
<1>. QED
  BY <1>1, <1>2, SubSeqProperties DEF Gsp!Received, GoesOn

(* The buffer where it is in every stream that goes on from what was received.*)
LEMMA BufferInStream ==
  ASSUME GspTypes, WindowInv, NEW s \in Seq(Gsp!Byte), GoesOn(s)
  PROVE  /\ GspPos \in Nat /\ Len(buffer) \in Nat /\ taken \in Nat /\ GspPos + Len(buffer) = taken
         /\ taken <= Len(s) /\ \A j \in 1..Len(buffer) : s[GspPos + j] = buffer[j]
<1>1. /\ Len(buffer) \in Nat /\ taken \in Nat /\ Len(buffer) <= taken /\ taken <= Len(s)
  BY DEF GspTypes, Gsp!TypeOK, GoesOn
<1>2. GspPos \in Nat /\ GspPos + Len(buffer) = taken
  BY <1>1 DEF GspPos
<1>3. ASSUME NEW j \in 1..Len(buffer) PROVE s[GspPos + j] = buffer[j]
  <2>1. GspPos + j \in 1..taken
    BY <1>1, <1>2
  <2>. QED
    BY <2>1 DEF GoesOn, WindowInv
<1>. QED
  BY <1>1, <1>2, <1>3

(* A buffer without a header means nothing, but for a half header at its end. *)
LEMMA NoHeaderReads ==
  ASSUME GspTypes, WindowInv, NEW s \in Seq(Gsp!Byte), GoesOn(s), ~Gsp!HasHeader(buffer)
  PROVE  LET kept == Gsp!KeepTail(buffer) IN
           /\ kept \in Seq(Gsp!Byte) /\ Len(kept) \in {0, 1} /\ Len(kept) <= Len(buffer)
           /\ Len(kept) = 1 => kept[1] = H1 /\ buffer[Len(buffer)] = H1
           /\ Gsp!Meaning(s)[GspPos + 1] = Gsp!Meaning(s)[(taken - Len(kept)) + 1]
<1>. DEFINE kept == Gsp!KeepTail(buffer)
           n == Len(buffer)
<1>1. /\ GspPos \in Nat /\ n \in Nat /\ taken \in Nat /\ GspPos + n = taken
      /\ taken <= Len(s) /\ \A j \in 1..n : s[GspPos + j] = buffer[j]
  BY BufferInStream
<1>2. buffer \in Seq(Gsp!Byte) /\ Len(s) \in Nat
  BY DEF GspTypes, Gsp!TypeOK
<1>3. \A j \in 1..(n - 1) : ~Gsp!HasHeaderAt(s, GspPos + j)
  <2>1. \A j \in 1..(n - 1) : Gsp!HasHeaderAt(s, GspPos + j) <=> Gsp!HasHeaderAt(buffer, j)
    BY <1>1, <1>2, HeaderWindow
  <2>2. \A j \in 1..(n - 1) : j \in 1..n
    BY <1>1
  <2>. QED
    BY <2>1, <2>2 DEF Gsp!HasHeader
<1>4. CASE buffer # <<>> /\ buffer[n] = H1
  <2>1. kept = <<H1>>
    BY <1>4 DEF Gsp!KeepTail, Gsp!Last
  <2>2. n >= 1
    BY <1>2, <1>4, EmptySeq
  <2>3. <<H1>> \in Seq(Gsp!Byte) /\ Len(<<H1>>) = 1 /\ <<H1>>[1] = H1
    BY GspBounds DEF Gsp!Byte
  <2>4. \A i \in (GspPos + 1)..(taken - 1) : ~Gsp!HasHeaderAt(s, i)
    <3>. SUFFICES ASSUME NEW i \in (GspPos + 1)..(taken - 1) PROVE ~Gsp!HasHeaderAt(s, i)
      OBVIOUS
    <3>1. i - GspPos \in 1..(n - 1) /\ GspPos + (i - GspPos) = i
      BY <1>1
    <3>. QED
      BY <3>1, <1>3
  <2>5. Gsp!Meaning(s)[GspPos + 1] = Gsp!Meaning(s)[taken]
    <3>1. GspPos + 1 \in 1..(Len(s) + 1) /\ taken \in (GspPos + 1)..(Len(s) + 1)
      BY <1>1, <1>2, <2>2
    <3>. QED
      BY <3>1, <2>4, SkipNoise
  <2>6. (taken - 1) + 1 = taken
    BY <1>1
  <2>. QED
    BY <1>4, <2>1, <2>2, <2>3, <2>5, <2>6, <1>1
<1>5. CASE ~(buffer # <<>> /\ buffer[n] = H1)
  <2>1. kept = <<>>
    BY <1>5 DEF Gsp!KeepTail, Gsp!Last
  <2>2. <<>> \in Seq(Gsp!Byte) /\ Len(<<>>) = 0
    BY EmptySeq
  <2>3. \A i \in (GspPos + 1)..taken : ~Gsp!HasHeaderAt(s, i)
    <3>. SUFFICES ASSUME NEW i \in (GspPos + 1)..taken PROVE ~Gsp!HasHeaderAt(s, i)
      OBVIOUS
    <3>1. i - GspPos \in 1..n /\ GspPos + (i - GspPos) = i
      BY <1>1
    <3>2. CASE i - GspPos \in 1..(n - 1)
      BY <3>1, <3>2, <1>3
    <3>3. CASE i - GspPos = n
      <4>1. s[i] = buffer[n] /\ buffer # <<>>
        BY <3>1, <3>3, <1>1
      <4>. QED
        BY <4>1, <1>5 DEF Gsp!HasHeaderAt
    <3>. QED
      BY <3>1, <3>2, <3>3, <1>1
  <2>4. Gsp!Meaning(s)[GspPos + 1] = Gsp!Meaning(s)[taken + 1]
    <3>1. /\ GspPos + 1 \in 1..(Len(s) + 1) /\ taken + 1 \in (GspPos + 1)..(Len(s) + 1)
          /\ (taken + 1) - 1 = taken
      BY <1>1, <1>2
    <3>. QED
      BY <3>1, <2>3, SkipNoise
  <2>5. (taken - 0) + 1 = taken + 1
    BY <1>1
  <2>. QED
    BY <2>1, <2>2, <2>4, <2>5, <1>1
<1>. QED
  BY <1>4, <1>5

(* The buffer from its first header on, in the stream.                        *)
LEMMA AlignedReads ==
  ASSUME GspTypes, WindowInv, NEW s \in Seq(Gsp!Byte), GoesOn(s), Gsp!HasHeader(buffer)
  PROVE  LET q == GspPos + Gsp!FirstHeader(buffer)
             n == Len(Gsp!Aligned)
         IN /\ Gsp!Aligned \in Seq(Gsp!Byte) /\ n \in Nat /\ n >= 2 /\ Gsp!Aligned[1] = H1
            /\ q \in Nat /\ q >= 1 /\ q + n = taken + 1 /\ taken <= Len(s) /\ n <= Len(buffer)
            /\ \A j \in 1..n : s[(q - 1) + j] = Gsp!Aligned[j]
            /\ Gsp!HasHeaderAt(s, q)
            /\ Gsp!Meaning(s)[GspPos + 1] = Gsp!Meaning(s)[q]
<1>. DEFINE f == Gsp!FirstHeader(buffer)
           q == GspPos + f
           L == Len(buffer)
           A == Gsp!Aligned
<1>1. /\ GspPos \in Nat /\ L \in Nat /\ taken \in Nat /\ GspPos + L = taken
      /\ taken <= Len(s) /\ \A j \in 1..L : s[GspPos + j] = buffer[j]
  BY BufferInStream
<1>2. buffer \in Seq(Gsp!Byte) /\ Len(s) \in Nat
  BY DEF GspTypes, Gsp!TypeOK
<1>3. f \in 1..L /\ Gsp!HasHeaderAt(buffer, f) /\ \A j \in 1..(f - 1) : ~Gsp!HasHeaderAt(buffer, j)
  BY <1>2, FirstHeaderIs
<1>4. f < L /\ buffer[f] = H1
  BY <1>3 DEF Gsp!HasHeaderAt
<1>5. A = SubSeq(buffer, f, L)
  BY DEF Gsp!Aligned
<1>. HIDE DEF f, L, A
<1>6. \A i \in f..L : buffer[i] \in Gsp!Byte
  BY <1>1, <1>2, <1>3 DEF L
<1>7. A \in Seq(Gsp!Byte) /\ Len(A) = L - f + 1 /\ \A j \in 1..(L - f + 1) : A[j] = buffer[f + j - 1]
  BY <1>1, <1>3, <1>4, <1>5, <1>6, SubSeqProperties
<1>8. \A j \in 1..(L - 1) : Gsp!HasHeaderAt(s, GspPos + j) <=> Gsp!HasHeaderAt(buffer, j)
  BY <1>1, <1>2, HeaderWindow DEF L
<1>9. Gsp!HasHeaderAt(s, q)
  <2>1. f \in 1..(L - 1)
    BY <1>1, <1>3, <1>4
  <2>. QED
    BY <1>3, <1>8, <2>1
<1>10. Gsp!Meaning(s)[GspPos + 1] = Gsp!Meaning(s)[q]
  <2>1. ASSUME NEW i \in (GspPos + 1)..(q - 1) PROVE ~Gsp!HasHeaderAt(s, i)
    <3>1. /\ i - GspPos \in 1..(f - 1) /\ GspPos + (i - GspPos) = i /\ i - GspPos \in 1..(L - 1)
      BY <1>1, <1>3
    <3>. QED
      BY <3>1, <1>3, <1>8
  <2>2. GspPos + 1 \in 1..(Len(s) + 1) /\ q \in (GspPos + 1)..(Len(s) + 1)
    BY <1>1, <1>2, <1>3
  <2>. QED
    BY <2>1, <2>2, SkipNoise
<1>11. ASSUME NEW j \in 1..Len(A) PROVE s[(q - 1) + j] = A[j]
  <2>1. f + j - 1 \in 1..L /\ GspPos + (f + j - 1) = (q - 1) + j
    BY <1>1, <1>3, <1>7
  <2>. QED
    BY <2>1, <1>1, <1>7
<1>12. A[1] = H1
  <2>1. 1 \in 1..(L - f + 1) /\ f + 1 - 1 = f
    BY <1>1, <1>3, <1>4
  <2>. QED
    BY <2>1, <1>7, <1>4
<1>13. Len(A) \in Nat /\ Len(A) >= 2 /\ q \in Nat /\ q >= 1 /\ q + Len(A) = taken + 1 /\ Len(A) <= L
  BY <1>1, <1>3, <1>4, <1>7
<1>. QED
  BY <1>1, <1>7, <1>9, <1>10, <1>11, <1>12, <1>13 DEF f, L, A

LEMMA OutIsResult ==
  ASSUME GspTypes
  PROVE  GspOut \in Results
  BY DEF GspTypes, Gsp!TypeOK, GspOut, Results, Kinds

(* What an iteration takes off the buffer is what it returns and records.     *)
LEMMA IterationKeepsOut ==
  ASSUME GspTypes, GspTypes', OutInv, UNCHANGED <<sent, taken, gspConnected>>,
         NEW e \in Results, GspOut' = Gsp!Joined(GspOut, e),
         \A s \in Seq(Gsp!Byte) : GoesOn(s) =>
           Gsp!Meaning(s)[GspPos + 1] = Gsp!Joined(e, Gsp!Meaning(s)[GspPos' + 1])
  PROVE  OutInv'
<1>. DEFINE M(s) == Gsp!Meaning(s)
           p == GspPos'
<1>. SUFFICES ASSUME gspConnected, NEW s \in Seq(Gsp!Byte), GoesOn(s)
             PROVE  M(s)[1] = Gsp!Joined(GspOut', M(s)[p + 1])
  BY DEF OutInv, OutIs, GoesOn
<1>1. M(s)[1] = Gsp!Joined(GspOut, M(s)[GspPos + 1])
  BY DEF OutInv, OutIs
<1>2. M(s)[GspPos + 1] = Gsp!Joined(e, M(s)[p + 1])
  OBVIOUS
<1>3. p + 1 \in 1..(Len(s) + 1)
  <2>1. taken' \in Nat /\ Len(buffer') \in Nat /\ Len(buffer') <= taken' /\ taken' = taken
    BY DEF GspTypes, Gsp!TypeOK
  <2>2. taken <= Len(s) /\ Len(s) \in Nat
    BY DEF GoesOn
  <2>. QED
    BY <2>1, <2>2 DEF GspPos
<1>4. M(s)[p + 1] \in Results
  BY <1>3, MeaningDef
<1>. HIDE DEF M, p
<1>. QED
  BY <1>1, <1>2, <1>4, OutIsResult, JoinedAssociative

(* One iteration of feed() keeps the invariant, for each way it can end.      *)
LEMMA NoHeaderStep ==
  ASSUME GspTypes, WindowInv, OutInv, Gsp!NoHeader, feeding,
         UNCHANGED <<sent, pieces, due, torn, taken, gspConnected, sessions>>
  PROVE  GspTypes' /\ WindowInv' /\ OutInv' /\ RestInv' /\ Gsp!BufferStaysShort'
<1>. DEFINE kept == Gsp!KeepTail(buffer)
<1>1. buffer' = kept /\ feeding' = FALSE /\ commands' = commands /\ issues' = issues
      /\ ~Gsp!HasHeader(buffer)
  BY DEF Gsp!NoHeader
<1>2. /\ kept \in Seq(Gsp!Byte) /\ Len(kept) \in {0, 1} /\ Len(kept) <= Len(buffer)
      /\ Len(kept) = 1 => kept[1] = H1 /\ buffer[Len(buffer)] = H1
      /\ \A s \in Seq(Gsp!Byte) : GoesOn(s) =>
           Gsp!Meaning(s)[GspPos + 1] = Gsp!Meaning(s)[(taken - Len(kept)) + 1]
  BY <1>1, NoHeaderReads, ReceivedGoesOn
<1>. HIDE DEF kept
<1>3. taken \in Nat /\ Len(buffer) \in Nat /\ Len(buffer) <= taken
  BY DEF GspTypes, Gsp!TypeOK
<1>4. GspTypes'
  <2>1. Len(kept) <= taken
    BY <1>2, <1>3
  <2>. QED
    BY <1>1, <1>2, <2>1 DEF GspTypes, Gsp!TypeOK
<1>5. GspPos' = taken - Len(kept)
  BY <1>1 DEF GspPos
<1>6. WindowInv'
  <2>1. ASSUME NEW j \in 1..Len(kept) PROVE kept[j] = sent[GspPos' + j]
    <3>0. Len(kept) = 0 \/ Len(kept) = 1
      BY <1>2
    <3>1. Len(kept) = 1 /\ j = 1 /\ (taken - Len(kept)) + j = taken /\ Len(buffer) >= 1
      <4>1. Len(kept) = 1
        BY <3>0
      <4>2. j = 1 /\ Len(buffer) >= 1
        BY <4>1, <1>2, <1>3
      <4>3. (taken - 1) + 1 = taken
        BY <1>3
      <4>. QED
        BY <4>1, <4>2, <4>3
    <3>2. Len(buffer) \in 1..Len(buffer) /\ GspPos + Len(buffer) = taken
      BY <1>3, <3>1 DEF GspPos
    <3>3. buffer[Len(buffer)] = sent[taken]
      BY <3>2 DEF WindowInv
    <3>. QED
      BY <1>2, <1>5, <3>1, <3>3
  <2>. QED
    BY <1>1, <2>1 DEF WindowInv
<1>7. OutInv'
  <2>1. GspOut \in Results /\ Gsp!Nothing \in Results /\ GspOut' = GspOut
    BY <1>1, OutIsResult, JoinedResults DEF GspOut
  <2>2. GspOut' = Gsp!Joined(GspOut, Gsp!Nothing)
    BY <2>1, JoinedResults
  <2>3. ASSUME NEW s \in Seq(Gsp!Byte), GoesOn(s)
        PROVE  Gsp!Meaning(s)[GspPos + 1] = Gsp!Joined(Gsp!Nothing, Gsp!Meaning(s)[GspPos' + 1])
    <3>1. Gsp!Meaning(s)[GspPos + 1] = Gsp!Meaning(s)[GspPos' + 1]
      BY <1>2, <1>5, <2>3
    <3>2. GspPos' + 1 \in 1..(Len(s) + 1)
      <4>1. taken <= Len(s) /\ Len(s) \in Nat
        BY <2>3 DEF GoesOn
      <4>. QED
        BY <4>1, <1>2, <1>3, <1>5
    <3>3. Gsp!Meaning(s)[GspPos' + 1] \in Results
      BY <3>2, MeaningDef
    <3>. QED
      BY <3>1, <3>3, JoinedResults
  <2>. QED
    BY <1>4, <2>1, <2>2, <2>3, IterationKeepsOut
<1>8. RestInv'
  <2>. DEFINE s == Gsp!Received
  <2>1. s \in Seq(Gsp!Byte) /\ Len(s) = taken /\ Gsp!Received' = s
    BY ReceivedGoesOn DEF Gsp!Received
  <2>. HIDE DEF s
  <2>2. Gsp!Meaning(s)[taken + 1] = Gsp!Nothing
    <3>1. taken + 1 \in 1..(Len(s) + 1) /\ taken + 1 = Len(s) + 1
      BY <2>1, <1>3
    <3>. QED
      BY <2>1, <3>1, ReadEnd
  <2>3. CASE Len(kept) = 0
    <3>1. GspPos' + 1 = taken + 1
      BY <1>5, <1>3, <2>3
    <3>. QED
      BY <2>1, <2>2, <3>1 DEF RestInv
  <2>4. CASE Len(kept) = 1
    <3>1. GspPos' + 1 = taken /\ taken >= 1
      BY <1>5, <1>2, <1>3, <2>4
    <3>2. ASSUME NEW i \in taken..((taken + 1) - 1) PROVE ~Gsp!HasHeaderAt(s, i)
      <4>1. ~(i < Len(s))
        BY <1>3, <2>1
      <4>. QED
        BY <4>1 DEF Gsp!HasHeaderAt
    <3>3. taken \in 1..(Len(s) + 1) /\ taken + 1 \in taken..(Len(s) + 1)
      BY <3>1, <2>1, <1>3
    <3>4. Gsp!Meaning(s)[taken] = Gsp!Meaning(s)[taken + 1]
      BY <2>1, <3>2, <3>3, SkipNoise
    <3>. QED
      BY <2>1, <2>2, <3>1, <3>4 DEF RestInv
  <2>. QED
    BY <1>2, <2>3, <2>4
<1>9. Gsp!BufferStaysShort'
  <2>1. kept # <<>> => Len(kept) = 1
    BY <1>2, EmptySeq
  <2>2. Len(kept) < 3 + GspLength
    <3>1. Len(kept) = 0 \/ Len(kept) = 1
      BY <1>2
    <3>. QED
      BY <3>1, GspBounds
  <2>3. kept # <<>> => kept[1] = H1
    BY <1>2, <2>1
  <2>. QED
    BY <1>1, <2>2, <2>3 DEF Gsp!BufferStaysShort, Gsp!HeadLength
<1>. QED
  BY <1>4, <1>6, <1>7, <1>8, <1>9

LEMMA NeedsMoreStep ==
  ASSUME GspTypes, WindowInv, OutInv, Gsp!NeedsMore, feeding,
         UNCHANGED <<sent, pieces, due, torn, taken, gspConnected, sessions>>
  PROVE  GspTypes' /\ WindowInv' /\ OutInv' /\ RestInv' /\ Gsp!BufferStaysShort'
<1>. DEFINE A == Gsp!Aligned
           n == Len(A)
           q == GspPos + Gsp!FirstHeader(buffer)
<1>1. /\ Gsp!HasHeader(buffer)
      /\ n >= 3 => ~Gsp!InvalidLength(A[3]) /\ n < 3 + A[3]
      /\ buffer' = A /\ feeding' = FALSE /\ commands' = commands /\ issues' = issues
  BY DEF Gsp!NeedsMore, Gsp!HeadLength, Gsp!PacketSize
<1>2. /\ A \in Seq(Gsp!Byte) /\ n \in Nat /\ n >= 2 /\ A[1] = H1
      /\ q \in Nat /\ q >= 1 /\ q + n = taken + 1 /\ n <= Len(buffer)
      /\ \A s \in Seq(Gsp!Byte) : GoesOn(s) =>
           /\ \A j \in 1..n : s[(q - 1) + j] = A[j]
           /\ taken <= Len(s) /\ Gsp!HasHeaderAt(s, q)
           /\ Gsp!Meaning(s)[GspPos + 1] = Gsp!Meaning(s)[q]
  BY <1>1, AlignedReads, ReceivedGoesOn
<1>. HIDE DEF A, q
<1>3. taken \in Nat /\ Len(buffer) \in Nat /\ Len(buffer) <= taken /\ sent \in Seq(Gsp!Byte)
  BY DEF GspTypes, Gsp!TypeOK
<1>4. GspTypes'
  <2>1. n <= taken
    BY <1>2, <1>3
  <2>. QED
    BY <1>1, <1>2, <2>1 DEF GspTypes, Gsp!TypeOK
<1>5. GspPos' = q - 1 /\ GspPos' + 1 = q
  BY <1>1, <1>2, <1>3 DEF GspPos
<1>6. WindowInv'
  <2>1. ASSUME NEW j \in 1..n PROVE A[j] = sent[(q - 1) + j]
    <3>. DEFINE s == Gsp!Received
    <3>1. s \in Seq(Gsp!Byte) /\ GoesOn(s) /\ s[(q - 1) + j] = A[j]
      BY ReceivedGoesOn, <1>2
    <3>2. (q - 1) + j \in 1..taken
      BY <1>2, <1>3
    <3>. HIDE DEF s
    <3>. QED
      BY <3>1, <3>2 DEF GoesOn
  <2>. QED
    BY <1>1, <1>5, <2>1 DEF WindowInv
<1>7. OutInv'
  <2>1. GspOut \in Results /\ Gsp!Nothing \in Results /\ GspOut' = GspOut
    BY <1>1, OutIsResult, JoinedResults DEF GspOut
  <2>2. GspOut' = Gsp!Joined(GspOut, Gsp!Nothing)
    BY <2>1, JoinedResults
  <2>3. ASSUME NEW s \in Seq(Gsp!Byte), GoesOn(s)
        PROVE  Gsp!Meaning(s)[GspPos + 1] = Gsp!Joined(Gsp!Nothing, Gsp!Meaning(s)[GspPos' + 1])
    <3>1. Gsp!Meaning(s)[GspPos + 1] = Gsp!Meaning(s)[q] /\ taken <= Len(s) /\ Len(s) \in Nat
      BY <1>2, <2>3
    <3>2. q \in 1..(Len(s) + 1)
      BY <3>1, <1>2, <1>3
    <3>3. Gsp!Meaning(s)[q] \in Results
      BY <3>2, MeaningDef
    <3>. QED
      BY <3>1, <3>3, <1>5, JoinedResults
  <2>. QED
    BY <1>4, <2>1, <2>2, <2>3, IterationKeepsOut
<1>8. RestInv'
  <2>. DEFINE s == Gsp!Received
  <2>1. s \in Seq(Gsp!Byte) /\ Len(s) = taken /\ GoesOn(s) /\ Gsp!Received' = s
    BY ReceivedGoesOn DEF Gsp!Received
  <2>. HIDE DEF s
  <2>2. Gsp!HasHeaderAt(s, q) /\ \A j \in 1..n : s[(q - 1) + j] = A[j]
    BY <2>1, <1>2
  <2>3. q + 2 <= Len(s) => ~Gsp!InvalidLength(s[q + 2]) /\ q + 2 + s[q + 2] > Len(s)
    <3>. SUFFICES ASSUME q + 2 <= Len(s)
                 PROVE  ~Gsp!InvalidLength(s[q + 2]) /\ q + 2 + s[q + 2] > Len(s)
      OBVIOUS
    <3>1. n >= 3 /\ 3 \in 1..n /\ (q - 1) + 3 = q + 2
      BY <1>2, <1>3, <2>1
    <3>2. s[q + 2] = A[3]
      BY <2>2, <3>1
    <3>3. A[3] \in Nat
      <4>1. A[3] \in Gsp!Byte
        BY <1>2, <3>1
      <4>. QED
        BY <4>1, GspBounds DEF Gsp!Byte
    <3>4. ~Gsp!InvalidLength(A[3]) /\ n < 3 + A[3]
      BY <1>1, <3>1
    <3>. QED
      BY <1>2, <1>3, <2>1, <3>2, <3>3, <3>4
  <2>4. q \in 1..(Len(s) + 1)
    BY <1>2, <1>3, <2>1
  <2>5. Gsp!Meaning(s)[q] = Gsp!Nothing
    BY <2>1, <2>2, <2>3, <2>4, ReadEnd DEF Gsp!Incomplete
  <2>. QED
    BY <2>1, <2>5, <1>5 DEF RestInv
<1>9. Gsp!BufferStaysShort'
  <2>1. n < 3 + GspLength
    <3>1. CASE n >= 3
      <4>1. A[3] \in Int /\ A[3] <= GspLength
        BY <1>1, <1>2, <3>1, GspBounds DEF Gsp!InvalidLength, Gsp!Byte
      <4>. QED
        BY <4>1, <1>1, <1>2, <3>1, GspBounds
    <3>. QED
      BY <3>1, <1>2, GspBounds
  <2>. QED
    BY <1>1, <1>2, <2>1 DEF Gsp!BufferStaysShort, Gsp!HeadLength
<1>. QED
  BY <1>4, <1>6, <1>7, <1>8, <1>9

LEMMA BadLengthStep ==
  ASSUME GspTypes, WindowInv, OutInv, Gsp!BadLength, feeding,
         UNCHANGED <<sent, pieces, due, torn, taken, gspConnected, sessions>>
  PROVE  GspTypes' /\ WindowInv' /\ OutInv' /\ RestInv' /\ Gsp!BufferStaysShort'
<1>. DEFINE A == Gsp!Aligned
           n == Len(A)
           q == GspPos + Gsp!FirstHeader(buffer)
           e == [commands |-> <<>>, issues |-> <<"length">>]
<1>1. /\ Gsp!HasHeader(buffer) /\ n >= 3 /\ Gsp!InvalidLength(A[3])
      /\ buffer' = Tail(A) /\ feeding' = feeding /\ commands' = commands
      /\ issues' = Append(issues, "length")
  BY DEF Gsp!BadLength, Gsp!HeadLength
<1>2. /\ A \in Seq(Gsp!Byte) /\ n \in Nat /\ n >= 2
      /\ q \in Nat /\ q >= 1 /\ q + n = taken + 1 /\ n <= Len(buffer)
      /\ \A s \in Seq(Gsp!Byte) : GoesOn(s) =>
           /\ \A j \in 1..n : s[(q - 1) + j] = A[j]
           /\ taken <= Len(s) /\ Gsp!HasHeaderAt(s, q)
           /\ Gsp!Meaning(s)[GspPos + 1] = Gsp!Meaning(s)[q]
  BY <1>1, AlignedReads, ReceivedGoesOn
<1>. HIDE DEF A, q
<1>3. /\ taken \in Nat /\ Len(buffer) \in Nat /\ Len(buffer) <= taken /\ sent \in Seq(Gsp!Byte)
      /\ commands \in Seq(Seq(Gsp!Byte)) /\ issues \in Seq(Kinds)
  BY DEF GspTypes, Gsp!TypeOK, Kinds
<1>4. Tail(A) \in Seq(Gsp!Byte) /\ Len(Tail(A)) = n - 1 /\ \A j \in 1..(n - 1) : Tail(A)[j] = A[j + 1]
  BY <1>2, EmptySeq, HeadTailProperties
<1>5. GspTypes'
  <2>1. n - 1 <= taken
    BY <1>2, <1>3
  <2>2. issues' \in Seq({"length", "crc", "protocol"})
    BY <1>1, <1>3 DEF Kinds
  <2>. QED
    BY <1>1, <1>2, <1>4, <2>1, <2>2 DEF GspTypes, Gsp!TypeOK
<1>6. GspPos' = q
  BY <1>1, <1>2, <1>3, <1>4 DEF GspPos
<1>7. WindowInv'
  <2>1. ASSUME NEW j \in 1..(n - 1) PROVE Tail(A)[j] = sent[q + j]
    <3>. DEFINE s == Gsp!Received
    <3>0. j + 1 \in 1..n /\ (q - 1) + (j + 1) = q + j /\ q + j \in 1..taken
      BY <1>2, <1>3
    <3>1. s \in Seq(Gsp!Byte) /\ GoesOn(s) /\ s[q + j] = A[j + 1]
      BY ReceivedGoesOn, <1>2, <3>0
    <3>. HIDE DEF s
    <3>. QED
      BY <1>4, <3>0, <3>1 DEF GoesOn
  <2>. QED
    BY <1>1, <1>4, <1>6, <2>1 DEF WindowInv
<1>8. OutInv'
  <2>1. e \in Results /\ GspOut \in Results
    BY OutIsResult, EmptySeq DEF Results, Kinds
  <2>2. GspOut' = Gsp!Joined(GspOut, e)
    <3>1. Append(issues, "length") = issues \o <<"length">> /\ commands \o <<>> = commands
      BY <1>3, AppendIsConcat, ConcatEmptySeq DEF Kinds
    <3>. QED
      BY <1>1, <3>1 DEF GspOut, Gsp!Joined
  <2>3. ASSUME NEW s \in Seq(Gsp!Byte), GoesOn(s)
        PROVE  Gsp!Meaning(s)[GspPos + 1] = Gsp!Joined(e, Gsp!Meaning(s)[GspPos' + 1])
    <3>1. /\ Gsp!Meaning(s)[GspPos + 1] = Gsp!Meaning(s)[q] /\ taken <= Len(s) /\ Len(s) \in Nat
          /\ Gsp!HasHeaderAt(s, q) /\ \A j \in 1..n : s[(q - 1) + j] = A[j]
      BY <1>2, <2>3
    <3>2. 3 \in 1..n /\ (q - 1) + 3 = q + 2 /\ q + 2 <= Len(s) /\ q \in 1..Len(s)
      <4>1. n \in Nat /\ n >= 3 /\ q \in Nat /\ q >= 1 /\ q + n = taken + 1 /\ taken \in Nat
        BY <1>1, <1>2, <1>3
      <4>. HIDE DEF n
      <4>. QED
        BY <3>1, <4>1
    <3>3. Gsp!InvalidLength(s[q + 2])
      BY <3>1, <3>2, <1>1
    <3>4. Gsp!Meaning(s)[q] = Gsp!Joined(e, Gsp!Meaning(s)[q + 1])
      BY <3>1, <3>2, <3>3, ReadBadLength
    <3>. QED
      BY <3>1, <3>4, <1>6
  <2>. HIDE DEF e
  <2>. QED
    BY <1>5, <2>1, <2>2, <2>3, IterationKeepsOut
<1>9. RestInv' /\ Gsp!BufferStaysShort'
  BY <1>1 DEF RestInv, Gsp!BufferStaysShort
<1>. QED
  BY <1>5, <1>7, <1>8, <1>9

LEMMA TakePacketStep ==
  ASSUME GspTypes, WindowInv, OutInv, Gsp!TakePacket, feeding,
         UNCHANGED <<sent, pieces, due, torn, taken, gspConnected, sessions>>
  PROVE  GspTypes' /\ WindowInv' /\ OutInv' /\ RestInv' /\ Gsp!BufferStaysShort'
<1>. DEFINE A == Gsp!Aligned
           n == Len(A)
           q == GspPos + Gsp!FirstHeader(buffer)
           k == A[3]
           pkt == SubSeq(A, 1, 3 + k)
           e == Gsp!Outcome(pkt)
           rest == SubSeq(A, 3 + k + 1, n)
<1>1. /\ Gsp!HasHeader(buffer) /\ n >= 3 /\ ~Gsp!InvalidLength(k) /\ n >= 3 + k
      /\ buffer' = rest /\ feeding' = feeding
      /\ issues' = issues \o Gsp!Issue(pkt)
      /\ commands' = IF Gsp!Issue(pkt) = <<>> THEN Append(commands, Gsp!Payload(pkt)) ELSE commands
  BY DEF Gsp!TakePacket, Gsp!HeadLength, Gsp!PacketSize
<1>2. /\ A \in Seq(Gsp!Byte) /\ n \in Nat /\ n >= 2
      /\ q \in Nat /\ q >= 1 /\ q + n = taken + 1 /\ n <= Len(buffer)
      /\ \A s \in Seq(Gsp!Byte) : GoesOn(s) =>
           /\ \A j \in 1..n : s[(q - 1) + j] = A[j]
           /\ taken <= Len(s) /\ Gsp!HasHeaderAt(s, q)
           /\ Gsp!Meaning(s)[GspPos + 1] = Gsp!Meaning(s)[q]
  BY <1>1, AlignedReads, ReceivedGoesOn
<1>. HIDE DEF A, q
<1>3. /\ taken \in Nat /\ Len(buffer) \in Nat /\ Len(buffer) <= taken /\ sent \in Seq(Gsp!Byte)
      /\ commands \in Seq(Seq(Gsp!Byte)) /\ issues \in Seq(Kinds)
  BY DEF GspTypes, Gsp!TypeOK, Kinds
<1>4. k \in Nat /\ k >= 1
  <2>1. k \in Gsp!Byte
    BY <1>1, <1>2
  <2>. QED
    BY <2>1, <1>1, GspBounds DEF Gsp!Byte, Gsp!InvalidLength, Gsp!MinLength
<1>. HIDE DEF k
<1>5. /\ pkt \in Seq(Gsp!Byte) /\ Len(pkt) = 3 + k /\ \A j \in 1..(3 + k) : pkt[j] = A[j]
      /\ rest \in Seq(Gsp!Byte) /\ Len(rest) = n - (3 + k)
      /\ \A j \in 1..(n - (3 + k)) : rest[j] = A[3 + k + j]
  <2>1. \A i \in 1..n : A[i] \in Gsp!Byte
    BY <1>2
  <2>2. pkt \in Seq(Gsp!Byte) /\ Len(pkt) = 3 + k /\ \A j \in 1..(3 + k) : pkt[j] = A[j]
    <3>1. \A i \in 1..(3 + k) : A[i] \in Gsp!Byte
      BY <2>1, <1>1, <1>2, <1>4
    <3>. QED
      BY <3>1, <1>4, SubSeqProperties
  <2>3. rest \in Seq(Gsp!Byte) /\ Len(rest) = n - (3 + k)
        /\ \A j \in 1..(n - (3 + k)) : rest[j] = A[3 + k + j]
    <3>. DEFINE m == 3 + k + 1
    <3>1. \A i \in m..n : A[i] \in Gsp!Byte
      BY <2>1, <1>2, <1>4
    <3>2. m \in Int /\ n \in Int /\ m <= n + 1
      BY <1>1, <1>2, <1>4
    <3>. HIDE DEF m
    <3>3. /\ SubSeq(A, m, n) \in Seq(Gsp!Byte)
          /\ Len(SubSeq(A, m, n)) = (IF m <= n THEN n - m + 1 ELSE 0)
          /\ \A j \in 1..(n - m + 1) : SubSeq(A, m, n)[j] = A[m + j - 1]
      BY <3>1, <3>2, SubSeqProperties
    <3>4. Len(rest) = n - m + 1
      BY <3>2, <3>3 DEF m
    <3>5. n - m + 1 = n - (3 + k) /\ \A j \in 1..(n - (3 + k)) : m + j - 1 = 3 + k + j
      BY <1>2, <1>4 DEF m
    <3>6. rest = SubSeq(A, m, n)
      BY DEF m
    <3>. HIDE DEF rest
    <3>. QED
      BY <3>3, <3>4, <3>5, <3>6
  <2>. QED
    BY <2>2, <2>3
<1>6. Gsp!Payload(pkt) \in Seq(Gsp!Byte)
  <2>. HIDE DEF pkt
  <2>1. \A i \in 4..(3 + k - 1) : pkt[i] \in Gsp!Byte
    BY <1>4, <1>5
  <2>. QED
    BY <2>1, <1>4, <1>5, SubSeqProperties DEF Gsp!Payload, Gsp!HeadLength
<1>. HIDE DEF pkt, rest
<1>7. /\ e \in Results /\ GspOut' = Gsp!Joined(GspOut, e)
      /\ commands' \in Seq(Seq(Gsp!Byte)) /\ issues' \in Seq(Kinds)
  <2>1. Gsp!CrcFails(pkt) <=> Gsp!Crc(Gsp!Front(pkt)) # Gsp!Last(pkt)
    BY DEF Gsp!CrcFails, Gsp!Last
  <2>2. /\ <<"crc">> \in Seq(Kinds) /\ <<"protocol">> \in Seq(Kinds) /\ <<>> \in Seq(Kinds)
        /\ <<"crc">> # <<>> /\ <<"protocol">> # <<>>
        /\ <<>> \in Seq(Seq(Gsp!Byte)) /\ <<Gsp!Payload(pkt)>> \in Seq(Seq(Gsp!Byte))
        /\ commands \o <<>> = commands /\ issues \o <<>> = issues
        /\ Append(commands, Gsp!Payload(pkt)) = commands \o <<Gsp!Payload(pkt)>>
        /\ Append(commands, Gsp!Payload(pkt)) \in Seq(Seq(Gsp!Byte))
        /\ issues \o <<"crc">> \in Seq(Kinds) /\ issues \o <<"protocol">> \in Seq(Kinds)
    BY <1>3, <1>6, EmptySeq, AppendIsConcat, ConcatEmptySeq DEF Kinds
  <2>3. CASE Gsp!CrcFails(pkt)
    <3>1. Gsp!Issue(pkt) = <<"crc">> /\ e = [commands |-> <<>>, issues |-> <<"crc">>]
      BY <2>1, <2>3 DEF Gsp!Issue, Gsp!Outcome
    <3>. QED
      BY <1>1, <1>3, <2>2, <3>1 DEF Results, GspOut, Gsp!Joined
  <2>4. CASE ~Gsp!CrcFails(pkt) /\ ~Gsp!IsCommand(Gsp!Payload(pkt))
    <3>1. Gsp!Issue(pkt) = <<"protocol">> /\ e = [commands |-> <<>>, issues |-> <<"protocol">>]
      BY <2>1, <2>4 DEF Gsp!Issue, Gsp!Outcome
    <3>. QED
      BY <1>1, <1>3, <2>2, <3>1 DEF Results, GspOut, Gsp!Joined
  <2>5. CASE ~Gsp!CrcFails(pkt) /\ Gsp!IsCommand(Gsp!Payload(pkt))
    <3>1. Gsp!Issue(pkt) = <<>> /\ e = [commands |-> <<Gsp!Payload(pkt)>>, issues |-> <<>>]
      BY <2>1, <2>5 DEF Gsp!Issue, Gsp!Outcome
    <3>. QED
      BY <1>1, <1>3, <2>2, <3>1 DEF Results, GspOut, Gsp!Joined
  <2>. QED
    BY <2>3, <2>4, <2>5
<1>8. GspTypes'
  <2>1. n - (3 + k) <= taken
    BY <1>2, <1>3, <1>4
  <2>2. issues' \in Seq({"length", "crc", "protocol"})
    BY <1>7 DEF Kinds
  <2>. QED
    BY <1>1, <1>2, <1>5, <1>7, <2>1, <2>2 DEF GspTypes, Gsp!TypeOK
<1>9. GspPos' = q + 2 + k /\ GspPos' + 1 = q + 3 + k
  <2>1. taken' = taken /\ Len(buffer') = n - (3 + k)
    BY <1>1, <1>5
  <2>2. GspPos' = taken - (n - (3 + k))
    BY <2>1 DEF GspPos
  <2>3. q + n = taken + 1 /\ q \in Nat /\ n \in Nat /\ taken \in Nat /\ k \in Nat
    BY <1>2, <1>3, <1>4
  <2>. HIDE DEF n
  <2>. QED
    BY <2>2, <2>3
<1>10. WindowInv'
  <2>1. ASSUME NEW j \in 1..(n - (3 + k)) PROVE rest[j] = sent[(q + 2 + k) + j]
    <3>. DEFINE s == Gsp!Received
    <3>0. /\ 3 + k + j \in 1..n /\ (q - 1) + (3 + k + j) = (q + 2 + k) + j
          /\ (q + 2 + k) + j \in 1..taken
      <4>1. n \in Nat /\ k \in Nat /\ q \in Nat /\ q >= 1 /\ q + n = taken + 1 /\ taken \in Nat
        BY <1>2, <1>3, <1>4
      <4>. HIDE DEF n
      <4>. QED
        BY <4>1
    <3>1. s \in Seq(Gsp!Byte) /\ GoesOn(s) /\ s[(q + 2 + k) + j] = A[3 + k + j]
      BY ReceivedGoesOn, <1>2, <3>0
    <3>. HIDE DEF s
    <3>. QED
      BY <1>5, <3>0, <3>1 DEF GoesOn
  <2>. QED
    BY <1>1, <1>5, <1>9, <2>1 DEF WindowInv
<1>11. OutInv'
  <2>1. ASSUME NEW s \in Seq(Gsp!Byte), GoesOn(s)
        PROVE  Gsp!Meaning(s)[GspPos + 1] = Gsp!Joined(e, Gsp!Meaning(s)[GspPos' + 1])
    <3>1. /\ Gsp!Meaning(s)[GspPos + 1] = Gsp!Meaning(s)[q] /\ taken <= Len(s) /\ Len(s) \in Nat
          /\ Gsp!HasHeaderAt(s, q) /\ \A j \in 1..n : s[(q - 1) + j] = A[j]
      BY <1>2, <2>1
    <3>2. /\ 3 \in 1..n /\ (q - 1) + 3 = q + 2 /\ q + 2 <= Len(s) /\ q \in 1..Len(s)
          /\ q + 2 + k <= taken
      <4>1. n \in Nat /\ n >= 3 /\ n >= 3 + k /\ k \in Nat /\ q \in Nat /\ q >= 1 /\ (q - 1) + n = taken
        BY <1>1, <1>2, <1>3, <1>4
      <4>. HIDE DEF n, k
      <4>. QED
        BY <3>1, <4>1
    <3>3. s[q + 2] = k
      BY <3>1, <3>2 DEF k
    <3>4. Gsp!IsPacket(s, q)
      BY <3>1, <3>3, <1>1 DEF Gsp!IsPacket
    <3>5. SubSeq(s, q, q + 2 + k) = pkt
      <4>. DEFINE t == SubSeq(s, q, q + 2 + k)
      <4>1. \A i \in q..(q + 2 + k) : s[i] \in Gsp!Byte
        <5>1. \A i \in q..(q + 2 + k) : i \in 1..Len(s)
          <6>1. /\ q \in Nat /\ q >= 1 /\ k \in Nat /\ q + 2 + k <= taken /\ taken \in Nat
                /\ taken <= Len(s) /\ Len(s) \in Nat
            BY <3>1, <3>2, <1>2, <1>3, <1>4
          <6>. QED
            BY <6>1
        <5>. QED
          BY <5>1
      <4>2. t \in Seq(Gsp!Byte) /\ Len(t) = 3 + k /\ \A j \in 1..(3 + k) : t[j] = s[q + j - 1]
        BY <4>1, <1>2, <1>4, SubSeqProperties
      <4>. HIDE DEF t
      <4>3. ASSUME NEW j \in 1..(3 + k) PROVE t[j] = pkt[j]
        <5>1. j \in 1..n /\ (q - 1) + j = q + j - 1
          BY <1>1, <1>2, <1>4
        <5>. QED
          BY <5>1, <4>2, <3>1, <1>5
      <4>4. t = pkt
        BY <4>2, <4>3, <1>5, SeqEqual
      <4>. QED
        BY <4>4 DEF t
    <3>6. Gsp!Meaning(s)[q] = Gsp!Joined(Gsp!Outcome(SubSeq(s, q, q + 2 + s[q + 2])),
                                         Gsp!Meaning(s)[q + 3 + s[q + 2]])
      <4>1. q + 2 + s[q + 2] <= Len(s)
        BY <3>1, <3>2, <3>3, <1>2, <1>3, <1>4
      <4>. QED
        BY <3>2, <3>4, <4>1, ReadPacket
    <3>. QED
      BY <3>1, <3>3, <3>5, <3>6, <1>9
  <2>. HIDE DEF e
  <2>. QED
    BY <1>7, <1>8, <2>1, IterationKeepsOut
<1>12. RestInv' /\ Gsp!BufferStaysShort'
  BY <1>1 DEF RestInv, Gsp!BufferStaysShort
<1>. QED
  BY <1>8, <1>10, <1>11, <1>12

(* A whole packet of the stream, as the parse reads it.                       *)
LEMMA ReadWhole ==
  ASSUME NEW s \in Seq(Gsp!Byte), NEW n \in Nat, NEW x \in Seq(Gsp!Byte),
         n + Len(x) <= Len(s), \A j \in 1..Len(x) : s[n + j] = x[j],
         Len(x) >= 4, x[1] = H1, x[2] = H2, x[3] = Len(x) - 3, Len(x) <= 7
  PROVE  Gsp!Meaning(s)[n + 1] = Gsp!Joined(Gsp!Outcome(x), Gsp!Meaning(s)[n + Len(x) + 1])
<1>. DEFINE q == n + 1
           k == Len(x) - 3
<1>0. Len(x) \in Nat /\ Len(s) \in Nat /\ Len(x) >= 4 /\ Len(x) <= 7
  OBVIOUS
<1>1. Len(x) \in Nat /\ Len(s) \in Nat /\ k \in 1..4
  <2>. DEFINE l == Len(x)
  <2>. HIDE DEF l
  <2>1. l \in Nat /\ l >= 4 /\ l <= 7
    BY <1>0 DEF l
  <2>2. l - 3 \in 1..4
    BY <2>1
  <2>. QED
    BY <1>0, <2>2 DEF l
<1>2. s[n + 1] = H1 /\ s[n + 2] = H2 /\ s[n + 3] = k
  <2>1. 1 \in 1..Len(x) /\ 2 \in 1..Len(x) /\ 3 \in 1..Len(x)
    BY <1>1
  <2>. QED
    BY <2>1
<1>3. /\ q \in 1..Len(s) /\ q + 1 = n + 2 /\ q + 2 = n + 3 /\ q < Len(s) /\ q + 2 <= Len(s)
      /\ q + 2 + k = n + Len(x) /\ q + 3 + k = n + Len(x) + 1 /\ q + 2 + k <= Len(s)
  BY <1>1
<1>4. Gsp!IsPacket(s, q)
  <2>1. Gsp!HasHeaderAt(s, q)
    BY <1>2, <1>3 DEF Gsp!HasHeaderAt
  <2>2. s[q + 2] = k
    BY <1>2, <1>3
  <2>3. k \in 1..4
    BY <1>1
  <2>. HIDE DEF k, q
  <2>4. ~Gsp!InvalidLength(k)
    BY <2>3, GspBounds DEF Gsp!InvalidLength, Gsp!MinLength
  <2>. QED
    BY <2>1, <2>2, <2>4 DEF Gsp!IsPacket
<1>. HIDE DEF q, k
<1>5. SubSeq(s, q, q + 2 + k) = x
  <2>. DEFINE t == SubSeq(s, q, q + 2 + k)
  <2>1. \A i \in q..(q + 2 + k) : s[i] \in Gsp!Byte
    <3>1. \A i \in q..(q + 2 + k) : i \in 1..Len(s)
      BY <1>1, <1>3
    <3>. QED
      BY <3>1
  <2>2. t \in Seq(Gsp!Byte) /\ Len(t) = 3 + k /\ \A j \in 1..(3 + k) : t[j] = s[q + j - 1]
    BY <2>1, <1>1, <1>3, SubSeqProperties
  <2>3. 3 + k = Len(x) /\ \A j \in 1..Len(x) : q + j - 1 = n + j
    BY <1>1 DEF k, q
  <2>. HIDE DEF t
  <2>4. Len(t) = Len(x) /\ \A j \in 1..Len(t) : t[j] = x[j]
    BY <2>2, <2>3
  <2>5. t = x
    BY <2>2, <2>4, SeqEqual
  <2>. QED
    BY <2>5 DEF t
<1>6. s[q + 2] = k
  BY <1>2, <1>3
<1>7. Gsp!Meaning(s)[q] = Gsp!Joined(Gsp!Outcome(SubSeq(s, q, q + 2 + s[q + 2])),
                                     Gsp!Meaning(s)[q + 3 + s[q + 2]])
  BY <1>3, <1>4, <1>6, ReadPacket
<1>. QED
  BY <1>3, <1>5, <1>6, <1>7 DEF q

LEMMA FrontOfAppend ==
  ASSUME NEW S, NEW t \in Seq(S), NEW c \in S
  PROVE  Gsp!Front(Append(t, c)) = t /\ Gsp!Last(Append(t, c)) = c
<1>1. Len(Append(t, c)) = Len(t) + 1 /\ Append(t, c)[Len(t) + 1] = c
      /\ \A i \in 1..Len(t) : Append(t, c)[i] = t[i]
  BY AppendProperties
<1>2. Len(t) \in Nat
  OBVIOUS
<1>3. SubSeq(Append(t, c), 1, Len(t)) = t
  <2>. DEFINE u == SubSeq(Append(t, c), 1, Len(t))
  <2>1. \A i \in 1..Len(t) : Append(t, c)[i] \in S
    BY <1>1
  <2>2. u \in Seq(S) /\ Len(u) = Len(t) /\ \A i \in 1..Len(t) : u[i] = Append(t, c)[i]
    BY <2>1, <1>2, SubSeqProperties
  <2>. HIDE DEF u
  <2>3. u = t
    BY <1>1, <2>2, SeqEqual
  <2>. QED
    BY <2>3 DEF u
<1>4. (Len(t) + 1) - 1 = Len(t)
  BY <1>2
<1>. QED
  BY <1>1, <1>3, <1>4 DEF Gsp!Front, Gsp!Last

(* What encode_gsp_command makes of a payload that a length byte can count is *)
(* what decode_gsp_packet takes for that payload: the header, the length, the *)
(* CRC and the payload all agree, whatever bytes the payload is made of.      *)
THEOREM EncodedDecodes ==
  ASSUME NEW payload \in Seq(Gsp!Byte), Len(payload) \in 0..(GspTop - 1)
  PROVE  LET x == Gsp!Encode(payload) IN
           /\ x \in Seq(Gsp!Byte) /\ Len(x) = Len(payload) + 4
           /\ x[1] = H1 /\ x[2] = H2 /\ x[3] = Len(x) - 3
           /\ Gsp!Payload(x) = payload
           /\ Gsp!Outcome(x) = IF Gsp!IsCommand(payload) THEN [commands |-> <<payload>>, issues |-> <<>>]
                               ELSE [commands |-> <<>>, issues |-> <<"protocol">>]
<1>. DEFINE head == <<H1, H2, Len(payload) + 1>>
           body == head \o payload
           c == Gsp!Crc(body)
           x == Append(body, c)
           n == Len(payload)
<1>0. n \in Nat /\ n \in 0..(GspTop - 1)
  OBVIOUS
<1>1. n \in Nat /\ n + 1 <= GspTop
  <2>. HIDE DEF n
  <2>. QED
    BY <1>0, GspBounds
<1>2. head \in Seq(Gsp!Byte) /\ Len(head) = 3 /\ head[1] = H1 /\ head[2] = H2 /\ head[3] = n + 1
  BY <1>1, GspBounds DEF Gsp!Byte
<1>. HIDE DEF head
<1>3. /\ body \in Seq(Gsp!Byte) /\ Len(body) = 3 + n
      /\ body[1] = H1 /\ body[2] = H2 /\ body[3] = n + 1
      /\ \A j \in 1..n : body[3 + j] = payload[j]
  <2>1. /\ body \in Seq(Gsp!Byte) /\ Len(body) = 3 + n
        /\ \A i \in 1..(3 + n) : body[i] = IF i <= 3 THEN head[i] ELSE payload[i - 3]
    <3>1. payload \in Seq(Gsp!Byte)
      OBVIOUS
    <3>2. /\ head \o payload \in Seq(Gsp!Byte)
          /\ Len(head \o payload) = Len(head) + Len(payload)
          /\ \A i \in 1..(Len(head) + Len(payload)) :
               (head \o payload)[i] = IF i <= Len(head) THEN head[i] ELSE payload[i - Len(head)]
      BY <1>2, <3>1, ConcatProperties
    <3>. QED
      BY <1>2, <3>2
  <2>2. /\ 1 \in 1..(3 + n) /\ 2 \in 1..(3 + n) /\ 3 \in 1..(3 + n)
        /\ \A j \in 1..n : 3 + j \in 1..(3 + n) /\ ~(3 + j <= 3) /\ (3 + j) - 3 = j
    BY <1>1
  <2>. HIDE DEF body, n
  <2>. QED
    BY <1>2, <2>1, <2>2
<1>. HIDE DEF body
<1>4. c \in Gsp!Byte
  BY <1>3, CrcIsByte
<1>. HIDE DEF c
<1>5. /\ x \in Seq(Gsp!Byte) /\ Len(x) = n + 4 /\ \A i \in 1..(3 + n) : x[i] = body[i]
  BY <1>1, <1>3, <1>4, AppendProperties
<1>6. x[1] = H1 /\ x[2] = H2 /\ x[3] = Len(x) - 3
  <2>1. 1 \in 1..(3 + n) /\ 2 \in 1..(3 + n) /\ 3 \in 1..(3 + n) /\ (n + 4) - 3 = n + 1
    BY <1>1
  <2>. HIDE DEF x
  <2>. QED
    BY <2>1, <1>3, <1>5
<1>7. Gsp!Front(x) = body /\ Gsp!Last(x) = c
  BY <1>3, <1>4, FrontOfAppend
<1>. HIDE DEF x
<1>8. Gsp!Payload(x) = payload
  <2>. DEFINE u == SubSeq(x, 4, 3 + n)
  <2>1. \A i \in 4..(3 + n) : x[i] \in Gsp!Byte
    BY <1>5, <1>1
  <2>2. u \in Seq(Gsp!Byte) /\ Len(u) = n /\ \A j \in 1..n : u[j] = x[4 + j - 1]
    BY <2>1, <1>1, SubSeqProperties
  <2>. HIDE DEF u
  <2>3. ASSUME NEW j \in 1..n PROVE u[j] = payload[j]
    <3>1. 4 + j - 1 = 3 + j /\ 3 + j \in 1..(3 + n)
      BY <1>1
    <3>. QED
      BY <3>1, <2>2, <1>3, <1>5
  <2>4. u = payload
    BY <2>2, <2>3, SeqEqual
  <2>5. Gsp!Payload(x) = u
    <3>1. 3 + 1 = 4 /\ Len(x) - 1 = 3 + n
      BY <1>1, <1>5
    <3>. QED
      BY <3>1 DEF Gsp!Payload, Gsp!HeadLength, u
  <2>. QED
    BY <2>4, <2>5
<1>9. Gsp!Crc(Gsp!Front(x)) = Gsp!Last(x)
  BY <1>7 DEF c
<1>10. Gsp!Encode(payload) = x
  BY DEF Gsp!Encode, x, c, body, head
<1>. QED
  BY <1>5, <1>6, <1>8, <1>9, <1>10 DEF Gsp!Outcome

(* The CRC of the broken piece is another byte than the right one.            *)
LEMMA OtherByte ==
  ASSUME NEW t \in Nat, t >= 1, NEW c \in 0..t
  PROVE  (c + 1) % (t + 1) \in 0..t /\ (c + 1) % (t + 1) # c
<1>1. CASE c < t
  <2>1. c + 1 \in 0..t
    BY <1>1
  <2>2. (c + 1) % (t + 1) = c + 1
    BY <2>1
  <2>. QED
    BY <2>1, <2>2
<1>2. CASE c = t
  <2>1. (t + 1) % (t + 1) = 0
    OBVIOUS
  <2>. QED
    BY <1>2, <2>1
<1>. QED
  BY <1>1, <1>2

(* The pieces, one by one.                                                    *)
LEMMA PiecesAre ==
  /\ DOMAIN Gsp!Pieces = {"good", "wide", "alien", "broken", "zero", "half", "noise", "torn"}
  /\ Gsp!Pieces["good"] = Gsp!Encode(<<1>>) /\ Gsp!Pieces["wide"] = Gsp!Encode(<<1, H1, H2>>)
  /\ Gsp!Pieces["alien"] = Gsp!Encode(<<2>>)
  /\ Gsp!Pieces["broken"] = <<H1, H2, 2, 1, (Gsp!Crc(<<H1, H2, 2, 1>>) + 1) % (GspTop + 1)>>
  /\ Gsp!Pieces["zero"] = <<H1, H2, 0>> /\ Gsp!Pieces["half"] = <<H1>>
  /\ Gsp!Pieces["noise"] = <<2>> /\ Gsp!Pieces["torn"] = <<H1, H2, 4, 1>>
  BY DEF Gsp!Pieces

LEMMA JoinedCommands ==
  ASSUME NEW a, NEW b
  PROVE  Gsp!Joined(a, b).commands = a.commands \o b.commands
  BY DEF Gsp!Joined

LEMMA ShortPayload ==
  ASSUME NEW y \in Seq(Gsp!Byte), Len(y) \in {1, 3}
  PROVE  Len(y) \in 0..(GspTop - 1) /\ Len(y) + 4 \in 5..7
<1>1. \A a \in {1, 3} : a \in 0..(GspTop - 1) /\ a + 4 \in 5..7
  BY GspBounds
<1>. QED
  BY <1>1, Zenon

LEMMA BrokenCrc ==
  LET h == <<H1, H2, 2, 1>>
      c == (Gsp!Crc(h) + 1) % (GspTop + 1)
  IN h \in Seq(Gsp!Byte) /\ c \in Gsp!Byte /\ c # Gsp!Crc(h)
<1>. DEFINE h == <<H1, H2, 2, 1>>
           d == Gsp!Crc(h)
<1>1. h \in Seq(Gsp!Byte)
  BY GspBounds DEF Gsp!Byte
<1>2. GspTop \in Nat /\ GspTop >= 1
  BY GspBounds
<1>. HIDE DEF h
<1>3. d \in 0..GspTop
  BY <1>1, CrcIsByte DEF Gsp!Byte
<1>. HIDE DEF d
<1>4. (d + 1) % (GspTop + 1) \in 0..GspTop /\ (d + 1) % (GspTop + 1) # d
  BY <1>2, <1>3, OtherByte
<1>. QED
  BY <1>1, <1>4 DEF d, h, Gsp!Byte

(* Every piece is bytes, starts no header that began before it, and, unless   *)
(* it is cut short, is read as what it is, wherever it stands.                *)
LEMMA PieceBytes ==
  ASSUME NEW p \in DOMAIN Gsp!Pieces
  PROVE  LET x == Gsp!Pieces[p] IN
           /\ x \in Seq(Gsp!Byte) /\ Len(x) \in 1..7 /\ x[1] # H2
           /\ p \in Gsp!Sound => Gsp!Payload(x) \in Seq(Gsp!Byte)
<1>1. /\ <<1>> \in Seq(Gsp!Byte) /\ Len(<<1>>) = 1 /\ <<1, H1, H2>> \in Seq(Gsp!Byte)
      /\ Len(<<1, H1, H2>>) = 3 /\ <<2>> \in Seq(Gsp!Byte) /\ Len(<<2>>) = 1 /\ <<2>>[1] = 2
  BY GspBounds DEF Gsp!Byte
<1>2. ASSUME NEW y \in Seq(Gsp!Byte), Len(y) \in {1, 3}
      PROVE  /\ Gsp!Encode(y) \in Seq(Gsp!Byte) /\ Len(Gsp!Encode(y)) \in 1..7
             /\ Gsp!Encode(y)[1] # H2 /\ Gsp!Payload(Gsp!Encode(y)) = y
  <2>1. Len(y) \in 0..(GspTop - 1) /\ Len(y) + 4 \in 5..7
    BY <1>2, ShortPayload
  <2>2. /\ Gsp!Encode(y) \in Seq(Gsp!Byte) /\ Len(Gsp!Encode(y)) = Len(y) + 4
        /\ Gsp!Encode(y)[1] = H1 /\ Gsp!Payload(Gsp!Encode(y)) = y
    BY <2>1, EncodedDecodes
  <2>3. \A a \in 5..7 : a \in 1..7
    OBVIOUS
  <2>. QED
    BY <2>1, <2>2, <2>3, GspBounds
<1>3. CASE p = "good"
  BY <1>1, <1>2, <1>3, PiecesAre
<1>4. CASE p = "wide"
  BY <1>1, <1>2, <1>4, PiecesAre
<1>5. CASE p = "alien"
  BY <1>1, <1>2, <1>5, PiecesAre DEF Gsp!Sound
<1>6. CASE p = "broken"
  <2>. DEFINE c == (Gsp!Crc(<<H1, H2, 2, 1>>) + 1) % (GspTop + 1)
  <2>3. c \in Gsp!Byte
    BY BrokenCrc
  <2>. HIDE DEF c
  <2>4. /\ <<H1, H2, 2, 1, c>> \in Seq(Gsp!Byte) /\ Len(<<H1, H2, 2, 1, c>>) = 5
        /\ <<H1, H2, 2, 1, c>>[1] # H2
    BY <2>3, GspBounds DEF Gsp!Byte
  <2>5. Gsp!Pieces["broken"] = <<H1, H2, 2, 1, c>>
    BY PiecesAre DEF c
  <2>. QED
    BY <1>6, <2>4, <2>5 DEF Gsp!Sound
<1>7. CASE p = "zero"
  <2>1. <<H1, H2, 0>> \in Seq(Gsp!Byte) /\ Len(<<H1, H2, 0>>) = 3 /\ <<H1, H2, 0>>[1] # H2
    BY GspBounds DEF Gsp!Byte
  <2>. QED
    BY <1>7, <2>1, PiecesAre DEF Gsp!Sound
<1>8. CASE p = "half"
  <2>1. <<H1>> \in Seq(Gsp!Byte) /\ Len(<<H1>>) = 1 /\ <<H1>>[1] # H2
    BY GspBounds DEF Gsp!Byte
  <2>. QED
    BY <1>8, <2>1, PiecesAre DEF Gsp!Sound
<1>9. CASE p = "noise"
  <2>1. H2 # 2
    BY GspBounds
  <2>. QED
    BY <1>1, <1>9, <2>1, PiecesAre DEF Gsp!Sound
<1>10. CASE p = "torn"
  <2>1. /\ <<H1, H2, 4, 1>> \in Seq(Gsp!Byte) /\ Len(<<H1, H2, 4, 1>>) = 4
        /\ <<H1, H2, 4, 1>>[1] # H2
    BY GspBounds DEF Gsp!Byte
  <2>. QED
    BY <1>10, <2>1, PiecesAre DEF Gsp!Sound
<1>. QED
  BY <1>3, <1>4, <1>5, <1>6, <1>7, <1>8, <1>9, <1>10, PiecesAre

(* A piece, wherever it stands in a stream, is parsed as what it is, and the  *)
(* parse goes on after it, as long as no half header precedes a second half.  *)
LEMMA ReadPiece ==
  ASSUME NEW s \in Seq(Gsp!Byte), NEW n \in Nat, NEW p \in DOMAIN Gsp!Pieces, p # "torn",
         n + Len(Gsp!Pieces[p]) <= Len(s),
         \A j \in 1..Len(Gsp!Pieces[p]) : s[n + j] = Gsp!Pieces[p][j],
         n + Len(Gsp!Pieces[p]) < Len(s) => s[n + Len(Gsp!Pieces[p]) + 1] # H2
  PROVE  Gsp!Meaning(s)[n + 1].commands =
           (IF p \in Gsp!Sound THEN <<Gsp!Payload(Gsp!Pieces[p])>> ELSE <<>>)
             \o Gsp!Meaning(s)[n + Len(Gsp!Pieces[p]) + 1].commands
<1>. DEFINE x == Gsp!Pieces[p]
           l == Len(x)
           M == Gsp!Meaning(s)
           rest == M[n + l + 1]
<1>1. x \in Seq(Gsp!Byte) /\ l \in 1..7 /\ Len(s) \in Nat /\ n + l <= Len(s)
  BY PieceBytes
<1>2. /\ n + 1 \in 1..(Len(s) + 1) /\ n + l + 1 \in (n + 1)..(Len(s) + 1)
      /\ n + l + 1 \in 1..(Len(s) + 1)
  BY <1>1
<1>3. /\ rest \in Results /\ rest.commands \in Seq(Seq(Gsp!Byte))
      /\ <<>> \o rest.commands = rest.commands
  <2>1. rest \in Results
    BY <1>2, MeaningDef
  <2>2. rest.commands \in Seq(Seq(Gsp!Byte))
    BY <2>1 DEF Results
  <2>. HIDE DEF rest
  <2>. QED
    BY <2>1, <2>2, ConcatEmptySeq
<1>4. \A j \in 1..l : s[n + j] = x[j]
  OBVIOUS
<1>5. n + l < Len(s) => s[n + l + 1] # H2
  OBVIOUS
(* Whole packets.                                                             *)
<1>6. ASSUME l >= 4, x[1] = H1, x[2] = H2, x[3] = l - 3
      PROVE  M[n + 1].commands = Gsp!Outcome(x).commands \o rest.commands
  <2>1. M[n + 1] = Gsp!Joined(Gsp!Outcome(x), rest)
    <3>0. \A a \in 1..7 : a <= 7
      OBVIOUS
    <3>1. Len(x) >= 4 /\ Len(x) <= 7 /\ x[3] = Len(x) - 3 /\ n + Len(x) <= Len(s)
      BY <1>1, <1>6, <3>0, Zenon
    <3>2. \A j \in 1..Len(x) : s[n + j] = x[j]
      BY <1>4
    <3>. HIDE DEF x
    <3>. QED
      BY <1>1, <1>6, <3>1, <3>2, ReadWhole
  <2>. HIDE DEF M, rest, x
  <2>. QED
    BY <2>1, JoinedCommands, Zenon
<1>7. ASSUME NEW y \in Seq(Gsp!Byte), Len(y) \in {1, 3}, x = Gsp!Encode(y)
      PROVE  /\ Gsp!Payload(x) = y
             /\ M[n + 1].commands = (IF Gsp!IsCommand(y) THEN <<y>> ELSE <<>>) \o rest.commands
  <2>1. Len(y) \in 0..(GspTop - 1) /\ Len(y) + 4 \in 5..7
    BY <1>7, ShortPayload
  <2>a. \A a \in 5..7 : a >= 4
    OBVIOUS
  <2>b. /\ Len(Gsp!Encode(y)) = Len(y) + 4
        /\ Gsp!Encode(y)[1] = H1 /\ Gsp!Encode(y)[2] = H2
        /\ Gsp!Encode(y)[3] = Len(Gsp!Encode(y)) - 3 /\ Gsp!Payload(Gsp!Encode(y)) = y
        /\ Gsp!Outcome(Gsp!Encode(y)) =
             IF Gsp!IsCommand(y) THEN [commands |-> <<y>>, issues |-> <<>>]
             ELSE [commands |-> <<>>, issues |-> <<"protocol">>]
    BY <2>1, EncodedDecodes
  <2>2. /\ l >= 4 /\ x[1] = H1 /\ x[2] = H2 /\ x[3] = l - 3 /\ Gsp!Payload(x) = y
        /\ Gsp!Outcome(x) = IF Gsp!IsCommand(y) THEN [commands |-> <<y>>, issues |-> <<>>]
                            ELSE [commands |-> <<>>, issues |-> <<"protocol">>]
    <3>. HIDE DEF x
    <3>. QED
      BY <1>7, <2>1, <2>a, <2>b
  <2>. HIDE DEF M, rest, x, l
  <2>. QED
    <3>1. Gsp!Outcome(x).commands = IF Gsp!IsCommand(y) THEN <<y>> ELSE <<>>
      BY <2>2
    <3>2. M[n + 1].commands = Gsp!Outcome(x).commands \o rest.commands
      BY <2>2, <1>6
    <3>. QED
      BY <2>2, <3>1, <3>2, Zenon
<1>8. CASE p = "good"
  <2>1. x = Gsp!Encode(<<1>>) /\ <<1>> \in Seq(Gsp!Byte) /\ Len(<<1>>) = 1 /\ Gsp!IsCommand(<<1>>)
    BY <1>8, PiecesAre, GspBounds DEF Gsp!Byte, Gsp!IsCommand
  <2>. HIDE DEF M, rest, x, l
  <2>2. Gsp!Payload(x) = <<1>> /\ M[n + 1].commands = <<<<1>>>> \o rest.commands
    BY <2>1, <1>7
  <2>. QED
    BY <1>8, <2>2 DEF Gsp!Sound, M, rest, x, l
<1>9. CASE p = "wide"
  <2>. DEFINE y == <<1, H1, H2>>
  <2>1. x = Gsp!Encode(y) /\ y \in Seq(Gsp!Byte) /\ Len(y) = 3 /\ Gsp!IsCommand(y)
    BY <1>9, PiecesAre, GspBounds DEF Gsp!Byte, Gsp!IsCommand
  <2>. HIDE DEF M, rest, x, l, y
  <2>2. Gsp!Payload(x) = y /\ M[n + 1].commands = <<y>> \o rest.commands
    BY <2>1, <1>7
  <2>. QED
    BY <1>9, <2>2 DEF Gsp!Sound, M, rest, x, l
<1>10. CASE p = "alien"
  <2>1. x = Gsp!Encode(<<2>>) /\ <<2>> \in Seq(Gsp!Byte) /\ Len(<<2>>) = 1 /\ ~Gsp!IsCommand(<<2>>)
    BY <1>10, PiecesAre, GspBounds DEF Gsp!Byte, Gsp!IsCommand
  <2>. HIDE DEF M, rest, x, l
  <2>2. M[n + 1].commands = <<>> \o rest.commands
    BY <2>1, <1>7
  <2>. QED
    BY <1>10, <2>2 DEF Gsp!Sound, M, rest, x, l
<1>11. CASE p = "broken"
  <2>. DEFINE h == <<H1, H2, 2, 1>>
             c == (Gsp!Crc(h) + 1) % (GspTop + 1)
  <2>1. h \in Seq(Gsp!Byte)
    BY GspBounds DEF Gsp!Byte
  <2>3. c \in Gsp!Byte /\ c # Gsp!Crc(h)
    BY BrokenCrc
  <2>4. x = <<H1, H2, 2, 1, c>>
    BY <1>11, PiecesAre
  <2>5. c \in Gsp!Byte
    BY <2>3
  <2>. HIDE DEF c
  <2>6. x = Append(h, c) /\ l = 5 /\ x[1] = H1 /\ x[2] = H2 /\ x[3] = 2
    BY <2>4, <2>5, <2>1
  <2>. HIDE DEF h, x, l, M, rest
  <2>7. Gsp!Crc(Gsp!Front(x)) # Gsp!Last(x)
    BY <2>1, <2>3, <2>5, <2>6, FrontOfAppend
  <2>8. Gsp!Outcome(x) = [commands |-> <<>>, issues |-> <<"crc">>]
    BY <2>7 DEF Gsp!Outcome
  <2>9. M[n + 1].commands = <<>> \o rest.commands
    <3>1. Gsp!Outcome(x).commands = <<>>
      BY <2>8
    <3>2. l >= 4 /\ x[3] = l - 3
      BY <2>6
    <3>3. M[n + 1].commands = Gsp!Outcome(x).commands \o rest.commands
      BY <2>6, <3>2, <1>6
    <3>. QED
      BY <3>1, <3>3, Zenon
  <2>. QED
    BY <1>11, <2>9 DEF Gsp!Sound, M, rest, x, l
<1>12. CASE p = "zero"
  <2>1. x = <<H1, H2, 0>> /\ l = 3 /\ x[1] = H1 /\ x[2] = H2 /\ x[3] = 0
    BY <1>12, PiecesAre
  <2>2. s[n + 1] = H1 /\ s[n + 2] = H2 /\ s[n + 3] = 0
    <3>1. 1 \in 1..l /\ 2 \in 1..l /\ 3 \in 1..l
      BY <2>1
    <3>. HIDE DEF x, l
    <3>. QED
      BY <3>1, <2>1, <1>4
  <2>. HIDE DEF x, M
  <2>3. n + 3 <= Len(s) /\ rest = M[n + 4] /\ (n + 1) + 2 = n + 3 /\ (n + 1) + 1 = n + 2
    BY <1>1, <2>1
  <2>. HIDE DEF l, rest
  <2>4. M[n + 1] = Gsp!Joined([commands |-> <<>>, issues |-> <<"length">>], M[n + 2])
    <3>1. n + 1 \in 1..Len(s) /\ Gsp!HasHeaderAt(s, n + 1) /\ Gsp!InvalidLength(s[(n + 1) + 2])
      BY <1>1, <2>2, <2>3 DEF Gsp!HasHeaderAt, Gsp!InvalidLength, Gsp!MinLength
    <3>. QED
      BY <2>3, <3>1, ReadBadLength DEF M
  <2>5. M[n + 2] = M[n + 4]
    <3>1. ASSUME NEW i \in (n + 2)..((n + 4) - 1) PROVE ~Gsp!HasHeaderAt(s, i)
      <4>1. i = n + 2 \/ i = n + 3
        OBVIOUS
      <4>2. s[i] = H2 \/ s[i] = 0
        BY <4>1, <2>2
      <4>3. H1 # H2 /\ H1 # 0
        BY GspBounds
      <4>. QED
        BY <4>2, <4>3 DEF Gsp!HasHeaderAt
    <3>2. n + 2 \in 1..(Len(s) + 1) /\ n + 4 \in (n + 2)..(Len(s) + 1)
      BY <1>1, <2>3
    <3>. QED
      BY <3>1, <3>2, SkipNoise DEF M
  <2>6. M[n + 1].commands = <<>> \o rest.commands
    <3>1. M[n + 1].commands = <<>> \o M[n + 4].commands
      <4>. DEFINE e == [commands |-> <<>>, issues |-> <<"length">>]
      <4>1. e.commands = <<>> /\ M[n + 1] = Gsp!Joined(e, M[n + 4])
        BY <2>4, <2>5
      <4>. HIDE DEF e
      <4>2. Gsp!Joined(e, M[n + 4]).commands = e.commands \o M[n + 4].commands
        BY JoinedCommands
      <4>. QED
        BY <4>1, <4>2
    <3>. QED
      BY <2>3, <3>1
  <2>. QED
    BY <1>12, <2>6 DEF Gsp!Sound, M, rest, x, l
<1>13. CASE p \in {"half", "noise"}
  <2>1. l = 1 /\ ((x[1] = H1 /\ p = "half") \/ x[1] = 2)
    BY <1>13, PiecesAre
  <2>2. s[n + 1] = x[1]
    <3>1. 1 \in 1..l
      BY <2>1
    <3>. HIDE DEF x, l
    <3>. QED
      BY <3>1, <1>4
  <2>. HIDE DEF x, M
  <2>3. n + 1 <= Len(s) /\ rest = M[n + 2] /\ (n + 1 < Len(s) => s[n + 2] # H2) /\ (n + 1) + 1 = n + 2
    BY <1>1, <1>5, <2>1
  <2>. HIDE DEF l, rest
  <2>4. ~Gsp!HasHeaderAt(s, n + 1)
    BY <2>1, <2>2, <2>3, GspBounds DEF Gsp!HasHeaderAt
  <2>5. M[n + 1] = M[n + 2]
    <3>1. n + 1 \in 1..(Len(s) + 1) /\ n + 2 \in (n + 1)..(Len(s) + 1)
      BY <1>1, <2>3
    <3>2. \A i \in (n + 1)..((n + 2) - 1) : ~Gsp!HasHeaderAt(s, i)
      <4>1. \A i \in (n + 1)..((n + 2) - 1) : i = n + 1
        OBVIOUS
      <4>. QED
        BY <4>1, <2>4
    <3>. QED
      BY <3>1, <3>2, SkipNoise DEF M
  <2>6. M[n + 1].commands = <<>> \o rest.commands
    BY <1>3, <2>3, <2>5
  <2>. QED
    BY <1>13, <2>6 DEF Gsp!Sound, M, rest, x, l
<1>. QED
  BY <1>8, <1>9, <1>10, <1>11, <1>12, <1>13, PiecesAre

(* Between the pieces sent, the commands of the parse are the payloads of the *)
(* sound ones, as long as none is cut short and what follows does not make a  *)
(* header of half of one.                                                     *)
DueInv ==
  ~torn => \A s \in Seq(Gsp!Byte) :
    /\ Len(s) >= Len(sent) /\ \A j \in 1..Len(sent) : s[j] = sent[j]
    /\ Len(sent) < Len(s) => s[Len(sent) + 1] # H2
    => Gsp!Meaning(s)[1].commands = due \o Gsp!Meaning(s)[Len(sent) + 1].commands

GspIInv ==
  /\ GspTypes /\ WindowInv /\ OutInv /\ RestInv /\ DueInv
  /\ Gsp!BufferStaysShort

LEMMA MeaningFromStart ==
  ASSUME NEW s \in Seq(Gsp!Byte)
  PROVE  /\ Gsp!Meaning(s)[1] \in Results
         /\ Gsp!Joined([commands |-> <<>>, issues |-> <<>>], Gsp!Meaning(s)[1]) = Gsp!Meaning(s)[1]
         /\ <<>> \o Gsp!Meaning(s)[1].commands = Gsp!Meaning(s)[1].commands
<1>1. 1 \in 1..(Len(s) + 1)
  OBVIOUS
<1>2. Gsp!Meaning(s)[1] \in Results
  BY <1>1, MeaningDef
<1>. DEFINE r == Gsp!Meaning(s)[1]
<1>. HIDE DEF r
<1>3. r \in Results
  BY <1>2 DEF r
<1>4. r.commands \in Seq(Seq(Gsp!Byte))
  BY <1>3 DEF Results
<1>5. <<>> \o r.commands = r.commands
  BY <1>4, ConcatEmptySeq
<1>6. Gsp!Joined(Gsp!Nothing, r) = r
  BY <1>3, JoinedResults
<1>. QED
  BY <1>3, <1>5, <1>6 DEF r, Gsp!Nothing

(* The invariant at the start, and each of the other steps.                   *)
LEMMA GspInitInv ==
  ASSUME Gsp!Init
  PROVE  GspIInv
<1>1. /\ sent = <<>> /\ taken = 0 /\ pieces = 0 /\ due = <<>> /\ torn = FALSE /\ gspConnected = FALSE
      /\ sessions = 0 /\ buffer = <<>> /\ commands = <<>> /\ issues = <<>> /\ feeding = FALSE
  BY DEF Gsp!Init
<1>2. /\ <<>> \in Seq(Gsp!Byte) /\ <<>> \in Seq(Seq(Gsp!Byte)) /\ Len(<<>>) = 0
      /\ <<>> \in Seq({"length", "crc", "protocol"})
  BY EmptySeq
<1>3. GspTypes
  <2>1. 0 \in 0..0 /\ 0 \in 0..GspPieces /\ 0 \in 0..GspSessions /\ {FALSE, FALSE, FALSE} \subseteq BOOLEAN
    BY SwitcherBounds
  <2>2. /\ sent \in Seq(Gsp!Byte) /\ due \in Seq(Seq(Gsp!Byte)) /\ buffer \in Seq(Gsp!Byte)
        /\ commands \in Seq(Seq(Gsp!Byte)) /\ issues \in Seq({"length", "crc", "protocol"})
        /\ Len(sent) = 0 /\ Len(buffer) = 0
    BY <1>1, <1>2
  <2>3. taken \in 0..Len(sent) /\ Len(buffer) <= taken
    BY <1>1, <2>2
  <2>4. /\ pieces \in 0..GspPieces /\ sessions \in 0..GspSessions
        /\ {gspConnected, feeding, torn} \subseteq BOOLEAN
    BY <1>1, <2>1
  <2>. QED
    BY <2>2, <2>3, <2>4 DEF GspTypes, Gsp!TypeOK
<1>4. WindowInv /\ OutInv /\ RestInv
  BY <1>1, <1>2 DEF WindowInv, OutInv, RestInv
<1>5. DueInv
  <2>1. Len(sent) = 0 /\ Len(sent) + 1 = 1 /\ due = <<>>
    BY <1>1, <1>2
  <2>. QED
    BY <2>1, MeaningFromStart DEF DueInv
<1>6. Gsp!BufferStaysShort
  BY <1>1, <1>2, GspBounds DEF Gsp!BufferStaysShort, Gsp!HeadLength
<1>. QED
  BY <1>3, <1>4, <1>5, <1>6 DEF GspIInv

LEMMA GspConnectStep ==
  ASSUME GspIInv, Gsp!Connect
  PROVE  GspIInv'
<1>1. /\ sent' = <<>> /\ taken' = 0 /\ pieces' = 0 /\ due' = <<>> /\ torn' = FALSE
      /\ gspConnected' = TRUE /\ sessions' = sessions + 1 /\ sessions < GspSessions
      /\ buffer' = <<>> /\ commands' = <<>> /\ issues' = <<>> /\ feeding' = feeding
  BY DEF Gsp!Connect, Gsp!AfterReset
<1>2. /\ <<>> \in Seq(Gsp!Byte) /\ <<>> \in Seq(Seq(Gsp!Byte)) /\ Len(<<>>) = 0
      /\ <<>> \in Seq({"length", "crc", "protocol"})
  BY EmptySeq
<1>3. GspTypes'
  <2>1. sessions \in 0..GspSessions /\ feeding \in BOOLEAN
    BY DEF GspIInv, GspTypes, Gsp!TypeOK
  <2>2. sessions' \in 0..GspSessions
    <3>1. GspSessions \in Nat
      BY SwitcherBounds
    <3>. QED
      BY <1>1, <2>1, <3>1
  <2>3. 0 \in 0..0 /\ 0 \in 0..GspPieces /\ {TRUE, feeding, FALSE} \subseteq BOOLEAN
    BY <2>1, SwitcherBounds
  <2>4. /\ sent' \in Seq(Gsp!Byte) /\ due' \in Seq(Seq(Gsp!Byte)) /\ buffer' \in Seq(Gsp!Byte)
        /\ commands' \in Seq(Seq(Gsp!Byte)) /\ issues' \in Seq({"length", "crc", "protocol"})
        /\ Len(sent') = 0 /\ Len(buffer') = 0
    BY <1>1, <1>2
  <2>5. taken' \in 0..Len(sent') /\ Len(buffer') <= taken'
    BY <1>1, <2>4
  <2>6. /\ pieces' \in 0..GspPieces /\ {gspConnected', feeding', torn'} \subseteq BOOLEAN
    BY <1>1, <2>3
  <2>. QED
    BY <2>2, <2>4, <2>5, <2>6 DEF GspTypes, Gsp!TypeOK
<1>4. GspPos' = 0 /\ GspPos' + 1 = 1
  <2>1. GspPos' = taken' - Len(buffer')
    BY DEF GspPos
  <2>2. taken' = 0 /\ Len(buffer') = 0
    BY <1>1, <1>2
  <2>. QED
    BY <2>1, <2>2
<1>5. WindowInv'
  BY <1>1, <1>2 DEF WindowInv
<1>6. OutInv'
  <2>1. GspOut' = [commands |-> <<>>, issues |-> <<>>]
    BY <1>1 DEF GspOut
  <2>. QED
    BY <1>4, <2>1, MeaningFromStart DEF OutInv, OutIs
<1>7. RestInv'
  <2>1. Gsp!Received' = <<>>
    BY <1>1, SubSeqEmpty DEF Gsp!Received
  <2>2. Gsp!Meaning(<<>>)[1] = Gsp!Nothing
    <3>1. 1 \in 1..(Len(<<>>) + 1) /\ 1 = Len(<<>>) + 1
      BY <1>2
    <3>. QED
      BY <1>2, <3>1, ReadEnd
  <2>. QED
    BY <1>4, <2>1, <2>2 DEF RestInv
<1>8. DueInv'
  <2>1. Len(sent') = 0 /\ Len(sent') + 1 = 1
    BY <1>1, <1>2
  <2>. QED
    BY <1>1, <2>1, MeaningFromStart DEF DueInv
<1>9. Gsp!BufferStaysShort'
  BY <1>1, <1>2, GspBounds DEF Gsp!BufferStaysShort, Gsp!HeadLength
<1>. QED
  BY <1>3, <1>5, <1>6, <1>7, <1>8, <1>9 DEF GspIInv

LEMMA GspDisconnectStep ==
  ASSUME GspIInv, Gsp!Disconnect
  PROVE  GspIInv'
<1>1. /\ sent' = sent /\ taken' = taken /\ pieces' = pieces /\ due' = due /\ torn' = torn
      /\ gspConnected' = FALSE /\ sessions' = sessions
      /\ buffer' = <<>> /\ commands' = commands /\ issues' = <<>> /\ feeding' = feeding
  BY DEF Gsp!Disconnect, Gsp!AfterReset, Gsp!streamVars
<1>2. <<>> \in Seq(Gsp!Byte) /\ Len(<<>>) = 0 /\ <<>> \in Seq({"length", "crc", "protocol"})
  BY EmptySeq
<1>3. GspTypes'
  <2>1. GspTypes
    BY DEF GspIInv
  <2>2. {FALSE, feeding, torn} \subseteq BOOLEAN /\ taken \in Nat
    BY <2>1 DEF GspTypes, Gsp!TypeOK
  <2>3. /\ buffer' \in Seq(Gsp!Byte) /\ issues' \in Seq({"length", "crc", "protocol"})
        /\ Len(buffer') = 0 /\ Len(buffer') <= taken
    BY <1>1, <1>2, <2>2
  <2>. QED
    BY <1>1, <2>1, <2>2, <2>3 DEF GspTypes, Gsp!TypeOK
<1>4. WindowInv' /\ OutInv' /\ RestInv'
  BY <1>1, <1>2 DEF WindowInv, OutInv, RestInv
<1>5. DueInv'
  <2>1. DueInv
    BY DEF GspIInv
  <2>. QED
    BY <1>1, <2>1 DEF DueInv
<1>6. Gsp!BufferStaysShort'
  BY <1>1, <1>2, GspBounds DEF Gsp!BufferStaysShort, Gsp!HeadLength
<1>. QED
  BY <1>3, <1>4, <1>5, <1>6 DEF GspIInv

LEMMA GspReceiveStep ==
  ASSUME GspIInv, Gsp!Receive
  PROVE  GspIInv'
<1>1. PICK k \in 1..GspRecv :
        /\ taken + k <= Len(sent) /\ taken' = taken + k
        /\ buffer' = buffer \o SubSeq(sent, taken + 1, taken + k)
  BY DEF Gsp!Receive
<1>2. /\ sent' = sent /\ pieces' = pieces /\ due' = due /\ torn' = torn
      /\ gspConnected' = gspConnected /\ gspConnected /\ sessions' = sessions
      /\ commands' = commands /\ issues' = issues /\ feeding' = TRUE
  BY DEF Gsp!Receive, Gsp!streamVars
<1>3. /\ GspTypes /\ WindowInv /\ OutInv /\ DueInv
      /\ taken \in Nat /\ sent \in Seq(Gsp!Byte) /\ buffer \in Seq(Gsp!Byte)
      /\ Len(buffer) \in Nat /\ Len(buffer) <= taken /\ Len(sent) \in Nat
      /\ k \in Nat /\ k >= 1
  <2>1. GspTypes /\ WindowInv /\ OutInv /\ DueInv
    BY DEF GspIInv
  <2>2. k \in Nat /\ k >= 1
    BY SwitcherBounds
  <2>. QED
    BY <2>1, <2>2 DEF GspTypes, Gsp!TypeOK
<1>. DEFINE u == SubSeq(sent, taken + 1, taken + k)
<1>4. u \in Seq(Gsp!Byte) /\ Len(u) = k /\ \A j \in 1..k : u[j] = sent[taken + j]
  <2>1. \A i \in (taken + 1)..(taken + k) : sent[i] \in Gsp!Byte
    <3>1. \A i \in (taken + 1)..(taken + k) : i \in 1..Len(sent)
      BY <1>1, <1>3
    <3>. QED
      BY <3>1, <1>3
  <2>2. /\ u \in Seq(Gsp!Byte) /\ Len(u) = k
        /\ \A j \in 1..k : u[j] = sent[taken + 1 + j - 1]
    BY <2>1, <1>3, SubSeqProperties
  <2>3. \A j \in 1..k : taken + 1 + j - 1 = taken + j
    BY <1>3
  <2>. HIDE DEF u
  <2>. QED
    BY <2>2, <2>3
<1>5. buffer' = buffer \o u
  BY <1>1
<1>. HIDE DEF u
<1>6. /\ buffer' \in Seq(Gsp!Byte) /\ Len(buffer') = Len(buffer) + k
      /\ \A i \in 1..(Len(buffer) + k) : buffer'[i] = IF i <= Len(buffer) THEN buffer[i]
                                                     ELSE u[i - Len(buffer)]
  BY <1>3, <1>4, <1>5, ConcatProperties
<1>7. GspTypes'
  <2>1. taken + k \in 0..Len(sent) /\ Len(buffer) + k <= taken + k
    BY <1>1, <1>3
  <2>. QED
    BY <1>1, <1>2, <1>3, <1>6, <2>1 DEF GspTypes, Gsp!TypeOK
<1>8. GspPos' = GspPos /\ GspPos + Len(buffer) = taken
  <2>1. GspPos' = taken' - Len(buffer') /\ GspPos = taken - Len(buffer)
    BY DEF GspPos
  <2>2. taken' = taken + k /\ Len(buffer') = Len(buffer) + k
    BY <1>1, <1>6
  <2>3. taken \in Nat /\ Len(buffer) \in Nat /\ k \in Nat
    BY <1>3
  <2>. QED
    BY <2>1, <2>2, <2>3
<1>9. WindowInv'
  <2>1. ASSUME NEW j \in 1..(Len(buffer) + k) PROVE buffer'[j] = sent[GspPos + j]
    <3>1. CASE j <= Len(buffer)
      <4>1. j \in 1..Len(buffer)
        BY <1>3, <3>1
      <4>. QED
        BY <1>3, <1>6, <3>1, <4>1 DEF WindowInv
    <3>2. CASE ~(j <= Len(buffer))
      <4>1. j - Len(buffer) \in 1..k
        BY <1>3, <3>2
      <4>2. taken + (j - Len(buffer)) = GspPos + j
        BY <1>3 DEF GspPos
      <4>. QED
        BY <1>4, <1>6, <3>2, <4>1, <4>2
    <3>. QED
      BY <3>1, <3>2
  <2>. QED
    BY <1>2, <1>6, <1>8, <2>1 DEF WindowInv
<1>10. OutInv'
  <2>1. ASSUME NEW s \in Seq(Gsp!Byte), GoesOn(s)' PROVE GoesOn(s)
    <3>1. Len(s) >= taken + k /\ \A j \in 1..(taken + k) : s[j] = sent[j]
      BY <1>1, <1>2, <2>1 DEF GoesOn
    <3>. QED
      BY <3>1, <1>3 DEF GoesOn
  <2>2. OutIs(GspOut, GspPos)
    BY <1>2, <1>3 DEF OutInv
  <2>3. GspOut' = GspOut
    BY <1>2 DEF GspOut
  <2>. QED
    BY <1>8, <2>1, <2>2, <2>3 DEF OutInv, OutIs
<1>11. RestInv' /\ Gsp!BufferStaysShort'
  BY <1>2 DEF RestInv, Gsp!BufferStaysShort
<1>12. DueInv'
  BY <1>2, <1>3 DEF DueInv
<1>. QED
  BY <1>7, <1>9, <1>10, <1>11, <1>12 DEF GspIInv

LEMMA GspSendStep ==
  ASSUME GspIInv, Gsp!SwitcherSends
  PROVE  GspIInv'
<1>1. PICK p \in DOMAIN Gsp!Pieces :
        /\ sent' = sent \o Gsp!Pieces[p]
        /\ due' = IF p \in Gsp!Sound THEN Append(due, Gsp!Payload(Gsp!Pieces[p])) ELSE due
        /\ torn' = (torn \/ p = "torn")
  BY DEF Gsp!SwitcherSends
<1>2. /\ pieces' = pieces + 1 /\ pieces < GspPieces /\ taken' = taken
      /\ gspConnected' = gspConnected /\ sessions' = sessions /\ buffer' = buffer
      /\ commands' = commands /\ issues' = issues /\ feeding' = feeding
  BY DEF Gsp!SwitcherSends
<1>3. GspTypes /\ WindowInv /\ OutInv /\ RestInv /\ DueInv /\ Gsp!BufferStaysShort
  BY DEF GspIInv
<1>4. /\ sent \in Seq(Gsp!Byte) /\ Len(sent) \in Nat /\ taken \in Nat /\ taken <= Len(sent)
      /\ due \in Seq(Seq(Gsp!Byte)) /\ Len(buffer) \in Nat /\ Len(buffer) <= taken
      /\ pieces \in Nat
  BY <1>3 DEF GspTypes, Gsp!TypeOK
<1>. DEFINE x == Gsp!Pieces[p]
           n == Len(sent)
           l == Len(x)
           e == IF p \in Gsp!Sound THEN <<Gsp!Payload(x)>> ELSE <<>>
<1>5. /\ x \in Seq(Gsp!Byte) /\ l \in 1..7 /\ x[1] # H2
      /\ p \in Gsp!Sound => Gsp!Payload(x) \in Seq(Gsp!Byte)
  BY PieceBytes
<1>6. e \in Seq(Seq(Gsp!Byte)) /\ due' = due \o e
  <2>1. CASE p \in Gsp!Sound
    <3>1. Gsp!Payload(x) \in Seq(Gsp!Byte) /\ due' = Append(due, Gsp!Payload(x)) /\ e = <<Gsp!Payload(x)>>
      BY <1>1, <1>5, <2>1
    <3>. DEFINE y == Gsp!Payload(x)
    <3>. HIDE DEF y, e
    <3>2. Append(due, y) = due \o <<y>> /\ <<y>> \in Seq(Seq(Gsp!Byte))
      BY <3>1, <1>4, AppendIsConcat DEF y
    <3>. QED
      BY <3>1, <3>2 DEF y
  <2>2. CASE p \notin Gsp!Sound
    BY <1>1, <1>4, <2>2, ConcatEmptySeq
  <2>. QED
    BY <2>1, <2>2
<1>7. /\ sent' \in Seq(Gsp!Byte) /\ Len(sent') = n + l
      /\ \A j \in 1..n : sent'[j] = sent[j]
      /\ \A j \in 1..l : sent'[n + j] = x[j]
  <2>. HIDE DEF x
  <2>1. sent' = sent \o x
    BY <1>1 DEF x
  <2>2. /\ sent' \in Seq(Gsp!Byte) /\ Len(sent') = n + l
        /\ \A i \in 1..(n + l) : sent'[i] = IF i <= n THEN sent[i] ELSE x[i - n]
    BY <2>1, <1>4, <1>5, ConcatProperties
  <2>3. l \in Nat /\ n \in Nat
    BY <1>4, <1>5
  <2>4. \A j \in 1..n : j \in 1..(n + l) /\ j <= n
    BY <2>3
  <2>5. \A j \in 1..l : n + j \in 1..(n + l) /\ ~(n + j <= n) /\ (n + j) - n = j
    BY <2>3
  <2>. QED
    BY <2>2, <2>4, <2>5
<1>. HIDE DEF x, e
<1>8. taken <= n + l /\ l \in Nat /\ l >= 1 /\ n \in Nat
  <2>1. \A a \in 1..7 : a \in Nat /\ a >= 1
    OBVIOUS
  <2>2. l \in Nat /\ l >= 1 /\ n \in Nat /\ taken \in Nat /\ taken <= n
    BY <1>4, <1>5, <2>1, Zenon
  <2>. HIDE DEF l, n
  <2>. QED
    BY <2>2
<1>9. \A j \in 1..taken : sent'[j] = sent[j]
  <2>1. \A j \in 1..taken : j \in 1..n
    BY <1>4
  <2>. QED
    BY <2>1, <1>7
<1>10. GspTypes'
  <2>1. pieces' \in 0..GspPieces
    <3>1. GspPieces \in Nat
      BY SwitcherBounds
    <3>. QED
      BY <3>1, <1>2, <1>4
  <2>2. torn' \in BOOLEAN
    <3>1. torn \in BOOLEAN
      BY <1>3 DEF GspTypes, Gsp!TypeOK
    <3>. QED
      BY <1>1, <3>1, Zenon
  <2>3. due' \in Seq(Seq(Gsp!Byte))
    BY <1>4, <1>6, ConcatProperties
  <2>4. taken' \in 0..Len(sent')
    BY <1>2, <1>4, <1>7, <1>8
  <2>5. {gspConnected', feeding', torn'} \subseteq BOOLEAN
    BY <1>2, <1>3, <2>2 DEF GspTypes, Gsp!TypeOK
  <2>. QED
    BY <1>2, <1>3, <1>7, <2>1, <2>3, <2>4, <2>5 DEF GspTypes, Gsp!TypeOK
<1>11. GspPos' = GspPos /\ GspOut' = GspOut /\ GspPos \in Nat /\ GspPos + Len(buffer) = taken
  BY <1>2, <1>4 DEF GspPos, GspOut
<1>12. WindowInv'
  <2>1. ASSUME NEW j \in 1..Len(buffer) PROVE buffer[j] = sent'[GspPos + j]
    <3>1. GspPos + j \in 1..taken
      BY <1>4, <1>11
    <3>. QED
      BY <3>1, <1>3, <1>9 DEF WindowInv
  <2>. QED
    BY <1>2, <1>11, <2>1 DEF WindowInv
<1>13. OutInv'
  <2>1. ASSUME NEW s \in Seq(Gsp!Byte), GoesOn(s)' PROVE GoesOn(s)
    BY <2>1, <1>2, <1>9 DEF GoesOn
  <2>. QED
    BY <1>2, <1>3, <1>11, <2>1 DEF OutInv, OutIs
<1>14. Gsp!Received' = Gsp!Received
  <2>1. \A j \in 1..taken : sent[j] \in Gsp!Byte /\ sent'[j] \in Gsp!Byte
    <3>1. \A j \in 1..taken : j \in 1..n
      BY <1>4
    <3>. QED
      BY <3>1, <1>4, <1>9
  <2>. DEFINE a == SubSeq(sent, 1, taken)
             b == SubSeq(sent', 1, taken)
  <2>2. taken < 1 => a = <<>> /\ b = <<>>
    BY <1>4, SubSeqEmpty
  <2>3. ASSUME taken >= 1 PROVE a = b
    <3>1. a \in Seq(Gsp!Byte) /\ Len(a) = taken /\ \A j \in 1..taken : a[j] = sent[j]
      BY <2>1, <2>3, <1>4, SubSeqProperties
    <3>2. b \in Seq(Gsp!Byte) /\ Len(b) = taken /\ \A j \in 1..taken : b[j] = sent'[j]
      BY <2>1, <2>3, <1>4, <1>7, SubSeqProperties
    <3>. HIDE DEF a, b
    <3>. QED
      BY <3>1, <3>2, <1>9, SeqEqual
  <2>4. a = b
    <3>. HIDE DEF a, b
    <3>. QED
      BY <2>2, <2>3, <1>4
  <2>. QED
    BY <2>4, <1>2 DEF Gsp!Received
<1>15. RestInv' /\ Gsp!BufferStaysShort'
  BY <1>2, <1>3, <1>11, <1>14 DEF RestInv, Gsp!BufferStaysShort
<1>16. DueInv'
  <2>. SUFFICES ASSUME ~torn', NEW s \in Seq(Gsp!Byte),
                      Len(s) >= Len(sent'), \A j \in 1..Len(sent') : s[j] = sent'[j],
                      Len(sent') < Len(s) => s[Len(sent') + 1] # H2
               PROVE  Gsp!Meaning(s)[1].commands = due' \o Gsp!Meaning(s)[Len(sent') + 1].commands
    BY DEF DueInv
  <2>1. ~torn /\ p # "torn"
    BY <1>1
  <2>2. Len(s) \in Nat /\ Len(s) >= n + l /\ Len(sent') = n + l
    BY <1>7
  <2>3. \A j \in 1..n : s[j] = sent[j]
    <3>1. \A j \in 1..n : j \in 1..(n + l)
      BY <1>8
    <3>. QED
      BY <3>1, <1>7
  <2>4. \A j \in 1..l : s[n + j] = x[j]
    <3>1. \A j \in 1..l : n + j \in 1..(n + l)
      BY <1>8
    <3>. QED
      BY <3>1, <1>7
  <2>5. s[n + 1] # H2
    <3>1. 1 \in 1..l
      BY <1>8
    <3>. QED
      BY <3>1, <2>4, <1>5
  <2>6. Gsp!Meaning(s)[1].commands = due \o Gsp!Meaning(s)[n + 1].commands
    <3>1. Len(s) >= n
      BY <2>2, <1>8
    <3>. QED
      BY <3>1, <2>1, <2>3, <2>5, <1>3 DEF DueInv
  <2>7. Gsp!Meaning(s)[n + 1].commands = e \o Gsp!Meaning(s)[(n + l) + 1].commands
    <3>1. /\ n + Len(Gsp!Pieces[p]) <= Len(s)
          /\ \A j \in 1..Len(Gsp!Pieces[p]) : s[n + j] = Gsp!Pieces[p][j]
      BY <2>2, <2>4, <1>8 DEF x
    <3>2. n + Len(Gsp!Pieces[p]) < Len(s) => s[n + Len(Gsp!Pieces[p]) + 1] # H2
      BY <2>2 DEF x
    <3>. HIDE DEF n
    <3>3. n \in Nat
      BY <1>8
    <3>4. Gsp!Meaning(s)[n + 1].commands =
            (IF p \in Gsp!Sound THEN <<Gsp!Payload(Gsp!Pieces[p])>> ELSE <<>>)
              \o Gsp!Meaning(s)[n + Len(Gsp!Pieces[p]) + 1].commands
      BY <2>1, <3>1, <3>2, <3>3, ReadPiece
    <3>. QED
      BY <3>4 DEF x, e
  <2>. DEFINE r == Gsp!Meaning(s)[(n + l) + 1].commands
  <2>8. r \in Seq(Seq(Gsp!Byte))
    <3>1. (n + l) + 1 \in 1..(Len(s) + 1)
      BY <2>2, <1>8
    <3>2. Gsp!Meaning(s)[(n + l) + 1] \in Results
      BY <3>1, MeaningDef
    <3>. QED
      BY <3>2 DEF Results
  <2>. HIDE DEF r
  <2>9. due \o (e \o r) = (due \o e) \o r
    <3>. DEFINE C == Seq(Gsp!Byte)
    <3>1. due \in Seq(C) /\ e \in Seq(C) /\ r \in Seq(C)
      BY <1>4, <1>6, <2>8
    <3>. HIDE DEF C
    <3>. QED
      BY <3>1
  <2>. QED
    BY <2>2, <2>6, <2>7, <2>9, <1>6 DEF r
<1>. QED
  BY <1>10, <1>12, <1>13, <1>15, <1>16 DEF GspIInv

LEMMA GspIterateStep ==
  ASSUME GspIInv, Gsp!Iterate
  PROVE  GspIInv'
<1>1. /\ feeding /\ UNCHANGED <<sent, pieces, due, torn, taken, gspConnected, sessions>>
      /\ Gsp!NoHeader \/ Gsp!NeedsMore \/ Gsp!BadLength \/ Gsp!TakePacket
  BY DEF Gsp!Iterate, Gsp!streamVars
<1>2. GspTypes /\ WindowInv /\ OutInv /\ DueInv
  BY DEF GspIInv
<1>3. DueInv'
  BY <1>1, <1>2 DEF DueInv
<1>4. GspTypes' /\ WindowInv' /\ OutInv' /\ RestInv' /\ Gsp!BufferStaysShort'
  BY <1>1, <1>2, NoHeaderStep, NeedsMoreStep, BadLengthStep, TakePacketStep
<1>. QED
  BY <1>3, <1>4 DEF GspIInv

(* Whatever part is at work, a step keeps the invariant of the parser.        *)
LEMMA GspStepInv == GspIInv /\ [MCNext]_mcVars => GspIInv'
<1>. SUFFICES ASSUME GspIInv, [MCNext]_mcVars PROVE GspIInv'
  OBVIOUS
<1>1. CASE UNCHANGED gspVars
  <2>1. /\ sent' = sent /\ pieces' = pieces /\ due' = due /\ torn' = torn /\ taken' = taken
        /\ gspConnected' = gspConnected /\ sessions' = sessions /\ buffer' = buffer
        /\ commands' = commands /\ issues' = issues /\ feeding' = feeding
    BY <1>1 DEF gspVars
  <2>2. GspTypes' /\ WindowInv' /\ DueInv' /\ Gsp!BufferStaysShort'
    BY <2>1 DEF GspIInv, GspTypes, Gsp!TypeOK, WindowInv, GspPos, DueInv, Gsp!BufferStaysShort
  <2>3. OutInv' /\ RestInv'
    BY <2>1 DEF GspIInv, OutInv, RestInv, OutIs, GoesOn, GspOut, GspPos, Gsp!Received
  <2>. QED
    BY <2>2, <2>3 DEF GspIInv
<1>2. CASE Gsp!Next
  BY <1>2, GspConnectStep, GspDisconnectStep, GspReceiveStep, GspSendStep, GspIterateStep
  DEF Gsp!Next
<1>3. UNCHANGED gspVars \/ Gsp!Next
  BY DEF MCNext, mcVars
<1>. QED
  BY <1>1, <1>2, <1>3

(* However TCP cuts the stream of a switcher, of any length and any number of *)
(* pieces, feed() has made of what it received what the whole of it parsed at *)
(* once comes to: every sound packet comes out once and in order, a bad one   *)
(* is recorded once, and the buffer never grows beyond one packet.            *)
THEOREM ParserMakesTheStream == MCSpec => []ParserInv
<1>1. GspIInv => ParserInv
  <2>. SUFFICES ASSUME GspIInv PROVE Gsp!ParserInv
    BY DEF ParserInv
  <2>1. GspTypes /\ WindowInv /\ OutInv /\ RestInv /\ DueInv /\ Gsp!BufferStaysShort
    BY DEF GspIInv
  <2>2. Gsp!TypeOK
    BY <2>1 DEF GspTypes
  <2>. DEFINE s == Gsp!Received
  <2>3. s \in Seq(Gsp!Byte) /\ Len(s) = taken /\ GoesOn(s)
    BY <2>1, ReceivedGoesOn
  <2>. HIDE DEF s
  <2>4. gspConnected /\ ~feeding => Gsp!Meaning(s)[1] = GspOut
    <3>. SUFFICES ASSUME gspConnected, ~feeding PROVE Gsp!Meaning(s)[1] = GspOut
      OBVIOUS
    <3>1. Gsp!Meaning(s)[1] = Gsp!Joined(GspOut, Gsp!Meaning(s)[GspPos + 1])
      BY <2>1, <2>3 DEF OutInv, OutIs
    <3>2. Gsp!Meaning(s)[GspPos + 1] = Gsp!Nothing
      BY <2>1 DEF RestInv, s
    <3>3. Gsp!Joined(GspOut, Gsp!Nothing) = GspOut
      BY <2>1, OutIsResult, JoinedResults
    <3>. QED
      BY <3>1, <3>2, <3>3
  <2>5. Gsp!ChunkIndependent
    BY <2>4 DEF s, Gsp!ChunkIndependent, Gsp!Parse, GspOut
  <2>6. Gsp!SoundPacketsComeOut
    <3>. SUFFICES ASSUME gspConnected, ~feeding, taken = Len(sent), ~torn PROVE commands = due
      BY DEF Gsp!SoundPacketsComeOut
    <3>1. sent \in Seq(Gsp!Byte) /\ due \in Seq(Seq(Gsp!Byte)) /\ Len(sent) \in Nat
      BY <2>2 DEF Gsp!TypeOK
    <3>2. Gsp!Meaning(s)[1].commands = due \o Gsp!Meaning(s)[Len(sent) + 1].commands
      <4>1. Len(s) >= Len(sent) /\ (\A j \in 1..Len(sent) : s[j] = sent[j]) /\ ~(Len(sent) < Len(s))
        BY <2>3, <3>1 DEF GoesOn
      <4>. QED
        BY <4>1, <2>1, <2>3 DEF DueInv
    <3>3. Gsp!Meaning(s)[Len(sent) + 1].commands = <<>>
      <4>1. Len(sent) + 1 \in 1..(Len(s) + 1) /\ Len(sent) + 1 = Len(s) + 1
        BY <2>3, <3>1
      <4>2. Gsp!Meaning(s)[Len(sent) + 1] = Gsp!Nothing
        BY <4>1, <2>3, ReadEnd
      <4>. QED
        BY <4>2 DEF Gsp!Nothing
    <3>4. due \o <<>> = due
      BY <3>1, ConcatEmptySeq
    <3>. QED
      BY <2>4, <3>2, <3>3, <3>4 DEF GspOut
  <2>. QED
    BY <2>1, <2>2, <2>5, <2>6 DEF Gsp!ParserInv
<1>2. MCSpec => []GspIInv
  <2>1. Parts({"vmix", "osee", "deck", "gsp"}) => GspIInv
    BY GspInitInv DEF Parts
  <2>. QED
    BY <2>1, GspStepInv, PTL DEF MCSpec
<1>. QED
  BY <1>1, <1>2, PTL
==============================================================================
