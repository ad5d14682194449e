---------------------------- MODULE OseeSession -----------------------------
(***************************************************************************)
(* The Osee GoStream backends (Duet 8 ISO and Deck share this code path):  *)
(* a TCP session read by the poll loop, and a worker thread that replaces  *)
(* transport and controller when the session is lost.                      *)
(*                                                                         *)
(*   loop    is_connected, poll, the commands and reconnect()              *)
(*   worker  _reconnect_worker, one thread at a time; the first connect()  *)
(*           of the program is its last part, run before the loop starts   *)
(*   web     a configuration apply: disconnect(), and then the backend is  *)
(*           retired, or kept because no new one could be made, and        *)
(*           connected and polled from the web thread beside the loop, as  *)
(*           a backend is that an apply has made                           *)
(*   the switcher and its panel (external)                                 *)
(*                                                                         *)
(* Transports are numbered in the order they are built.  The bounds are    *)
(* MaxTransports, MaxCommands, MaxFaults (errors, broken connections),     *)
(* MaxMoves (panel) and QueueMax (messages under way); and a backend is    *)
(* connected by one apply and disconnected by one at most.                 *)
(***************************************************************************)
EXTENDS Integers, Sequences

CONSTANTS
  Sources, NoSource,
  MaxTransports, MaxCommands, MaxFaults, MaxMoves, QueueMax,
  Silent,         \* a lost connection may go unnoticed until something is sent
  WebDisconnects  \* a configuration apply may disconnect the backend

VARIABLES
  sw,         \* the switcher: program, preview, a transition is running
  session,    \* the transport it serves, 0 for none
  toSwitcher, toClient,   \* messages of that session under way
  noticed,    \* the client's reads will report the loss of its session
  open,       \* transports with an open socket
  transport, controller,  \* the numbers of _transport and _controller
  state,      \* the controller's state
  connected,  \* _connected
  worker,     \* the reconnect thread
  loop, batch, batchOf, chosen,  \* the loop; messages received; preview sent
  web,        \* the thread of the apply
  webOf, webBatch,  \* the transport it opens; messages it received
  shared,     \* an apply has connected the backend beside the loop
  issued, faults, moves

switcherVars == <<sw, session, toSwitcher, toClient, noticed>>
clientVars == <<open, transport, controller, state, connected>>
loopVars == <<loop, batch, batchOf, chosen>>
webVars == <<web, webOf, webBatch, shared>>
boundVars == <<issued, faults, moves>>
vars == <<sw, session, toSwitcher, toClient, noticed, open, transport, controller,
          state, connected, worker, loop, batch, batchOf, chosen, web, webOf,
          webBatch, shared, issued, faults, moves>>

Known == Sources \cup {NoSource}
Transports == 1..MaxTransports
Msg(id, src) == [id |-> id, src |-> src]
Messages == [id : {"pvw", "pgm", "status"}, src : Known]
Requests == [op : {"getPreview", "getProgram", "set", "cut", "auto"}, src : Known]
Unknown == [program |-> NoSource, preview |-> NoSource]

TypeOK ==
  /\ sw \in [program : Sources, preview : Sources, fading : BOOLEAN]
  /\ session \in 0..MaxTransports /\ open \subseteq Transports
  /\ toSwitcher \in Seq(Requests) /\ toClient \in Seq(Messages)
  /\ {transport, controller} \subseteq Transports
  /\ state \in [program : Known, preview : Known]
  /\ connected \in BOOLEAN /\ noticed \in BOOLEAN
  /\ worker \in {"off", "close", "build", "control", "connect", "flag",
                 "getPreview", "getProgram"}
  /\ loop \in {"start", "idle", "got", "entering"}
  /\ batch \in Seq(Messages) /\ webBatch \in Seq(Messages)
  /\ web \in {"idle", "closing", "making", "retired", "connect", "opening", "flag",
              "getPreview", "getProgram", "sync", "got", "done"}
  /\ webOf \in 0..MaxTransports /\ shared \in BOOLEAN

Init ==
  /\ sw \in [program : Sources, preview : Sources, fading : {FALSE}]
  /\ session = 0 /\ toSwitcher = <<>> /\ toClient = <<>> /\ noticed = FALSE
  /\ open = {} /\ transport = 1 /\ controller = 1
  /\ state = Unknown /\ connected = FALSE
  /\ \/ worker = "connect" /\ loop = "start" /\ web = "idle" /\ shared = FALSE
     \/ worker = "off" /\ loop = "idle" /\ web = "connect" /\ shared = TRUE
  /\ batch = <<>> /\ batchOf = 0 /\ chosen = NoSource
  /\ webOf = 0 /\ webBatch = <<>> /\ issued = 0 /\ faults = 0 /\ moves = 0

Shown == [program |-> sw.program, preview |-> sw.preview]

-----------------------------------------------------------------------------
(* Transport.                                                              *)

is_connected == connected /\ transport \in open

Fault == faults < MaxFaults /\ faults' = faults + 1

(* Mutant: the socket is not closed.                                       *)
CloseForgets(t) == UNCHANGED <<switcherVars, open>>

(* OseeGspTransport.disconnect; the switcher ends the session.             *)
Close(t) ==
  /\ open' = open \ {t}
  /\ session' = IF session = t THEN 0 ELSE session
  /\ toClient' = IF session = t THEN <<>> ELSE toClient
  /\ toSwitcher' = IF session = t THEN <<>> ELSE toSwitcher
  /\ UNCHANGED <<sw, noticed>>

(* The switcher serves the newest session, and the reads of another are    *)
(* told so.                                                                *)
Opens(t) ==
  /\ open' = open \cup {t}
  /\ session' = t /\ toSwitcher' = <<>> /\ toClient' = <<>>
  /\ noticed' = (t # transport)
  /\ UNCHANGED sw

(* send_command on an open socket: bytes for a session that is gone are    *)
(* accepted too, but from then on the loss shows.                          *)
Send(t, r) ==
  /\ t \in open
  /\ IF session = t
     THEN /\ toSwitcher' = Append(toSwitcher, r) /\ Len(toSwitcher') <= QueueMax
          /\ UNCHANGED noticed
     ELSE noticed' = TRUE /\ UNCHANGED toSwitcher
  /\ UNCHANGED <<sw, session, toClient, open>>

(* ... on a closed one, or with an error of the socket: the transport      *)
(* disconnects itself and raises; _connected is left alone.                *)
SendRaises(t) ==
  \/ t \notin open /\ UNCHANGED <<switcherVars, open, faults>>
  \/ t \in open /\ Fault /\ Close(t)

-----------------------------------------------------------------------------
(* The worker.                                                             *)

(* ensure_connected: is_connected() decides.                               *)
NeedsReconnect == ~is_connected

(* reconnect(): nothing happens while a worker is alive.                   *)
Reconnect ==
  /\ loop = "idle" /\ web # "retired" /\ NeedsReconnect
  /\ worker = "off" /\ transport < MaxTransports
  /\ worker' = "close"
  /\ UNCHANGED <<switcherVars, clientVars, loopVars, webVars, boundVars>>

WorkerCloses ==
  /\ worker = "close" /\ worker' = "build"
  /\ Close(transport)
  /\ UNCHANGED <<transport, controller, state, connected, loopVars, webVars, boundVars>>

(* _build_transport, two assignments.                                      *)
WorkerBuilds ==
  /\ worker = "build" /\ worker' = "control"
  /\ transport' = transport + 1
  /\ UNCHANGED <<switcherVars, open, controller, state, connected, loopVars, webVars,
                 boundVars>>

(* Mutant: the controller, and with it the state, is kept.                 *)
NewControllerKept == UNCHANGED <<controller, state>>

NewController == controller' = transport /\ state' = Unknown

WorkerControls ==
  /\ worker = "control" /\ worker' = "connect"
  /\ NewController
  /\ UNCHANGED <<switcherVars, open, transport, connected, loopVars, webVars, boundVars>>

(* connect(): connected already, a transport that is open, or a new socket. *)
WorkerConnects ==
  /\ worker = "connect"
  /\ \/ /\ is_connected /\ worker' = "off"
        /\ UNCHANGED <<switcherVars, open, connected, faults>>
     \/ /\ ~is_connected /\ worker' = "flag"
        /\ IF transport \in open THEN UNCHANGED <<switcherVars, open>> ELSE Opens(transport)
        /\ UNCHANGED <<connected, faults>>
     \/ /\ transport \notin open /\ Fault
        /\ worker' = "off" /\ connected' = FALSE
        /\ UNCHANGED <<switcherVars, open>>
  /\ UNCHANGED <<transport, controller, state, loopVars, webVars, issued, moves>>

WorkerFlags ==
  /\ worker = "flag" /\ worker' = "getPreview"
  /\ connected' = TRUE
  /\ UNCHANGED <<switcherVars, open, transport, controller, state, loopVars, webVars,
                 boundVars>>

(* Mutant: only Preview is asked for.                                      *)
NextRequestNone == "off"

NextRequest == IF worker = "getPreview" THEN "getProgram" ELSE "off"

(* _request_initial_state: the first error ends it, silently.              *)
WorkerRequests ==
  /\ worker \in {"getPreview", "getProgram"}
  /\ \/ /\ Send(transport, [op |-> worker, src |-> NoSource])
        /\ worker' = NextRequest
        /\ UNCHANGED faults
     \/ SendRaises(transport) /\ worker' = "off"
  /\ UNCHANGED <<transport, controller, state, connected, loopVars, webVars, issued, moves>>

-----------------------------------------------------------------------------
(* The loop.                                                               *)

(* The program starts polling when the first connect() has returned.       *)
StartLoop ==
  /\ loop = "start" /\ worker = "off" /\ loop' = "idle"
  /\ UNCHANGED <<switcherVars, clientVars, worker, batch, batchOf, chosen, webVars,
                 boundVars>>

(* poll() without news: the receive times out, or the loop, whose backend   *)
(* was dropped, polls another.                                             *)
PollTimesOut ==
  /\ loop = "idle" /\ (toClient = <<>> \/ web = "retired") /\ UNCHANGED vars

(* poll(): one recv returns whatever has arrived, possibly a part.         *)
PollReceives ==
  /\ loop = "idle" /\ web # "retired" /\ is_connected
  /\ session = transport /\ toClient # <<>>
  /\ \E k \in 1..Len(toClient) :
       batch' = SubSeq(toClient, 1, k) /\ toClient' = SubSeq(toClient, k + 1, Len(toClient))
  /\ batchOf' = transport /\ loop' = "got"
  /\ UNCHANGED <<sw, session, toSwitcher, noticed, clientVars, worker, chosen, webVars,
                 boundVars>>

PollFails ==
  /\ loop = "idle" /\ web # "retired" /\ is_connected
  /\ session # transport /\ noticed
  /\ Close(transport) /\ connected' = FALSE
  /\ UNCHANGED <<transport, controller, state, worker, loopVars, webVars, boundVars>>

(* handle_command of the controller poll() finds, for each message in turn. *)
Handled(s, m) ==
  CASE m.id = "pvw" -> [s EXCEPT !.preview = m.src]
    [] m.id = "pgm" -> [s EXCEPT !.program = m.src]
    [] OTHER -> s

HandleMessage ==
  /\ loop = "got"
  /\ state' = Handled(state, Head(batch))
  /\ batch' = Tail(batch)
  /\ IF batch' = <<>> THEN loop' = "idle" /\ batchOf' = 0 ELSE UNCHANGED <<loop, batchOf>>
  /\ UNCHANGED <<switcherVars, open, transport, controller, connected, worker, chosen,
                 webVars, boundVars>>

(* set_preview_source, and copy_program_to_preview once Program is known.  *)
SendPreview(s) ==
  /\ loop = "idle" /\ web # "retired" /\ issued < MaxCommands
  /\ issued' = issued + 1
  /\ \/ /\ Send(controller, [op |-> "set", src |-> s])
        /\ loop' = "entering" /\ chosen' = s /\ UNCHANGED faults
     \/ SendRaises(controller) /\ UNCHANGED <<loop, chosen>>
  /\ UNCHANGED <<transport, controller, state, connected, worker, batch, batchOf, webVars,
                 moves>>

EnterPreview ==
  /\ loop = "entering"
  /\ state' = [state EXCEPT !.preview = chosen]
  /\ loop' = "idle" /\ chosen' = NoSource
  /\ UNCHANGED <<switcherVars, open, transport, controller, connected, worker, batch,
                 batchOf, webVars, boundVars>>

SendTransition(op) ==
  /\ loop = "idle" /\ web # "retired" /\ issued < MaxCommands
  /\ issued' = issued + 1
  /\ \/ Send(controller, [op |-> op, src |-> NoSource]) /\ UNCHANGED faults
     \/ SendRaises(controller)
  /\ UNCHANGED <<transport, controller, state, connected, worker, loopVars, webVars, moves>>

-----------------------------------------------------------------------------
(* The web thread.                                                         *)

WebCloses ==
  /\ WebDisconnects /\ web = "idle" /\ web' = "closing"
  /\ loop # "start"
  /\ Close(transport)
  /\ UNCHANGED <<transport, controller, state, connected, worker, loopVars, webOf, webBatch,
                 shared, boundVars>>

WebUnflags ==
  /\ web = "closing" /\ web' = "making"
  /\ connected' = FALSE
  /\ UNCHANGED <<switcherVars, open, transport, controller, state, worker, loopVars, webOf,
                 webBatch, shared, boundVars>>

(* create_switcher has made another backend, or raised.                    *)
WebMakes ==
  /\ web = "making"
  /\ \/ web' = "retired" /\ UNCHANGED shared
     \/ web' = "connect" /\ shared' = TRUE
  /\ UNCHANGED <<switcherVars, clientVars, worker, loopVars, webOf, webBatch, boundVars>>

(* _connect_switcher_safely: connect() up to its socket.                   *)
WebConnects ==
  /\ web = "connect"
  /\ web' = IF is_connected THEN "sync" ELSE IF transport \in open THEN "flag" ELSE "opening"
  /\ webOf' = IF web' = "opening" THEN transport ELSE 0
  /\ UNCHANGED <<switcherVars, clientVars, worker, loopVars, webBatch, shared, boundVars>>

WebOpens ==
  /\ web = "opening" /\ webOf' = 0
  /\ \/ web' = "flag" /\ Opens(webOf) /\ UNCHANGED faults
     \/ web' = "sync" /\ Fault /\ UNCHANGED <<switcherVars, open>>
  /\ UNCHANGED <<transport, controller, state, connected, worker, loopVars, webBatch, shared,
                 issued, moves>>

WebFlags ==
  /\ web = "flag" /\ web' = "getPreview"
  /\ connected' = TRUE
  /\ UNCHANGED <<switcherVars, open, transport, controller, state, worker, loopVars, webOf,
                 webBatch, shared, boundVars>>

WebRequests ==
  /\ web \in {"getPreview", "getProgram"}
  /\ \/ /\ Send(transport, [op |-> web, src |-> NoSource])
        /\ web' = IF web = "getPreview" THEN "getProgram" ELSE "sync"
        /\ UNCHANGED faults
     \/ SendRaises(transport) /\ web' = "sync"
  /\ UNCHANGED <<transport, controller, state, connected, worker, loopVars, webOf, webBatch,
                 shared, issued, moves>>

(* sync_from_switcher: one poll().                                         *)
WebPolls ==
  /\ web = "sync"
  /\ \/ /\ ~is_connected \/ toClient = <<>> \/ session # transport
        /\ web' = "done" /\ UNCHANGED <<switcherVars, clientVars, webBatch>>
     \/ /\ is_connected /\ session = transport /\ toClient # <<>>
        /\ \E k \in 1..Len(toClient) :
             webBatch' = SubSeq(toClient, 1, k) /\ toClient' = SubSeq(toClient, k + 1, Len(toClient))
        /\ web' = "got" /\ UNCHANGED <<sw, session, toSwitcher, noticed, clientVars>>
     \/ /\ is_connected /\ session # transport /\ noticed
        /\ Close(transport) /\ connected' = FALSE
        /\ web' = "done" /\ UNCHANGED <<transport, controller, state, webBatch>>
  /\ UNCHANGED <<worker, loopVars, webOf, shared, boundVars>>

WebHandles ==
  /\ web = "got"
  /\ state' = Handled(state, Head(webBatch))
  /\ webBatch' = Tail(webBatch)
  /\ web' = IF webBatch' = <<>> THEN "done" ELSE "got"
  /\ UNCHANGED <<switcherVars, open, transport, controller, connected, worker, loopVars, webOf,
                 shared, boundVars>>

-----------------------------------------------------------------------------
(* The switcher and its panel.                                             *)

(* The switcher takes a new state and pushes what changed.                 *)
Pushes(s) ==
  (IF s.program # sw.program THEN <<Msg("pgm", s.program)>> ELSE <<>>)
  \o (IF s.preview # sw.preview THEN <<Msg("pvw", s.preview)>> ELSE <<>>)

Enter(s, answer) ==
  /\ sw' = s
  /\ toClient' = IF session = 0 THEN toClient ELSE toClient \o answer \o Pushes(s)
  /\ Len(toClient') <= QueueMax

Swapped == [sw EXCEPT !.program = sw.preview, !.preview = sw.program, !.fading = FALSE]

SwitcherExecutes ==
  /\ session # 0 /\ toSwitcher # <<>>
  /\ toSwitcher' = Tail(toSwitcher)
  /\ LET r == Head(toSwitcher) IN
       CASE r.op = "getPreview" -> Enter(sw, <<Msg("pvw", sw.preview)>>)
         [] r.op = "getProgram" -> Enter(sw, <<Msg("pgm", sw.program)>>)
         [] r.op = "set" -> Enter([sw EXCEPT !.preview = r.src], <<>>)
         [] r.op = "cut" -> Enter(Swapped, <<>>)
         [] r.op = "auto" -> Enter([sw EXCEPT !.fading = TRUE], <<Msg("status", NoSource)>>)
  /\ UNCHANGED <<session, noticed, clientVars, worker, loopVars, webVars, boundVars>>

TransitionEnds ==
  /\ sw.fading /\ Enter(Swapped, <<>>)
  /\ UNCHANGED <<session, toSwitcher, noticed, clientVars, worker, loopVars, webVars, boundVars>>

Panel(s) ==
  /\ moves < MaxMoves /\ moves' = moves + 1
  /\ Enter([sw EXCEPT !.preview = s], <<>>)
  /\ UNCHANGED <<session, toSwitcher, noticed, clientVars, worker, loopVars, webVars, issued,
                 faults>>

(* The connection is lost: the peer closed it, or, Silent, it just ends.   *)
Break ==
  /\ session # 0 /\ Fault
  /\ session' = 0 /\ toSwitcher' = <<>> /\ toClient' = <<>>
  /\ noticed' \in {TRUE} \cup (IF Silent THEN {FALSE} ELSE {})
  /\ UNCHANGED <<sw, clientVars, worker, loopVars, webVars, issued, moves>>

-----------------------------------------------------------------------------
Worker ==
  \/ WorkerCloses \/ WorkerBuilds \/ WorkerControls \/ WorkerConnects
  \/ WorkerFlags \/ WorkerRequests

(* The thread of an apply that has begun.                                  *)
Web ==
  \/ WebUnflags \/ WebMakes \/ WebConnects \/ WebOpens \/ WebFlags \/ WebRequests
  \/ WebPolls \/ WebHandles

Loop == StartLoop \/ Reconnect \/ PollTimesOut \/ PollReceives \/ PollFails \/ HandleMessage \/ EnterPreview

Switcher == SwitcherExecutes \/ TransitionEnds \/ Break \/ \E s \in Sources : Panel(s)

Next ==
  \/ Worker \/ Loop \/ WebCloses \/ Web \/ Switcher
  \/ \E s \in Sources : SendPreview(s)
  \/ \E op \in {"cut", "auto"} : SendTransition(op)

(* The threads run, the loop goes on polling, the switcher works.          *)
Fairness ==
  /\ WF_vars(Worker) /\ WF_vars(Loop) /\ WF_vars(Web)
  /\ WF_vars(SwitcherExecutes) /\ WF_vars(TransitionEnds)

Spec == Init /\ [][Next]_vars
FairSpec == Spec /\ Fairness

-----------------------------------------------------------------------------
(* PROPERTIES *)

(* Messages are applied to the controller of the transport they came from: *)
(* the worker never replaces the pair while the loop is between receiving  *)
(* and handling, although no lock says so.                                 *)
HandledByItsController == loop = "got" => batchOf = controller

(* A reconnect leaks no socket: every session but the one in use is closed.*)
NoLeakedSession == open \subseteq {transport}

(* Reconnects never mix up two sessions, as long as no thread of an apply  *)
(* connects the backend beside the loop and the worker: from the start of  *)
(* the program until an apply that fails to make another backend.          *)
SessionInv ==
  /\ TypeOK
  /\ ~shared => HandledByItsController /\ NoLeakedSession

(* When commands, faults and panel have come to an end, a backend in use   *)
(* works with the session the switcher serves, for good: a lost session    *)
(* and what an apply left behind are replaced.  And it shows the           *)
(* switcher's Program and Preview, unless the loop and an apply read from  *)
(* the same session: optimistic previews and half a cut are corrected.     *)
MirrorFollows ==
  <>[](web # "retired" =>
         /\ is_connected /\ session = transport
         /\ ~shared => state = Shown)
=============================================================================
