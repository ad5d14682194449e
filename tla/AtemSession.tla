---------------------------- MODULE AtemSession -----------------------------
(***************************************************************************)
(* The ATEM backend: one UDP session with the switcher.                    *)
(*                                                                         *)
(*   loop   the poll loop: AtemSwitcher.poll, set_preview_source, cut,     *)
(*          auto and reconnect; a command waits for the transport ACK of   *)
(*          its packet and then for the state that shows its effect        *)
(*   rx     the receiver thread, sole reader of the socket: it collects    *)
(*          ACKs, wakes the waiter and applies Program and Preview         *)
(*   web    disconnect() called by a configuration apply                   *)
(*   the switcher, its panel and the network (external): datagrams are     *)
(*          lost, state that was not acknowledged is repeated              *)
(*                                                                         *)
(* MaxCommands, MaxFaults, MaxMoves and QueueMax bound the exploration:    *)
(* commands issued, losses and errors, moves at the panel and disconnects, *)
(* datagrams under way to the client.                                      *)
(***************************************************************************)
EXTENDS Integers, Sequences, FiniteSets

CONSTANTS
  Sources, NoSource,
  IdMax,        \* the last packet id before the sequence starts again at 1
  MaxCommands, MaxFaults, MaxMoves, QueueMax,
  MayRestart,   \* the switcher may restart and forget the session
  Reorders,     \* the network may deliver datagrams in another order
  HandshakesFail \* a connection attempt may fail

ASSUME SessionAssumption ==
  /\ NoSource \notin Sources
  /\ MaxCommands \in Nat /\ IdMax \in Nat \ {0}

VARIABLES
  sw,          \* the switcher: program, preview, a fade is running
  knows,       \* the switcher serves the session of the current socket
  dirty,       \* its latest state is not acknowledged
  toSwitcher,  \* command packets under way
  toClient,    \* ACK and state packets under way
  socket, confirmed, stop, rxError,  \* _socket, confirmed, _receiver_stop, _receiver_error
  rx,          \* receiver thread: "off", "recv" or "got" a packet
  packet,      \* the packet it has received
  localId, acked,   \* _local_packet_id, _acked_local_packet_ids
  waiters, woken,   \* _ack_waiters: ids registered, ids whose event is set
  state,       \* client.state: program and preview
  fields, connected,  \* AtemSwitcher's own copy of them, and its connected
  pc, cmd,     \* the loop, and the command it waits for
  started,     \* the first connection attempt is over
  web,         \* progress of the web thread's disconnect()
  issued, executed, result, faults, moves

switcherVars == <<sw, knows, dirty>>
netVars == <<toSwitcher, toClient>>
sessionVars == <<socket, confirmed, stop, rxError>>
rxVars == <<rx, packet>>
ackVars == <<localId, acked, waiters, woken>>
viewVars == <<state, fields, connected>>
loopVars == <<pc, cmd, started>>
countVars == <<issued, executed, result>>
boundVars == <<faults, moves>>
vars == <<sw, knows, dirty, toSwitcher, toClient, socket, confirmed, stop, rxError,
          rx, packet, localId, acked, waiters, woken, state, fields, connected,
          pc, cmd, started, web, issued, executed, result, faults, moves>>

Known == Sources \cup {NoSource}
Pair == [program : Known, preview : Known]
Unknown == [program |-> NoSource, preview |-> NoSource]
Commands == 1..MaxCommands
NoPacket == [kind |-> "none"]
Ack(i) == [kind |-> "ack", id |-> i]
State(s) == [kind |-> "state", program |-> s.program, preview |-> s.preview]
Shown == [program |-> sw.program, preview |-> sw.preview]
NoCommand == [n |-> 0, id |-> 0, op |-> "none", src |-> NoSource, before |-> Unknown]

TypeOK ==
  /\ sw \in [program : Sources, preview : Sources, fading : BOOLEAN]
  /\ {knows, dirty, socket, confirmed, stop, rxError, connected, started} \subseteq BOOLEAN
  /\ \A p \in toSwitcher :
       /\ p.n \in Commands /\ p.id \in 1..IdMax /\ p.live \in BOOLEAN
       /\ p.op \in {"preview", "cut", "auto"} /\ p.src \in Known
  /\ \A k \in 1..Len(toClient) :
       \/ \E i \in 1..IdMax : toClient[k] = Ack(i)
       \/ \E s \in Pair : toClient[k] = State(s)
  /\ rx \in {"off", "recv", "got"} /\ web \in {"idle", "stopped", "closed"}
  /\ localId \in 0..IdMax /\ {acked, waiters, woken} \subseteq SUBSET (1..IdMax)
  /\ state \in Pair /\ fields \in Pair
  /\ pc \in {"idle", "sent", "ackEvent", "ackPoll", "check", "feedback",
             "feedbackPoll", "confirmed", "joining", "connecting", "sync"}
  /\ issued \in 0..MaxCommands /\ executed \subseteq Commands
  /\ result \in [Commands -> {"none", "waiting", "done", "failed"}]

Init ==
  /\ sw \in [program : Sources, preview : Sources, fading : {FALSE}]
  /\ knows = FALSE /\ dirty = FALSE
  /\ toSwitcher = {} /\ toClient = <<>>
  /\ socket = FALSE /\ confirmed = FALSE /\ stop = FALSE /\ rxError = FALSE
  /\ rx = "off" /\ packet = NoPacket
  /\ localId = 0 /\ acked = {} /\ waiters = {} /\ woken = {}
  /\ state = Unknown /\ fields = Unknown /\ connected = FALSE
  /\ pc = "joining" /\ cmd = NoCommand /\ started = FALSE /\ web = "idle"
  /\ issued = 0 /\ executed = {} /\ result = [n \in Commands |-> "none"]
  /\ faults = 0 /\ moves = 0

-----------------------------------------------------------------------------
(* Session: what the threads share.                                        *)

receiverRunning == rx # "off" /\ ~stop

nextLocalId == IF localId >= IdMax THEN 1 ELSE localId + 1

(* super().disconnect(): the socket is closed; whatever the switcher still *)
(* sends goes to a port nobody listens on.                                 *)
CloseSocket ==
  /\ socket' = FALSE /\ confirmed' = FALSE
  /\ knows' = FALSE /\ toClient' = <<>>
  /\ toSwitcher' = {[p EXCEPT !.live = FALSE] : p \in toSwitcher}

(* _process_session_packet: the id of an ACK is remembered, and a reliable *)
(* state packet is acknowledged, whether or not its state is the latest    *)
(* (the acknowledgement may be lost).                                      *)
AckOf(p) == IF p.kind = "ack" THEN {p.id} ELSE {}

Acknowledge(p) ==
  \/ dirty' = (dirty /\ p # State(Shown)) /\ faults' = faults
  \/ /\ p.kind = "state" /\ dirty' = dirty
     /\ faults < MaxFaults /\ faults' = faults + 1

(* apply_state_command for PrgI and PrvI of M/E 1.                         *)
Apply(p) ==
  IF p.kind = "state" THEN [program |-> p.program, preview |-> p.preview] ELSE state

-----------------------------------------------------------------------------
(* The loop: AtemSwitcher and the command methods of the client.           *)

Report(r) == result' = [result EXCEPT ![cmd.n] = r]

Fail ==
  /\ pc' = "idle" /\ cmd' = NoCommand /\ Report("failed")
  /\ UNCHANGED <<switcherVars, netVars, sessionVars, rxVars, state, fields,
                 connected, localId, acked, started, web, issued, executed, boundVars>>

(* Mutant: the error of the receiver is not seen.                          *)
PollHidesError == TRUE

(* poll() takes over the client's state; it raises only when the receiver  *)
(* has recorded an error, and otherwise the backend counts as connected.   *)
PollSucceeds == ~rxError

Poll ==
  /\ pc = "sync" \/ (pc = "idle" /\ connected)
  /\ pc' = "idle"
  /\ connected' = PollSucceeds
  /\ fields' = IF PollSucceeds THEN state ELSE fields
  /\ UNCHANGED <<switcherVars, netVars, sessionVars, rxVars, ackVars, state,
                 cmd, started, web, countVars, boundVars>>

(* A source the switcher does not have, or no confirmed session: an        *)
(* exception before anything is sent.                                      *)
RefuseCommand ==
  /\ pc = "idle" /\ issued < MaxCommands
  /\ issued' = issued + 1
  /\ result' = [result EXCEPT ![issued + 1] = "failed"]
  /\ UNCHANGED <<switcherVars, netVars, sessionVars, rxVars, ackVars, viewVars,
                 loopVars, web, executed, boundVars>>

(* set_preview, cut, auto up to the return of _send_control: the waiter is *)
(* registered before the datagram leaves, and only if a receiver runs.     *)
SendCommand(op, src) ==
  LET n == issued + 1
      id == nextLocalId
  IN
  /\ pc = "idle" /\ issued < MaxCommands
  /\ connected /\ socket /\ confirmed
  /\ src \in IF op = "preview" THEN Sources ELSE {NoSource}
  /\ issued' = n /\ localId' = id
  /\ waiters' = IF receiverRunning THEN waiters \cup {id} ELSE waiters
  /\ woken' = IF receiverRunning THEN woken \ {id} ELSE woken
  /\ \/ /\ toSwitcher' = toSwitcher \cup
             {[n |-> n, id |-> id, op |-> op, src |-> src, live |-> TRUE]}
        /\ pc' = "sent"
        /\ cmd' = [n |-> n, id |-> id, op |-> op, src |-> src, before |-> state]
        /\ result' = [result EXCEPT ![n] = "waiting"]
        /\ UNCHANGED boundVars
     \/ /\ faults < MaxFaults /\ faults' = faults + 1
        /\ result' = [result EXCEPT ![n] = "failed"]
        /\ UNCHANGED <<toSwitcher, loopVars, moves>>
  /\ UNCHANGED <<switcherVars, toClient, sessionVars, rxVars, acked, started, viewVars,
                 web, executed>>

(* _wait_for_transport_ack decides once whether a receiver runs; without   *)
(* one it reads the socket itself.                                         *)
StartAckWait ==
  /\ pc = "sent"
  /\ acked' = acked \ {cmd.id}
  /\ IF receiverRunning
     THEN /\ pc' = "ackEvent"
          /\ waiters' = waiters \cup {cmd.id}
          /\ woken' = IF cmd.id \in acked THEN woken \cup {cmd.id}
                      ELSE woken \ ({cmd.id} \ waiters)
     ELSE /\ pc' = IF cmd.id \in acked THEN "check" ELSE "ackPoll"
          /\ UNCHANGED <<waiters, woken>>
  /\ UNCHANGED <<switcherVars, netVars, sessionVars, rxVars, localId, viewVars,
                 cmd, started, web, countVars, boundVars>>

(* Mutant: a waiter woken by a failing receiver takes that for its ACK.    *)
AnyWakeIsAck == TRUE

(* The event is set.  It counts as the ACK unless the receiver recorded an *)
(* error and the ACK is not there.                                         *)
CountsAsAck == ~rxError \/ cmd.id \in acked

AckWoken ==
  /\ pc = "ackEvent" /\ cmd.id \in woken /\ CountsAsAck
  /\ acked' = acked \ {cmd.id}
  /\ waiters' = waiters \ {cmd.id} /\ woken' = woken \ {cmd.id}
  /\ pc' = "check"
  /\ UNCHANGED <<switcherVars, netVars, sessionVars, rxVars, localId, viewVars,
                 cmd, started, web, countVars, boundVars>>

ReceiverFailed ==
  /\ pc = "ackEvent" /\ cmd.id \in woken /\ ~CountsAsAck
  /\ Fail /\ UNCHANGED <<waiters, woken>>

AckTimeout ==
  /\ pc = "ackEvent" /\ cmd.id \notin woken
  /\ waiters' = waiters \ {cmd.id}
  /\ Fail /\ UNCHANGED woken

(* The synchronous path: receive_once, then look for the ACK.              *)
ReadAck ==
  /\ pc = "ackPoll" /\ socket /\ toClient # <<>>
  /\ toClient' = Tail(toClient)
  /\ LET p == Head(toClient)
         mine == p.kind = "ack" /\ p.id = cmd.id
     IN /\ Acknowledge(p)
        /\ acked' = (acked \cup AckOf(p)) \ {cmd.id}
        /\ state' = Apply(p)
        /\ pc' = IF mine THEN "check" ELSE "ackPoll"
  /\ UNCHANGED <<sw, knows, toSwitcher, sessionVars, rxVars, localId, waiters,
                 woken, fields, connected, cmd, started, web, countVars, moves>>

AckReadFails == pc = "ackPoll" /\ Fail /\ UNCHANGED <<waiters, woken>>

(* The state that confirms a command: the preview asked for, or Program    *)
(* and Preview exchanged (any change, while they were not known).          *)
Confirms(s) ==
  LET b == cmd.before
  IN IF cmd.op = "preview" THEN s.preview = cmd.src
     ELSE IF NoSource \notin {b.program, b.preview}
          THEN s.program = b.preview /\ s.preview = b.program
          ELSE s # b

(* Success: AtemSwitcher enters the new preview, or exchanges its fields.  *)
Confirmed ==
  /\ \/ pc = "confirmed"
     \/ pc \in {"check", "feedback"} /\ Confirms(state)
  /\ fields' = IF cmd.op = "preview" THEN [fields EXCEPT !.preview = cmd.src]
               ELSE [program |-> fields.preview, preview |-> fields.program]
  /\ pc' = "idle" /\ cmd' = NoCommand /\ Report("done")
  /\ UNCHANGED <<switcherVars, netVars, sessionVars, rxVars, ackVars, state,
                 connected, started, web, issued, executed, boundVars>>

(* Mutant: the synchronous path in production.                             *)
FeedbackWaitReads == "feedbackPoll"

FeedbackWait == IF receiverRunning THEN "feedback" ELSE "feedbackPoll"

StartFeedbackWait ==
  /\ pc = "check" /\ ~Confirms(state)
  /\ pc' = FeedbackWait
  /\ UNCHANGED <<switcherVars, netVars, sessionVars, rxVars, ackVars, viewVars,
                 cmd, started, web, countVars, boundVars>>

(* Mutant: a wait without timeout.                                         *)
NotConfirmedOnError ==
  /\ pc = "feedback" /\ ~Confirms(state) /\ rxError
  /\ Fail /\ UNCHANGED <<waiters, woken>>

(* A timeout, or an error of the receiver.                                 *)
NotConfirmed ==
  /\ pc = "feedback" /\ ~Confirms(state)
  /\ Fail /\ UNCHANGED <<waiters, woken>>

ReadFeedback ==
  /\ pc = "feedbackPoll" /\ socket /\ toClient # <<>>
  /\ toClient' = Tail(toClient)
  /\ LET p == Head(toClient)
     IN /\ Acknowledge(p)
        /\ acked' = acked \cup AckOf(p)
        /\ state' = Apply(p)
        /\ pc' = IF Confirms(Apply(p)) THEN "confirmed" ELSE "feedbackPoll"
  /\ UNCHANGED <<sw, knows, toSwitcher, sessionVars, rxVars, localId, waiters,
                 woken, fields, connected, cmd, started, web, countVars, moves>>

FeedbackReadFails == pc = "feedbackPoll" /\ Fail /\ UNCHANGED <<waiters, woken>>

-----------------------------------------------------------------------------
(* Connecting.  ensure_connected calls AtemSwitcher.reconnect while the    *)
(* backend counts as disconnected: disconnect(), then connect() on the     *)
(* same client.                                                            *)

Wake == woken' = woken \cup waiters

StartReconnect ==
  /\ pc = "idle" /\ ~connected
  /\ stop' = TRUE /\ CloseSocket
  /\ pc' = "joining"
  /\ UNCHANGED <<sw, dirty, rxError, rxVars, ackVars, viewVars, cmd, started, web,
                 countVars, boundVars>>

(* Mutant: the acknowledged ids of the old session are kept.              *)
FreshSessionKeepsAcks ==
  /\ localId' = 0 /\ acked' = acked /\ waiters' = {} /\ woken' = {}
  /\ state' = Unknown

FreshSession ==
  /\ localId' = 0 /\ acked' = {} /\ waiters' = {} /\ woken' = {}
  /\ state' = Unknown

(* The receiver has ended (its join outlasts one receive timeout); connect *)
(* starts a fresh sequence on a new socket and sends SYN.                  *)
OpenSocket ==
  /\ pc = "joining" /\ rx = "off"
  /\ socket' = TRUE /\ confirmed' = FALSE
  /\ FreshSession
  /\ pc' = "connecting"
  /\ UNCHANGED <<switcherVars, netVars, stop, rxError, rxVars, fields,
                 connected, cmd, started, web, countVars, boundVars>>

(* The switcher answers SYN and dumps its state, of which a part may be    *)
(* lost; one state command is enough.  Then the receiver is started.       *)
HandshakeDone ==
  /\ pc = "connecting" /\ socket
  /\ \E s \in {Shown} \cup (IF faults < MaxFaults
                           THEN {[Shown EXCEPT !.program = NoSource],
                                 [Shown EXCEPT !.preview = NoSource]} ELSE {}) :
       /\ state' = s /\ fields' = s
       /\ dirty' = (s # Shown)
       /\ faults' = IF s = Shown THEN faults ELSE faults + 1
  /\ knows' = TRUE
  /\ confirmed' = TRUE /\ stop' = FALSE /\ rxError' = FALSE
  /\ rx' = "recv" /\ connected' = TRUE /\ pc' = "idle" /\ started' = TRUE
  /\ UNCHANGED <<sw, netVars, socket, packet, ackVars, cmd, web, countVars, moves>>

(* An unsuccessful attempt closes the socket.  The first one is followed   *)
(* by a poll without any condition, and so is a COPY while Program is not  *)
(* known: it has nothing to copy, raises nothing and synchronises.         *)
HandshakeFails ==
  /\ pc = "connecting"
  /\ ~socket \/ (HandshakesFail /\ faults < MaxFaults)
  /\ faults' = IF socket THEN faults + 1 ELSE faults
  /\ stop' = TRUE /\ CloseSocket
  /\ started' = TRUE
  /\ \/ started /\ pc' = "idle"
     \/ fields.program = NoSource /\ pc' = "sync"
  /\ UNCHANGED <<sw, dirty, rxError, rxVars, ackVars, viewVars, cmd, web,
                 countVars, moves>>

(* disconnect() by the web thread, statement by statement.                 *)
WebStop ==
  /\ web = "idle" /\ moves < MaxMoves
  /\ moves' = moves + 1
  /\ stop' = TRUE /\ web' = "stopped"
  /\ UNCHANGED <<switcherVars, netVars, socket, confirmed, rxError, rxVars, ackVars,
                 viewVars, loopVars, countVars, faults>>

WebClose ==
  /\ web = "stopped" /\ web' = "closed"
  /\ CloseSocket
  /\ UNCHANGED <<sw, dirty, stop, rxError, rxVars, ackVars, viewVars, loopVars,
                 countVars, boundVars>>

(* stop_receive_loop sets every waiter's event, disconnect then forgets    *)
(* the waiters; a loop that already waits keeps its event object.          *)
WebWake ==
  /\ web = "closed" /\ rx = "off" /\ web' = "idle"
  /\ woken' = woken \cup waiters /\ waiters' = {} /\ connected' = FALSE
  /\ UNCHANGED <<switcherVars, netVars, sessionVars, rxVars, localId, acked,
                 state, fields, loopVars, countVars, boundVars>>

-----------------------------------------------------------------------------
(* The receiver thread.                                                    *)

RxReceive ==
  /\ rx = "recv" /\ socket /\ toClient # <<>>
  /\ packet' = Head(toClient) /\ toClient' = Tail(toClient)
  /\ Acknowledge(packet') /\ acked' = acked \cup AckOf(packet')
  /\ rx' = "got"
  /\ UNCHANGED <<sw, knows, toSwitcher, sessionVars, localId, waiters, woken, viewVars,
                 loopVars, web, countVars, moves>>

(* The waiter of the ACK is woken, the state applied, and the loop         *)
(* condition read again; the end of the thread wakes every waiter.         *)
RxDispatch ==
  /\ rx = "got"
  /\ state' = Apply(packet) /\ packet' = NoPacket
  /\ IF stop \/ ~socket THEN rx' = "off" /\ Wake
     ELSE rx' = "recv" /\ woken' = woken \cup (AckOf(packet) \cap waiters)
  /\ UNCHANGED <<switcherVars, netVars, sessionVars, localId, acked, waiters, fields,
                 connected, loopVars, web, countVars, boundVars>>

(* A malformed datagram or a socket error ends the thread and is recorded, *)
(* unless the session is being closed.                                     *)
RxEnd ==
  /\ rx = "recv"
  /\ \/ /\ stop \/ ~socket
        /\ UNCHANGED <<rxError, faults>>
     \/ /\ ~stop /\ socket /\ faults < MaxFaults
        /\ rxError' = TRUE /\ faults' = faults + 1
  /\ rx' = "off" /\ Wake
  /\ UNCHANGED <<switcherVars, netVars, socket, confirmed, stop, packet, localId, acked,
                 waiters, viewVars, loopVars, web, countVars, moves>>

-----------------------------------------------------------------------------
(* The switcher, its panel and the network.                                *)

(* A new state of the switcher is sent as one packet and kept as           *)
(* unacknowledged until the client has acknowledged it.                    *)
Enter(s, packets) ==
  /\ sw' = s /\ dirty' = (dirty \/ (knows /\ s # sw))
  /\ toClient' = IF knows THEN toClient \o packets ELSE toClient
  /\ Len(toClient') <= QueueMax

StateOf(s) == <<State([program |-> s.program, preview |-> s.preview])>>

Swapped == [sw EXCEPT !.program = sw.preview, !.preview = sw.program, !.fading = FALSE]

Execute(p) ==
  LET s == CASE p.op = "preview" -> [sw EXCEPT !.preview = p.src]
             [] p.op = "cut" -> Swapped
             [] p.op = "auto" -> [sw EXCEPT !.fading = TRUE]
      shown == IF p.op = "auto" THEN <<>> ELSE StateOf(s)
  IN
  /\ p \in toSwitcher /\ (knows \/ ~p.live)
  /\ toSwitcher' = toSwitcher \ {p}
  /\ executed' = executed \cup {p.n}
  /\ Enter(s, (IF p.live THEN <<Ack(p.id)>> ELSE <<>>) \o shown)
  /\ UNCHANGED <<knows, sessionVars, rxVars, ackVars, viewVars, loopVars, web,
                 issued, result, boundVars>>

FadeEnds ==
  /\ sw.fading /\ Enter(Swapped, StateOf(Swapped))
  /\ UNCHANGED <<knows, toSwitcher, sessionVars, rxVars, ackVars, viewVars, loopVars,
                 web, countVars, boundVars>>

Panel(s) ==
  /\ moves < MaxMoves /\ moves' = moves + 1
  /\ s # sw.preview
  /\ LET t == [sw EXCEPT !.preview = s] IN Enter(t, StateOf(t))
  /\ UNCHANGED <<knows, toSwitcher, sessionVars, rxVars, ackVars, viewVars, loopVars,
                 web, countVars, faults>>

Repeat ==
  /\ knows /\ dirty /\ toClient = <<>>
  /\ toClient' = <<State(Shown)>>
  /\ UNCHANGED <<switcherVars, toSwitcher, sessionVars, rxVars, ackVars, viewVars,
                 loopVars, web, countVars, boundVars>>

Lose ==
  /\ faults < MaxFaults /\ faults' = faults + 1
  /\ \/ \E p \in toSwitcher : toSwitcher' = toSwitcher \ {p} /\ UNCHANGED toClient
     \/ toClient # <<>> /\ toClient' = Tail(toClient) /\ UNCHANGED toSwitcher
  /\ UNCHANGED <<switcherVars, sessionVars, rxVars, ackVars, viewVars, loopVars, web,
                 countVars, moves>>

(* A datagram overtakes the one before it; the client looks at no sequence *)
(* number.                                                                 *)
Overtake ==
  /\ Reorders /\ faults < MaxFaults /\ faults' = faults + 1
  /\ Len(toClient) >= 2
  /\ toClient' = <<toClient[2], toClient[1]>> \o SubSeq(toClient, 3, Len(toClient))
  /\ UNCHANGED <<switcherVars, toSwitcher, sessionVars, rxVars, ackVars, viewVars,
                 loopVars, web, countVars, moves>>

Restart ==
  /\ MayRestart /\ moves < MaxMoves /\ moves' = moves + 1
  /\ knows' = FALSE /\ dirty' = FALSE
  /\ sw' = [sw EXCEPT !.fading = FALSE]
  /\ toSwitcher' = {} /\ toClient' = <<>>
  /\ UNCHANGED <<sessionVars, rxVars, ackVars, viewVars, loopVars, web, countVars, faults>>

-----------------------------------------------------------------------------
WaitForAck == StartAckWait \/ AckWoken \/ ReceiverFailed \/ AckTimeout \/ ReadAck \/ AckReadFails

WaitForFeedback ==
  Confirmed \/ StartFeedbackWait \/ NotConfirmed \/ ReadFeedback \/ FeedbackReadFails

Connecting == StartReconnect \/ OpenSocket \/ HandshakeDone \/ HandshakeFails
Web == WebStop \/ WebClose \/ WebWake
Receiver == RxReceive \/ RxDispatch \/ RxEnd

Switcher ==
  \/ \E p \in toSwitcher : Execute(p)
  \/ \E s \in Sources : Panel(s)
  \/ FadeEnds \/ Repeat \/ Lose \/ Overtake \/ Restart

(* The session between two applies.                                       *)
Next ==
  \/ Poll \/ RefuseCommand
  \/ \E op \in {"preview", "cut", "auto"}, src \in Known : SendCommand(op, src)
  \/ WaitForAck \/ WaitForFeedback \/ Connecting \/ Receiver \/ Switcher

(* The same while a configuration is applied, which disconnects the        *)
(* session under the loop.                                                 *)
NextWithApply == Next \/ Web

(* The loop polls again and again, its waits end, the threads run, and the *)
(* switcher repeats what was not acknowledged.                             *)
Fairness ==
  /\ WF_vars(Poll) /\ WF_vars(WaitForAck) /\ WF_vars(WaitForFeedback)
  /\ WF_vars(Connecting) /\ WF_vars(WebClose \/ WebWake) /\ WF_vars(Receiver)
  /\ WF_vars(FadeEnds) /\ WF_vars(Repeat) /\ WF_vars(\E p \in toSwitcher : Execute(p))

Spec == Init /\ [][Next]_vars
FairSpec == Init /\ [][NextWithApply]_vars /\ Fairness

-----------------------------------------------------------------------------
(* PROPERTIES *)

(* The session implements the contract of the executor: a command is sent  *)
(* once and never again, runs on the switcher at most once, and is         *)
(* reported as done only if it ran.                                        *)
Contract == INSTANCE SwitcherContract WITH
  Commands <- Commands, MaxTries <- 1, issued <- 1..issued,
  tries <- [n \in Commands |-> IF n \in 1..issued THEN 1 ELSE 0],
  executed <- executed \X {1}, result <- result

ImplementsContract == Contract!Spec

(* A command gets past the wait for its transport ACK (and records        *)
(* last_command_transport_acked) only if the switcher has received its     *)
(* packet: an ACK is credited to the packet it answers, however late it    *)
(* comes, and whichever thread finds it.                                   *)
AckIsHonest ==
  pc \in {"check", "feedback", "feedbackPoll", "confirmed"} => cmd.n \in executed

(* Only one thread reads the socket: a command reads it itself only when   *)
(* the receiver has ended.                                                 *)
SoleReader == pc \in {"ackPoll", "feedbackPoll"} /\ socket => rx = "off"

(* When the panel, the commands and the faults have come to an end, the    *)
(* backend shows the switcher's Program and Preview for good.              *)
MirrorFollows == <>[](connected /\ fields = Shown)

(* A command never hangs: whatever happens to the receiver, the socket and *)
(* the events under its wait, the loop gets its answer.                    *)
EveryCommandAnswered ==
  \A n \in Commands : result[n] = "waiting" ~> result[n] # "waiting"
=============================================================================
