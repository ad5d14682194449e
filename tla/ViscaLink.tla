------------------------------ MODULE ViscaLink ------------------------------
(***************************************************************************)
(* One camera session down to its datagrams: CameraSession, the packet     *)
(* encoder, ReconnectSafeTransport over UdpViscaTransport, the network and *)
(* the camera.  The loop's send and a disconnect() by the web thread       *)
(* interleave at every use of _socket.  What may go wrong besides errors   *)
(* of sendto is fixed in a behaviour: datagrams get lost, or reordered,    *)
(* the web thread disconnects, a signal ends the process at once.          *)
(*                                                                         *)
(* MaxCommands and MaxFaults bound commands and faults in an environment;  *)
(* sequence numbers have SeqNumbers values, 2^32 in the code.              *)
(***************************************************************************)
EXTENDS Naturals, Sequences, SequencesExt

CONSTANTS
  Environments,         \* each the set of what may go wrong
  MaxCommands, MaxFaults, SeqNumbers

ASSUME LinkAssumption ==
  /\ Environments \subseteq SUBSET {"lose", "reorder", "web", "kill"}
  /\ MaxCommands \in [Environments -> Nat] /\ MaxFaults \in [Environments -> Nat]
  /\ SeqNumbers \in Nat \ {0, 1}

VARIABLES
  faulty,               \* the environment of the behaviour
  sock, connected,      \* _socket, 0 for None, and the transport's connected
  made, open,           \* sockets created so far, and those not closed
  seq,                  \* the encoder's sequence_number
  flags,                \* pan_tilt_active and zoom_active of the session
  pc, todo, packet, attempt, \* the loop: the commands of the call at work
  exiting,              \* SafeStopCameraSession's __exit__
  web,                  \* disconnect() by the web thread
  net, camera,          \* datagrams under way; the axes the camera moves
  issued, faults

socketVars == <<sock, connected, made, open>>
callVars == <<flags, todo, attempt, exiting, issued>>
linkVars == <<net, camera, faults>>
vars == <<faulty, sock, connected, made, open, seq, flags, pc, todo, packet, attempt, exiting,
          web, net, camera, issued, faults>>

Axes == {"panTilt", "zoom"}
Command(axis, moves) == [axis |-> axis, moves |-> moves]
Commands == [axis : Axes, moves : BOOLEAN] \cup {Command("preset", FALSE)}
NoPacket == [seq |-> SeqNumbers, command |-> Command("none", FALSE)]

TypeOK ==
  /\ sock \in 0..made /\ open \subseteq 1..made /\ connected \in BOOLEAN
  /\ seq \in 0..(SeqNumbers - 1)
  /\ {flags, camera} \subseteq [Axes -> BOOLEAN]
  /\ todo \in Seq(Commands) /\ attempt \in 1..2
  /\ net \in Seq([seq : 0..(SeqNumbers - 1), command : Commands])

Init ==
  /\ faulty \in Environments
  /\ sock = 0 /\ connected = FALSE /\ made = 0 /\ open = {}
  /\ seq = 0 /\ flags = [a \in Axes |-> FALSE]
  /\ pc = "idle" /\ todo = <<>> /\ packet = NoPacket /\ attempt = 1
  /\ exiting = FALSE /\ web = "none"
  /\ net = <<>> /\ camera = [a \in Axes |-> FALSE]
  /\ issued = 0 /\ faults = 0

-----------------------------------------------------------------------------
(* The session.                                                            *)

StopAll == <<Command("panTilt", FALSE), Command("zoom", FALSE)>>

(* What the router and the scripts ask of a session; a stop is only asked  *)
(* for what the flags say moves.                                           *)
Calls ==
  {<<Command(a, TRUE)>> : a \in Axes} \cup {<<Command("preset", FALSE)>>}
    \cup {<<Command(a, FALSE)>> : a \in {b \in Axes : flags[b]}}
    \cup (IF \E a \in Axes : flags[a] THEN {StopAll} ELSE {})

Call ==
  /\ pc = "idle" /\ ~exiting /\ issued < MaxCommands[faulty]
  /\ web # "done"
  /\ issued' = issued + 1
  /\ todo' \in Calls /\ pc' = "encode"
  /\ UNCHANGED <<socketVars, seq, flags, packet, attempt, exiting, web, linkVars>>

(* __exit__ of SafeStopCameraSession: stop_all, then disconnect.           *)
Exit ==
  /\ pc = "idle" /\ ~exiting
  /\ exiting' = TRUE /\ todo' = StopAll /\ pc' = "encode"
  /\ UNCHANGED <<socketVars, seq, flags, packet, attempt, web, linkVars, issued>>

(* Mutant: the number is not counted on.                                   *)
NextSeqFixed == seq

NextSeq == (seq + 1) % SeqNumbers

(* encode(): the number is used up even when the packet cannot be sent.    *)
Encode ==
  /\ pc = "encode" /\ pc' = "test"
  /\ packet' = [seq |-> seq, command |-> Head(todo)] /\ seq' = NextSeq
  /\ attempt' = 1
  /\ UNCHANGED <<socketVars, flags, todo, exiting, issued, web, linkVars>>

(* Mutant: a preset recall counts as a stop.                               *)
FlagsAfterRecall(c) ==
  IF c.axis = "preset" THEN [a \in Axes |-> FALSE] ELSE [flags EXCEPT ![c.axis] = c.moves]

FlagsAfter(c) == IF c.axis = "preset" THEN flags ELSE [flags EXCEPT ![c.axis] = c.moves]

(* send_command returned: the state of the session follows.                *)
Sent ==
  /\ pc = "sent"
  /\ flags' = FlagsAfter(Head(todo)) /\ todo' = Tail(todo)
  /\ pc' = IF Len(todo) > 1 THEN "encode" ELSE IF exiting THEN "dtest" ELSE "idle"
  /\ UNCHANGED <<socketVars, seq, packet, attempt, exiting, issued, web, linkVars>>

-----------------------------------------------------------------------------
(* UdpViscaTransport and ReconnectSafeTransport, up to the call that       *)
(* raises.                                                                 *)

(* send(): test of the socket, and connect().                              *)
TestSocket ==
  /\ pc = "test" /\ pc' = "use" /\ connected' = TRUE
  /\ IF sock = 0
     THEN made' = made + 1 /\ sock' = made + 1 /\ open' = open \cup {made + 1}
     ELSE UNCHANGED <<made, sock, open>>
  /\ UNCHANGED <<seq, packet, callVars, web, linkVars>>

(* sendto on an open socket ...                                            *)
SendTo ==
  /\ pc = "use" /\ sock \in open
  /\ net' = Append(net, packet) /\ pc' = "sent" /\ packet' = NoPacket
  /\ UNCHANGED <<socketVars, seq, callVars, web, camera, faults>>

(* ... and an OSError, the only one possible on a socket closed meanwhile. *)
SendToFails ==
  /\ pc = "use" /\ sock # 0 /\ pc' = "htest" /\ connected' = FALSE
  /\ IF sock \in open THEN faults < MaxFaults[faulty] /\ faults' = faults + 1
     ELSE UNCHANGED faults
  /\ UNCHANGED <<sock, made, open, seq, packet, callVars, web, net, camera>>

(* The assertion, or None for a socket: no ConnectionError, no retry, and  *)
(* the poll loop ends.                                                     *)
SocketGone ==
  /\ pc = "use" /\ sock = 0 /\ pc' = "fatal"
  /\ UNCHANGED <<socketVars, seq, packet, callVars, web, linkVars>>

(* disconnect() step by step: by the handler of an OSError ("h"), at the   *)
(* end of a script ("d"), by the web thread.  A socket nobody refers to is  *)
(* closed, too.                                                            *)
CloseSocket == open' = open \ {sock} /\ UNCHANGED <<sock, connected, made>>
ClearSocket ==
  sock' = 0 /\ open' = open \ {sock} /\ connected' = FALSE /\ UNCHANGED made

(* Mutant: a send that failed is given up.                                 *)
MayRetryNever == FALSE

MayRetry == attempt = 1

HandleTests ==
  /\ pc = "htest" /\ pc' = IF sock = 0 THEN "raise" ELSE "hclose"
  /\ UNCHANGED <<socketVars, seq, packet, callVars, web, linkVars>>

HandleCloses ==
  /\ pc = "hclose" /\ sock # 0 /\ CloseSocket /\ pc' = "hclear"
  /\ UNCHANGED <<seq, packet, callVars, web, linkVars>>

(* None has no close().                                                    *)
HandleMeetsNone ==
  /\ pc = "hclose" /\ sock = 0 /\ pc' = "fatal"
  /\ UNCHANGED <<socketVars, seq, packet, callVars, web, linkVars>>

HandleClears ==
  /\ pc = "hclear" /\ ClearSocket /\ pc' = "raise"
  /\ UNCHANGED <<seq, packet, callVars, web, linkVars>>

(* Mutant: the second attempt does without connect().                      *)
RetryFromUse == "use"

RetryFrom == "test"

(* ConnectionError: the packet is sent once more, the connect() in between *)
(* does what TestSocket does.                                              *)
Retry ==
  /\ pc = "raise" /\ MayRetry
  /\ attempt' = attempt + 1 /\ pc' = RetryFrom
  /\ UNCHANGED <<socketVars, seq, flags, todo, packet, exiting, issued, web,
                 linkVars>>

(* ... and then reaches the caller: the rest of its commands is not sent.  *)
Raise ==
  /\ pc = "raise" /\ ~MayRetry
  /\ todo' = <<>> /\ pc' = IF exiting THEN "dtest" ELSE "idle"
  /\ packet' = NoPacket
  /\ UNCHANGED <<socketVars, seq, flags, attempt, exiting, issued, web, linkVars>>

(* A ConnectionError ends a script's block through __exit__, which does    *)
(* not let an error of the stop get out.                                   *)
EndOfScript ==
  /\ pc = "dtest" /\ pc' = "ended"
  /\ open' = open \ {sock} /\ sock' = 0 /\ connected' = FALSE
  /\ UNCHANGED <<made, seq, packet, callVars, web, linkVars>>

Kill ==
  /\ "kill" \in faulty /\ pc \notin {"ended", "fatal"}
  /\ pc' = "ended" /\ open' = {} /\ sock' = 0 /\ connected' = FALSE
  /\ UNCHANGED <<made, seq, packet, callVars, web, linkVars>>

(* disconnect() by rebuild_sessions; its exceptions are swallowed there.   *)
WebTests ==
  /\ "web" \in faulty /\ web = "none" /\ web' = IF sock = 0 THEN "done" ELSE "close"
  /\ UNCHANGED <<socketVars, seq, pc, packet, callVars, linkVars>>

WebCloses ==
  /\ web = "close" /\ CloseSocket /\ web' = IF sock = 0 THEN "done" ELSE "clear"
  /\ UNCHANGED <<seq, pc, packet, callVars, linkVars>>

WebClears ==
  /\ web = "clear" /\ ClearSocket /\ web' = "done"
  /\ UNCHANGED <<seq, pc, packet, callVars, linkVars>>

-----------------------------------------------------------------------------
(* The network and the camera.                                             *)

Arrive(i) ==
  LET c == net[i].command IN
  /\ camera' = IF c.axis \in Axes THEN [camera EXCEPT ![c.axis] = c.moves] ELSE camera
  /\ net' = RemoveAt(net, i)
  /\ UNCHANGED <<socketVars, seq, pc, packet, callVars, web, faults>>

Deliver == net # <<>> /\ Arrive(1)
DeliverEarly == "reorder" \in faulty /\ \E i \in 2..Len(net) : Arrive(i)

Lose ==
  /\ "lose" \in faulty /\ faults < MaxFaults[faulty] /\ faults' = faults + 1
  /\ \E i \in 1..Len(net) : net' = RemoveAt(net, i)
  /\ UNCHANGED <<socketVars, seq, pc, packet, callVars, web, camera>>

-----------------------------------------------------------------------------
Session == Encode \/ Sent
Transport == TestSocket \/ SendTo \/ SendToFails \/ SocketGone \/ HandleTests
             \/ HandleCloses \/ HandleMeetsNone \/ HandleClears \/ Retry \/ Raise
Web == WebTests \/ WebCloses \/ WebClears
Network == Deliver \/ DeliverEarly \/ Lose

Next ==
  /\ Call \/ Exit \/ EndOfScript \/ Kill \/ Session \/ Transport \/ Web \/ Network
  /\ UNCHANGED faulty

Spec == Init /\ [][Next]_vars

Quiet == pc = "idle" /\ net = <<>>

(* Whatever sends fail, once all datagrams arrived the flags are exactly   *)
(* what the camera does: a stop that was not sent is still owed, a retried *)
(* packet counts once.                                                     *)
FlagsMatchCamera == Quiet => flags = camera

(* Of two datagrams sent one after the other the second carries another    *)
(* number than the first, also across the wrap, a failed send and its      *)
(* retry.                                                                  *)
NumberedApart ==
  \A i \in 1..(Len(net) - 1) :
    \E d \in 1..(SeqNumbers - 1) : net[i + 1].seq = (net[i].seq + d) % SeqNumbers

(* Neither a retry nor a send that was given up, a disconnect or a kill    *)
(* makes a difference between what the session remembers and what it has   *)
(* sent, while the network keeps what it is given.                         *)
Ordered == faulty \cap {"lose", "reorder"} = {}
LinkIsExact == Ordered => FlagsMatchCamera /\ NumberedApart

(* Only a disconnect by another thread makes anything but a                *)
(* ConnectionError leave send(), which ends the poll loop.                 *)
FatalOnlyByWeb == pc = "fatal" => web # "none"

(* A script that ends with its block has stopped the camera, although one  *)
(* send failed, for the retry sends what it was.                           *)
StillAfterExit ==
  faulty = {} /\ pc = "ended" /\ net = <<>> /\ faults < 2 => \A a \in Axes : ~camera[a]
=============================================================================
