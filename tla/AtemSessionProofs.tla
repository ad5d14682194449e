-------------------------- MODULE AtemSessionProofs --------------------------
(* Proofs about AtemSession: between two applies, while the packet ids do not *)
(* wrap, an ACK is credited to its own packet and the backend keeps the       *)
(* contract of the switcher backends; for any sources, losses, errors,        *)
(* restarts and moves at the panel.                                           *)
EXTENDS AtemSession, SequenceTheorems, TLAPS

(* What the results are about.                                                *)
Undisturbed == MaxCommands <= IdMax

(* The loop has a packet of which it waits for the ACK or the effect.         *)
Active == pc \in {"sent", "ackEvent", "ackPoll", "check", "feedback", "feedbackPoll", "confirmed"}

(* Ids whose ACK may be under way or remembered: those of this session, the   *)
(* current command's only if the switcher has carried it out.                 *)
HonestIds == {i \in 1..localId : Active /\ i = cmd.id => cmd.n \in executed}
HonestPackets == {Ack(i) : i \in HonestIds} \cup {State(s) : s \in Pair}

Packets == [n : Commands, id : 1..IdMax, op : {"preview", "cut", "auto"}, src : Known, live : BOOLEAN]

Types ==
  /\ sw \in [program : Sources, preview : Sources, fading : BOOLEAN]
  /\ knows \in BOOLEAN /\ dirty \in BOOLEAN /\ socket \in BOOLEAN /\ confirmed \in BOOLEAN
  /\ stop \in BOOLEAN /\ rxError \in BOOLEAN /\ connected \in BOOLEAN /\ started \in BOOLEAN
  /\ rx \in {"off", "recv", "got"} /\ web = "idle"
  /\ pc \in {"idle", "sent", "ackEvent", "ackPoll", "check", "feedback",
             "feedbackPoll", "confirmed", "joining", "connecting", "sync"}
  /\ toSwitcher \subseteq Packets
  /\ \A p \in toSwitcher : p.op = "preview" => p.src \in Sources
  /\ issued \in 0..MaxCommands /\ localId \in 0..issued
  /\ executed \subseteq 1..issued
  /\ result \in [Commands -> {"none", "waiting", "done", "failed"}]
  /\ state \in Pair /\ fields \in Pair

(* A command is under way only in a confirmed session, whose socket is open   *)
(* and whose receiver was not told to stop; a closed socket has no session.   *)
LinkInv ==
  /\ confirmed => socket /\ ~stop
  /\ Active => confirmed
  /\ ~socket => ~knows /\ toClient = <<>> /\ \A p \in toSwitcher : ~p.live
  /\ pc = "joining" => ~socket
  /\ pc = "connecting" => rx = "off"
  /\ Active /\ cmd.op = "preview" => cmd.src \in Sources
  /\ Active => cmd.n \in 1..issued /\ cmd.id \in 1..localId /\ result[cmd.n] = "waiting"

(* Every ACK on its way to the client is of a packet that was carried out.    *)
QueueInv ==
  /\ toClient \in Seq(HonestPackets)
  /\ IF rx = "got" THEN packet \in HonestPackets ELSE packet = NoPacket

(* So is every remembered id, and a waiter is woken by its ACK or an error; a *)
(* packet under way is the only one of its command, which has not been carried*)
(* out, and if it is of this session no other command has its id.             *)
IdInv ==
  /\ acked \subseteq HonestIds
  /\ waiters \subseteq 1..localId /\ woken \subseteq 1..localId
  /\ \A p \in toSwitcher : p.n \in 1..issued /\ p.n \notin executed
  /\ \A p, q \in toSwitcher : p.n = q.n => p = q
  /\ \A p \in toSwitcher : p.live => p.id \in 1..localId
  /\ \A p \in toSwitcher : p.live /\ Active /\ p.id = cmd.id => p.n = cmd.n
  /\ Active /\ cmd.id \in woken => cmd.n \in executed \/ rxError
  /\ AckIsHonest

IInv == Types /\ LinkInv /\ QueueInv /\ IdInv

LEMMA InitInv == Init => IInv
<1>. SUFFICES ASSUME Init PROVE IInv
  OBVIOUS
<1>. USE SessionAssumption DEF Init
<1>1. Types
  <2>1. sw \in [program : Sources, preview : Sources, fading : BOOLEAN]
    OBVIOUS
  <2>2. issued \in 0..MaxCommands /\ localId \in 0..issued
    OBVIOUS
  <2>3. state \in Pair /\ fields \in Pair
    BY DEF Pair, Unknown, Known
  <2>. QED
    BY <2>1, <2>2, <2>3 DEF Types
<1>2. LinkInv
  BY DEF LinkInv, Active
<1>3. QueueInv
  BY EmptySeq DEF QueueInv
<1>4. IdInv
  BY DEF IdInv, AckIsHonest, Active
<1>. QED
  BY <1>1, <1>2, <1>3, <1>4 DEF IInv

(* What was honest stays so when ids only become more honest.                 *)
LEMMA QueueKept ==
  ASSUME QueueInv, UNCHANGED <<toClient, rx, packet>>, HonestIds \subseteq HonestIds'
  PROVE  QueueInv'
<1>1. HonestPackets \subseteq HonestPackets'
  BY DEF HonestPackets
<1>2. toClient' \in Seq(HonestPackets')
  BY <1>1, SeqMonotonic DEF QueueInv
<1>. QED
  BY <1>1, <1>2 DEF QueueInv

LEMMA Honest ==
  ASSUME QueueInv, toClient # <<>>
  PROVE  /\ Head(toClient) \in HonestPackets /\ Tail(toClient) \in Seq(HonestPackets)
         /\ AckOf(Head(toClient)) \subseteq HonestIds
         /\ Apply(Head(toClient)) \in Pair \cup {state}
         /\ (Head(toClient).kind = "ack") => Head(toClient).id \in HonestIds
<1>1. Head(toClient) \in HonestPackets /\ Tail(toClient) \in Seq(HonestPackets)
  BY HeadTailProperties DEF QueueInv
<1>. QED
  BY <1>1 DEF HonestPackets, AckOf, Apply, Ack, State, Pair

-----------------------------------------------------------------------------
(* The loop.                                                                  *)

LEMMA IdleStep ==
  ASSUME Undisturbed, IInv, Poll \/ RefuseCommand
  PROVE  IInv'
<1>. USE SessionAssumption
     DEF switcherVars, netVars, sessionVars, rxVars, ackVars, viewVars, loopVars, countVars, boundVars,
         IInv, Active
<1>1. CASE Poll
  <2>1. HonestIds \subseteq HonestIds'
    BY <1>1 DEF Poll, HonestIds
  <2>2. QueueInv'
    BY <1>1, <2>1, QueueKept DEF Poll
  <2>3. Types'
    BY <1>1 DEF Poll, Types, PollSucceeds
  <2>4. LinkInv'
    BY <1>1 DEF Poll, LinkInv
  <2>5. IdInv'
    BY <1>1, <2>1 DEF Poll, IdInv, AckIsHonest
  <2>. QED
    BY <2>2, <2>3, <2>4, <2>5
<1>2. CASE RefuseCommand
  <2>1. HonestIds \subseteq HonestIds'
    BY <1>2 DEF RefuseCommand, HonestIds
  <2>2. QueueInv'
    BY <1>2, <2>1, QueueKept DEF RefuseCommand
  <2>3. Types'
    BY <1>2 DEF RefuseCommand, Types, Commands
  <2>4. LinkInv'
    BY <1>2 DEF RefuseCommand, LinkInv
  <2>5. IdInv'
    BY <1>2, <2>1 DEF RefuseCommand, IdInv, AckIsHonest, Types
  <2>. QED
    BY <2>2, <2>3, <2>4, <2>5
<1>. QED
  BY <1>1, <1>2

LEMMA SendStep ==
  ASSUME Undisturbed, IInv, NEW op \in {"preview", "cut", "auto"}, NEW src \in Known,
         SendCommand(op, src)
  PROVE  IInv'
<1>. USE SessionAssumption
     DEF switcherVars, netVars, sessionVars, rxVars, ackVars, viewVars, loopVars, countVars, boundVars,
         IInv, Active
<1>. DEFINE n == issued + 1
            id == localId + 1
            new == [n |-> n, id |-> id, op |-> op, src |-> src, live |-> TRUE]
<1>0. /\ nextLocalId = id /\ id \in 1..IdMax /\ n \in Commands /\ id \in 1..n /\ n \in Nat /\ id \in Nat
      /\ new \in Packets /\ (op = "preview" => src \in Sources)
  BY DEF SendCommand, nextLocalId, Types, Commands, Undisturbed, Packets
<1>1. HonestIds \subseteq HonestIds'
  BY <1>0 DEF SendCommand, HonestIds, Types
<1>2. QueueInv'
  BY <1>1, QueueKept DEF SendCommand
<1>a. issued' \in 0..MaxCommands /\ localId' \in 0..issued' /\ executed' \subseteq 1..issued'
  <2>1. issued' = n /\ localId' = id /\ executed' = executed
    BY <1>0 DEF SendCommand
  <2>. QED
    BY <1>0, <2>1 DEF Types, Commands
<1>b. Commands = 1..MaxCommands /\ issued \in Nat /\ localId \in Nat /\ executed \subseteq 1..issued
  BY DEF Commands, Types
<1>3. CASE pc' = "sent"
  <2>1. /\ pc = "idle" /\ connected /\ socket /\ confirmed /\ issued' = n /\ localId' = id
        /\ waiters' \subseteq waiters \cup {id} /\ woken' \subseteq woken
        /\ toSwitcher' = toSwitcher \cup {new}
        /\ cmd' = [n |-> n, id |-> id, op |-> op, src |-> src, before |-> state]
        /\ result' = [result EXCEPT ![n] = "waiting"]
        /\ UNCHANGED <<sw, knows, dirty, toClient, socket, confirmed, stop, rxError, rx, packet, acked,
                       started, state, fields, connected, web, executed>>
    BY <1>0, <1>3 DEF SendCommand
  <2>2. Types'
    <3>1. toSwitcher' \subseteq Packets /\ \A q \in toSwitcher' : q.op = "preview" => q.src \in Sources
      <4>1. new.op = op /\ new.src = src
        OBVIOUS
      <4>. QED
        BY <1>0, <2>1, <4>1 DEF Types
    <3>2. result' \in [Commands -> {"none", "waiting", "done", "failed"}]
      BY <1>0, <2>1 DEF Types
    <3>. QED
      BY <1>a, <1>3, <2>1, <3>1, <3>2 DEF Types
  <2>3. LinkInv'
    BY <1>0, <1>3, <2>1 DEF LinkInv, Types
  <2>4. IdInv'
    <3>1. acked' \subseteq HonestIds'
      BY <1>1, <2>1 DEF IdInv
    <3>2. waiters' \subseteq 1..localId' /\ woken' \subseteq 1..localId' /\ id \notin woken'
      BY <1>b, <2>1 DEF IdInv
    <3>3. n \notin executed /\ \A q \in toSwitcher : q.n # n /\ (q.live => q.id # id)
      BY <1>b DEF IdInv
    <3>4. cmd'.n = n /\ cmd'.id = id /\ new.n = n /\ new.id = id
      BY <2>1
    <3>5. \A q \in toSwitcher' : q.n \in 1..issued' /\ q.n \notin executed'
      BY <1>b, <2>1, <3>3, <3>4 DEF IdInv
    <3>6. \A q, r \in toSwitcher' : q.n = r.n => q = r
      BY <2>1, <3>3, <3>4 DEF IdInv
    <3>7. \A q \in toSwitcher' : q.live => q.id \in 1..localId'
      BY <1>b, <2>1, <3>4 DEF IdInv
    <3>8. \A q \in toSwitcher' : q.live /\ q.id = cmd'.id => q.n = cmd'.n
      BY <2>1, <3>3, <3>4
    <3>. QED
      BY <1>3, <3>1, <3>2, <3>4, <3>5, <3>6, <3>7, <3>8 DEF IdInv, AckIsHonest
  <2>. QED
    BY <1>2, <2>2, <2>3, <2>4
<1>4. CASE pc' # "sent"
  <2>1. /\ pc = "idle" /\ pc' = pc /\ cmd' = cmd /\ issued' = n /\ localId' = id
        /\ waiters' \subseteq waiters \cup {id} /\ woken' \subseteq woken
        /\ result' = [result EXCEPT ![n] = "failed"]
        /\ UNCHANGED <<sw, knows, dirty, toClient, toSwitcher, socket, confirmed, stop, rxError, rx,
                       packet, acked, started, state, fields, connected, web, executed>>
    BY <1>0, <1>4 DEF SendCommand
  <2>2. Types'
    <3>1. result' \in [Commands -> {"none", "waiting", "done", "failed"}]
      BY <1>0, <2>1 DEF Types
    <3>. QED
      BY <1>a, <2>1, <3>1 DEF Types
  <2>3. LinkInv'
    BY <1>0, <2>1 DEF LinkInv
  <2>4. IdInv'
    <3>1. waiters' \subseteq 1..localId' /\ woken' \subseteq 1..localId'
      BY <1>b, <2>1 DEF IdInv
    <3>. QED
      BY <1>1, <1>b, <2>1, <3>1 DEF IdInv, AckIsHonest
  <2>. QED
    BY <1>2, <2>2, <2>3, <2>4
<1>. QED
  BY <1>3, <1>4

(* The loop goes on waiting for its command.                                  *)
LEMMA StaysActive ==
  ASSUME IInv, Active, Active', cmd' = cmd, fields' = fields, state' \in Pair,
         UNCHANGED <<switcherVars, toSwitcher, toClient, sessionVars, rxVars, localId, connected,
                     started, web, countVars>>,
         acked' \subseteq acked, waiters' \subseteq waiters \cup {cmd.id},
         woken' \subseteq woken \cup {cmd.id},
         cmd.id \in woken' => cmd.n \in executed \/ rxError,
         AckIsHonest'
  PROVE  IInv'
<1>. USE SessionAssumption
     DEF switcherVars, netVars, sessionVars, rxVars, countVars, IInv, Active
<1>1. HonestIds' = HonestIds
  BY DEF HonestIds
<1>2. QueueInv'
  BY <1>1, QueueKept
<1>3. Types'
  BY DEF Types
<1>4. LinkInv'
  BY DEF LinkInv
<1>5. IdInv'
  BY <1>1 DEF IdInv, LinkInv
<1>. QED
  BY <1>2, <1>3, <1>4, <1>5

(* The loop returns from its command, with success or failure.                *)
LEMMA Returns ==
  ASSUME IInv, Active, pc' = "idle", fields' \in Pair, state' = state,
         NEW r \in {"done", "failed"}, result' = [result EXCEPT ![cmd.n] = r],
         UNCHANGED <<switcherVars, netVars, sessionVars, rxVars, localId, connected,
                     started, web, issued, executed>>,
         acked' \subseteq acked, waiters' \subseteq waiters, woken' \subseteq woken
  PROVE  IInv'
<1>. USE SessionAssumption
     DEF switcherVars, netVars, sessionVars, rxVars, countVars, IInv, Active
<1>1. HonestIds \subseteq HonestIds'
  BY DEF HonestIds
<1>2. QueueInv'
  BY <1>1, QueueKept
<1>3. Types'
  <2>1. result' \in [Commands -> {"none", "waiting", "done", "failed"}]
    BY DEF Types
  <2>. QED
    BY <2>1 DEF Types
<1>4. LinkInv'
  BY DEF LinkInv
<1>5. IdInv'
  BY <1>1 DEF IdInv, AckIsHonest
<1>. QED
  BY <1>2, <1>3, <1>4, <1>5

(* The loop reads one datagram from the socket itself.                        *)
LEMMA ReadsItself ==
  ASSUME IInv, Active, Active', cmd' = cmd, toClient # <<>>, toClient' = Tail(toClient),
         Acknowledge(Head(toClient)),
         acked' \subseteq acked \cup AckOf(Head(toClient)), state' = Apply(Head(toClient)),
         UNCHANGED <<sw, knows, toSwitcher, sessionVars, rxVars, localId, waiters, woken, fields,
                     connected, started, web, countVars>>,
         AckIsHonest'
  PROVE  IInv'
<1>. USE SessionAssumption
     DEF switcherVars, netVars, sessionVars, rxVars, countVars, IInv, Active
<1>1. HonestIds' = HonestIds /\ HonestPackets' = HonestPackets
  BY DEF HonestIds, HonestPackets
<1>2. QueueInv'
  BY <1>1, Honest DEF QueueInv
<1>3. Types'
  <2>1. dirty' \in BOOLEAN
    BY DEF Acknowledge, Types
  <2>2. state' \in Pair
    BY Honest DEF Types
  <2>. QED
    BY <2>1, <2>2 DEF Types
<1>4. LinkInv'
  BY DEF LinkInv
<1>5. IdInv'
  BY <1>1, Honest DEF IdInv, LinkInv
<1>. QED
  BY <1>2, <1>3, <1>4, <1>5

LEMMA WaitForAckStep ==
  ASSUME Undisturbed, IInv, WaitForAck
  PROVE  IInv'
<1>. USE DEF switcherVars, netVars, sessionVars, rxVars, ackVars, viewVars, loopVars, countVars, boundVars
<1>1. CASE StartAckWait
  <2>1. Active /\ Active' /\ cmd' = cmd
    BY <1>1 DEF StartAckWait, Active
  <2>2. acked \subseteq HonestIds /\ cmd.id \in 1..localId
        /\ (cmd.id \in woken => cmd.n \in executed \/ rxError)
    BY <2>1 DEF IInv, IdInv, LinkInv
  <2>3. cmd.id \in acked => cmd.n \in executed
    BY <2>1, <2>2 DEF HonestIds
  <2>4. AckIsHonest'
    BY <1>1, <2>3 DEF StartAckWait, AckIsHonest
  <2>5. woken' \subseteq woken \cup {cmd.id} /\ waiters' \subseteq waiters \cup {cmd.id}
        /\ (cmd.id \in woken' => cmd.id \in woken \/ cmd.id \in acked)
    BY <1>1 DEF StartAckWait
  <2>. QED
    BY <1>1, <2>1, <2>2, <2>3, <2>4, <2>5, StaysActive DEF StartAckWait, IInv, Types
<1>2. CASE AckWoken
  <2>1. Active /\ Active' /\ cmd' = cmd
    BY <1>2 DEF AckWoken, Active
  <2>2. acked \subseteq HonestIds /\ cmd.id \in 1..localId
        /\ (cmd.id \in woken => cmd.n \in executed \/ rxError)
    BY <2>1 DEF IInv, IdInv, LinkInv
  <2>3. cmd.id \in acked => cmd.n \in executed
    BY <2>1, <2>2 DEF HonestIds
  <2>4. AckIsHonest'
    BY <1>2, <2>2, <2>3 DEF AckWoken, CountsAsAck, AckIsHonest
  <2>. QED
    BY <1>2, <2>1, <2>2, <2>4, StaysActive DEF AckWoken, IInv, Types
<1>3. CASE ReceiverFailed \/ AckTimeout \/ AckReadFails
  <2>1. Active /\ Fail /\ waiters' \subseteq waiters /\ woken' = woken
    BY <1>3 DEF ReceiverFailed, AckTimeout, AckReadFails, Active
  <2>. QED
    BY <2>1, Returns DEF Fail, Report, IInv, Types
<1>4. CASE ReadAck
  <2>1. Active /\ Active' /\ cmd' = cmd
    BY <1>4 DEF ReadAck, Active
  <2>2. Head(toClient).kind = "ack" /\ Head(toClient).id = cmd.id => cmd.n \in executed
    BY <1>4, <2>1, Honest DEF ReadAck, IInv, HonestIds
  <2>3. AckIsHonest'
    BY <1>4, <2>2 DEF ReadAck, AckIsHonest
  <2>. QED
    BY <1>4, <2>1, <2>3, ReadsItself DEF ReadAck
<1>. QED
  BY <1>1, <1>2, <1>3, <1>4 DEF WaitForAck

LEMMA WaitForFeedbackStep ==
  ASSUME Undisturbed, IInv, WaitForFeedback
  PROVE  IInv'
<1>. USE DEF switcherVars, netVars, sessionVars, rxVars, ackVars, viewVars, loopVars, countVars, boundVars
<1>1. CASE Confirmed
  <2>1. Active /\ pc' = "idle"
    BY <1>1 DEF Confirmed, Active
  <2>2. fields \in Pair /\ toSwitcher \subseteq Packets
    BY DEF IInv, Types
  <2>3. cmd.op = "preview" => cmd.src \in Known
    BY <2>1 DEF IInv, LinkInv, Known
  <2>4. fields' \in Pair
    BY <1>1, <2>2, <2>3 DEF Confirmed, Pair
  <2>. QED
    BY <1>1, <2>1, <2>4, Returns DEF Confirmed, Report
<1>2. CASE StartFeedbackWait
  <2>1. Active /\ Active' /\ cmd' = cmd /\ AckIsHonest'
    BY <1>2 DEF StartFeedbackWait, FeedbackWait, Active, AckIsHonest, IInv, IdInv
  <2>2. cmd.id \in woken => cmd.n \in executed \/ rxError
    BY <2>1 DEF IInv, IdInv
  <2>. QED
    BY <1>2, <2>1, <2>2, StaysActive DEF StartFeedbackWait, FeedbackWait, IInv, Types
<1>3. CASE NotConfirmed \/ FeedbackReadFails
  <2>1. Active /\ Fail /\ waiters' \subseteq waiters /\ woken' = woken
    BY <1>3 DEF NotConfirmed, FeedbackReadFails, Active
  <2>. QED
    BY <2>1, Returns DEF Fail, Report, IInv, Types
<1>4. CASE ReadFeedback
  <2>1. Active /\ Active' /\ cmd' = cmd /\ AckIsHonest'
    BY <1>4 DEF ReadFeedback, Active, AckIsHonest, IInv, IdInv
  <2>. QED
    BY <1>4, <2>1, ReadsItself DEF ReadFeedback
<1>. QED
  BY <1>1, <1>2, <1>3, <1>4 DEF WaitForFeedback

-----------------------------------------------------------------------------
(* Connecting, the receiver, the switcher and the network.                    *)

LEMMA ConnectingStep ==
  ASSUME Undisturbed, IInv, Connecting
  PROVE  IInv'
<1>. USE SessionAssumption
     DEF switcherVars, netVars, sessionVars, rxVars, ackVars, viewVars, loopVars, countVars, boundVars,
         Active
<1>1. CASE StartReconnect \/ HandshakeFails
  <2>1. /\ CloseSocket /\ stop' = TRUE /\ pc \in {"idle", "connecting"}
        /\ pc' \in {"idle", "joining", "sync"} /\ started' \in BOOLEAN
        /\ UNCHANGED <<sw, dirty, rxError, rx, packet, localId, acked, waiters, woken, state, fields,
                       connected, cmd, web, issued, executed, result>>
    BY <1>1 DEF StartReconnect, HandshakeFails, IInv, Types
  <2>2. HonestIds \subseteq HonestIds'
    BY <2>1 DEF HonestIds
  <2>3. QueueInv'
    BY <2>1, <2>2, EmptySeq DEF CloseSocket, QueueInv, IInv, HonestPackets
  <2>4. \A q \in toSwitcher' : \E p \in toSwitcher : q = [p EXCEPT !.live = FALSE]
    BY <2>1 DEF CloseSocket
  <2>5. \A q \in toSwitcher' : ~q.live
    BY <2>4 DEF IInv, Types, Packets
  <2>6. toSwitcher' \subseteq Packets
    <3>1. \A p \in Packets : [p EXCEPT !.live = FALSE] \in Packets
      BY DEF Packets
    <3>. QED
      BY <2>4, <3>1 DEF IInv, Types
  <2>7. \A q \in toSwitcher' : q.op = "preview" => q.src \in Sources
    BY <2>4 DEF IInv, Types, Packets
  <2>8. Types'
    BY <2>1, <2>6, <2>7 DEF CloseSocket, IInv, Types
  <2>9. LinkInv'
    BY <2>1, <2>5 DEF CloseSocket, IInv, LinkInv
  <2>10. \A q \in toSwitcher' : q.n \in 1..issued /\ q.n \notin executed
    BY <2>4 DEF IInv, Types, Packets, IdInv
  <2>11. \A q, r \in toSwitcher' : q.n = r.n => q = r
    <3>1. TAKE q, r \in toSwitcher'
    <3>2. PICK p1 \in toSwitcher : q = [p1 EXCEPT !.live = FALSE]
      BY <2>4
    <3>3. PICK p2 \in toSwitcher : r = [p2 EXCEPT !.live = FALSE]
      BY <2>4
    <3>4. q.n = p1.n /\ r.n = p2.n
      BY <3>2, <3>3 DEF IInv, Types, Packets
    <3>. QED
      BY <3>2, <3>3, <3>4 DEF IInv, IdInv
  <2>12. IdInv'
    BY <2>1, <2>2, <2>5, <2>10, <2>11 DEF IInv, IdInv, AckIsHonest
  <2>. QED
    BY <2>3, <2>8, <2>9, <2>12 DEF IInv
<1>2. CASE OpenSocket
  <2>1. /\ pc = "joining" /\ rx = "off" /\ pc' = "connecting" /\ socket' = TRUE /\ confirmed' = FALSE
        /\ localId' = 0 /\ acked' = {} /\ waiters' = {} /\ woken' = {} /\ state' = Unknown
        /\ UNCHANGED <<sw, knows, dirty, toSwitcher, toClient, stop, rxError, rx, packet, fields,
                       connected, cmd, started, web, issued, executed, result>>
    BY <1>2 DEF OpenSocket, FreshSession
  <2>2. toClient = <<>> /\ \A p \in toSwitcher : ~p.live
    BY <2>1 DEF IInv, LinkInv
  <2>3. QueueInv'
    BY <2>1, <2>2, EmptySeq DEF QueueInv, IInv
  <2>4. Types'
    <3>1. state' \in Pair
      BY <2>1 DEF Unknown, Pair, Known
    <3>2. issued' \in 0..MaxCommands /\ localId' \in 0..issued' /\ executed' \subseteq 1..issued'
      BY <2>1 DEF IInv, Types
    <3>. QED
      BY <2>1, <3>1, <3>2 DEF IInv, Types
  <2>5. LinkInv'
    BY <2>1, <2>2 DEF IInv, LinkInv
  <2>6. IdInv'
    BY <2>1, <2>2 DEF IInv, IdInv, AckIsHonest
  <2>. QED
    BY <2>3, <2>4, <2>5, <2>6 DEF IInv
<1>3. CASE HandshakeDone
  <2>1. /\ pc = "connecting" /\ socket /\ rx = "off" /\ pc' = "idle" /\ knows' = TRUE /\ confirmed' = TRUE
        /\ stop' = FALSE /\ rxError' = FALSE /\ rx' = "recv" /\ connected' = TRUE /\ started' = TRUE
        /\ UNCHANGED <<sw, toSwitcher, toClient, socket, packet, localId, acked, waiters, woken, cmd, web,
                       issued, executed, result>>
    BY <1>3 DEF HandshakeDone, IInv, LinkInv
  <2>2. state' \in Pair /\ fields' \in Pair /\ dirty' \in BOOLEAN
    BY <1>3 DEF HandshakeDone, Shown, Pair, Known, IInv, Types
  <2>3. HonestIds \subseteq HonestIds'
    BY <2>1 DEF HonestIds
  <2>4. HonestPackets \subseteq HonestPackets'
    BY <2>3 DEF HonestPackets
  <2>5. QueueInv'
    BY <2>1, <2>4, SeqMonotonic DEF QueueInv, IInv
  <2>6. Types'
    BY <2>1, <2>2 DEF IInv, Types
  <2>7. LinkInv'
    BY <2>1 DEF IInv, LinkInv
  <2>8. IdInv'
    BY <2>1, <2>3 DEF IInv, IdInv, AckIsHonest
  <2>. QED
    BY <2>5, <2>6, <2>7, <2>8 DEF IInv
<1>. QED
  BY <1>1, <1>2, <1>3 DEF Connecting

LEMMA ReceiverStep ==
  ASSUME Undisturbed, IInv, Receiver
  PROVE  IInv'
<1>. USE SessionAssumption
     DEF switcherVars, netVars, sessionVars, rxVars, ackVars, viewVars, loopVars, countVars, boundVars,
         IInv, Active
<1>1. HonestIds' = HonestIds /\ HonestPackets' = HonestPackets
  BY DEF Receiver, RxReceive, RxDispatch, RxEnd, HonestIds, HonestPackets
<1>2. CASE RxReceive
  <2>1. QueueInv'
    BY <1>1, <1>2, Honest DEF RxReceive, QueueInv
  <2>2. dirty' \in BOOLEAN
    BY <1>2 DEF RxReceive, Acknowledge, Types
  <2>3. Types'
    BY <1>2, <2>2 DEF RxReceive, Types
  <2>4. LinkInv'
    BY <1>2 DEF RxReceive, LinkInv
  <2>5. acked' \subseteq HonestIds
    BY <1>2, Honest DEF RxReceive, IdInv
  <2>6. IdInv'
    BY <1>1, <1>2, <2>5 DEF RxReceive, IdInv, AckIsHonest
  <2>. QED
    BY <2>1, <2>3, <2>4, <2>6
<1>3. CASE RxDispatch
  <2>1. packet \in HonestPackets
    BY <1>3 DEF RxDispatch, QueueInv
  <2>2. AckOf(packet) \subseteq HonestIds /\ Apply(packet) \in Pair
    BY <2>1 DEF HonestPackets, AckOf, Apply, Ack, State, Pair, Types
  <2>3. QueueInv'
    BY <1>1, <1>3 DEF RxDispatch, QueueInv
  <2>4. Types'
    <3>1. state' \in Pair /\ rx' \in {"off", "recv", "got"}
      BY <1>3, <2>2 DEF RxDispatch
    <3>2. UNCHANGED <<sw, knows, dirty, toSwitcher, socket, confirmed, stop, rxError, localId, fields, connected,
                      started, pc, web, issued, executed, result>>
      BY <1>3 DEF RxDispatch
    <3>3. Types
      OBVIOUS
    <3>. QED
      BY ONLY <3>1, <3>2, <3>3 DEF Types
  <2>5. LinkInv'
    BY <1>3 DEF RxDispatch, LinkInv
  <2>6. Active => socket /\ ~stop
    BY DEF LinkInv
  <2>7. /\ woken' \subseteq woken \cup waiters
        /\ Active /\ cmd.id \in woken' => cmd.id \in woken \/ cmd.id \in HonestIds
    BY <1>3, <2>2, <2>6 DEF RxDispatch, Wake
  <2>8. Active /\ cmd.id \in woken' => cmd.n \in executed \/ rxError
    BY <2>7 DEF IdInv, HonestIds
  <2>9. IdInv'
    BY <1>1, <1>3, <2>7, <2>8 DEF RxDispatch, IdInv, AckIsHonest
  <2>. QED
    BY <2>3, <2>4, <2>5, <2>9
<1>4. CASE RxEnd
  <2>1. QueueInv'
    BY <1>1, <1>4 DEF RxEnd, QueueInv
  <2>2. Types'
    <3>1. rx' \in {"off", "recv", "got"} /\ rxError' \in BOOLEAN
      BY <1>4 DEF RxEnd, Types
    <3>2. UNCHANGED <<sw, knows, dirty, toSwitcher, socket, confirmed, stop, localId, state, fields, connected,
                      started, pc, web, issued, executed, result>>
      BY <1>4 DEF RxEnd
    <3>3. Types
      OBVIOUS
    <3>. QED
      BY ONLY <3>1, <3>2, <3>3 DEF Types
  <2>3. LinkInv'
    BY <1>4 DEF RxEnd, LinkInv
  <2>4. Active => rxError'
    BY <1>4 DEF RxEnd, LinkInv
  <2>5. IdInv'
    BY <1>1, <1>4, <2>4 DEF RxEnd, Wake, IdInv, AckIsHonest
  <2>. QED
    BY <2>1, <2>2, <2>3, <2>5
<1>. QED
  BY <1>2, <1>3, <1>4 DEF Receiver

LEMMA ShortSequences ==
  ASSUME NEW S, NEW e \in S
  PROVE  <<>> \in Seq(S) /\ <<e>> \in Seq(S)
  OBVIOUS

(* The switcher carries out a packet under way: it is the first of its command*)
(* and its ACK, if any goes to this session, is honest from now on.           *)
LEMMA ExecuteStep ==
  ASSUME Undisturbed, IInv, NEW p \in toSwitcher, Execute(p)
  PROVE  IInv'
<1>. USE SessionAssumption
     DEF switcherVars, netVars, sessionVars, rxVars, ackVars, viewVars, loopVars, countVars, boundVars,
         Active
<1>. DEFINE s == CASE p.op = "preview" -> [sw EXCEPT !.preview = p.src]
                   [] p.op = "cut" -> Swapped
                   [] p.op = "auto" -> [sw EXCEPT !.fading = TRUE]
            shown == IF p.op = "auto" THEN <<>> ELSE StateOf(s)
            answer == (IF p.live THEN <<Ack(p.id)>> ELSE <<>>) \o shown
<1>1. /\ toSwitcher' = toSwitcher \ {p} /\ executed' = executed \cup {p.n}
      /\ Enter(s, answer) /\ (knows \/ ~p.live)
      /\ UNCHANGED <<knows, socket, confirmed, stop, rxError, rx, packet, localId, acked, waiters, woken,
                     state, fields, connected, pc, cmd, started, web, issued, result>>
  BY DEF Execute
<1>2. p \in Packets /\ p.n \in 1..issued /\ (p.op = "preview" => p.src \in Sources)
  BY DEF IInv, Types, IdInv
<1>3. s \in [program : Sources, preview : Sources, fading : BOOLEAN]
  BY <1>2 DEF Packets, Swapped, IInv, Types
<1>4. HonestIds \subseteq HonestIds' /\ HonestPackets \subseteq HonestPackets'
  BY <1>1 DEF HonestIds, HonestPackets
<1>5. shown \in Seq(HonestPackets')
  <2>1. State([program |-> s.program, preview |-> s.preview]) \in HonestPackets'
    BY <1>3 DEF HonestPackets, Pair, Known
  <2>2. shown = <<>> \/ shown = <<State([program |-> s.program, preview |-> s.preview])>>
    BY DEF StateOf
  <2>. HIDE DEF shown, s
  <2>. QED
    BY <2>1, <2>2, ShortSequences
<1>6. p.live => p.id \in HonestIds'
  BY <1>1 DEF HonestIds, IInv, IdInv
<1>7. answer \in Seq(HonestPackets')
  <2>1. (IF p.live THEN <<Ack(p.id)>> ELSE <<>>) \in Seq(HonestPackets')
    <3>1. p.live => Ack(p.id) \in HonestPackets'
      BY <1>6 DEF HonestPackets
    <3>2. State(Unknown) \in HonestPackets'
      BY DEF HonestPackets, Unknown, Pair, Known
    <3>. QED
      BY <3>1, <3>2, ShortSequences
  <2>. HIDE DEF shown
  <2>. QED
    BY <1>5, <2>1
<1>. HIDE DEF s, answer
<1>8. toClient' \in Seq(HonestPackets')
  <2>1. toClient \in Seq(HonestPackets')
    BY <1>4, SeqMonotonic DEF IInv, QueueInv
  <2>. QED
    BY <1>1, <1>7, <2>1, ConcatProperties DEF Enter
<1>9. QueueInv'
  BY <1>1, <1>4, <1>8 DEF IInv, QueueInv
<1>10. Types'
  <2>1. sw' = s /\ dirty' \in BOOLEAN
    BY <1>1 DEF Enter, IInv, Types
  <2>2. executed' \subseteq 1..issued' /\ issued' \in 0..MaxCommands /\ localId' \in 0..issued'
    BY <1>1, <1>2 DEF IInv, Types
  <2>. QED
    BY <1>1, <1>3, <2>1, <2>2 DEF IInv, Types
<1>11. LinkInv'
  <2>1. ~socket => toClient' = toClient
    BY <1>1 DEF Enter, IInv, LinkInv
  <2>. QED
    BY <1>1, <2>1 DEF IInv, LinkInv
<1>12. IdInv'
  <2>1. \A q \in toSwitcher' : q \in toSwitcher /\ q.n # p.n
    BY <1>1 DEF IInv, IdInv
  <2>2. \A q \in toSwitcher' : q.n \in 1..issued' /\ q.n \notin executed'
    BY <1>1, <2>1 DEF IInv, IdInv
  <2>. QED
    BY <1>1, <1>4, <2>1, <2>2 DEF IInv, IdInv, AckIsHonest
<1>. QED
  BY <1>9, <1>10, <1>11, <1>12 DEF IInv

(* The switcher and the network on their own: the panel, the end of a fade, a *)
(* repeated state, a loss, a restart.  No command is carried out.             *)
LEMMA OnItsOwn ==
  ASSUME IInv, toSwitcher' \subseteq toSwitcher, toClient' \in Seq(HonestPackets),
         ~socket => ~knows' /\ toClient' = <<>>,
         sw' \in [program : Sources, preview : Sources, fading : BOOLEAN],
         knows' \in BOOLEAN, dirty' \in BOOLEAN,
         UNCHANGED <<socket, confirmed, stop, rxError, rx, packet, localId, acked, waiters, woken, state,
                     fields, connected, pc, cmd, started, web, issued, executed, result>>
  PROVE  IInv'
<1>. USE SessionAssumption DEF Active, IInv
<1>1. HonestIds' = HonestIds /\ HonestPackets' = HonestPackets
  BY DEF HonestIds, HonestPackets
<1>2. QueueInv'
  BY <1>1 DEF QueueInv
<1>3. Types'
  BY DEF Types
<1>4. LinkInv'
  BY DEF LinkInv
<1>5. IdInv'
  BY <1>1 DEF IdInv, AckIsHonest
<1>. QED
  BY <1>2, <1>3, <1>4, <1>5

LEMMA SwitcherStep ==
  ASSUME Undisturbed, IInv, Switcher
  PROVE  IInv'
<1>. USE SessionAssumption
     DEF switcherVars, netVars, sessionVars, rxVars, ackVars, viewVars, loopVars, countVars, boundVars
<1>0. /\ sw \in [program : Sources, preview : Sources, fading : BOOLEAN] /\ dirty \in BOOLEAN
      /\ knows \in BOOLEAN /\ (~socket => ~knows /\ toClient = <<>>) /\ toClient \in Seq(HonestPackets)
  BY DEF IInv, Types, LinkInv, QueueInv
<1>1. ASSUME NEW s \in [program : Sources, preview : Sources, fading : BOOLEAN], Enter(s, StateOf(s))
      PROVE  /\ toClient' \in Seq(HonestPackets) /\ (~socket => ~knows /\ toClient' = <<>>)
             /\ sw' = s /\ dirty' \in BOOLEAN
  <2>1. State([program |-> s.program, preview |-> s.preview]) \in HonestPackets
    BY DEF HonestPackets, Pair, Known
  <2>2. StateOf(s) \in Seq(HonestPackets)
    BY <2>1 DEF StateOf
  <2>. QED
    BY <1>0, <1>1, <2>2, ConcatProperties DEF Enter
<1>2. CASE \E p \in toSwitcher : Execute(p)
  BY <1>2, ExecuteStep
<1>3. CASE \E s \in Sources : Panel(s)
  <2>1. PICK s \in Sources : Panel(s)
    BY <1>3
  <2>2. [sw EXCEPT !.preview = s] \in [program : Sources, preview : Sources, fading : BOOLEAN]
    BY <1>0
  <2>3. Enter([sw EXCEPT !.preview = s], StateOf([sw EXCEPT !.preview = s]))
    BY <2>1 DEF Panel
  <2>. QED
    BY <1>0, <1>1, <2>1, <2>2, <2>3, OnItsOwn DEF Panel
<1>4. CASE FadeEnds
  <2>1. Swapped \in [program : Sources, preview : Sources, fading : BOOLEAN]
    BY <1>0 DEF Swapped
  <2>. QED
    BY <1>0, <1>1, <1>4, <2>1, OnItsOwn DEF FadeEnds
<1>5. CASE Repeat
  <2>1. State(Shown) \in HonestPackets
    BY <1>0 DEF Shown, HonestPackets, Pair, Known
  <2>2. toClient' \in Seq(HonestPackets)
    BY <1>5, <2>1 DEF Repeat
  <2>. QED
    BY <1>0, <1>5, <2>2, OnItsOwn DEF Repeat
<1>6. CASE Lose
  <2>1. toClient' \in Seq(HonestPackets) /\ (~socket => toClient' = <<>>)
    BY <1>0, <1>6, HeadTailProperties DEF Lose
  <2>. QED
    BY <1>0, <1>6, <2>1, OnItsOwn DEF Lose
<1>7. CASE Restart
  <2>1. toClient' \in Seq(HonestPackets) /\ toClient' = <<>> /\ toSwitcher' = {}
    BY <1>7, EmptySeq DEF Restart
  <2>2. sw' \in [program : Sources, preview : Sources, fading : BOOLEAN]
    BY <1>0, <1>7 DEF Restart
  <2>. QED
    BY <1>0, <1>7, <2>1, <2>2, OnItsOwn DEF Restart
<1>8. CASE Overtake
  <2>1. Len(toClient) >= 2 /\ toClient' = <<toClient[2], toClient[1]>> \o SubSeq(toClient, 3, Len(toClient))
    BY <1>8 DEF Overtake
  <2>2. toClient[1] \in HonestPackets /\ toClient[2] \in HonestPackets
    BY <1>0, <2>1
  <2>3. SubSeq(toClient, 3, Len(toClient)) \in Seq(HonestPackets)
    BY <1>0, <2>1, SubSeqProperties
  <2>4. <<toClient[2], toClient[1]>> \in Seq(HonestPackets)
    BY <2>2
  <2>5. toClient' \in Seq(HonestPackets) /\ toClient # <<>>
    BY <2>1, <2>3, <2>4, ConcatProperties
  <2>. QED
    BY <1>0, <1>8, <2>5, OnItsOwn DEF Overtake
<1>. QED
  BY <1>2, <1>3, <1>4, <1>5, <1>6, <1>7, <1>8 DEF Switcher

LEMMA NextInv ==
  ASSUME Undisturbed, IInv, [Next]_vars
  PROVE  IInv'
<1>1. CASE \E op \in {"preview", "cut", "auto"}, src \in Known : SendCommand(op, src)
  BY <1>1, SendStep
<1>2. CASE UNCHANGED vars
  BY <1>2 DEF vars, IInv, Types, LinkInv, QueueInv, IdInv, AckIsHonest, HonestPackets, HonestIds, Active
<1>. QED
  BY <1>1, <1>2, IdleStep, WaitForAckStep, WaitForFeedbackStep, ConnectingStep, ReceiverStep,
     SwitcherStep DEF Next

THEOREM SessionInvariant == Undisturbed /\ Spec => []IInv
<1>1. Init => IInv
  BY InitInv
<1>2. Undisturbed /\ IInv /\ [Next]_vars => IInv'
  BY NextInv
<1>3. Undisturbed => Undisturbed'
  BY DEF Undisturbed
<1>. QED
  BY <1>1, <1>2, <1>3, PTL DEF Spec

(* An ACK is credited to the packet it answers, for any sources, losses,      *)
(* errors and restarts: a late ACK cannot confirm the transport of a later    *)
(* command.  Without the assumption it fails: an id that is used again counts *)
(* as acknowledged by the late ACK of its first packet.                       *)
THEOREM AckHonest == Undisturbed /\ Spec => []AckIsHonest
<1>1. IInv => AckIsHonest
  BY DEF IInv, IdInv
<1>. QED
  BY <1>1, SessionInvariant, PTL

(* Every variable of the session keeps its type.                              *)
THEOREM TypeCorrect == Undisturbed /\ Spec => []TypeOK
<1>1. ASSUME Undisturbed, IInv PROVE TypeOK
  <2>. USE <1>1, SessionAssumption DEF IInv
  <2>1. /\ sw \in [program : Sources, preview : Sources, fading : BOOLEAN]
        /\ {knows, dirty, socket, confirmed, stop, rxError, connected, started} \subseteq BOOLEAN
    BY DEF Types
  <2>2. \A p \in toSwitcher :
          /\ p.n \in Commands /\ p.id \in 1..IdMax /\ p.live \in BOOLEAN
          /\ p.op \in {"preview", "cut", "auto"} /\ p.src \in Known
    BY DEF Types, Packets
  <2>3. issued \in 0..MaxCommands /\ localId \in 0..issued
    BY DEF Types
  <2>4. localId \in 0..IdMax /\ {acked, waiters, woken} \subseteq SUBSET (1..IdMax)
    <3>1. 1..localId \subseteq 1..IdMax /\ localId \in 0..IdMax
      BY <2>3 DEF Undisturbed
    <3>. QED
      BY <3>1 DEF IdInv, HonestIds
  <2>5. \A k \in 1..Len(toClient) :
           \/ \E i \in 1..IdMax : toClient[k] = Ack(i)
           \/ \E s \in Pair : toClient[k] = State(s)
    <3>1. \A k \in 1..Len(toClient) : toClient[k] \in HonestPackets
      BY DEF QueueInv
    <3>2. HonestIds \subseteq 1..IdMax
      BY <2>3 DEF Undisturbed, HonestIds
    <3>. QED
      BY <3>1, <3>2 DEF HonestPackets
  <2>6. /\ rx \in {"off", "recv", "got"} /\ web \in {"idle", "stopped", "closed"}
        /\ state \in Pair /\ fields \in Pair
        /\ pc \in {"idle", "sent", "ackEvent", "ackPoll", "check", "feedback",
                   "feedbackPoll", "confirmed", "joining", "connecting", "sync"}
        /\ issued \in 0..MaxCommands /\ executed \subseteq Commands
        /\ result \in [Commands -> {"none", "waiting", "done", "failed"}]
    BY <2>3 DEF Types, Commands
  <2>. QED
    BY ONLY <2>1, <2>2, <2>4, <2>5, <2>6 DEF TypeOK
<1>2. Undisturbed => Undisturbed'
  BY DEF Undisturbed
<1>. QED
  BY <1>1, <1>2, SessionInvariant, PTL

-----------------------------------------------------------------------------
(* The contract.                                                              *)

LEMMA CommandRefines ==
  ASSUME IInv, RefuseCommand \/ \E op \in {"preview", "cut", "auto"}, src \in Known : SendCommand(op, src)
  PROVE  Contract!Next
<1>. USE SessionAssumption DEF loopVars, countVars, boundVars
<1>1. issued \in Nat
  BY DEF IInv, Types
<1>2. /\ issued' = issued + 1 /\ issued < MaxCommands /\ UNCHANGED executed
      /\ \/ result' = [result EXCEPT ![issued + 1] = "waiting"]
         \/ result' = [result EXCEPT ![issued + 1] = "failed"]
  BY DEF SendCommand, RefuseCommand
<1>3. issued + 1 \in Commands /\ 1..issued' = 1..issued \cup {issued + 1} /\ issued + 1 \notin 1..issued
  BY <1>1, <1>2 DEF Commands
<1>4. [n \in Commands |-> IF n \in 1..issued' THEN 1 ELSE 0]
      = [[n \in Commands |-> IF n \in 1..issued THEN 1 ELSE 0] EXCEPT ![issued + 1] = 1]
  BY <1>1, <1>2, <1>3 DEF Commands
<1>5. PICK n \in Commands : n = issued + 1
  BY <1>3
<1>6. Contract!Issue(n) \/ Contract!Refuse(n)
  BY <1>2, <1>3, <1>4, <1>5 DEF Contract!Issue, Contract!Refuse
<1>. QED
  BY <1>6 DEF Contract!Next

LEMMA WaitRefines ==
  ASSUME IInv, WaitForAck \/ WaitForFeedback
  PROVE  Contract!Next \/ UNCHANGED Contract!vars
<1>. USE DEF countVars
<1>0. LinkInv /\ issued \in 0..MaxCommands /\ MaxCommands \in Nat
  BY SessionAssumption DEF IInv, Types
<1>1. CASE ReceiverFailed \/ AckTimeout \/ AckReadFails \/ NotConfirmed \/ FeedbackReadFails
  <2>1. Active /\ Fail
    BY <1>1 DEF ReceiverFailed, AckTimeout, AckReadFails, NotConfirmed, FeedbackReadFails, Active
  <2>2. cmd.n \in Commands /\ result[cmd.n] = "waiting"
    BY <2>1, <1>0 DEF LinkInv, Commands
  <2>3. Contract!Fail(cmd.n)
    BY <2>1, <2>2 DEF Fail, Report, Contract!Fail
  <2>. QED
    BY <2>2, <2>3 DEF Contract!Next
<1>2. CASE Confirmed
  <2>1. Active /\ cmd.n \in executed
    BY <1>2 DEF Confirmed, Active, IInv, IdInv, AckIsHonest
  <2>2. cmd.n \in Commands /\ result[cmd.n] = "waiting"
    BY <2>1, <1>0 DEF LinkInv, Commands
  <2>3. cmd.n \in 1..issued
    BY <2>1, <1>0 DEF LinkInv
  <2>4. Contract!Succeed(cmd.n)
    BY <1>2, <2>1, <2>2, <2>3 DEF Confirmed, Report, Contract!Succeed
  <2>. QED
    BY <2>2, <2>4 DEF Contract!Next
<1>3. CASE StartAckWait \/ AckWoken \/ ReadAck \/ StartFeedbackWait \/ ReadFeedback
  <2>1. UNCHANGED <<issued, executed, result>>
    BY <1>3 DEF StartAckWait, AckWoken, ReadAck, StartFeedbackWait, ReadFeedback
  <2>. QED
    BY <2>1 DEF Contract!vars
<1>. QED
  BY <1>1, <1>2, <1>3 DEF WaitForAck, WaitForFeedback

LEMMA StepRefines ==
  ASSUME IInv, [Next]_vars
  PROVE  Contract!Next \/ UNCHANGED Contract!vars
<1>. USE DEF countVars
<1>1. CASE \E p \in toSwitcher : Execute(p)
  <2>1. PICK p \in toSwitcher : Execute(p)
    BY <1>1
  <2>2. p.n \in 1..issued /\ p.n \in Commands /\ p.n \notin executed
    BY DEF IInv, IdInv, Types, Packets
  <2>3. /\ 1 \in 1..(IF p.n \in 1..issued THEN 1 ELSE 0)
        /\ <<p.n, 1>> \notin executed \X {1} /\ executed' = executed \cup {p.n}
        /\ (executed \cup {p.n}) \X {1} = (executed \X {1}) \cup {<<p.n, 1>>}
        /\ UNCHANGED <<issued, result>>
    BY <2>1, <2>2 DEF Execute
  <2>4. Contract!Execute(p.n)
    BY <2>2, <2>3 DEF Contract!Execute
  <2>. QED
    BY <2>2, <2>4 DEF Contract!Next
<1>2. ASSUME UNCHANGED <<issued, executed, result>> PROVE UNCHANGED Contract!vars
  BY <1>2 DEF Contract!vars
<1>3. CASE Poll \/ Connecting \/ Receiver
  BY <1>2, <1>3 DEF Poll, Connecting, StartReconnect, OpenSocket, HandshakeDone, HandshakeFails,
     Receiver, RxReceive, RxDispatch, RxEnd
<1>4. CASE (\E s \in Sources : Panel(s)) \/ FadeEnds \/ Repeat \/ Lose \/ Overtake \/ Restart \/ UNCHANGED vars
  BY <1>2, <1>4 DEF Panel, FadeEnds, Repeat, Lose, Overtake, Restart, vars
<1>. QED
  BY <1>1, <1>3, <1>4, CommandRefines, WaitRefines DEF Next, Switcher

(* Who reads the socket.  A session that commands are sent in has a receiver  *)
(* that was not told to stop, and the loop reads the socket itself only when  *)
(* there was no receiver at the start of its wait; none is started until the  *)
(* wait is over.                                                              *)
ReaderInv ==
  /\ confirmed => ~stop
  /\ Active => confirmed
  /\ pc \in {"ackPoll", "feedbackPoll"} => rx = "off"

LEMMA ReaderStep ==
  ASSUME ReaderInv, [Next]_vars
  PROVE  ReaderInv'
<1>. USE DEF ReaderInv, Active, switcherVars, netVars, sessionVars, rxVars, ackVars, viewVars, loopVars,
             countVars, boundVars
<1>1. CASE Poll \/ RefuseCommand
  BY <1>1 DEF Poll, RefuseCommand
<1>2. CASE \E op \in {"preview", "cut", "auto"}, src \in Known : SendCommand(op, src)
  BY <1>2 DEF SendCommand
<1>3. CASE WaitForAck
  <2>1. UNCHANGED <<confirmed, stop, rx>>
    BY <1>3 DEF WaitForAck, StartAckWait, AckWoken, ReceiverFailed, AckTimeout, ReadAck, AckReadFails, Fail
  <2>2. Active /\ (Active' => pc' \in {"ackEvent", "ackPoll", "check"})
    BY <1>3 DEF WaitForAck, StartAckWait, AckWoken, ReceiverFailed, AckTimeout, ReadAck, AckReadFails, Fail
  <2>3. pc' = "ackPoll" => rx = "off"
    BY <1>3 DEF WaitForAck, StartAckWait, AckWoken, ReceiverFailed, AckTimeout, ReadAck, AckReadFails, Fail,
       receiverRunning
  <2>. QED
    BY <2>1, <2>2, <2>3
<1>4. CASE WaitForFeedback
  <2>1. UNCHANGED <<confirmed, stop, rx>>
    BY <1>4 DEF WaitForFeedback, Confirmed, StartFeedbackWait, NotConfirmed, ReadFeedback,
       FeedbackReadFails, Fail
  <2>2. Active /\ (Active' => pc' \in {"feedback", "feedbackPoll", "confirmed"})
    BY <1>4 DEF WaitForFeedback, Confirmed, StartFeedbackWait, NotConfirmed, ReadFeedback,
       FeedbackReadFails, Fail, FeedbackWait
  <2>3. pc' = "feedbackPoll" => rx = "off"
    BY <1>4 DEF WaitForFeedback, Confirmed, StartFeedbackWait, NotConfirmed, ReadFeedback,
       FeedbackReadFails, Fail, FeedbackWait, receiverRunning
  <2>. QED
    BY <2>1, <2>2, <2>3
<1>5. CASE Connecting
  BY <1>5 DEF Connecting, StartReconnect, OpenSocket, HandshakeDone, HandshakeFails, CloseSocket
<1>6. CASE Receiver
  BY <1>6 DEF Receiver, RxReceive, RxDispatch, RxEnd
<1>7. CASE Switcher
  <2>1. ASSUME NEW p \in toSwitcher, Execute(p) PROVE UNCHANGED <<confirmed, stop, rx, pc>>
    BY <2>1 DEF Execute
  <2>2. ASSUME NEW s \in Sources, Panel(s) PROVE UNCHANGED <<confirmed, stop, rx, pc>>
    BY <2>2 DEF Panel
  <2>3. CASE FadeEnds \/ Repeat \/ Lose \/ Overtake \/ Restart
    BY <2>3 DEF FadeEnds, Repeat, Lose, Overtake, Restart
  <2>4. UNCHANGED <<confirmed, stop, rx, pc>>
    BY <1>7, <2>1, <2>2, <2>3 DEF Switcher, FadeEnds, Repeat, Lose, Overtake, Restart
  <2>. QED
    BY <2>4
<1>8. CASE UNCHANGED vars
  BY <1>8 DEF vars
<1>. QED
  BY <1>1, <1>2, <1>3, <1>4, <1>5, <1>6, <1>7, <1>8 DEF Next

(* Between two applies the loop and the receiver thread never read the socket *)
(* side by side, for any number of commands and for ids that wrap: an ACK or  *)
(* a state is not taken from under the thread that waits for it.              *)
THEOREM OneReader == Spec => []SoleReader
<1>1. Init => ReaderInv
  BY DEF Init, ReaderInv, Active
<1>2. ReaderInv => SoleReader
  BY DEF ReaderInv, SoleReader
<1>. QED
  BY <1>1, <1>2, ReaderStep, PTL DEF Spec

(* The ATEM session is a SwitcherContract: the switcher carries out a command *)
(* at most once, and none is reported as done that it did not carry out.      *)
THEOREM Refinement == Undisturbed /\ Spec => ImplementsContract
<1>1. Init => Contract!Init
  <2>. SUFFICES ASSUME Init PROVE Contract!Init
    OBVIOUS
  <2>1. 1..issued = {}
    BY DEF Init
  <2>2. /\ executed = {} /\ executed \X {1} = {}
        /\ [n \in Commands |-> IF n \in 1..issued THEN 1 ELSE 0] = [n \in Commands |-> 0]
    BY <2>1 DEF Init
  <2>. QED
    BY <2>1, <2>2 DEF Init, Contract!Init
<1>2. IInv /\ [Next]_vars => [Contract!Next]_(Contract!vars)
  BY StepRefines
<1>. QED
  BY <1>1, <1>2, SessionInvariant, PTL DEF Spec, ImplementsContract, Contract!Spec
==============================================================================
