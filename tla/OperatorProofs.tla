--------------------------- MODULE OperatorProofs ----------------------------
(* Proofs about the models of MCOperator.                                     *)
(*                                                                            *)
(* ViscaLink: as long as the network keeps what it is given, in its order,    *)
(* the flags of a session are what its camera does, whatever sends fail and   *)
(* whatever the web thread does to the socket; and only that thread can make  *)
(* a send end the poll loop.                                                  *)
(*                                                                            *)
(* AxisMapping: for every configuration that AxisAssumption allows and every  *)
(* position of the controls the commands are what an operator means, and      *)
(* pushing further is never slower.                                           *)
EXTENDS MCOperator, SequenceTheorems, TLAPS

Packets == [seq : 0..(SeqNumbers - 1), command : Commands]

(* The loop has a command to send; it has the packet of that command.         *)
Carrying == {"test", "use", "htest", "hclose", "hclear", "raise"}
Sending == Carrying \cup {"encode", "sent"}

Types ==
  /\ made \in Nat /\ sock \in 0..made /\ open \subseteq 1..made /\ connected \in BOOLEAN
  /\ seq \in 0..(SeqNumbers - 1)
  /\ flags \in [Axes -> BOOLEAN] /\ camera \in [Axes -> BOOLEAN]
  /\ todo \in Seq(Commands) /\ attempt \in 1..2
  /\ net \in Seq(Packets)
  /\ pc \in Carrying => packet \in Packets

WorkInv ==
  /\ pc \in Sending => todo # <<>>
  /\ pc \in Carrying => packet.command = Head(todo)

SocketInv == web = "none" => pc # "fatal" /\ (pc \in {"use", "hclose"} => sock # 0)

LinkInv == Types /\ WorkInv /\ SocketInv

(* What an axis will do when all datagrams under way have arrived is v.       *)
Ends(a, v) ==
  IF \E i \in 1..Len(net) : net[i].command.axis = a
  THEN \E i \in 1..Len(net) : /\ net[i].command.axis = a /\ net[i].command.moves = v
                              /\ \A j \in 1..Len(net) : j > i => net[j].command.axis # a
  ELSE camera[a] = v

(* The flag the session has, or will have when send_command has returned.     *)
Flag(a) == IF pc = "sent" /\ Head(todo).axis = a THEN Head(todo).moves ELSE flags[a]

(* A process that was killed after sendto will not note what it sent.         *)
EffectInv ==
  Ordered /\ (pc = "ended" => "kill" \notin faulty) => \A a \in Axes : Ends(a, Flag(a))

-----------------------------------------------------------------------------

LEMMA NumberStays ==
  ASSUME seq \in 0..(SeqNumbers - 1)
  PROVE  NextSeq \in 0..(SeqNumbers - 1)
BY LinkAssumption DEF NextSeq

LEMMA InitInv == Init => LinkInv /\ EffectInv
<1>. SUFFICES ASSUME Init PROVE LinkInv /\ EffectInv
  OBVIOUS
<1>1. Types
  <2>1. 0 \in 0..(SeqNumbers - 1)
    BY LinkAssumption
  <2>2. <<>> \in Seq(Commands) /\ <<>> \in Seq(Packets)
    BY EmptySeq
  <2>3. /\ made = 0 /\ sock = 0 /\ open = {} /\ connected = FALSE /\ seq = 0 /\ pc = "idle" /\ attempt = 1
        /\ todo = <<>> /\ net = <<>>
        /\ flags \in [Axes -> BOOLEAN] /\ camera \in [Axes -> BOOLEAN]
    BY DEF Init
  <2>4. made \in Nat /\ sock \in 0..made /\ open \subseteq 1..made /\ attempt \in 1..2
    BY <2>3
  <2>5. seq \in 0..(SeqNumbers - 1) /\ todo \in Seq(Commands) /\ net \in Seq(Packets) /\ pc \notin Carrying
    BY <2>1, <2>2, <2>3 DEF Carrying
  <2>. QED
    BY ONLY <2>3, <2>4, <2>5 DEF Types
<1>2. WorkInv /\ SocketInv
  BY DEF Init, WorkInv, SocketInv, Carrying, Sending
<1>3. EffectInv
  BY DEF Init, EffectInv, Ends, Flag
<1>. QED
  BY <1>1, <1>2, <1>3 DEF LinkInv

(* The commands of a call.                                                    *)
LEMMA CallTodo ==
  ASSUME NEW t \in Calls \cup {StopAll}
  PROVE  t \in Seq(Commands) /\ t # <<>>
<1>1. \A a \in Axes, b \in BOOLEAN : Command(a, b) \in Commands
  BY DEF Command, Commands
<1>2. Command("preset", FALSE) \in Commands
  BY DEF Commands
<1>3. \A c, d \in Commands : <<c>> \in Seq(Commands) /\ <<c, d>> \in Seq(Commands)
                               /\ Len(<<c>>) = 1 /\ Len(<<c, d>>) = 2
  OBVIOUS
<1>4. StopAll \in Seq(Commands) /\ Len(StopAll) = 2
  BY <1>1, <1>3 DEF StopAll, Axes
<1>5. ASSUME t \in Calls PROVE t = StopAll \/ \E c \in Commands : t = <<c>>
  BY <1>1, <1>2, <1>5 DEF Calls
<1>6. t \in Seq(Commands) /\ Len(t) > 0
  <2>1. CASE t = StopAll
    <3>1. t \in Seq(Commands) /\ Len(t) = 2
      BY ONLY <1>4, <2>1
    <3>2. Len(t) = 2 => Len(t) > 0
      OBVIOUS
    <3>. QED
      BY ONLY <3>1, <3>2
  <2>2. CASE \E c \in Commands : t = <<c>>
    <3>1. PICK c \in Commands : t = <<c>>
      BY <2>2
    <3>2. <<c>> \in Seq(Commands) /\ Len(<<c>>) = 1
      OBVIOUS
    <3>3. t \in Seq(Commands) /\ Len(t) = 1
      BY ONLY <3>1, <3>2
    <3>4. Len(t) = 1 => Len(t) > 0
      OBVIOUS
    <3>. QED
      BY ONLY <3>3, <3>4
  <2>. QED
    BY <1>5, <2>1, <2>2
<1>. QED
  BY <1>6, EmptySeq

LEMMA Kept ==
  ASSUME Types, made' \in Nat, sock' \in 0..made', open' \subseteq 1..made', connected' \in BOOLEAN,
         todo' \in Seq(Commands), attempt' \in 1..2, UNCHANGED <<seq, flags, camera, net>>,
         pc' \in Carrying => packet' = packet /\ pc \in Carrying
  PROVE  Types'
BY DEF Types

LEMMA Shorter ==
  ASSUME NEW S, NEW q \in Seq(S), NEW i \in 1..Len(q)
  PROVE  RemoveAt(q, i) \in Seq(S)
<1>1. Len(q) \in Nat /\ \A j \in 1..Len(q) : q[j] \in S
  OBVIOUS
<1>2. SubSeq(q, 1, i - 1) \in Seq(S) /\ SubSeq(q, i + 1, Len(q)) \in Seq(S)
  BY <1>1, SubSeqProperties
<1>. QED
  BY <1>2, ConcatProperties DEF RemoveAt

LEMMA FirstRemoved ==
  ASSUME NEW S, NEW q \in Seq(S), q # <<>>
  PROVE  /\ Len(q) \in Nat /\ Len(RemoveAt(q, 1)) = Len(q) - 1
         /\ \A i \in 1..(Len(q) - 1) : RemoveAt(q, 1)[i] = q[i + 1]
<1>1. Len(q) \in Nat /\ Len(q) > 0 /\ \A j \in 1..Len(q) : q[j] \in S
  BY EmptySeq
<1>2. SubSeq(q, 1, 0) = <<>>
  BY <1>1, SubSeqProperties, EmptySeq
<1>3. RemoveAt(q, 1) = SubSeq(q, 2, Len(q))
  BY <1>1, <1>2, SubSeqProperties, ConcatEmptySeq DEF RemoveAt
<1>. QED
  BY <1>1, <1>3, SubSeqProperties

LEMMA StepInv ==
  ASSUME LinkInv, [Next]_vars
  PROVE  LinkInv'
<1>. USE DEF socketVars, callVars, linkVars
<1>1. Types /\ WorkInv /\ SocketInv
  BY DEF LinkInv
<1>2. CASE Call \/ Exit
  <2>1. todo' \in Seq(Commands) /\ todo' # <<>> /\ pc' = "encode"
    BY <1>2, CallTodo DEF Call, Exit
  <2>2. UNCHANGED <<sock, connected, made, open, seq, flags, packet, attempt, web, net, camera>>
    BY <1>2 DEF Call, Exit
  <2>. QED
    BY <1>1, <2>1, <2>2 DEF LinkInv, Types, WorkInv, SocketInv, Carrying, Sending
<1>3. CASE Encode
  <2>1. Head(todo) \in Commands
    BY <1>1, <1>3 DEF Encode, Types, WorkInv, Sending
  <2>2. packet' = [seq |-> seq, command |-> Head(todo)] /\ packet' \in Packets
    BY <1>1, <1>3, <2>1 DEF Encode, Types, Packets
  <2>3. seq' \in 0..(SeqNumbers - 1)
    BY <1>1, <1>3, NumberStays DEF Encode, Types
  <2>4. /\ pc = "encode" /\ pc' = "test" /\ attempt' = 1
        /\ UNCHANGED <<sock, connected, made, open, flags, todo, web, net, camera>>
    BY <1>3 DEF Encode
  <2>. QED
    BY <1>1, <2>2, <2>3, <2>4 DEF LinkInv, Types, WorkInv, SocketInv, Carrying, Sending
<1>4. CASE Sent
  <2>1. Head(todo) \in Commands /\ Tail(todo) \in Seq(Commands) /\ (Len(todo) > 1 => Tail(todo) # <<>>)
    <3>1. todo \in Seq(Commands) /\ todo # <<>>
      BY <1>1, <1>4 DEF Sent, Types, WorkInv, Sending
    <3>2. Head(todo) \in Commands /\ Tail(todo) \in Seq(Commands) /\ Len(Tail(todo)) = Len(todo) - 1
      BY <3>1, HeadTailProperties
    <3>3. Len(todo) > 1 => Tail(todo) # <<>>
      <4>1. Len(<<>>) = 0 /\ Len(todo) \in Nat
        BY <3>1
      <4>2. Tail(todo) = <<>> => Len(todo) = 1
        BY ONLY <3>2, <4>1
      <4>3. Len(todo) = 1 => ~(Len(todo) > 1)
        OBVIOUS
      <4>. QED
        BY ONLY <4>2, <4>3
    <3>. QED
      BY <3>2, <3>3
  <2>2. FlagsAfter(Head(todo)) \in [Axes -> BOOLEAN]
    BY <1>1, <2>1 DEF FlagsAfter, Types, Commands, Command, Axes
  <2>3. /\ flags' = FlagsAfter(Head(todo)) /\ todo' = Tail(todo)
        /\ pc' \in {"encode", "dtest", "idle"} /\ (pc' = "encode" => Len(todo) > 1)
        /\ UNCHANGED <<sock, connected, made, open, seq, packet, attempt, web, net, camera>>
    BY <1>4 DEF Sent
  <2>. QED
    BY <1>1, <2>1, <2>2, <2>3 DEF LinkInv, Types, WorkInv, SocketInv, Carrying, Sending
<1>5. CASE SendTo
  <2>1. packet \in Packets /\ net' \in Seq(Packets)
    BY <1>1, <1>5, AppendProperties DEF SendTo, Types, Carrying
  <2>2. pc = "use" /\ pc' = "sent" /\ UNCHANGED <<sock, made, open, connected, seq, flags, camera, todo, attempt, web>>
    BY <1>5 DEF SendTo
  <2>. QED
    BY <1>1, <2>1, <2>2 DEF LinkInv, Types, WorkInv, SocketInv, Carrying, Sending
<1>6. CASE TestSocket \/ SendToFails \/ SocketGone \/ HandleTests
  <2>1. /\ pc \in Carrying /\ pc' \in Carrying \cup {"fatal"} /\ connected' \in BOOLEAN
        /\ UNCHANGED <<seq, flags, camera, todo, attempt, net, packet, web>>
    BY <1>1, <1>6 DEF TestSocket, SendToFails, SocketGone, HandleTests, Carrying, Types
  <2>2. made' \in Nat /\ sock' \in 0..made' /\ open' \subseteq 1..made'
    <3>1. CASE UNCHANGED <<made, sock, open>>
      BY <1>1, <3>1 DEF Types
    <3>2. CASE made' = made + 1 /\ sock' = made + 1 /\ open' = open \cup {made + 1}
      BY <1>1, <3>2 DEF Types
    <3>. QED
      BY <1>6, <3>1, <3>2 DEF TestSocket, SendToFails, SocketGone, HandleTests
  <2>3. Types'
    BY <1>1, <2>1, <2>2, Kept DEF Types
  <2>4. WorkInv' /\ SocketInv'
    BY <1>1, <1>6, <2>1 DEF TestSocket, SendToFails, SocketGone, HandleTests, WorkInv, SocketInv, Types, Carrying, Sending
  <2>. QED
    BY <2>3, <2>4 DEF LinkInv
<1>7. CASE HandleCloses \/ HandleMeetsNone \/ HandleClears
  <2>1. /\ pc \in Carrying /\ pc' \in Carrying \cup {"fatal"} /\ connected' \in BOOLEAN
        /\ UNCHANGED <<seq, flags, camera, todo, attempt, net, packet, web>>
        /\ made' = made /\ sock' \in {0, sock} /\ open' \subseteq open
    BY <1>1, <1>7 DEF HandleCloses, CloseSocket, HandleMeetsNone, HandleClears, ClearSocket, Carrying, Types
  <2>2. made' \in Nat /\ sock' \in 0..made' /\ open' \subseteq 1..made'
    BY <1>1, <2>1 DEF Types
  <2>3. Types'
    BY <1>1, <2>1, <2>2, Kept DEF Types
  <2>4. WorkInv' /\ SocketInv'
    BY <1>1, <1>7, <2>1 DEF HandleCloses, HandleMeetsNone, HandleClears, WorkInv, SocketInv, Carrying, Sending
  <2>. QED
    BY <2>3, <2>4 DEF LinkInv
<1>8. CASE Retry \/ Raise
  <2>1. /\ pc = "raise" /\ attempt' \in 1..2 /\ todo' \in Seq(Commands)
        /\ pc' \in {"test", "dtest", "idle"} /\ (pc' = "test" => todo' = todo /\ packet' = packet)
        /\ UNCHANGED <<sock, connected, made, open, seq, flags, camera, net, web>>
    <3>1. todo \in Seq(Commands) /\ <<>> \in Seq(Commands) /\ attempt \in 1..2
      BY <1>1, EmptySeq DEF Types
    <3>2. CASE Retry
      BY <3>1, <3>2 DEF Retry, RetryFrom, MayRetry
    <3>3. CASE Raise
      BY <3>1, <3>3 DEF Raise
    <3>. QED
      BY <1>8, <3>2, <3>3
  <2>2. Types'
    BY <1>1, <2>1, Kept DEF Types, Carrying
  <2>. QED
    BY <1>1, <2>1, <2>2 DEF LinkInv, WorkInv, SocketInv, Carrying, Sending
<1>9. CASE EndOfScript \/ Kill
  <2>1. /\ pc' = "ended" /\ sock' = 0 /\ made' = made /\ open' \subseteq open /\ connected' = FALSE
        /\ UNCHANGED <<seq, flags, camera, todo, attempt, net, web>>
    BY <1>9 DEF EndOfScript, Kill
  <2>2. made' \in Nat /\ sock' \in 0..made' /\ open' \subseteq 1..made'
    BY <1>1, <2>1 DEF Types
  <2>3. Types'
    BY <1>1, <2>1, <2>2, Kept DEF Types, Carrying
  <2>. QED
    BY <2>1, <2>3 DEF LinkInv, WorkInv, SocketInv, Carrying, Sending
<1>10. CASE Web
  <2>1. /\ web' # "none" /\ made' = made /\ sock' \in {0, sock} /\ open' \subseteq open /\ connected' \in BOOLEAN
        /\ UNCHANGED <<seq, flags, camera, todo, attempt, net, pc, packet>>
    BY <1>1, <1>10 DEF Web, WebTests, WebCloses, WebClears, CloseSocket, ClearSocket, Types
  <2>2. made' \in Nat /\ sock' \in 0..made' /\ open' \subseteq 1..made'
    BY <1>1, <2>1 DEF Types
  <2>3. Types'
    BY <1>1, <2>1, <2>2, Kept DEF Types
  <2>. QED
    BY <1>1, <2>1, <2>3 DEF LinkInv, WorkInv, SocketInv
<1>11. CASE Network
  <2>1. \A i \in 1..Len(net) : RemoveAt(net, i) \in Seq(Packets)
    BY <1>1, Shorter DEF Types
  <2>2. \A i \in 1..Len(net) : net[i] \in Packets
    BY <1>1 DEF Types
  <2>3. ASSUME NEW i \in 1..Len(net), Arrive(i) PROVE LinkInv'
    <3>1. net' \in Seq(Packets)
      BY <2>1, <2>3 DEF Arrive
    <3>2. net[i].command \in Commands
      BY <2>2 DEF Packets
    <3>3. camera' \in [Axes -> BOOLEAN]
      BY <1>1, <2>3, <3>2 DEF Arrive, Types, Commands, Command, Axes
    <3>4. UNCHANGED <<sock, connected, made, open, seq, flags, todo, attempt, pc, packet, web>>
      BY <2>3 DEF Arrive
    <3>. QED
      BY <1>1, <3>1, <3>3, <3>4 DEF LinkInv, Types, WorkInv, SocketInv
  <2>4. CASE Deliver \/ DeliverEarly
    <3>1. net \in Seq(Packets)
      BY <1>1 DEF Types
    <3>2. PICK i \in 1..Len(net) : Arrive(i)
      BY <2>4, <3>1 DEF Deliver, DeliverEarly
    <3>. QED
      BY <2>3, <3>2
  <2>5. CASE Lose
    <3>1. net' \in Seq(Packets)
      BY <2>1, <2>5 DEF Lose
    <3>2. UNCHANGED <<sock, connected, made, open, seq, flags, todo, attempt, pc, packet, web, camera>>
      BY <2>5 DEF Lose
    <3>. QED
      BY <1>1, <3>1, <3>2 DEF LinkInv, Types, WorkInv, SocketInv
  <2>. QED
    BY <1>11, <2>4, <2>5 DEF Network
<1>12. CASE UNCHANGED vars
  BY <1>1, <1>12 DEF vars, LinkInv, Types, WorkInv, SocketInv
<1>. QED
  BY <1>2, <1>3, <1>4, <1>5, <1>6, <1>7, <1>8, <1>9, <1>10, <1>11, <1>12 DEF Next, Session, Transport

-----------------------------------------------------------------------------
(* The flags and the camera.                                                  *)

(* Nothing that matters for the camera happens.                               *)
LEMMA EffectKept ==
  ASSUME \A a \in Axes : Ends(a, Flag(a)), UNCHANGED <<net, camera, flags>>, pc # "sent", pc' # "sent"
  PROVE  \A a \in Axes : Ends(a, Flag(a))'
BY DEF Ends, Flag

LEMMA EffectStep ==
  ASSUME LinkInv, EffectInv, [Next]_vars
  PROVE  EffectInv'
<1>. USE DEF socketVars, callVars, linkVars
<1>0. UNCHANGED faulty
  BY DEF Next, vars
<1>. SUFFICES ASSUME Ordered, pc' = "ended" => "kill" \notin faulty
              PROVE  \A a \in Axes : Ends(a, Flag(a))'
  BY <1>0 DEF EffectInv, Ordered
<1>a. pc = "ended" => pc' = "ended"
  BY DEF Next, Call, Exit, EndOfScript, Kill, Session, Encode, Sent, Transport, TestSocket, SendTo,
     SendToFails, SocketGone, HandleTests, HandleCloses, HandleMeetsNone, HandleClears, Retry, Raise,
     Web, WebTests, WebCloses, WebClears, Network, Deliver, DeliverEarly, Lose, Arrive, vars
<1>b. \A a \in Axes : Ends(a, Flag(a))
  BY <1>0, <1>a DEF EffectInv, Ordered
<1>1. Types /\ WorkInv
  BY DEF LinkInv
<1>2. net \in Seq(Packets) /\ flags \in [Axes -> BOOLEAN] /\ camera \in [Axes -> BOOLEAN]
  BY <1>1 DEF Types
<1>3. CASE Call \/ Exit \/ Encode
  BY <1>3, <1>b, EffectKept DEF Call, Exit, Encode
<1>4. CASE Sent
  <2>1. Head(todo) \in Commands
    BY <1>1, <1>4 DEF Sent, Types, WorkInv, Sending
  <2>2. /\ pc = "sent" /\ pc' # "sent" /\ flags' = FlagsAfter(Head(todo))
        /\ UNCHANGED <<net, camera>>
    BY <1>4 DEF Sent
  <2>3. ASSUME NEW a \in Axes PROVE flags'[a] = Flag(a)
    BY <1>2, <2>1, <2>2 DEF FlagsAfter, Flag, Commands, Command, Axes
  <2>. QED
    BY <1>b, <2>2, <2>3 DEF Ends, Flag
<1>5. CASE SendTo
  <2>1. /\ pc = "use" /\ pc' = "sent" /\ net' = Append(net, packet) /\ UNCHANGED <<camera, flags, todo>>
        /\ packet \in Packets /\ packet.command = Head(todo)
    BY <1>1, <1>5 DEF SendTo, Types, WorkInv, Carrying
  <2>2. /\ Len(net) \in Nat /\ Len(net') = Len(net) + 1 /\ net'[Len(net) + 1] = packet
        /\ \A i \in 1..Len(net) : net'[i] = net[i]
    BY <1>2, <2>1, AppendProperties
  <2>3. ASSUME NEW a \in Axes PROVE Ends(a, Flag(a))'
    <3>1. Ends(a, flags[a])
      BY <1>b, <2>1 DEF Flag
    <3>2. CASE packet.command.axis = a
      BY <2>1, <2>2, <3>2 DEF Ends, Flag
    <3>3. CASE packet.command.axis # a
      BY <2>1, <2>2, <3>1, <3>3 DEF Ends, Flag
    <3>. QED
      BY <3>2, <3>3
  <2>. QED
    BY <2>3
<1>6. CASE Transport /\ ~SendTo
  BY <1>6, <1>b, EffectKept DEF Transport, TestSocket, SendToFails, SocketGone, HandleTests, HandleCloses,
     HandleMeetsNone, HandleClears, Retry, RetryFrom, Raise
<1>7. CASE EndOfScript
  BY <1>7, <1>b, EffectKept DEF EndOfScript
<1>8. CASE Web \/ UNCHANGED vars
  BY <1>8, <1>b DEF Web, WebTests, WebCloses, WebClears, vars, Ends, Flag
<1>9. CASE Deliver
  <2>1. net # <<>> /\ 1 \in 1..Len(net) /\ net' = RemoveAt(net, 1) /\ UNCHANGED <<pc, todo, flags>>
        /\ camera' = (IF net[1].command.axis \in Axes
                      THEN [camera EXCEPT ![net[1].command.axis] = net[1].command.moves] ELSE camera)
    BY <1>2, <1>9 DEF Deliver, Arrive
  <2>2. /\ Len(net) \in Nat /\ Len(net') = Len(net) - 1
        /\ \A i \in 1..(Len(net) - 1) : net'[i] = net[i + 1]
    BY <1>2, <2>1, FirstRemoved
  <2>3. ASSUME NEW a \in Axes PROVE Ends(a, Flag(a))'
    <3>1. Ends(a, Flag(a)) /\ Flag(a)' = Flag(a)
      BY <1>b, <2>1 DEF Flag
    <3>2. camera'[a] = IF net[1].command.axis = a THEN net[1].command.moves ELSE camera[a]
      BY <1>2, <2>1
    <3>. DEFINE v == Flag(a)
    <3>. HIDE DEF v
    <3>3. CASE \E i \in 2..Len(net) : net[i].command.axis = a
      <4>1. PICK i \in 1..Len(net) : /\ net[i].command.axis = a /\ net[i].command.moves = Flag(a)
                                     /\ \A j \in 1..Len(net) : j > i => net[j].command.axis # a
        BY <3>1, <3>3 DEF Ends
      <4>2. i - 1 \in 1..Len(net') /\ net'[i - 1] = net[i]
        BY <2>2, <3>3, <4>1
      <4>3. \A j \in 1..Len(net') : j > i - 1 => net'[j].command.axis # a
        BY <2>2, <4>1
      <4>. QED
        BY <3>1, <4>1, <4>2, <4>3 DEF Ends
    <3>4. CASE ~\E i \in 2..Len(net) : net[i].command.axis = a
      <4>1. ~\E i \in 1..Len(net') : net'[i].command.axis = a
        BY <2>2, <3>4
      <4>2. camera'[a] = Flag(a)
        BY <2>1, <2>2, <3>1, <3>2, <3>4 DEF Ends
      <4>. QED
        BY <3>1, <4>1, <4>2 DEF Ends
    <3>. QED
      BY <3>3, <3>4
  <2>. QED
    BY <2>3
<1>10. CASE DeliverEarly \/ Lose \/ Kill
  BY <1>10 DEF DeliverEarly, Lose, Kill, Ordered
<1>. QED
  BY <1>3, <1>4, <1>5, <1>6, <1>7, <1>8, <1>9, <1>10 DEF Next, Session, Network

THEOREM LinkInvariant == Spec => []LinkInv
<1>1. Init => LinkInv
  BY InitInv
<1>. QED
  BY <1>1, StepInv, PTL DEF Spec

(* Every variable of the session and its transport keeps its type.            *)
THEOREM TypeCorrect == Spec => []TypeOK
<1>1. LinkInv => TypeOK
  BY DEF LinkInv, Types, TypeOK, Packets
<1>. QED
  BY <1>1, LinkInvariant, PTL

(* Only a disconnect by the web thread makes anything but a ConnectionError   *)
(* leave send(): for any number of commands, failing sends and losses.        *)
THEOREM OnlyWebIsFatal == Spec => []FatalOnlyByWeb
<1>1. LinkInv => FatalOnlyByWeb
  BY DEF LinkInv, SocketInv, FatalOnlyByWeb
<1>. QED
  BY <1>1, LinkInvariant, PTL

LEMMA EffectInvariant == Spec => []EffectInv
<1>1. Init => EffectInv
  BY InitInv
<1>2. LinkInv /\ EffectInv /\ [Next]_vars => EffectInv'
  BY EffectStep
<1>. QED
  BY <1>1, <1>2, LinkInvariant, PTL DEF Spec

(* When the network neither loses nor reorders, the flags are what the camera *)
(* does as soon as the loop is idle and all datagrams have arrived, for any   *)
(* number of failing sends, retries and kills, and with the web thread.       *)
THEOREM FlagsAreTrue == Spec => [](Ordered => FlagsMatchCamera)
<1>1. LinkInv /\ EffectInv => (Ordered => FlagsMatchCamera)
  <2>. SUFFICES ASSUME LinkInv, EffectInv, Ordered, Quiet PROVE flags = camera
    BY DEF FlagsMatchCamera
  <2>1. \A a \in Axes : camera[a] = flags[a]
    BY DEF EffectInv, Ends, Flag, Quiet
  <2>. QED
    BY <2>1 DEF LinkInv, Types
<1>. QED
  BY <1>1, LinkInvariant, EffectInvariant, PTL

-----------------------------------------------------------------------------
(* The numbers of the datagrams.                                              *)

(* In no environment there are as many faults as it takes to give up a packet *)
(* for each sequence number in a row (2^32 of them in the code).              *)
FewFaults == \A e \in Environments : MaxFaults[e] \in 0..(2 * SeqNumbers - 4)

Handling == {"htest", "hclose", "hclear"}

(* Only the web thread leaves a closed socket behind.                         *)
ClosedInv ==
  sock # 0 /\ sock \notin open /\ pc \notin {"hclear", "ended"} => web \in {"clear", "done"}

(* The sends that failed so far, of which the one on the socket that the web  *)
(* thread closed is no fault; and those that failed for the packet at work.   *)
Failed ==
  faults + (IF web \in {"clear", "done"} /\ (sock = 0 \/ sock \in open \/ pc \in Handling)
            THEN 1 ELSE 0)
Tries ==
  IF pc \in {"test", "use"} THEN attempt - 1
  ELSE IF pc \in Handling \cup {"raise"} THEN attempt ELSE 0

(* The newest datagram is k numbers behind the next packet: k - 1 packets     *)
(* were given up since, each after two attempts.                              *)
Behind(k) ==
  /\ 2 * (k - 1) + Tries <= Failed
  /\ (IF pc \in Carrying THEN packet.seq ELSE seq) = (net[Len(net)].seq + k) % SeqNumbers

GapInv ==
  /\ faults \in 0..MaxFaults[faulty]
  /\ pc \notin {"ended", "fatal"} =>
       /\ Tries <= Failed
       /\ pc \in Carrying => seq = (packet.seq + 1) % SeqNumbers
       /\ Ordered /\ net # <<>> => \E k \in 1..(SeqNumbers - 1) : Behind(k)

NumberInv == ClosedInv /\ GapInv /\ (Ordered => NumberedApart)

(* Fewer than SeqNumbers steps from a number.                                 *)
LEMMA Ahead ==
  ASSUME NEW s \in 0..(SeqNumbers - 1), NEW d \in 1..(SeqNumbers - 1)
  PROVE  (s + d) % SeqNumbers = IF s + d < SeqNumbers THEN s + d ELSE s + d - SeqNumbers
BY LinkAssumption

(* One step after k of them.                                                  *)
LEMMA OneFurther ==
  ASSUME NEW s \in 0..(SeqNumbers - 1), NEW k \in 1..(SeqNumbers - 2)
  PROVE  (((s + k) % SeqNumbers) + 1) % SeqNumbers = (s + (k + 1)) % SeqNumbers
<1>1. 1 \in 1..(SeqNumbers - 1) /\ k \in 1..(SeqNumbers - 1) /\ k + 1 \in 1..(SeqNumbers - 1)
  BY LinkAssumption
<1>2. (s + k) % SeqNumbers \in 0..(SeqNumbers - 1)
  BY LinkAssumption
<1>. DEFINE a == (s + k) % SeqNumbers
            N == SeqNumbers
<1>3. a = IF s + k < N THEN s + k ELSE s + k - N
  BY <1>1, Ahead
<1>4. (a + 1) % N = IF a + 1 < N THEN a + 1 ELSE a + 1 - N
  BY <1>1, <1>2, Ahead
<1>5. (s + (k + 1)) % N = IF s + (k + 1) < N THEN s + (k + 1) ELSE s + (k + 1) - N
  BY <1>1, Ahead
<1>6. N \in Nat /\ a \in 0..(N - 1)
  BY <1>2, LinkAssumption
<1>. HIDE DEF a, N
<1>. QED
  BY <1>1, <1>3, <1>4, <1>5, <1>6 DEF N

LEMMA ClosedStep ==
  ASSUME Types, ClosedInv, [Next]_vars
  PROVE  ClosedInv'
<1>. USE DEF socketVars, callVars, linkVars, ClosedInv
<1>1. CASE Call \/ Exit \/ Session \/ Network \/ UNCHANGED vars
  BY <1>1 DEF Call, Exit, Session, Encode, Sent, Network, Deliver, DeliverEarly, Lose, Arrive, vars
<1>2. CASE Transport
  <2>1. CASE TestSocket
    BY <2>1 DEF TestSocket
  <2>2. CASE Transport /\ ~TestSocket
    BY <2>2 DEF Transport, SendTo, SendToFails, SocketGone, HandleTests, HandleCloses, HandleMeetsNone,
       HandleClears, Retry, RetryFrom, Raise, CloseSocket, ClearSocket
  <2>. QED
    BY <1>2, <2>1, <2>2
<1>3. CASE EndOfScript \/ Kill
  BY <1>3 DEF EndOfScript, Kill
<1>4. CASE Web
  BY <1>4 DEF Web, WebTests, WebCloses, WebClears, CloseSocket, ClearSocket
<1>. QED
  BY <1>1, <1>2, <1>3, <1>4 DEF Next

LEMMA Counts ==
  ASSUME Types, GapInv, FewFaults, faulty \in Environments
  PROVE  /\ faults \in Nat /\ Tries \in 0..2 /\ Failed \in Nat
         /\ Failed <= 2 * SeqNumbers - 3
BY LinkAssumption DEF Types, GapInv, FewFaults, Tries, Failed

LEMMA Carried ==
  ASSUME NEW a \in Int, NEW b \in Int, NEW c \in Int, NEW d \in Int, NEW e \in Int,
         e + a <= b, c + b <= a + d
  PROVE  e + c <= d
  OBVIOUS

(* No packet is encoded, sent or given up; at most as many attempts are begun *)
(* as sends have failed.                                                      *)
LEMMA GapKept ==
  ASSUME Types, GapInv, FewFaults, faulty \in Environments, Types', faults' \in 0..MaxFaults[faulty],
         UNCHANGED <<net, seq, faulty>>,
         pc' \notin {"ended", "fatal"} =>
           /\ pc \notin {"ended", "fatal"}
           /\ (pc' \in Carrying) = (pc \in Carrying)
           /\ pc \in Carrying => packet' = packet
           /\ Tries' + Failed <= Tries + Failed'
  PROVE  GapInv'
<1>. SUFFICES ASSUME pc' \notin {"ended", "fatal"}
              PROVE  /\ Tries' <= Failed'
                     /\ pc' \in Carrying => seq' = (packet'.seq + 1) % SeqNumbers
                     /\ Ordered /\ net # <<>> => \E k \in 1..(SeqNumbers - 1) : Behind(k)'
  BY DEF GapInv, Ordered
<1>1. Tries \in Int /\ Failed \in Int /\ Tries' \in Int /\ Failed' \in Int
  <2>1. faults' \in Nat
    BY LinkAssumption
  <2>. QED
    BY <2>1, Counts DEF Types, Tries, Failed
<1>2. Tries' <= Failed'
  <2>1. Tries <= Failed /\ Tries' + Failed <= Tries + Failed'
    BY DEF GapInv
  <2>. QED
    BY ONLY <1>1, <2>1 DEF Tries, Failed
<1>3. ASSUME NEW k \in 1..(SeqNumbers - 1), Behind(k) PROVE Behind(k)'
  <2>1. 2 * (k - 1) + Tries' <= Failed'
    <3>1. 2 * (k - 1) + Tries <= Failed /\ 2 * (k - 1) \in Int
      BY <1>3 DEF Behind
    <3>2. Tries' + Failed <= Tries + Failed'
      OBVIOUS
    <3>. QED
      BY <1>1, <3>1, <3>2, Carried
  <2>. QED
    BY <1>3, <2>1 DEF Behind
<1>. QED
  BY <1>2, <1>3 DEF GapInv

LEMMA GapStep ==
  ASSUME LinkInv, LinkInv', ClosedInv, GapInv, FewFaults, faulty \in Environments, [Next]_vars
  PROVE  GapInv'
<1>. USE DEF socketVars, callVars, linkVars
<1>1. Types /\ Types' /\ WorkInv
  BY DEF LinkInv
<1>2. faults \in Nat /\ Tries \in 0..2 /\ Failed \in Nat /\ Failed <= 2 * SeqNumbers - 3 /\ attempt \in 1..2
  BY <1>1, Counts DEF Types
<1>3. UNCHANGED faulty
  BY DEF Next, vars
<1>4. faults \in 0..MaxFaults[faulty] /\ MaxFaults[faulty] \in Nat
  BY LinkAssumption DEF GapInv
<1>5. net \in Seq(Packets) /\ SeqNumbers \in Nat \ {0, 1} /\ seq \in 0..(SeqNumbers - 1)
  BY <1>1, LinkAssumption DEF Types
<1>6. CASE Call \/ Exit \/ Sent
  BY <1>1, <1>2, <1>3, <1>4, <1>6, GapKept DEF Call, Exit, Sent, Tries, Failed, Carrying, Handling
<1>7. CASE Encode
  <2>1. /\ pc = "encode" /\ pc' = "test" /\ attempt' = 1 /\ packet'.seq = seq
        /\ seq' = (seq + 1) % SeqNumbers
        /\ UNCHANGED <<sock, open, web, net, faults>>
    BY <1>7 DEF Encode, NextSeq
  <2>2. Tries' = 0 /\ Tries = 0 /\ Failed' = Failed
    BY <2>1 DEF Tries, Failed, Handling
  <2>3. ASSUME NEW k \in 1..(SeqNumbers - 1), Behind(k) PROVE Behind(k)'
    BY <2>1, <2>2, <2>3 DEF Behind, Carrying
  <2>. QED
    BY <1>2, <1>3, <1>4, <2>1, <2>2, <2>3 DEF GapInv, Ordered
<1>8. CASE SendTo
  <2>1. /\ pc = "use" /\ pc' = "sent" /\ net' = Append(net, packet) /\ packet \in Packets
        /\ UNCHANGED <<sock, open, web, seq, faults>> /\ seq = (packet.seq + 1) % SeqNumbers
    BY <1>1, <1>8 DEF SendTo, Types, Carrying, GapInv
  <2>2. net'[Len(net')] = packet
    BY <1>5, <2>1, AppendProperties
  <2>3. Tries' = 0 /\ Failed' = Failed
    BY <2>1 DEF Tries, Failed, Handling
  <2>4. Behind(1)'
    BY <1>2, <2>1, <2>2, <2>3 DEF Behind, Carrying
  <2>. QED
    BY <1>2, <1>3, <1>4, <1>5, <2>1, <2>3, <2>4 DEF GapInv, Carrying
<1>9. CASE TestSocket
  <2>1. /\ pc = "test" /\ pc' = "use" /\ UNCHANGED <<net, seq, packet, attempt, web, faults>>
        /\ (sock' = sock /\ open' = open) \/ (sock = 0 /\ sock' \in open')
    BY <1>9 DEF TestSocket
  <2>2. Tries' = Tries /\ Failed' = Failed
    BY <2>1 DEF Tries, Failed, Handling
  <2>. QED
    BY <1>1, <1>2, <1>3, <1>4, <2>1, <2>2, GapKept DEF Carrying
<1>10. CASE SendToFails
  <2>1. /\ pc = "use" /\ pc' = "htest" /\ sock # 0
        /\ UNCHANGED <<sock, open, net, seq, packet, attempt, web>>
        /\ IF sock \in open THEN faults < MaxFaults[faulty] /\ faults' = faults + 1 ELSE faults' = faults
    BY <1>10 DEF SendToFails
  <2>2. Tries' = Tries + 1
    BY <1>2, <2>1 DEF Tries, Handling
  <2>3. Failed' = Failed + 1
    BY <1>2, <2>1 DEF Failed, Handling, ClosedInv
  <2>4. faults' \in 0..MaxFaults[faulty]
    BY <1>4, <2>1
  <2>. QED
    BY <1>1, <1>2, <1>3, <2>1, <2>2, <2>3, <2>4, GapKept DEF Carrying
<1>11. CASE HandleTests \/ HandleCloses \/ HandleClears
  <2>1. /\ pc \in Handling /\ pc' \in Handling \cup {"raise"} /\ (pc' = "raise" => sock' = 0)
        /\ UNCHANGED <<net, seq, packet, attempt, web, faults>>
    BY <1>11 DEF HandleTests, HandleCloses, HandleClears, CloseSocket, ClearSocket, Handling
  <2>2. Tries' = Tries /\ Failed' = Failed
    BY <2>1 DEF Tries, Failed, Handling
  <2>. QED
    BY <1>1, <1>2, <1>3, <1>4, <2>1, <2>2, GapKept DEF Carrying, Handling
<1>12. CASE Retry
  <2>1. /\ pc = "raise" /\ pc' = "test" /\ attempt' = attempt + 1
        /\ UNCHANGED <<sock, open, net, seq, packet, web, faults>>
    BY <1>12 DEF Retry, RetryFrom
  <2>2. Tries' = Tries /\ Failed' = Failed
    BY <1>2, <2>1 DEF Tries, Failed, Handling
  <2>. QED
    BY <1>1, <1>2, <1>3, <1>4, <2>1, <2>2, GapKept DEF Carrying
<1>13. CASE Raise
  <2>1. /\ pc = "raise" /\ pc' \in {"dtest", "idle"} /\ attempt = 2
        /\ UNCHANGED <<sock, open, net, seq, web, faults>>
    BY <1>2, <1>13 DEF Raise, MayRetry
  <2>2. Tries = 2 /\ Tries' = 0 /\ Failed' = Failed
    BY <2>1 DEF Tries, Failed, Handling
  <2>3. ASSUME NEW k \in 1..(SeqNumbers - 1), Behind(k), net # <<>>
        PROVE  k + 1 \in 1..(SeqNumbers - 1) /\ Behind(k + 1)'
    <3>1. 2 * (k - 1) + 2 <= Failed /\ packet.seq = (net[Len(net)].seq + k) % SeqNumbers
      BY <2>1, <2>2, <2>3 DEF Behind, Carrying
    <3>2. k \in 1..(SeqNumbers - 2)
      BY <1>2, <1>5, <3>1
    <3>3. seq = (packet.seq + 1) % SeqNumbers
      BY <2>1 DEF GapInv, Carrying
    <3>4. net[Len(net)].seq \in 0..(SeqNumbers - 1)
      <4>1. Len(net) \in 1..Len(net)
        BY <1>5, <2>3, EmptySeq
      <4>2. net[Len(net)] \in Packets
        BY <1>5, <4>1
      <4>. QED
        BY <4>2 DEF Packets
    <3>5. seq = (net[Len(net)].seq + (k + 1)) % SeqNumbers
      BY <3>1, <3>2, <3>3, <3>4, OneFurther
    <3>6. 2 * ((k + 1) - 1) + 0 <= Failed
      BY <1>2, <3>1, <3>2
    <3>. QED
      BY <1>5, <2>1, <2>2, <3>2, <3>5, <3>6 DEF Behind, Carrying
  <2>. QED
    BY <1>2, <1>3, <1>4, <2>1, <2>2, <2>3 DEF GapInv, Ordered, Carrying
<1>14. CASE SocketGone \/ HandleMeetsNone \/ EndOfScript \/ Kill
  BY <1>3, <1>4, <1>14 DEF SocketGone, HandleMeetsNone, EndOfScript, Kill, GapInv
<1>15. CASE Web
  <2>1. UNCHANGED <<pc, net, seq, packet, attempt, faults>>
    BY <1>15 DEF Web, WebTests, WebCloses, WebClears
  <2>2. Tries' = Tries /\ \E d \in {0, 1} : Failed' = Failed + d
    BY <1>2, <1>15, <2>1 DEF Web, WebTests, WebCloses, WebClears, CloseSocket, ClearSocket, Tries, Failed
  <2>3. Tries' + Failed <= Tries + Failed'
    <3>1. Tries \in Nat /\ Failed \in Nat
      BY <1>2
    <3>. QED
      BY ONLY <2>2, <3>1
  <2>4. faults' \in 0..MaxFaults[faulty]
    BY <1>4, <2>1
  <2>. QED
    BY <1>1, <1>3, <2>1, <2>3, <2>4, GapKept
<1>16. CASE Deliver
  <2>1. /\ net # <<>> /\ net' = RemoveAt(net, 1)
        /\ UNCHANGED <<sock, open, seq, pc, packet, attempt, web, faults>>
    BY <1>5, <1>16 DEF Deliver, Arrive
  <2>2. Tries' = Tries /\ Failed' = Failed
    BY <2>1 DEF Tries, Failed
  <2>3. net' # <<>> => net'[Len(net')] = net[Len(net)]
    <3>1. Len(net) \in Nat /\ Len(net') = Len(net) - 1 /\ \A i \in 1..(Len(net) - 1) : net'[i] = net[i + 1]
      BY <1>5, <2>1, FirstRemoved
    <3>2. net' \in Seq(Packets)
      BY <1>1 DEF Types
    <3>3. net' # <<>> => Len(net') > 0
      BY <3>2, EmptySeq
    <3>. QED
      BY <3>1, <3>3
  <2>. QED
    BY <1>3, <2>1, <2>2, <2>3 DEF GapInv, Behind, Ordered
<1>17. CASE DeliverEarly \/ Lose
  <2>1. /\ ~Ordered /\ UNCHANGED <<sock, open, seq, pc, packet, attempt, web>>
        /\ faults' = faults \/ (faults < MaxFaults[faulty] /\ faults' = faults + 1)
    BY <1>17 DEF DeliverEarly, Lose, Arrive, Ordered
  <2>2. Tries' = Tries /\ Failed' >= Failed /\ Failed' \in Nat /\ faults' \in 0..MaxFaults[faulty]
    BY <1>2, <1>4, <2>1 DEF Tries, Failed
  <2>. QED
    BY <1>2, <1>3, <2>1, <2>2 DEF GapInv, Ordered
<1>18. CASE UNCHANGED vars
  BY <1>18 DEF vars, GapInv, Behind, Tries, Failed, Ordered
<1>. QED
  BY <1>6, <1>7, <1>8, <1>9, <1>10, <1>11, <1>12, <1>13, <1>14, <1>15, <1>16, <1>17, <1>18
     DEF Next, Session, Transport, Network

LEMMA NumberedStep ==
  ASSUME LinkInv, GapInv, Ordered => NumberedApart, [Next]_vars
  PROVE  (Ordered => NumberedApart)'
<1>. USE DEF socketVars, callVars, linkVars
<1>1. UNCHANGED faulty
  BY DEF Next, vars
<1>. SUFFICES ASSUME Ordered PROVE NumberedApart'
  BY <1>1 DEF Ordered
<1>2. net \in Seq(Packets) /\ Len(net) \in Nat /\ NumberedApart
  BY DEF LinkInv, Types
<1>3. CASE UNCHANGED net
  BY <1>2, <1>3 DEF NumberedApart
<1>4. CASE SendTo
  <2>1. /\ pc = "use" /\ net' = Append(net, packet) /\ packet \in Packets
    BY <1>4 DEF SendTo, LinkInv, Types, Carrying
  <2>2. /\ Len(net') = Len(net) + 1 /\ net'[Len(net) + 1] = packet
        /\ \A i \in 1..Len(net) : net'[i] = net[i]
    BY <1>2, <2>1, AppendProperties
  <2>3. net # <<>> => \E d \in 1..(SeqNumbers - 1) : packet.seq = (net[Len(net)].seq + d) % SeqNumbers
    BY <2>1 DEF GapInv, Behind, Carrying
  <2>4. ASSUME NEW i \in 1..Len(net)
        PROVE  \E d \in 1..(SeqNumbers - 1) : net'[i + 1].seq = (net'[i].seq + d) % SeqNumbers
    <3>1. CASE i = Len(net)
      BY <1>2, <2>2, <2>3, <2>4, <3>1, EmptySeq
    <3>2. CASE i # Len(net)
      <4>1. i \in 1..(Len(net) - 1) /\ i \in 1..Len(net) /\ i + 1 \in 1..Len(net)
        BY <1>2, <2>4, <3>2
      <4>2. net'[i] = net[i] /\ net'[i + 1] = net[i + 1]
        BY <2>2, <4>1
      <4>. QED
        BY <1>2, <4>1, <4>2 DEF NumberedApart
    <3>. QED
      BY <3>1, <3>2
  <2>5. 1..(Len(net') - 1) = 1..Len(net)
    BY <1>2, <2>2
  <2>. QED
    BY <2>4, <2>5 DEF NumberedApart
<1>5. CASE Deliver
  <2>1. net # <<>> /\ net' = RemoveAt(net, 1)
    BY <1>5 DEF Deliver, Arrive
  <2>2. /\ Len(net') = Len(net) - 1 /\ \A i \in 1..(Len(net) - 1) : net'[i] = net[i + 1]
    BY <1>2, <2>1, FirstRemoved
  <2>3. ASSUME NEW i \in 1..(Len(net') - 1)
        PROVE  \E d \in 1..(SeqNumbers - 1) : net'[i + 1].seq = (net'[i].seq + d) % SeqNumbers
    <3>1. i \in 1..(Len(net) - 1) /\ i + 1 \in 1..(Len(net) - 1)
      BY <1>2, <2>2, <2>3
    <3>2. net'[i] = net[i + 1] /\ net'[i + 1] = net[(i + 1) + 1]
      BY <2>2, <3>1
    <3>. QED
      BY <1>2, <3>1, <3>2 DEF NumberedApart
  <2>. QED
    BY <2>3 DEF NumberedApart
<1>6. CASE DeliverEarly \/ Lose
  BY <1>6 DEF DeliverEarly, Lose, Ordered
<1>7. CASE Call \/ Exit \/ EndOfScript \/ Kill \/ Session \/ (Transport /\ ~SendTo) \/ Web \/ UNCHANGED vars
  <2>1. UNCHANGED net
    BY <1>7 DEF Call, Exit, EndOfScript, Kill, Session, Encode, Sent, Transport, TestSocket, SendToFails,
       SocketGone, HandleTests, HandleCloses, HandleMeetsNone, HandleClears, Retry, Raise, Web, WebTests,
       WebCloses, WebClears, vars
  <2>. QED
    BY <1>3, <2>1
<1>. QED
  BY <1>4, <1>5, <1>6, <1>7 DEF Next, Network

(* Neither a retry nor a send that was given up, a disconnect by the web      *)
(* thread or a kill makes a difference between what a session remembers and   *)
(* what it has sent: while the network keeps what it is given, the flags are  *)
(* what the camera does, and of two datagrams sent one after the other the    *)
(* second has another number, for any sequence numbers and any faults fewer   *)
(* than it takes to go once around them.                                      *)
THEOREM Exact == FewFaults /\ Spec => []LinkIsExact
<1>1. Init => NumberInv /\ faulty \in Environments
  BY LinkAssumption DEF Init, NumberInv, ClosedInv, GapInv, Tries, Failed, Handling, Carrying, NumberedApart
<1>2. FewFaults /\ LinkInv /\ LinkInv' /\ NumberInv /\ faulty \in Environments /\ [Next]_vars
        => (NumberInv /\ faulty \in Environments)'
  <2>. SUFFICES ASSUME FewFaults, LinkInv, LinkInv', NumberInv, faulty \in Environments, [Next]_vars
                PROVE  (NumberInv /\ faulty \in Environments)'
    OBVIOUS
  <2>1. faulty' = faulty
    BY DEF Next, vars
  <2>. QED
    BY <2>1, ClosedStep, GapStep, NumberedStep DEF NumberInv, LinkInv
<1>3. FewFaults => FewFaults'
  BY DEF FewFaults
<1>4. (Ordered => FlagsMatchCamera) /\ NumberInv => LinkIsExact
  BY DEF NumberInv, LinkIsExact
<1>. QED
  BY <1>1, <1>2, <1>3, <1>4, LinkInvariant, FlagsAreTrue, PTL DEF Spec

-----------------------------------------------------------------------------
(* The end of a script.                                                       *)

(* While the network and the process are sound: __exit__ goes through its two *)
(* stops, and what it has sent is noted, unless two sends failed.             *)
ExitInv ==
  faulty = {} =>
    /\ web = "none"
    /\ pc \in {"dtest", "ended"} => exiting
    /\ exiting /\ faults < 2 =>
         \/ pc \in Sending /\ todo = StopAll
         \/ pc \in Sending /\ todo = <<Command("zoom", FALSE)>> /\ ~flags["panTilt"]
         \/ pc \in {"dtest", "ended"} /\ \A a \in Axes : ~flags[a]

LEMMA ExitStep ==
  ASSUME LinkInv, GapInv, FewFaults, faulty \in Environments, ExitInv, [Next]_vars
  PROVE  ExitInv'
<1>. USE DEF socketVars, callVars, linkVars
<1>1. UNCHANGED faulty /\ Types /\ WorkInv
  BY DEF Next, vars, LinkInv
<1>. SUFFICES ASSUME faulty = {} PROVE ExitInv'
  BY <1>1 DEF ExitInv
<1>2. /\ web = "none" /\ pc # "fatal"
      /\ faults \in Nat /\ attempt \in 1..2 /\ flags \in [Axes -> BOOLEAN]
  BY <1>1, Counts DEF ExitInv, LinkInv, SocketInv, Types
<1>3. CASE Call \/ Network \/ UNCHANGED vars
  BY <1>1, <1>3 DEF Call, Network, Deliver, DeliverEarly, Lose, Arrive, vars, ExitInv
<1>4. CASE Exit
  BY <1>1, <1>2, <1>4 DEF Exit, ExitInv, Sending
<1>5. CASE Encode
  BY <1>1, <1>2, <1>5 DEF Encode, ExitInv, Sending, Carrying
<1>6. CASE Sent
  <2>1. /\ pc = "sent" /\ flags' = FlagsAfter(Head(todo)) /\ todo' = Tail(todo)
        /\ pc' = (IF Len(todo) > 1 THEN "encode" ELSE IF exiting THEN "dtest" ELSE "idle")
        /\ UNCHANGED <<exiting, web, faults>>
    BY <1>6 DEF Sent
  <2>2. CASE exiting /\ faults < 2 /\ todo = StopAll
    <3>1. Head(todo) = Command("panTilt", FALSE) /\ Tail(todo) = <<Command("zoom", FALSE)>> /\ Len(todo) = 2
      <4>1. \A c, d \in Commands : /\ Head(<<c, d>>) = c /\ Tail(<<c, d>>) = <<d>>
                                  /\ Len(<<c, d>>) = 2
        OBVIOUS
      <4>2. Command("panTilt", FALSE) \in Commands /\ Command("zoom", FALSE) \in Commands
        BY DEF Command, Commands, Axes
      <4>3. todo = <<Command("panTilt", FALSE), Command("zoom", FALSE)>>
        BY <2>2 DEF StopAll
      <4>. QED
        BY ONLY <4>1, <4>2, <4>3
    <3>2. pc' = "encode" /\ ~flags'["panTilt"]
      BY <1>2, <2>1, <2>2, <3>1 DEF FlagsAfter, Command, Axes
    <3>. QED
      BY <1>2, <2>1, <3>1, <3>2 DEF ExitInv, Sending
  <2>3. CASE exiting /\ faults < 2 /\ todo = <<Command("zoom", FALSE)>> /\ ~flags["panTilt"]
    <3>1. Head(todo) = Command("zoom", FALSE) /\ Len(todo) = 1
      BY <2>3
    <3>2. pc' = "dtest" /\ \A a \in Axes : ~flags'[a]
      BY <1>2, <2>1, <2>3, <3>1 DEF FlagsAfter, Command, Axes
    <3>. QED
      BY <1>2, <2>1, <2>3, <3>2 DEF ExitInv
  <2>4. exiting /\ faults < 2 => todo = StopAll \/ (todo = <<Command("zoom", FALSE)>> /\ ~flags["panTilt"])
    BY <2>1 DEF ExitInv
  <2>5. CASE ~(exiting /\ faults < 2)
    BY <1>2, <2>1, <2>5 DEF ExitInv
  <2>. QED
    BY <2>2, <2>3, <2>4, <2>5
<1>7. CASE Transport /\ ~Raise
  <2>1. /\ pc \in Carrying /\ pc' \in Carrying \cup {"sent", "fatal"} /\ UNCHANGED <<todo, flags, exiting, web>>
        /\ faults' \in {faults, faults + 1}
    BY <1>7 DEF Transport, TestSocket, SendTo, SendToFails, SocketGone, HandleTests, HandleCloses,
       HandleMeetsNone, HandleClears, Retry, RetryFrom, Carrying
  <2>2. pc' # "fatal"
    BY <1>2, <1>7, <2>1 DEF Transport, TestSocket, SendTo, SendToFails, SocketGone, HandleTests,
       HandleCloses, HandleMeetsNone, HandleClears, Retry, RetryFrom, LinkInv, SocketInv
  <2>3. faults' < 2 => faults < 2
    BY <1>2, <2>1
  <2>. QED
    BY <1>1, <1>2, <2>1, <2>2, <2>3 DEF ExitInv, Sending, Carrying
<1>8. CASE Raise
  <2>1. pc = "raise" /\ attempt = 2 /\ faults' = faults /\ web' = web /\ exiting' = exiting
        /\ pc' = (IF exiting THEN "dtest" ELSE "idle")
    BY <1>2, <1>8 DEF Raise, MayRetry
  <2>2. ~(faults < 2)
    BY <1>2, <2>1 DEF GapInv, Tries, Failed
  <2>. QED
    BY <1>1, <1>2, <2>1, <2>2 DEF ExitInv
<1>9. CASE EndOfScript
  BY <1>1, <1>2, <1>9 DEF EndOfScript, ExitInv, Sending, Carrying
<1>10. CASE Kill \/ Web
  BY <1>2, <1>10 DEF Kill, Web, WebTests, WebCloses, WebClears
<1>. QED
  BY <1>3, <1>4, <1>5, <1>6, <1>7, <1>8, <1>9, <1>10 DEF Next, Session

(* A script that ends with its block leaves the camera at rest although one   *)
(* send failed, whatever it had sent before and however often it was retried. *)
THEOREM ExitStopsCamera == FewFaults /\ Spec => []StillAfterExit
<1>1. Init => GapInv /\ ClosedInv /\ ExitInv /\ faulty \in Environments
  BY LinkAssumption DEF Init, ClosedInv, GapInv, Tries, Failed, Handling, Carrying, ExitInv
<1>2. FewFaults /\ LinkInv /\ LinkInv' /\ GapInv /\ ClosedInv /\ ExitInv /\ faulty \in Environments
        /\ [Next]_vars
        => (GapInv /\ ClosedInv /\ ExitInv /\ faulty \in Environments)'
  <2>. SUFFICES ASSUME FewFaults, LinkInv, LinkInv', GapInv, ClosedInv, ExitInv, faulty \in Environments,
                       [Next]_vars
                PROVE  (GapInv /\ ClosedInv /\ ExitInv /\ faulty \in Environments)'
    OBVIOUS
  <2>1. faulty' = faulty
    BY DEF Next, vars
  <2>. QED
    BY <2>1, ClosedStep, GapStep, ExitStep DEF LinkInv
<1>3. FewFaults => FewFaults'
  BY DEF FewFaults
<1>4. LinkInv /\ EffectInv /\ ExitInv => StillAfterExit
  <2>. SUFFICES ASSUME LinkInv, EffectInv, ExitInv, faulty = {}, pc = "ended", net = <<>>, faults < 2,
                       NEW a \in Axes
                PROVE  ~camera[a]
    BY DEF StillAfterExit
  <2>1. ~flags[a]
    BY DEF ExitInv, Sending, Carrying
  <2>2. camera[a] = flags[a]
    BY DEF EffectInv, Ends, Flag, Ordered
  <2>. QED
    BY <2>1, <2>2
<1>. QED
  BY <1>1, <1>2, <1>3, <1>4, LinkInvariant, EffectInvariant, PTL DEF Spec

------------------------------------------------------------------------------
(* AxisMapping.  Its numbers are integers, so that every step of the          *)
(* conversion is a product or a rounded quotient.                             *)

LEMMA DivMonotone ==
  ASSUME NEW a \in Int, NEW b \in Int, a <= b, NEW d \in Nat \ {0}
  PROVE  a \div d \in Int /\ b \div d \in Int /\ a \div d <= b \div d
  OBVIOUS

LEMMA DivWhole ==
  ASSUME NEW n \in Int, NEW d \in Nat \ {0}
  PROVE  (n * d) \div d = n /\ (d * n) \div d = n
  OBVIOUS

LEMMA TimesMonotone ==
  ASSUME NEW a \in Int, NEW b \in Int, a <= b, NEW c \in Nat
  PROVE  a * c \in Int /\ b * c \in Int /\ a * c <= b * c /\ c * a <= c * b
  OBVIOUS

LEMMA AbsSign ==
  ASSUME NEW n \in Int
  PROVE  /\ Axis!Abs(n) \in Nat /\ Axis!Abs(-n) = Axis!Abs(n) /\ (Axis!Abs(n) = 0 <=> n = 0)
         /\ Axis!Sign(n) \in {-1, 0, 1} /\ (Axis!Sign(n) = 0 <=> n = 0)
         /\ n > 0 => Axis!Abs(n) = n /\ Axis!Sign(n) = 1
         /\ n < 0 => Axis!Abs(n) = -n /\ Axis!Sign(n) = -1
  BY DEF Axis!Abs, Axis!Sign

(* A sign does not change the size of a number.                               *)
LEMMA SignedSize ==
  ASSUME NEW s \in {-1, 1}, NEW n \in Nat
  PROVE  Axis!Abs(s * n) = n /\ Axis!Abs(-(s * n)) = n /\ s * n \in Int
  BY DEF Axis!Abs

(* A product of two numbers between 0 and One is one.                         *)
LEMMA TimesFacts ==
  ASSUME NEW a \in 0..One, NEW b \in 0..One
  PROVE  /\ Axis!Times(a, b) \in 0..One
         /\ \A c \in 0..One : a <= c => Axis!Times(a, b) <= Axis!Times(c, b)
         /\ Axis!Times(One, b) = b /\ Axis!Times(0, b) = 0
<1>1. One \in Nat \ {0}
  BY AxisAssumption
<1>2. 0 * b <= a * b /\ a * b <= One * b /\ a * b \in Int /\ 0 * b = 0 /\ One * b \in Int
  BY <1>1, TimesMonotone
<1>3. (0 * b) \div One <= (a * b) \div One /\ (a * b) \div One <= (One * b) \div One /\ (a * b) \div One \in Int
  BY <1>1, <1>2, DivMonotone
<1>4. (One * b) \div One = b /\ (0 * One) \div One = 0
  BY <1>1, DivWhole
<1>5. (0 * b) \div One = 0
  BY <1>1, <1>2, <1>4
<1>6. ASSUME NEW c \in 0..One, a <= c PROVE Axis!Times(a, b) <= Axis!Times(c, b)
  <2>1. a * b <= c * b /\ a * b \in Int /\ c * b \in Int
    BY <1>1, <1>6, TimesMonotone
  <2>. QED
    BY <1>1, <2>1, DivMonotone DEF Axis!Times
<1>. QED
  BY <1>1, <1>3, <1>4, <1>5, <1>6 DEF Axis!Times

(* Rounding keeps the order and whole numbers.                                *)
LEMMA RoundWhole ==
  ASSUME NEW n \in Int
  PROVE  Axis!Round(n * One) = n
<1>1. One \in Nat \ {0}
  BY AxisAssumption
<1>2. (n * One) \div One = n
  BY <1>1, DivWhole
<1>3. (n * One) % One = 0
  BY <1>1
<1>. QED
  BY <1>1, <1>2, <1>3 DEF Axis!Round

LEMMA RoundMonotone ==
  ASSUME NEW a \in Int, NEW b \in Int, a <= b
  PROVE  Axis!Round(a) \in Int /\ Axis!Round(a) <= Axis!Round(b)
<1>. DEFINE w(n) == n \div One  r(n) == n % One
<1>1. One \in Nat \ {0}
  BY AxisAssumption
<1>2. w(a) \in Int /\ w(b) \in Int /\ w(a) <= w(b)
  BY <1>1, DivMonotone
<1>3. r(a) \in 0..(One - 1) /\ r(b) \in 0..(One - 1) /\ a = w(a) * One + r(a) /\ b = w(b) * One + r(b)
  BY <1>1
<1>4. Axis!Round(a) \in {w(a), w(a) + 1} /\ Axis!Round(b) \in {w(b), w(b) + 1}
  BY DEF Axis!Round
<1>5. CASE w(a) < w(b)
  <2>. HIDE DEF w, r
  <2>. QED
    BY <1>2, <1>4, <1>5
<1>6. CASE w(a) = w(b)
  <2>1. r(a) <= r(b)
    <3>1. w(a) * One = w(b) * One /\ w(a) * One \in Int
      BY <1>1, <1>2, <1>6
    <3>. DEFINE p == w(a) * One
    <3>2. a = p + r(a) /\ b = p + r(b) /\ p \in Int
      BY <1>3, <3>1
    <3>. HIDE DEF p, w, r
    <3>. QED
      BY <1>3, <3>2
  <2>2. Axis!Round(b) = w(b) => Axis!Round(a) = w(a)
    BY <1>1, <1>2, <1>3, <1>6, <2>1 DEF Axis!Round
  <2>. HIDE DEF w, r
  <2>. QED
    BY <1>2, <1>4, <1>6, <2>2
<1>. QED
  BY <1>2, <1>5, <1>6

(* A reading is between -One and One, on the side of the centre it is read    *)
(* on, and grows with the distance from the centre.                           *)
LEMMA NormalizedFacts ==
  ASSUME NEW r \in 0..(2 * Notches)
  PROVE  /\ Axis!Normalized(r) \in -One..One
         /\ r - Notches \in -Flat..Flat => Axis!Normalized(r) = 0
         /\ r - Notches >= 0 => Axis!Normalized(r) >= 0
         /\ r - Notches <= 0 => Axis!Normalized(r) <= 0
         /\ r = 0 => Axis!Normalized(r) = -One
         /\ r = 2 * Notches => Axis!Normalized(r) = One
<1>. DEFINE d == r - Notches
<1>1. One \in Nat \ {0} /\ Notches \in Nat \ {0} /\ Flat \in 0..(Notches - 1) /\ d \in -Notches..Notches
  BY AxisAssumption
<1>2. (-Notches) * One <= d * One /\ d * One <= Notches * One /\ d * One \in Int /\ (-Notches) * One \in Int /\ Notches * One \in Int
  BY <1>1, TimesMonotone
<1>3. (Notches * One) \div Notches = One /\ ((-Notches) * One) \div Notches = -One /\ 0 \div Notches = 0
  <2>1. (Notches * One) \div Notches = One /\ (Notches * (-One)) \div Notches = -One /\ (0 * Notches) \div Notches = 0
    BY <1>1, DivWhole
  <2>2. (-Notches) * One = Notches * (-One) /\ 0 * Notches = 0
    BY <1>1
  <2>. QED
    BY <2>1, <2>2
<1>4. (d * One) \div Notches \in -One..One
  <2>1. -One <= (d * One) \div Notches /\ (d * One) \div Notches <= One /\ (d * One) \div Notches \in Int
    BY <1>1, <1>2, <1>3, DivMonotone
  <2>. QED
    BY <1>1, <2>1
<1>5. d >= 0 => (d * One) \div Notches >= 0
  <2>. SUFFICES ASSUME d >= 0 PROVE (d * One) \div Notches >= 0
    OBVIOUS
  <2>1. 0 * One <= d * One /\ 0 * One = 0
    BY <1>1, TimesMonotone
  <2>. QED
    BY <1>1, <1>2, <1>3, <2>1, DivMonotone
<1>6. d <= 0 => (d * One) \div Notches <= 0
  <2>. SUFFICES ASSUME d <= 0 PROVE (d * One) \div Notches <= 0
    OBVIOUS
  <2>1. d * One <= 0 * One /\ 0 * One = 0
    BY <1>1, TimesMonotone
  <2>. QED
    BY <1>1, <1>2, <1>3, <2>1, DivMonotone
<1>7. r = 0 => d = -Notches /\ d \notin -Flat..Flat
  BY <1>1
<1>8. r = 2 * Notches => d = Notches /\ d \notin -Flat..Flat
  BY <1>1
<1>9. Axis!Normalized(r) = IF d \in -Flat..Flat THEN 0 ELSE (d * One) \div Notches
  BY DEF Axis!Normalized
<1>10. r = 0 => Axis!Normalized(r) = -One
  BY <1>3, <1>7, <1>9
<1>11. r = 2 * Notches => Axis!Normalized(r) = One
  BY <1>3, <1>8, <1>9
<1>. DEFINE v == (d * One) \div Notches
<1>. HIDE DEF v
<1>12. v \in -One..One /\ (d >= 0 => v >= 0) /\ (d <= 0 => v <= 0)
       /\ Axis!Normalized(r) = IF d \in -Flat..Flat THEN 0 ELSE v
  BY <1>4, <1>5, <1>6, <1>9 DEF v
<1>13. CASE d \in -Flat..Flat
  BY <1>1, <1>10, <1>11, <1>12, <1>13
<1>14. CASE d \notin -Flat..Flat
  BY <1>1, <1>10, <1>11, <1>12, <1>14
<1>. QED
  BY <1>13, <1>14

(* Further out on the same side.                                              *)
LEMMA NormalizedFurther ==
  ASSUME NEW r \in 0..(2 * Notches), NEW s \in 0..(2 * Notches),
         (s > r /\ r >= Notches) \/ (s < r /\ r <= Notches)
  PROVE  Axis!Abs(Axis!Normalized(r)) <= Axis!Abs(Axis!Normalized(s))
<1>1. One \in Nat \ {0} /\ Notches \in Nat \ {0} /\ Flat \in 0..(Notches - 1)
  BY AxisAssumption
<1>2. Axis!Normalized(r) \in Int /\ Axis!Normalized(s) \in Int
  BY <1>1, NormalizedFacts
<1>3. CASE r - Notches \in -Flat..Flat
  BY <1>2, <1>3, NormalizedFacts, AbsSign
<1>4. CASE r - Notches \notin -Flat..Flat
  <2>1. s - Notches \notin -Flat..Flat
    BY <1>1, <1>4
  <2>. DEFINE vr == ((r - Notches) * One) \div Notches
              vs == ((s - Notches) * One) \div Notches
  <2>2. Axis!Normalized(r) = vr /\ Axis!Normalized(s) = vs
    BY <1>4, <2>1 DEF Axis!Normalized
  <2>3. CASE s > r /\ r >= Notches
    <3>1. (r - Notches) * One <= (s - Notches) * One /\ (r - Notches) * One \in Int /\ (s - Notches) * One \in Int
      BY <1>1, <2>3, TimesMonotone
    <3>2. vr <= vs
      BY <1>1, <3>1, DivMonotone
    <3>3. Axis!Normalized(r) >= 0 /\ Axis!Normalized(s) >= 0
      BY <1>1, <2>3, NormalizedFacts
    <3>. HIDE DEF vr, vs
    <3>. QED
      BY <1>2, <2>2, <3>2, <3>3 DEF Axis!Abs
  <2>4. CASE s < r /\ r <= Notches
    <3>1. (s - Notches) * One <= (r - Notches) * One /\ (r - Notches) * One \in Int /\ (s - Notches) * One \in Int
      BY <1>1, <2>4, TimesMonotone
    <3>2. vs <= vr
      BY <1>1, <3>1, DivMonotone
    <3>3. Axis!Normalized(r) <= 0 /\ Axis!Normalized(s) <= 0
      BY <1>1, <2>4, NormalizedFacts
    <3>. HIDE DEF vr, vs
    <3>. QED
      BY <1>2, <2>2, <3>2, <3>3 DEF Axis!Abs
  <2>. QED
    BY <2>3, <2>4
<1>. QED
  BY <1>3, <1>4

(* The dead zone keeps sign, order and the ends.                              *)
LEMMA DeadzonedFacts ==
  ASSUME NEW a \in -One..One, NEW zone \in 0..One
  PROVE  /\ Axis!Deadzoned(a, zone) \in -One..One
         /\ a >= 0 => Axis!Deadzoned(a, zone) >= 0
         /\ a <= 0 => Axis!Deadzoned(a, zone) <= 0
         /\ zone # One /\ a \in {-One, One} => Axis!Deadzoned(a, zone) = a
         /\ \A b \in -One..One : Axis!Abs(a) <= Axis!Abs(b) =>
              Axis!Abs(Axis!Deadzoned(a, zone)) <= Axis!Abs(Axis!Deadzoned(b, zone))
<1>. DEFINE size(c) == ((Axis!Abs(c) - zone) * One) \div (One - zone)
<1>1. One \in Nat \ {0} /\ a \in Int
  BY AxisAssumption
<1>2. ASSUME NEW c \in -One..One
      PROVE  c \in Int /\ Axis!Abs(c) \in 0..One
  BY <1>1, <1>2, AbsSign DEF Axis!Abs
<1>3. ASSUME NEW c \in -One..One, Axis!Abs(c) > zone
      PROVE  size(c) \in 0..One /\ One - zone \in Nat \ {0} /\ zone # One
  <2>. DEFINE n == Axis!Abs(c) - zone  d == One - zone
  <2>1. d \in Nat \ {0} /\ n \in 0..d
    BY <1>1, <1>2, <1>3
  <2>2. size(c) = (n * One) \div d
    OBVIOUS
  <2>3. zone # One
    BY <1>1, <2>1
  <2>. HIDE DEF n, d, size
  <2>4. 0 <= n * One /\ n * One <= One * d /\ n * One \in Int /\ One * d \in Int
    <3>1. n * One <= d * One /\ 0 * One <= n * One /\ n * One \in Int /\ d * One \in Int
      BY <1>1, <2>1, TimesMonotone
    <3>. QED
      BY <1>1, <2>1, <3>1
  <2>5. (One * d) \div d = One /\ 0 \div d = 0
    <3>1. (0 * d) \div d = 0 /\ 0 * d = 0
      BY <2>1, DivWhole
    <3>. QED
      BY <1>1, <2>1, <3>1, DivWhole
  <2>6. 0 \div d <= (n * One) \div d /\ (n * One) \div d <= (One * d) \div d /\ (n * One) \div d \in Int
    BY <2>1, <2>4, DivMonotone
  <2>. DEFINE q == (n * One) \div d
  <2>7. size(c) = q /\ 0 <= q /\ q <= One /\ q \in Int
    BY <2>2, <2>5, <2>6
  <2>. HIDE DEF q
  <2>8. size(c) \in 0..One
    BY <1>1, <2>7
  <2>. QED
    BY <2>1, <2>3, <2>8 DEF d
<1>4. ASSUME NEW c \in -One..One, NEW b \in -One..One, Axis!Abs(c) <= Axis!Abs(b), Axis!Abs(c) > zone
      PROVE  size(c) <= size(b)
  <2>1. One - zone \in Nat \ {0}
    BY <1>3, <1>4
  <2>2. (Axis!Abs(c) - zone) * One <= (Axis!Abs(b) - zone) * One
        /\ (Axis!Abs(c) - zone) * One \in Int /\ (Axis!Abs(b) - zone) * One \in Int
    BY <1>1, <1>2, <1>4, TimesMonotone
  <2>. QED
    BY <2>1, <2>2, DivMonotone
<1>5. zone # One => size(One) = One /\ size(-One) = One
  <2>. SUFFICES ASSUME zone # One PROVE size(One) = One /\ size(-One) = One
    OBVIOUS
  <2>1. One - zone \in Nat \ {0} /\ Axis!Abs(One) = One /\ Axis!Abs(-One) = One
    BY <1>1, AbsSign
  <2>2. ((One - zone) * One) \div (One - zone) = One
    BY <1>1, <2>1, DivWhole
  <2>. QED
    BY <2>1, <2>2
<1>6. \A c : Axis!Deadzoned(c, zone) = IF Axis!Abs(c) <= zone THEN 0 ELSE Axis!Sign(c) * size(c)
  BY DEF Axis!Deadzoned
<1>. HIDE DEF size
<1>7. ASSUME NEW c \in -One..One
      PROVE  /\ Axis!Deadzoned(c, zone) \in -One..One
             /\ c >= 0 => Axis!Deadzoned(c, zone) >= 0
             /\ c <= 0 => Axis!Deadzoned(c, zone) <= 0
             /\ Axis!Abs(c) > zone => Axis!Abs(Axis!Deadzoned(c, zone)) = size(c)
             /\ Axis!Abs(c) <= zone => Axis!Deadzoned(c, zone) = 0
  <2>1. CASE Axis!Abs(c) <= zone
    BY <1>1, <1>2, <1>6, <2>1
  <2>2. CASE Axis!Abs(c) > zone /\ c > 0
    <3>1. Axis!Deadzoned(c, zone) = size(c) /\ size(c) \in 0..One
      BY <1>1, <1>2, <1>3, <1>6, <2>2, AbsSign
    <3>. QED
      BY <1>1, <1>2, <2>2, <3>1 DEF Axis!Abs
  <2>3. CASE Axis!Abs(c) > zone /\ c < 0
    <3>1. Axis!Deadzoned(c, zone) = -size(c) /\ size(c) \in 0..One
      BY <1>1, <1>2, <1>3, <1>6, <2>3, AbsSign
    <3>. QED
      BY <1>1, <1>2, <2>3, <3>1 DEF Axis!Abs
  <2>4. Axis!Abs(c) > zone => c # 0
    BY <1>2, AbsSign
  <2>. QED
    BY <1>1, <1>2, <2>1, <2>2, <2>3, <2>4
<1>8. zone # One /\ a \in {-One, One} => Axis!Deadzoned(a, zone) = a
  <2>. SUFFICES ASSUME zone # One, a \in {-One, One} PROVE Axis!Deadzoned(a, zone) = a
    OBVIOUS
  <2>1. Axis!Abs(a) > zone /\ size(a) = One
    BY <1>1, <1>5, AbsSign
  <2>. QED
    BY <1>1, <1>6, <2>1, AbsSign
<1>9. ASSUME NEW b \in -One..One, Axis!Abs(a) <= Axis!Abs(b)
      PROVE  Axis!Abs(Axis!Deadzoned(a, zone)) <= Axis!Abs(Axis!Deadzoned(b, zone))
  <2>1. Axis!Abs(Axis!Deadzoned(b, zone)) \in Nat
    BY <1>1, <1>7, AbsSign
  <2>2. CASE Axis!Abs(a) <= zone
    BY <1>7, <2>1, <2>2, AbsSign
  <2>3. CASE Axis!Abs(a) > zone
    <3>1. Axis!Abs(b) > zone
      BY <1>1, <1>2, <1>9, <2>3
    <3>. QED
      BY <1>4, <1>7, <1>9, <2>3, <3>1
  <2>. QED
    BY <1>2, <2>2, <2>3
<1>. QED
  BY <1>7, <1>8, <1>9

------------------------------------------------------------------------------
PtzAxes == {"pan", "tilt", "zoom"}

AxisTypes ==
    /\ conf \in AxisConfigs
    /\ stick \in [PtzAxes \cup {"throttle"} -> 0..(2 * Notches)]
    /\ hat \in [{"x", "y"} -> {-1, 0, 1}]

(* The configuration in force keeps the assumption.                           *)
LEMMA ConfFacts ==
  ASSUME AxisTypes
  PROVE  /\ conf.deadzone \in 0..One /\ \A axis \in PtzAxes : Axis!Threshold(axis) \in 1..One
         /\ conf.throttleInvert \in BOOLEAN /\ conf.hatThrottle \in BOOLEAN
         /\ conf.maxMultiplier \in 0..One /\ conf.minMultiplier \in 0..conf.maxMultiplier
         /\ conf.fine \in 0..20 /\ conf.invert \in [PtzAxes -> BOOLEAN]
         /\ conf.pan \in SpeedRanges(24) /\ conf.tilt \in SpeedRanges(20) /\ conf.zoom \in SpeedRanges(7)
         /\ conf["pan"] = conf.pan /\ conf["tilt"] = conf.tilt /\ conf["zoom"] = conf.zoom
  BY AxisAssumption DEF AxisTypes, PtzAxes, Axis!Threshold

LEMMA ReadingsFacts ==
  ASSUME AxisTypes
  PROVE  /\ stick.throttle \in 0..(2 * Notches)
         /\ \A axis \in PtzAxes : stick[axis] \in 0..(2 * Notches)
         /\ stick.pan = stick["pan"] /\ stick.tilt = stick["tilt"] /\ stick.zoom = stick["zoom"]
         /\ hat.x \in {-1, 0, 1} /\ hat.y \in {-1, 0, 1}
  BY DEF AxisTypes, PtzAxes

LEMMA MultiplierFacts ==
  ASSUME AxisTypes
  PROVE  Axis!ThrottleMultiplier \in 0..One
<1>. DEFINE lever == Axis!Normalized(stick.throttle)
            turned == IF conf.throttleInvert THEN -lever ELSE lever
            unit == (turned + One) \div 2
            width == conf.maxMultiplier - conf.minMultiplier
<1>1. One \in Nat \ {0} /\ lever \in -One..One
  BY AxisAssumption, ReadingsFacts, NormalizedFacts
<1>2. turned \in -One..One
  BY <1>1
<1>3. Axis!ThrottleMultiplier = conf.minMultiplier + Axis!Times(unit, width)
  BY DEF Axis!ThrottleMultiplier
<1>. HIDE DEF lever, turned
<1>4. unit \in 0..One
  BY <1>1, <1>2
<1>5. conf.maxMultiplier \in 0..One /\ conf.minMultiplier \in 0..conf.maxMultiplier /\ width \in 0..One
  BY <1>1, ConfFacts
<1>. HIDE DEF unit
<1>6. One \in 0..One
  BY <1>1
<1>. HIDE DEF width
<1>7. Axis!Times(unit, width) \in 0..One /\ Axis!Times(unit, width) <= Axis!Times(One, width)
      /\ Axis!Times(One, width) = width
  <2>1. unit <= One
    BY <1>1, <1>4
  <2>2. /\ Axis!Times(unit, width) \in 0..One
        /\ \A c \in 0..One : unit <= c => Axis!Times(unit, width) <= Axis!Times(c, width)
        /\ Axis!Times(One, width) = width
    BY <1>4, <1>5, TimesFacts
  <2>. QED
    BY <1>6, <2>1, <2>2
<1>8. Axis!Times(unit, width) \in 0..width
  BY <1>1, <1>5, <1>7 DEF width
<1>. DEFINE t == Axis!Times(unit, width)
<1>9. t \in 0..width /\ Axis!ThrottleMultiplier = conf.minMultiplier + t
  BY <1>3, <1>8
<1>. HIDE DEF t
<1>10. conf.minMultiplier + t \in 0..One
  BY <1>1, <1>5, <1>9 DEF width
<1>. QED
  BY <1>9, <1>10

(* The value of an axis behind its dead zone, and the turn it takes.          *)
Value(axis) == Axis!Deadzoned(Axis!Normalized(stick[axis]), conf.deadzone)
Turn(axis) == Axis!Inverted(axis, IF axis = "tilt" THEN -1 ELSE 1)
Size(axis) == Axis!Times(Axis!Abs(Value(axis)), Axis!ThrottleMultiplier)

LEMMA ValueFacts ==
  ASSUME AxisTypes, NEW axis \in PtzAxes
  PROVE  /\ Value(axis) \in -One..One /\ Axis!Abs(Value(axis)) \in 0..One
         /\ stick[axis] >= Notches => Value(axis) >= 0
         /\ stick[axis] <= Notches => Value(axis) <= 0
         /\ Axis!AtRest(axis) => Value(axis) = 0
         /\ conf.deadzone # One /\ stick[axis] \in {0, 2 * Notches} => Axis!Abs(Value(axis)) = One
<1>. DEFINE n == Axis!Normalized(stick[axis])
<1>1. One \in Nat \ {0} /\ Notches \in Nat \ {0} /\ stick[axis] \in 0..(2 * Notches) /\ conf.deadzone \in 0..One
  BY AxisAssumption, ReadingsFacts, ConfFacts
<1>2. /\ n \in -One..One
      /\ stick[axis] - Notches \in -Flat..Flat => n = 0
      /\ stick[axis] - Notches >= 0 => n >= 0
      /\ stick[axis] - Notches <= 0 => n <= 0
      /\ stick[axis] = 0 => n = -One
      /\ stick[axis] = 2 * Notches => n = One
  BY <1>1, NormalizedFacts
<1>3. Value(axis) = Axis!Deadzoned(n, conf.deadzone)
  BY DEF Value
<1>. HIDE DEF n
<1>4. /\ Value(axis) \in -One..One
      /\ n >= 0 => Value(axis) >= 0
      /\ n <= 0 => Value(axis) <= 0
      /\ conf.deadzone # One /\ n \in {-One, One} => Value(axis) = n
  <2>. DEFINE zone == conf.deadzone
  <2>1. n \in -One..One /\ zone \in 0..One
    BY <1>1, <1>2
  <2>. HIDE DEF zone
  <2>2. /\ Axis!Deadzoned(n, zone) \in -One..One
        /\ n >= 0 => Axis!Deadzoned(n, zone) >= 0
        /\ n <= 0 => Axis!Deadzoned(n, zone) <= 0
        /\ zone # One /\ n \in {-One, One} => Axis!Deadzoned(n, zone) = n
    BY <2>1, DeadzonedFacts
  <2>. QED
    BY <1>3, <2>2 DEF zone
<1>5. Axis!Abs(Value(axis)) \in 0..One
  BY <1>1, <1>4, AbsSign DEF Axis!Abs
<1>6. Axis!AtRest(axis) => Value(axis) = 0
  <2>. SUFFICES ASSUME Axis!AtRest(axis) PROVE Value(axis) = 0
    OBVIOUS
  <2>1. n = 0
    BY <1>2 DEF Axis!AtRest
  <2>. QED
    BY <1>1, <1>4, <2>1
<1>7. conf.deadzone # One /\ stick[axis] \in {0, 2 * Notches} => Axis!Abs(Value(axis)) = One
  <2>. SUFFICES ASSUME conf.deadzone # One, stick[axis] \in {0, 2 * Notches}
                PROVE  Axis!Abs(Value(axis)) = One
    OBVIOUS
  <2>1. n \in {-One, One} /\ Value(axis) = n
    BY <1>2, <1>4
  <2>. QED
    BY <1>1, <2>1, AbsSign
<1>. QED
  BY <1>1, <1>2, <1>4, <1>5, <1>6, <1>7

LEMMA TurnFacts ==
  ASSUME AxisTypes, NEW axis \in PtzAxes
  PROVE  Turn(axis) \in {-1, 1}
<1>. DEFINE up == IF axis = "tilt" THEN -1 ELSE 1
<1>1. Turn(axis) = IF conf.invert[axis] THEN -up ELSE up
  BY DEF Turn, Axis!Inverted
<1>2. up \in {-1, 1}
  OBVIOUS
<1>. HIDE DEF up
<1>3. CASE conf.invert[axis]
  BY <1>1, <1>2, <1>3
<1>4. CASE ~conf.invert[axis]
  BY <1>1, <1>2, <1>4
<1>. QED
  BY <1>3, <1>4

(* A velocity is a signed size.                                               *)
LEMMA VelocityFacts ==
  ASSUME AxisTypes, NEW axis \in PtzAxes
  PROVE  /\ Size(axis) \in 0..One
         /\ Axis!Velocity(axis) \in {-Size(axis), Size(axis)} /\ Axis!Velocity(axis) \in Int
         /\ Axis!Abs(Axis!Velocity(axis)) = Size(axis)
         /\ Value(axis) = 0 => Size(axis) = 0
         /\ Axis!Sign(Axis!Velocity(axis)) \in {0, Turn(axis)} \/ Value(axis) < 0
         /\ Axis!Sign(Axis!Velocity(axis)) \in {0, -Turn(axis)} \/ Value(axis) > 0
<1>1. One \in Nat \ {0} /\ Axis!ThrottleMultiplier \in 0..One /\ Turn(axis) \in {-1, 1}
      /\ Value(axis) \in -One..One /\ Axis!Abs(Value(axis)) \in 0..One /\ Value(axis) \in Int
  BY AxisAssumption, MultiplierFacts, TurnFacts, ValueFacts
<1>2. Size(axis) \in 0..One
  BY <1>1, TimesFacts DEF Size
<1>3. Axis!Velocity(axis) = Axis!Sign(Value(axis)) * Turn(axis) * Size(axis)
  BY DEF Axis!Velocity, Value, Turn, Size
<1>4. Value(axis) = 0 => Size(axis) = 0
  <2>. SUFFICES ASSUME Value(axis) = 0 PROVE Size(axis) = 0
    OBVIOUS
  <2>1. Axis!Abs(Value(axis)) = 0 /\ 0 \in 0..One
    BY <1>1, AbsSign
  <2>. QED
    BY <1>1, <2>1, TimesFacts DEF Size
<1>. DEFINE v == Value(axis)  t == Turn(axis)  z == Size(axis)  s == Axis!Sign(v)  w == Axis!Velocity(axis)
<1>5. v \in Int /\ t \in {-1, 1} /\ z \in 0..One /\ z \in Nat /\ w = s * t * z /\ (v = 0 => z = 0)
  BY <1>1, <1>2, <1>3, <1>4
<1>6. s \in {-1, 0, 1} /\ (v > 0 => s = 1) /\ (v < 0 => s = -1) /\ (v = 0 => s = 0)
  BY <1>5, AbsSign
<1>. HIDE DEF v, t, z, s, w
<1>7. CASE v > 0
  <2>1. w = t * z /\ w \in {-z, z} /\ w \in Int
    BY <1>5, <1>6, <1>7
  <2>2. Axis!Abs(w) = z
    BY <1>5, <2>1, SignedSize
  <2>3. Axis!Sign(w) \in {0, t}
    BY <1>5, <2>1 DEF Axis!Sign
  <2>. QED
    BY <1>2, <1>4, <1>7, <2>1, <2>2, <2>3 DEF v, t, z, w
<1>8. CASE v < 0
  <2>1. w = -(t * z) /\ w \in {-z, z} /\ w \in Int
    BY <1>5, <1>6, <1>8
  <2>2. Axis!Abs(w) = z
    BY <1>5, <2>1, SignedSize
  <2>3. Axis!Sign(w) \in {0, -t}
    BY <1>5, <2>1 DEF Axis!Sign
  <2>. QED
    BY <1>2, <1>4, <1>8, <2>1, <2>2, <2>3 DEF v, t, z, w
<1>9. CASE v = 0
  <2>1. z = 0 /\ w = 0 /\ Axis!Abs(w) = 0 /\ Axis!Sign(w) = 0
    BY <1>5, <1>6, <1>9, AbsSign
  <2>. QED
    BY <1>2, <1>4, <2>1 DEF v, t, z, w
<1>. QED
  BY <1>5, <1>7, <1>8, <1>9

(* A speed lies in its range and grows with the velocity's size.              *)
LEMMA SpeedFacts ==
  ASSUME NEW top \in Nat, NEW range \in SpeedRanges(top), NEW a \in -One..One
  PROVE  /\ Axis!AxisSpeed(a, range) \in 0..top
         /\ a = 0 => Axis!AxisSpeed(a, range) = 0
         /\ \A b \in -One..One : Axis!Abs(a) <= Axis!Abs(b) =>
              Axis!AxisSpeed(a, range) <= Axis!AxisSpeed(b, range)
<1>1. One \in Nat \ {0} /\ range.min \in 0..top /\ range.max \in 0..top
      /\ (range.min <= range.max \/ range.max = 0)
  BY AxisAssumption DEF SpeedRanges
<1>. DEFINE width == range.max - range.min
            scaled(c) == range.min * One + width * Axis!Abs(c)
<1>2. ASSUME NEW c \in -One..One
      PROVE  c \in Int /\ Axis!Abs(c) \in 0..One
  BY <1>1, <1>2, AbsSign DEF Axis!Abs
<1>3. \A c : Axis!AxisSpeed(c, range) = IF c = 0 \/ range.max = 0 THEN 0 ELSE Axis!Round(scaled(c))
  BY DEF Axis!AxisSpeed
<1>4. CASE range.max = 0
  BY <1>1, <1>3, <1>4
<1>5. CASE range.max # 0
  <2>1. width \in Nat /\ range.min * One \in Nat
    BY <1>1, <1>5
  <2>2. ASSUME NEW c \in -One..One, NEW b \in -One..One, Axis!Abs(c) <= Axis!Abs(b)
        PROVE  scaled(c) <= scaled(b) /\ scaled(c) \in Int /\ scaled(b) \in Int
    <3>1. width * Axis!Abs(c) <= width * Axis!Abs(b)
      BY <1>2, <2>1, <2>2, TimesMonotone
    <3>2. width * Axis!Abs(c) \in Int /\ width * Axis!Abs(b) \in Int
      BY <1>2, <2>1
    <3>. QED
      BY <2>1, <3>1, <3>2
  <2>3. scaled(0) = range.min * One /\ scaled(One) = range.max * One
    <3>1. Axis!Abs(0) = 0 /\ Axis!Abs(One) = One
      BY <1>1, AbsSign
    <3>2. width * 0 = 0 /\ range.min * One + (range.max - range.min) * One = range.max * One
      BY <1>1, <2>1
    <3>. QED
      BY <2>1, <3>1, <3>2
  <2>4. ASSUME NEW c \in -One..One PROVE Axis!Round(scaled(c)) \in range.min..range.max
    <3>1. 0 \in -One..One /\ One \in -One..One /\ Axis!Abs(0) <= Axis!Abs(c) /\ Axis!Abs(c) <= Axis!Abs(One)
      BY <1>1, <1>2, AbsSign
    <3>2. /\ scaled(0) <= scaled(c) /\ scaled(c) <= scaled(One)
          /\ scaled(0) \in Int /\ scaled(c) \in Int /\ scaled(One) \in Int
      BY <2>2, <3>1
    <3>. HIDE DEF scaled
    <3>3. Axis!Round(scaled(0)) <= Axis!Round(scaled(c)) /\ Axis!Round(scaled(c)) <= Axis!Round(scaled(One))
          /\ Axis!Round(scaled(c)) \in Int
      BY <3>2, RoundMonotone
    <3>4. Axis!Round(scaled(0)) = range.min /\ Axis!Round(scaled(One)) = range.max
      BY <1>1, <2>3, RoundWhole
    <3>. QED
      BY <1>1, <3>3, <3>4
  <2>5. ASSUME NEW c \in -One..One
        PROVE  Axis!AxisSpeed(c, range) \in 0..top /\ (c = 0 => Axis!AxisSpeed(c, range) = 0)
    <3>1. Axis!Round(scaled(c)) \in range.min..range.max
      BY <2>4
    <3>. HIDE DEF scaled
    <3>. QED
      BY <1>1, <1>3, <3>1
  <2>6. ASSUME NEW b \in -One..One, Axis!Abs(a) <= Axis!Abs(b)
        PROVE  Axis!AxisSpeed(a, range) <= Axis!AxisSpeed(b, range)
    <3>1. CASE a = 0
      BY <1>1, <2>5, <3>1
    <3>2. CASE a # 0
      <4>1. b # 0
        BY <1>2, <2>6, <3>2, AbsSign
      <4>2. scaled(a) <= scaled(b) /\ scaled(a) \in Int /\ scaled(b) \in Int
        BY <2>2, <2>6
      <4>. HIDE DEF scaled
      <4>3. Axis!Round(scaled(a)) <= Axis!Round(scaled(b))
        BY <4>2, RoundMonotone
      <4>. QED
        BY <1>3, <1>5, <3>2, <4>1, <4>3
    <3>. QED
      BY <3>1, <3>2
  <2>. QED
    BY <2>5, <2>6
<1>. QED
  BY <1>4, <1>5

(* A signed speed has the size of the speed.                                  *)
LEMMA SignedFacts ==
  ASSUME NEW top \in Nat, NEW range \in SpeedRanges(top), NEW a \in -One..One
  PROVE  /\ Axis!Signed(a, range) \in -top..top
         /\ Axis!Abs(Axis!Signed(a, range)) = Axis!AxisSpeed(a, range)
         /\ Axis!AxisSpeed(a, range) \in Nat
         /\ a >= 0 => Axis!Signed(a, range) >= 0
         /\ a <= 0 => Axis!Signed(a, range) <= 0
<1>. DEFINE n == Axis!AxisSpeed(a, range)
<1>1. n \in 0..top /\ (a = 0 => n = 0) /\ a \in Int
  BY SpeedFacts, AxisAssumption
<1>2. Axis!Signed(a, range) = Axis!Sign(a) * n
  BY DEF Axis!Signed
<1>. HIDE DEF n
<1>3. CASE a > 0
  <2>1. Axis!Signed(a, range) = n
    BY <1>1, <1>2, <1>3, AbsSign
  <2>. QED
    BY <1>1, <1>3, <2>1 DEF n, Axis!Abs
<1>4. CASE a < 0
  <2>1. Axis!Signed(a, range) = -n
    BY <1>1, <1>2, <1>4, AbsSign
  <2>. QED
    BY <1>1, <1>4, <2>1 DEF n, Axis!Abs
<1>5. CASE a = 0
  <2>1. Axis!Signed(a, range) = 0 /\ n = 0
    BY <1>1, <1>2, <1>5, AbsSign
  <2>. QED
    BY <1>1, <1>5, <2>1 DEF n, Axis!Abs
<1>. QED
  BY <1>1, <1>3, <1>4, <1>5

(* The hat gives at most its fine speed, and nothing only at its centre.      *)
LEMMA HatFacts ==
  ASSUME AxisTypes
  PROVE  /\ Axis!HatDirection("pan") \in {-1, 0, 1} /\ Axis!HatDirection("tilt") \in {-1, 0, 1}
         /\ Axis!HatDirection("pan") \in {hat.x, -hat.x} /\ Axis!HatDirection("tilt") \in {hat.y, -hat.y}
         /\ Axis!HatSpeed("pan") \in -20..20 /\ Axis!HatSpeed("tilt") \in -20..20
         /\ Axis!HatSpeed("pan") # 0 <=> hat.x # 0 /\ conf.fine # 0
         /\ Axis!HatSpeed("tilt") # 0 <=> hat.y # 0 /\ conf.fine # 0
<1>1. hat.x \in {-1, 0, 1} /\ hat.y \in {-1, 0, 1} /\ conf.fine \in 0..20
      /\ conf.invert["pan"] \in BOOLEAN /\ conf.invert["tilt"] \in BOOLEAN
  BY ReadingsFacts, ConfFacts DEF PtzAxes
<1>2. Axis!HatDirection("pan") \in {hat.x, -hat.x}
  BY DEF Axis!HatDirection, Axis!Inverted
<1>3. Axis!HatDirection("tilt") \in {hat.y, -hat.y}
  <2>1. Axis!HatDirection("tilt") \in {-hat.y, -(-hat.y)}
    BY DEF Axis!HatDirection, Axis!Inverted
  <2>. QED
    BY <1>1, <2>1
<1>4. ASSUME NEW axis, NEW n \in {-1, 0, 1}, Axis!HatDirection(axis) \in {n, -n}
      PROVE  Axis!HatSpeed(axis) \in -20..20 /\ (Axis!HatSpeed(axis) # 0 <=> n # 0 /\ conf.fine # 0)
  <2>. DEFINE m == IF conf.hatThrottle THEN Axis!ThrottleMultiplier ELSE One
              speed == Axis!Larger(1, Axis!Round(conf.fine * m))
              d == Axis!HatDirection(axis)
  <2>1. m \in 0..One /\ One \in Nat \ {0}
    BY AxisAssumption, MultiplierFacts
  <2>2. Axis!HatSpeed(axis) = IF d = 0 \/ conf.fine = 0 THEN 0 ELSE d * speed
    BY DEF Axis!HatSpeed
  <2>3. conf.fine # 0 => speed \in 1..20
    <3>. HIDE DEF m
    <3>1. m * conf.fine <= One * conf.fine /\ conf.fine * m <= conf.fine * One /\ conf.fine * m \in Int
          /\ conf.fine * One \in Int
      BY <1>1, <2>1, TimesMonotone
    <3>2. Axis!Round(conf.fine * m) <= conf.fine /\ Axis!Round(conf.fine * m) \in Int
      BY <1>1, <3>1, RoundMonotone, RoundWhole
    <3>. QED
      BY <1>1, <3>2 DEF Axis!Larger
  <2>4. d \in {-1, 0, 1} /\ (d = 0 <=> n = 0)
    BY <1>4
  <2>. HIDE DEF m, speed, d
  <2>5. CASE n = 0 \/ conf.fine = 0
    BY <2>2, <2>4, <2>5
  <2>6. CASE n # 0 /\ conf.fine # 0
    BY <2>2, <2>3, <2>4, <2>6
  <2>. QED
    BY <2>5, <2>6
<1>. QED
  BY <1>1, <1>2, <1>3, <1>4

(* The three cases of a command.                                              *)
LEMMA CommandCases ==
  ASSUME NEW axis \in {"pan", "tilt"}
  PROVE  /\ Axis!Source \in {"main", "hat", "none"}
         /\ Axis!Source = "main" => Axis!Command(axis) = Axis!Signed(Axis!Velocity(axis), conf[axis])
         /\ Axis!Source = "hat" => Axis!Command(axis) = Axis!HatSpeed(axis)
         /\ Axis!Source = "none" => Axis!Command(axis) = 0
<1>1. Axis!Source \in {"main", "hat", "none"}
  BY DEF Axis!Source
<1>. QED
  BY <1>1 DEF Axis!Command

LEMMA VelocityRange ==
  ASSUME AxisTypes, NEW axis \in PtzAxes
  PROVE  Axis!Velocity(axis) \in -One..One
<1>1. Size(axis) \in 0..One /\ Axis!Velocity(axis) \in {-Size(axis), Size(axis)}
  BY VelocityFacts
<1>. QED
  BY <1>1, AxisAssumption

(* No position of the controls ends the loop with a ValueError.               *)
LEMMA NoErrors ==
  ASSUME AxisTypes
  PROVE  Axis!NoValueError
<1>1. conf.pan \in SpeedRanges(24) /\ conf.tilt \in SpeedRanges(20) /\ conf.zoom \in SpeedRanges(7)
      /\ conf["pan"] = conf.pan /\ conf["tilt"] = conf.tilt
  BY ConfFacts
<1>2. \A axis \in PtzAxes : Axis!Velocity(axis) \in -One..One
  BY VelocityRange
<1>3. Axis!Signed(Axis!Velocity("pan"), conf.pan) \in -24..24
  BY <1>1, <1>2, SignedFacts DEF PtzAxes
<1>4. Axis!Signed(Axis!Velocity("tilt"), conf.tilt) \in -20..20
  BY <1>1, <1>2, SignedFacts DEF PtzAxes
<1>5. Axis!Signed(Axis!Velocity("zoom"), conf.zoom) \in -7..7
  BY <1>1, <1>2, SignedFacts DEF PtzAxes
<1>6. Axis!HatSpeed("pan") \in -20..20 /\ Axis!HatSpeed("tilt") \in -20..20
  BY HatFacts
<1>7. Axis!Command("pan") \in -24..24
  BY <1>1, <1>3, <1>6, CommandCases
<1>8. Axis!Command("tilt") \in -20..20
  BY <1>1, <1>4, <1>6, CommandCases
<1>9. Axis!Command("zoom") \in -7..7
  BY <1>5 DEF Axis!Command
<1>10. \A axis \in {"pan", "tilt"} : conf[axis].min <= conf[axis].max \/ conf[axis].max = 0
  BY <1>1 DEF SpeedRanges
<1>. QED
  BY <1>7, <1>8, <1>9, <1>10 DEF Axis!NoValueError, Axis!Encodable

LEMMA AtRestIsCentered ==
  ASSUME AxisTypes, NEW axis \in PtzAxes, Axis!AtRest(axis)
  PROVE  Axis!Centered(axis)
<1>1. Axis!Abs(Axis!Velocity(axis)) = 0
  BY ValueFacts, VelocityFacts
<1>. QED
  BY <1>1, ConfFacts DEF Axis!Centered

LEMMA ReleasedIsNothing ==
  ASSUME AxisTypes
  PROVE  Axis!ReleasedSendsNothing
<1>1. Axis!AtRest("zoom") => Axis!Centered("zoom")
  BY AtRestIsCentered DEF PtzAxes
<1>2. ASSUME Axis!AtRest("pan"), Axis!AtRest("tilt")
      PROVE  Axis!Source = IF hat = [x |-> 0, y |-> 0] \/ conf.fine = 0 THEN "none" ELSE "hat"
  <2>1. Axis!Centered("pan") /\ Axis!Centered("tilt")
    BY <1>2, AtRestIsCentered DEF PtzAxes
  <2>2. Axis!Source = IF Axis!HatSpeed("pan") # 0 \/ Axis!HatSpeed("tilt") # 0 THEN "hat" ELSE "none"
    BY <2>1 DEF Axis!Source
  <2>3. hat = [x |-> 0, y |-> 0] <=> hat.x = 0 /\ hat.y = 0
    BY DEF AxisTypes
  <2>. QED
    BY <2>2, <2>3, HatFacts
<1>. QED
  BY <1>1, <1>2 DEF Axis!ReleasedSendsNothing

(* Two numbers of which the second has the turned sign of the first, and one  *)
(* that is turned the same way.                                               *)
LEMMA HatAgrees ==
  ASSUME AxisTypes
  PROVE  Axis!HatAgreesWithStick
<1>. SUFFICES ASSUME Axis!Source = "main" PROVE
       /\ hat.x * (stick.pan - Notches) >= 0 => Axis!Command("pan") * Axis!HatDirection("pan") >= 0
       /\ hat.y * (stick.tilt - Notches) >= 0 => Axis!Command("tilt") * Axis!HatDirection("tilt") >= 0
  BY DEF Axis!HatAgreesWithStick
<1>1. One \in Nat \ {0} /\ Notches \in Nat \ {0}
  BY AxisAssumption
<1>2. conf["pan"] \in SpeedRanges(24) /\ conf["tilt"] \in SpeedRanges(20)
      /\ conf.invert["pan"] \in BOOLEAN /\ conf.invert["tilt"] \in BOOLEAN
  BY ConfFacts DEF PtzAxes
<1>3. hat.x \in {-1, 0, 1} /\ hat.y \in {-1, 0, 1}
  BY ReadingsFacts
<1>4. Axis!HatDirection("pan") = Turn("pan") * hat.x
  <2>1. CASE conf.invert["pan"]
    BY <1>3, <2>1 DEF Axis!HatDirection, Axis!Inverted, Turn
  <2>2. CASE ~conf.invert["pan"]
    BY <1>3, <2>2 DEF Axis!HatDirection, Axis!Inverted, Turn
  <2>. QED
    BY <2>1, <2>2
<1>5. Axis!HatDirection("tilt") = Turn("tilt") * hat.y
  <2>1. CASE conf.invert["tilt"]
    BY <1>3, <2>1 DEF Axis!HatDirection, Axis!Inverted, Turn
  <2>2. CASE ~conf.invert["tilt"]
    BY <1>3, <2>2 DEF Axis!HatDirection, Axis!Inverted, Turn
  <2>. QED
    BY <2>1, <2>2
<1>6. ASSUME NEW axis \in {"pan", "tilt"}, NEW h \in {-1, 0, 1}, h * (stick[axis] - Notches) >= 0,
             Axis!HatDirection(axis) = Turn(axis) * h
      PROVE  Axis!Command(axis) * Axis!HatDirection(axis) >= 0
  <2>. DEFINE w == Axis!Velocity(axis)  c == Axis!Command(axis)  t == Turn(axis)  v == Value(axis)
              r == stick[axis]
  <2>1. axis \in PtzAxes
    BY DEF PtzAxes
  <2>2. w \in -One..One /\ t \in {-1, 1} /\ r \in 0..(2 * Notches) /\ v \in -One..One
    BY <2>1, VelocityRange, TurnFacts, ReadingsFacts, ValueFacts
  <2>3. c = Axis!Signed(w, conf[axis])
    BY CommandCases
  <2>4. (v = 0 => w = 0) /\ (Axis!Sign(w) \in {0, t} \/ v < 0) /\ (Axis!Sign(w) \in {0, -t} \/ v > 0)
    <3>1. v = 0 => Size(axis) = 0
      BY <2>1, VelocityFacts
    <3>2. w \in {-Size(axis), Size(axis)}
      BY <2>1, VelocityFacts
    <3>3. v = 0 => w = 0
      BY <3>1, <3>2
    <3>. QED
      BY <2>1, <3>3, VelocityFacts
  <2>5. (w >= 0 => c >= 0) /\ (w <= 0 => c <= 0) /\ c \in Int
    <3>1. PICK top \in Nat : conf[axis] \in SpeedRanges(top)
      BY <1>2
    <3>. QED
      BY <1>1, <2>2, <2>3, <3>1, SignedFacts
  <2>6. (r >= Notches => v >= 0) /\ (r <= Notches => v <= 0)
    BY <2>1, ValueFacts
  <2>7. h * (r - Notches) >= 0
    BY <1>6
  <2>. HIDE DEF w, c, t, v, r
  <2>8. (Axis!Sign(w) = 0 <=> w = 0) /\ (w > 0 => Axis!Sign(w) = 1) /\ (w < 0 => Axis!Sign(w) = -1) /\ w \in Int
    BY <1>1, <2>2, AbsSign
  <2>9. CASE h = 0
    BY <1>6, <2>2, <2>5, <2>9 DEF c, t
  <2>10. CASE h = 1
    <3>1. r >= Notches
      BY <1>1, <2>2, <2>7, <2>10
    <3>2. v >= 0
      BY <2>6, <3>1
    <3>3. w * t >= 0
      BY <1>1, <2>2, <2>4, <2>8, <3>2
    <3>4. c * t >= 0
      BY <2>2, <2>5, <2>8, <3>3
    <3>. QED
      BY <1>6, <2>2, <2>10, <3>4 DEF c, t
  <2>11. CASE h = -1
    <3>1. r <= Notches
      BY <1>1, <2>2, <2>7, <2>11
    <3>2. v <= 0
      BY <2>6, <3>1
    <3>3. w * t <= 0
      BY <1>1, <2>2, <2>4, <2>8, <3>2
    <3>4. c * (-t) >= 0
      BY <2>2, <2>5, <2>8, <3>3
    <3>5. t * h = -t
      BY <2>2, <2>11
    <3>. QED
      BY <1>6, <3>4, <3>5 DEF c, t
  <2>. QED
    BY <2>9, <2>10, <2>11
<1>7. stick.pan = stick["pan"] /\ stick.tilt = stick["tilt"]
  BY ReadingsFacts
<1>. QED
  BY <1>3, <1>4, <1>5, <1>6, <1>7

LEMMA FullSpeed ==
  ASSUME AxisTypes
  PROVE  Axis!FullDeflection
<1>. SUFFICES ASSUME Axis!Source = "main", stick.pan \in {0, 2 * Notches}, conf.deadzone # One
              PROVE  Axis!Command("pan") \in
                       {n * Axis!AxisSpeed(Axis!ThrottleMultiplier, conf.pan) : n \in {-1, 1}}
  BY DEF Axis!FullDeflection
<1>. DEFINE m == Axis!ThrottleMultiplier  w == Axis!Velocity("pan")  s == Axis!AxisSpeed(m, conf.pan)
<1>1. One \in Nat \ {0} /\ m \in 0..One /\ m \in -One..One /\ m \in Int
  BY AxisAssumption, MultiplierFacts
<1>2. Axis!Abs(Value("pan")) = One
  BY ReadingsFacts, ValueFacts DEF PtzAxes
<1>3. Size("pan") = m
  <2>1. One \in 0..One
    BY <1>1
  <2>. QED
    BY <1>1, <1>2, <2>1, TimesFacts DEF Size
<1>4. w \in {-m, m} /\ w \in -One..One
  BY <1>1, <1>3, VelocityFacts DEF PtzAxes
<1>5. Axis!Abs(w) = Axis!Abs(m)
  <2>. HIDE DEF m, w
  <2>. QED
    BY <1>1, <1>4, AbsSign
<1>6. conf.pan \in SpeedRanges(24) /\ conf["pan"] = conf.pan
  BY ConfFacts
<1>7. Axis!AxisSpeed(w, conf.pan) = s /\ s \in Int
  <2>1. Axis!AxisSpeed(w, conf.pan) <= s /\ s <= Axis!AxisSpeed(w, conf.pan)
        /\ Axis!AxisSpeed(w, conf.pan) \in 0..24 /\ s \in 0..24
    <3>. HIDE DEF m, w
    <3>1. Axis!Abs(w) <= Axis!Abs(m) /\ Axis!Abs(m) <= Axis!Abs(w)
      BY <1>1, <1>5, AbsSign
    <3>2. 24 \in Nat
      OBVIOUS
    <3>3. /\ Axis!AxisSpeed(w, conf.pan) \in 0..24
          /\ \A b \in -One..One : Axis!Abs(w) <= Axis!Abs(b) =>
               Axis!AxisSpeed(w, conf.pan) <= Axis!AxisSpeed(b, conf.pan)
      BY <1>4, <1>6, <3>2, SpeedFacts
    <3>4. /\ Axis!AxisSpeed(m, conf.pan) \in 0..24
          /\ \A b \in -One..One : Axis!Abs(m) <= Axis!Abs(b) =>
               Axis!AxisSpeed(m, conf.pan) <= Axis!AxisSpeed(b, conf.pan)
      BY <1>1, <1>6, <3>2, SpeedFacts
    <3>. QED
      BY <1>1, <1>4, <3>1, <3>3, <3>4
  <2>. HIDE DEF s
  <2>. QED
    BY <2>1
<1>8. Axis!Command("pan") = Axis!Sign(w) * s
  BY <1>6, <1>7, CommandCases DEF Axis!Signed
<1>9. w = 0 => s = 0
  <2>. SUFFICES ASSUME w = 0 PROVE s = 0
    OBVIOUS
  <2>1. 24 \in Nat /\ m = 0
    BY <1>1, <1>4
  <2>. QED
    BY <1>1, <1>6, <2>1, SpeedFacts
<1>. HIDE DEF m, w, s
<1>10. w \in Int
  BY <1>1, <1>4
<1>11. \E k \in {-1, 1} : Axis!Sign(w) * s = k * s
  <2>1. CASE w = 0
    <3>1. Axis!Sign(w) * s = 1 * s
      BY <1>7, <1>9, <1>10, <2>1, AbsSign
    <3>. QED
      BY <3>1
  <2>2. CASE w # 0
    <3>1. Axis!Sign(w) \in {-1, 1}
      BY <1>10, <2>2, AbsSign
    <3>. QED
      BY <3>1, Zenon
  <2>. QED
    BY <2>1, <2>2
<1>12. PICK k \in {-1, 1} : Axis!Sign(w) * s = k * s
  BY <1>11, Zenon
<1>13. Axis!Command("pan") = k * s
  BY <1>8, <1>12, Zenon
<1>. QED
  BY <1>13, Zenon DEF m, s

(* The commands of a position are those the position means.                   *)
LEMMA MappingHolds ==
  ASSUME AxisTypes
  PROVE  Axis!MappingInv
BY NoErrors, ReleasedIsNothing, HatAgrees, FullSpeed DEF Axis!MappingInv

LEMMA AxisStep ==
  ASSUME AxisTypes, [MCNext]_mcVars
  PROVE  AxisTypes'
<1>1. CASE UNCHANGED axisVars
  BY <1>1 DEF axisVars, AxisTypes
<1>2. ASSUME NEW axis \in PtzAxes \cup {"throttle"}, Axis!MoveAxis(axis)
      PROVE  AxisTypes'
  <2>1. PICK reading \in 0..(2 * Notches) : stick' = [stick EXCEPT ![axis] = reading]
    BY <1>2 DEF Axis!MoveAxis, Axis!Readings
  <2>2. conf' = conf /\ hat' = hat
    BY <1>2 DEF Axis!MoveAxis
  <2>. QED
    BY <2>1, <2>2 DEF AxisTypes
<1>3. CASE Axis!MoveHat
  <2>1. PICK way \in {"x", "y"}, n \in {-1, 0, 1} : hat' = [hat EXCEPT ![way] = n]
    BY <1>3 DEF Axis!MoveHat
  <2>2. conf' = conf /\ stick' = stick
    BY <1>3 DEF Axis!MoveHat
  <2>. QED
    BY <2>1, <2>2 DEF AxisTypes
<1>. QED
  BY <1>1, <1>2, <1>3 DEF MCNext, Axis!Next, mcVars, axisVars, PtzAxes

(* The size of a velocity, in the state a step leads to as well.              *)
LEMMA VelocitySize ==
  ASSUME NEW v \in -One..One, NEW t \in {-1, 1}, NEW m \in 0..One
  PROVE  /\ Axis!Abs(Axis!Sign(v) * t * Axis!Times(Axis!Abs(v), m)) = Axis!Times(Axis!Abs(v), m)
         /\ Axis!Sign(v) * t * Axis!Times(Axis!Abs(v), m) \in -One..One
         /\ Axis!Abs(v) \in 0..One
<1>. DEFINE z == Axis!Times(Axis!Abs(v), m)  s == Axis!Sign(v)
<1>1. v \in Int /\ One \in Nat \ {0}
  BY AxisAssumption
<1>2. Axis!Abs(v) \in 0..One
  BY <1>1, AbsSign DEF Axis!Abs
<1>3. z \in 0..One /\ (v = 0 => z = 0)
  <2>1. v = 0 => Axis!Abs(v) = 0
    BY <1>1, AbsSign
  <2>. QED
    BY <1>1, <1>2, <2>1, TimesFacts
<1>4. s \in {-1, 0, 1} /\ (s = 0 => v = 0)
  BY <1>1, AbsSign
<1>. HIDE DEF z, s
<1>5. s = 0 => Axis!Abs(s * t * z) = z /\ s * t * z \in -One..One
  <2>. SUFFICES ASSUME s = 0 PROVE Axis!Abs(s * t * z) = z /\ s * t * z \in -One..One
    OBVIOUS
  <2>1. z = 0 /\ s * t * z = 0 /\ Axis!Abs(0) = 0
    BY <1>3, <1>4, AbsSign
  <2>. QED
    BY <1>1, <2>1
<1>6. s # 0 => Axis!Abs(s * t * z) = z /\ s * t * z \in -One..One
  <2>. SUFFICES ASSUME s # 0 PROVE Axis!Abs(s * t * z) = z /\ s * t * z \in -One..One
    OBVIOUS
  <2>1. s * t \in {-1, 1}
    BY <1>4
  <2>2. z \in Nat
    BY <1>1, <1>3
  <2>3. Axis!Abs(s * t * z) = z /\ s * t * z \in Int
    BY <2>1, <2>2, SignedSize
  <2>4. s * t * z \in {-z, z}
    BY <2>1, <2>2
  <2>5. s * t * z \in -One..One
    BY <1>1, <1>3, <2>4
  <2>. QED
    BY <2>3, <2>5
<1>7. Axis!Abs(s * t * z) = z /\ s * t * z \in -One..One
  BY <1>5, <1>6
<1>8. Axis!Abs(Axis!Sign(v) * t * Axis!Times(Axis!Abs(v), m)) = Axis!Times(Axis!Abs(v), m)
      /\ Axis!Sign(v) * t * Axis!Times(Axis!Abs(v), m) \in -One..One
  BY <1>7 DEF z, s
<1>. QED
  BY <1>2, <1>8

(* A step of the stick along one axis, further out.                           *)
LEMMA PushedFurther ==
  ASSUME AxisTypes, conf' = conf, stick'.throttle = stick.throttle, NEW axis \in PtzAxes,
         stick'[axis] \in 0..(2 * Notches),
         \/ stick'[axis] > stick[axis] /\ stick[axis] >= Notches
         \/ stick'[axis] < stick[axis] /\ stick[axis] <= Notches
  PROVE  /\ Axis!Velocity(axis)' \in -One..One
         /\ Axis!Abs(Axis!Velocity(axis)) <= Axis!Abs(Axis!Velocity(axis)')
<1>. DEFINE n == Axis!Normalized(stick[axis])  m == Axis!Normalized(stick'[axis])
            v == Axis!Deadzoned(n, conf.deadzone)  w == Axis!Deadzoned(m, conf.deadzone)
            t == Turn(axis)  x == Axis!ThrottleMultiplier
<1>1. One \in Nat \ {0} /\ stick[axis] \in 0..(2 * Notches) /\ conf.deadzone \in 0..One
      /\ t \in {-1, 1} /\ x \in 0..One
  BY AxisAssumption, ReadingsFacts, ConfFacts, TurnFacts, MultiplierFacts
<1>2. Axis!Velocity(axis) = Axis!Sign(v) * t * Axis!Times(Axis!Abs(v), x)
  BY DEF Axis!Velocity, Turn
<1>3. Axis!Velocity(axis)' = Axis!Sign(w) * t * Axis!Times(Axis!Abs(w), x)
  <2>1. Axis!ThrottleMultiplier' = x
    BY DEF Axis!ThrottleMultiplier
  <2>2. \A k : Axis!Inverted(axis, k)' = Axis!Inverted(axis, k)
    BY DEF Axis!Inverted
  <2>. QED
    BY <2>1, <2>2 DEF Axis!Velocity, Turn
<1>4. n \in -One..One /\ m \in -One..One
  BY <1>1, NormalizedFacts
<1>5. Axis!Abs(n) <= Axis!Abs(m)
  BY <1>1, NormalizedFurther
<1>. HIDE DEF n, m
<1>6. v \in -One..One /\ w \in -One..One /\ Axis!Abs(v) <= Axis!Abs(w)
  BY <1>1, <1>4, <1>5, DeadzonedFacts
<1>. HIDE DEF v, w, t, x
<1>7. /\ Axis!Abs(Axis!Sign(v) * t * Axis!Times(Axis!Abs(v), x)) = Axis!Times(Axis!Abs(v), x)
      /\ Axis!Abs(v) \in 0..One
  BY <1>1, <1>6, VelocitySize
<1>8. /\ Axis!Abs(Axis!Sign(w) * t * Axis!Times(Axis!Abs(w), x)) = Axis!Times(Axis!Abs(w), x)
      /\ Axis!Abs(w) \in 0..One /\ Axis!Sign(w) * t * Axis!Times(Axis!Abs(w), x) \in -One..One
  BY <1>1, <1>6, VelocitySize
<1>9. Axis!Times(Axis!Abs(v), x) <= Axis!Times(Axis!Abs(w), x)
  BY <1>1, <1>6, <1>7, <1>8, TimesFacts
<1>. QED
  BY <1>2, <1>3, <1>7, <1>8, <1>9

(* And its command is no slower.                                              *)
LEMMA CommandFurther ==
  ASSUME AxisTypes, conf' = conf, hat' = hat, NEW axis \in PtzAxes,
         AxisTypes',
         \A b \in (PtzAxes \cup {"throttle"}) \ {axis} : stick'[b] = stick[b],
         \/ stick'[axis] > stick[axis] /\ stick[axis] >= Notches
         \/ stick'[axis] < stick[axis] /\ stick[axis] <= Notches,
         axis = "zoom" \/ Axis!Source # "hat"
  PROVE  Axis!Abs(Axis!Command(axis)') >= Axis!Abs(Axis!Command(axis))
<1>1. stick'.throttle = stick.throttle /\ stick'[axis] \in 0..(2 * Notches)
  BY DEF PtzAxes, AxisTypes
<1>2. /\ Axis!Velocity(axis)' \in -One..One /\ Axis!Velocity(axis) \in -One..One
      /\ Axis!Abs(Axis!Velocity(axis)) <= Axis!Abs(Axis!Velocity(axis)')
  BY <1>1, PushedFurther, VelocityRange
<1>3. One \in Nat \ {0} /\ Axis!Threshold(axis) \in 1..One
  BY AxisAssumption, ConfFacts
<1>4. Axis!Abs(Axis!Velocity(axis)) \in Nat /\ Axis!Abs(Axis!Velocity(axis)') \in Nat
  BY <1>2, <1>3, AbsSign
<1>0. \A b : Axis!Threshold(b)' = Axis!Threshold(b)
  BY DEF Axis!Threshold
<1>5. ~Axis!Centered(axis) => ~Axis!Centered(axis)'
  BY <1>0, <1>2, <1>3, <1>4 DEF Axis!Centered
<1>6. ASSUME NEW b \in PtzAxes, b # axis PROVE Axis!Centered(b)' = Axis!Centered(b)
  <2>1. stick'[b] = stick[b]
    BY <1>6
  <2>2. Axis!ThrottleMultiplier' = Axis!ThrottleMultiplier
    BY <1>1 DEF Axis!ThrottleMultiplier
  <2>3. \A k : Axis!Inverted(b, k)' = Axis!Inverted(b, k)
    BY DEF Axis!Inverted
  <2>4. Axis!Velocity(b)' = Axis!Velocity(b)
    BY <2>1, <2>2, <2>3 DEF Axis!Velocity
  <2>. QED
    BY <1>0, <2>4 DEF Axis!Centered
<1>7. PICK top \in Nat : conf[axis] \in SpeedRanges(top)
  <2>1. 24 \in Nat /\ 20 \in Nat /\ 7 \in Nat
    OBVIOUS
  <2>. QED
    BY <2>1, ConfFacts DEF PtzAxes
<1>. DEFINE before == Axis!Signed(Axis!Velocity(axis), conf[axis])
            after == Axis!Signed(Axis!Velocity(axis)', conf[axis])
<1>8. Axis!Abs(before) <= Axis!Abs(after) /\ Axis!Abs(before) \in Nat /\ Axis!Abs(after) \in Nat
  <2>. DEFINE a == Axis!Velocity(axis)  b == Axis!Velocity(axis)'  range == conf[axis]
  <2>1. a \in -One..One /\ b \in -One..One /\ Axis!Abs(a) <= Axis!Abs(b) /\ range \in SpeedRanges(top)
    BY <1>2, <1>7
  <2>. HIDE DEF a, b, range
  <2>2. Axis!AxisSpeed(a, range) <= Axis!AxisSpeed(b, range)
    BY <2>1, SpeedFacts
  <2>3. /\ Axis!Abs(Axis!Signed(a, range)) = Axis!AxisSpeed(a, range) /\ Axis!AxisSpeed(a, range) \in Nat
        /\ Axis!Abs(Axis!Signed(b, range)) = Axis!AxisSpeed(b, range) /\ Axis!AxisSpeed(b, range) \in Nat
    BY <2>1, SignedFacts
  <2>. QED
    BY <2>2, <2>3 DEF a, b, range
<1>9. Axis!Abs(0) = 0
  BY AbsSign
<1>10. \A b : Axis!Signed(b, conf[axis])' = Axis!Signed(b, conf[axis])
  BY DEF Axis!Signed, Axis!AxisSpeed
<1>11. CASE axis = "zoom"
  <2>1. conf.zoom = conf[axis] /\ conf'.zoom = conf[axis]
    BY <1>11, ConfFacts
  <2>2. Axis!Command(axis) = IF Axis!Centered(axis) THEN 0 ELSE before
    BY <1>11, <2>1 DEF Axis!Command
  <2>3. Axis!Command(axis)' = IF Axis!Centered(axis)' THEN 0 ELSE after
    BY <1>11, <2>1 DEF Axis!Command
  <2>. HIDE DEF before, after
  <2>4. CASE Axis!Centered(axis)
    BY <1>8, <1>9, <2>2, <2>3, <2>4
  <2>5. CASE ~Axis!Centered(axis)
    BY <1>5, <1>8, <2>2, <2>3, <2>5
  <2>. QED
    BY <2>4, <2>5
<1>12. CASE axis \in {"pan", "tilt"}
  <2>1. Axis!Source \in {"main", "none"}
    BY <1>12, CommandCases
  <2>2. Axis!HatSpeed(axis)' = Axis!HatSpeed(axis)
    <3>1. Axis!ThrottleMultiplier' = Axis!ThrottleMultiplier
      BY <1>1 DEF Axis!ThrottleMultiplier
    <3>2. Axis!HatDirection(axis)' = Axis!HatDirection(axis)
      BY DEF Axis!HatDirection, Axis!Inverted
    <3>. QED
      BY <3>1, <3>2 DEF Axis!HatSpeed
  <2>3. Axis!Abs(Axis!Command(axis)') \in Nat
    <3>1. Axis!HatSpeed(axis) \in Int
      BY <1>12, HatFacts
    <3>2. after \in Int
      BY <1>2, <1>7, SignedFacts
    <3>3. Axis!Command(axis)' \in {after, Axis!HatSpeed(axis), 0}
      <4>1. Axis!Source' \in {"main", "hat", "none"}
        BY DEF Axis!Source
      <4>. QED
        BY <1>12, <2>2, <4>1 DEF Axis!Command
    <3>. HIDE DEF after
    <3>4. Axis!Command(axis)' \in Int
      BY <3>1, <3>2, <3>3
    <3>. QED
      BY <3>4, AbsSign
  <2>4. CASE Axis!Source = "none"
    <3>1. Axis!Command(axis) = 0
      BY <1>12, <2>4, CommandCases
    <3>. QED
      BY <1>9, <2>3, <3>1
  <2>5. CASE Axis!Source = "main"
    <3>1. Axis!Command(axis) = before
      BY <1>12, <2>5, CommandCases
    <3>2. ~Axis!Centered("pan") \/ ~Axis!Centered("tilt")
      BY <2>5 DEF Axis!Source
    <3>3. ~Axis!Centered("pan")' \/ ~Axis!Centered("tilt")'
      BY <1>5, <1>6, <1>12, <3>2 DEF PtzAxes
    <3>4. Axis!Source' = "main"
      BY <3>3 DEF Axis!Source
    <3>5. Axis!Command(axis)' = after
      BY <1>12, <3>4 DEF Axis!Command
    <3>. HIDE DEF before, after
    <3>. QED
      BY <1>8, <3>1, <3>5
  <2>. QED
    BY <2>1, <2>4, <2>5
<1>. QED
  BY <1>11, <1>12 DEF PtzAxes

LEMMA FurtherStep ==
  ASSUME AxisTypes, AxisTypes', [MCNext]_mcVars, NEW axis \in PtzAxes,
         Axis!Deflection(axis)' > Axis!Deflection(axis), axis = "zoom" \/ Axis!Source # "hat"
  PROVE  Axis!Abs(Axis!Command(axis)') >= Axis!Abs(Axis!Command(axis))
<1>1. /\ Notches \in Nat \ {0} /\ stick[axis] \in 0..(2 * Notches) /\ stick'[axis] \in 0..(2 * Notches)
      /\ stick'[axis] # stick[axis]
  <2>1. stick'[axis] # stick[axis]
    <3>. SUFFICES ASSUME stick'[axis] = stick[axis] PROVE FALSE
      OBVIOUS
    <3>1. Axis!Deflection(axis)' = Axis!Deflection(axis) /\ Axis!Deflection(axis) \in Int
      BY AxisAssumption DEF Axis!Deflection, AxisTypes
    <3>. QED
      BY <3>1
  <2>. QED
    BY <2>1, AxisAssumption DEF AxisTypes
<1>2. PICK moved \in PtzAxes \cup {"throttle"} : Axis!MoveAxis(moved)
  <2>1. ~UNCHANGED stick
    BY <1>1
  <2>. QED
    BY <2>1 DEF MCNext, mcVars, axisVars, Axis!Next, Axis!MoveHat, PtzAxes
<1>3. PICK reading : /\ stick' = [stick EXCEPT ![moved] = reading]
                     /\ reading \in {stick[moved] - (IF moved = "throttle" THEN Notches ELSE 1),
                                     stick[moved] + (IF moved = "throttle" THEN Notches ELSE 1)}
  BY <1>2 DEF Axis!MoveAxis
<1>4. moved = axis /\ axis # "throttle"
  BY <1>1, <1>3 DEF AxisTypes, PtzAxes
<1>5. stick'[axis] \in {stick[axis] - 1, stick[axis] + 1}
  BY <1>3, <1>4 DEF AxisTypes
<1>6. \A b \in (PtzAxes \cup {"throttle"}) \ {axis} : stick'[b] = stick[b]
  BY <1>3, <1>4 DEF AxisTypes
<1>7. conf' = conf /\ hat' = hat
  BY <1>2 DEF Axis!MoveAxis
<1>8. \/ stick'[axis] > stick[axis] /\ stick[axis] >= Notches
      \/ stick'[axis] < stick[axis] /\ stick[axis] <= Notches
  <2>. DEFINE r == stick[axis]  s == stick'[axis]
  <2>1. Axis!Deflection(axis) = (IF r - Notches < 0 THEN -(r - Notches) ELSE r - Notches)
        /\ Axis!Deflection(axis)' = (IF s - Notches < 0 THEN -(s - Notches) ELSE s - Notches)
    BY DEF Axis!Deflection
  <2>2. r \in Nat /\ s \in Nat /\ s \in {r - 1, r + 1} /\ Notches \in Nat
    BY <1>1, <1>5
  <2>. HIDE DEF r, s
  <2>3. (s > r /\ r >= Notches) \/ (s < r /\ r <= Notches)
    BY <2>1, <2>2
  <2>. QED
    BY <2>3 DEF r, s
<1>. QED
  BY <1>6, <1>7, <1>8, CommandFurther

LEMMA AxisInvariant == MCSpec => []AxisTypes
<1>1. MCInit => AxisTypes
  BY AxisAssumption DEF MCInit, Axis!Init, AxisTypes, PtzAxes
<1>2. AxisTypes /\ [MCNext]_mcVars => AxisTypes'
  BY AxisStep
<1>. QED
  BY <1>1, <1>2, PTL DEF MCSpec

(* Every position of stick, throttle and hat gives the commands it means: one *)
(* that can be encoded, none for released controls, stick and hat the same    *)
(* way round, and the full speed at the end of the range.  For any unit, any  *)
(* number of notches, any flat zone within them, and any configurations that  *)
(* AxisAssumption admits.                                                     *)
THEOREM PositionsMean == MCSpec => []MappingInv
<1>1. AxisTypes => MappingInv
  BY MappingHolds DEF MappingInv
<1>. QED
  BY <1>1, AxisInvariant, PTL

(* Whoever pushes an axis further out never slows the camera down, whatever   *)
(* is rounded on the way.                                                     *)
THEOREM PushingIsFaster == MCSpec => FurtherIsFaster
<1>1. AxisTypes /\ AxisTypes' /\ [MCNext]_mcVars =>
        [\A axis \in {"pan", "tilt", "zoom"} :
           Axis!Deflection(axis)' > Axis!Deflection(axis) /\ (axis = "zoom" \/ Axis!Source # "hat")
             => Axis!Abs(Axis!Command(axis)') >= Axis!Abs(Axis!Command(axis))]_(Axis!vars)
  BY FurtherStep DEF PtzAxes
<1>. QED
  BY <1>1, AxisInvariant, PTL DEF MCSpec, FurtherIsFaster, Axis!FurtherIsFaster
==============================================================================
