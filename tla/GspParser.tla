------------------------------ MODULE GspParser ------------------------------
(***************************************************************************)
(* The GSP stream parser and the transport that feeds it.  TCP hands over  *)
(* the stream in pieces of any size; feed() keeps what it cannot use yet.  *)
(* One iteration of its loop is one step.                                  *)
(*                                                                         *)
(* A packet is the header, one length byte (the two bytes and the protocol *)
(* id of the code), the payload and one CRC byte; bytes are 0..Top.  Any   *)
(* byte, the header's too, may stand for a length, a CRC or a part of a    *)
(* payload.  MaxPieces and MaxSessions bound what the switcher sends and   *)
(* how often the transport connects.                                       *)
(***************************************************************************)
EXTENDS Integers, Sequences, SequencesExt

CONSTANTS Top, H1, H2, MaxPieces, MaxSessions, MaxLength, RecvSize

VARIABLES
  sent, taken,        \* the bytes the switcher sent, and how many were received
  pieces, due, torn,  \* of how many pieces they are, the payloads of the sound
                      \* ones, and whether one was cut short
  connected, sessions,
  buffer,             \* _buffer
  commands, issues,   \* commands returned and issues recorded since connect
  feeding             \* feed() is in its loop

streamVars == <<sent, pieces, due, torn>>
vars == <<streamVars, taken, connected, sessions, buffer, commands, issues, feeding>>

Byte == 0..Top
HeadLength == 3   \* header and length
MinLength == 1    \* the CRC alone

TypeOK ==
  /\ sent \in Seq(Byte) /\ due \in Seq(Seq(Byte)) /\ taken \in 0..Len(sent)
  /\ pieces \in 0..MaxPieces /\ sessions \in 0..MaxSessions
  /\ buffer \in Seq(Byte) /\ commands \in Seq(Seq(Byte))
  /\ issues \in Seq({"length", "crc", "protocol"})
  /\ {connected, feeding, torn} \subseteq BOOLEAN

-----------------------------------------------------------------------------
(* Packets.                                                                *)

(* crc16_modbus, scaled down to a weighted sum.                            *)
Crc(bytes) ==
  LET crc[i \in 0..Len(bytes)] ==
        IF i = 0 THEN 2 ELSE (3 * crc[i - 1] + bytes[i] + 1) % (Top + 1)
  IN crc[Len(bytes)]

(* encode_gsp_command.                                                     *)
Encode(payload) ==
  LET body == <<H1, H2, Len(payload) + 1>> \o payload IN Append(body, Crc(body))

Payload(packet) == SubSeq(packet, HeadLength + 1, Len(packet) - 1)

(* A payload that starts with 1 is a JSON object with an id and a type.    *)
IsCommand(payload) == payload # <<>> /\ payload[1] = 1

(* Mutant: the CRC is taken over the whole packet.                         *)
CrcFailsWhole(packet) == Crc(packet) # packet[Len(packet)]

CrcFails(packet) == Crc(Front(packet)) # packet[Len(packet)]

-----------------------------------------------------------------------------
(* The parser.                                                             *)

HasHeaderAt(s, i) == i < Len(s) /\ s[i] = H1 /\ s[i + 1] = H2

HasHeader(s) == \E i \in 1..Len(s) : HasHeaderAt(s, i)

(* find(): the first header of a buffer that has one.                      *)
FirstHeader(s) ==
  CHOOSE i \in 1..Len(s) : HasHeaderAt(s, i) /\ \A j \in 1..(i - 1) : ~HasHeaderAt(s, j)

(* Mutant: half a header at the end is thrown away.                        *)
KeepTailNothing(s) == <<>>

(* Mutant: nothing is thrown away.                                         *)
KeepTailAll(s) == s

(* What is kept of a buffer without a header.                              *)
KeepTail(s) == IF s # <<>> /\ Last(s) = H1 THEN <<H1>> ELSE <<>>

NoHeader ==
  /\ ~HasHeader(buffer)
  /\ buffer' = KeepTail(buffer) /\ feeding' = FALSE
  /\ UNCHANGED <<commands, issues>>

(* The part of the buffer from its first header on, which every other      *)
(* iteration works on.                                                     *)
Aligned == SubSeq(buffer, FirstHeader(buffer), Len(buffer))

InvalidLength(n) == n < MinLength \/ n > MaxLength

PacketSize == HeadLength + Aligned[HeadLength]

NeedsMore ==
  /\ HasHeader(buffer)
  /\ Len(Aligned) >= HeadLength =>
       ~InvalidLength(Aligned[HeadLength]) /\ Len(Aligned) < PacketSize
  /\ buffer' = Aligned /\ feeding' = FALSE
  /\ UNCHANGED <<commands, issues>>

BadLength ==
  /\ HasHeader(buffer) /\ Len(Aligned) >= HeadLength /\ InvalidLength(Aligned[HeadLength])
  /\ buffer' = Tail(Aligned)
  /\ issues' = Append(issues, "length")
  /\ UNCHANGED <<commands, feeding>>

(* decode_gsp_packet, and what is recorded of its exceptions.              *)
Issue(packet) == IF CrcFails(packet) THEN <<"crc">>
                 ELSE IF IsCommand(Payload(packet)) THEN <<>> ELSE <<"protocol">>

TakePacket ==
  /\ HasHeader(buffer) /\ Len(Aligned) >= HeadLength /\ ~InvalidLength(Aligned[HeadLength])
  /\ Len(Aligned) >= PacketSize
  /\ LET packet == SubSeq(Aligned, 1, PacketSize) IN
       /\ issues' = issues \o Issue(packet)
       /\ commands' = IF Issue(packet) = <<>> THEN Append(commands, Payload(packet))
                      ELSE commands
  /\ buffer' = SubSeq(Aligned, PacketSize + 1, Len(Aligned))
  /\ UNCHANGED feeding

Iterate ==
  /\ feeding
  /\ NoHeader \/ NeedsMore \/ BadLength \/ TakePacket
  /\ UNCHANGED <<streamVars, taken, connected, sessions>>

-----------------------------------------------------------------------------
(* The transport and the switcher.                                         *)

Pieces ==
  [good |-> Encode(<<1>>), wide |-> Encode(<<1, H1, H2>>), alien |-> Encode(<<2>>),
   broken |-> <<H1, H2, 2, 1, (Crc(<<H1, H2, 2, 1>>) + 1) % (Top + 1)>>, zero |-> <<H1, H2, 0>>,
   half |-> <<H1>>, noise |-> <<2>>, torn |-> <<H1, H2, 4, 1>>]

Sound == {"good", "wide"}

Received == SubSeq(sent, 1, taken)

Init ==
  /\ sent = <<>> /\ taken = 0 /\ pieces = 0 /\ due = <<>> /\ torn = FALSE
  /\ connected = FALSE /\ sessions = 0
  /\ buffer = <<>> /\ commands = <<>> /\ issues = <<>> /\ feeding = FALSE

(* reset(), by connect() and by disconnect().                              *)
AfterReset == <<>>

Connect ==
  /\ ~connected /\ sessions < MaxSessions
  /\ connected' = TRUE /\ sessions' = sessions + 1
  /\ buffer' = AfterReset /\ issues' = <<>>
  /\ sent' = <<>> /\ taken' = 0 /\ pieces' = 0 /\ due' = <<>> /\ torn' = FALSE
  /\ commands' = <<>>
  /\ UNCHANGED feeding

(* An error of the socket, the end of the stream, or disconnect(), which   *)
(* another thread may call while feed() is in its loop.                    *)
Disconnect ==
  /\ connected
  /\ connected' = FALSE
  /\ buffer' = AfterReset /\ issues' = <<>>
  /\ UNCHANGED <<streamVars, taken, sessions, commands, feeding>>

SwitcherSends ==
  /\ connected /\ pieces < MaxPieces
  /\ \E p \in DOMAIN Pieces :
       /\ sent' = sent \o Pieces[p]
       /\ due' = IF p \in Sound THEN Append(due, Payload(Pieces[p])) ELSE due
       /\ torn' = (torn \/ p = "torn")
  /\ pieces' = pieces + 1
  /\ UNCHANGED <<taken, connected, sessions, buffer, commands, issues, feeding>>

(* receive(): recv returns some of what has arrived.                       *)
Receive ==
  /\ connected /\ ~feeding
  /\ \E k \in 1..RecvSize :
       /\ taken + k <= Len(sent)
       /\ taken' = taken + k
       /\ buffer' = buffer \o SubSeq(sent, taken + 1, taken + k)
  /\ feeding' = TRUE
  /\ UNCHANGED <<streamVars, connected, sessions, commands, issues>>

Next == Connect \/ Disconnect \/ SwitcherSends \/ Receive \/ Iterate

Spec == Init /\ [][Next]_vars

-----------------------------------------------------------------------------
(* The parse of a whole stream, by position.                               *)

Nothing == [commands |-> <<>>, issues |-> <<>>]
Joined(a, b) == [commands |-> a.commands \o b.commands, issues |-> a.issues \o b.issues]

(* A packet starts at i, but not all of it has come.                       *)
Incomplete(s, i) ==
  /\ HasHeaderAt(s, i)
  /\ i + 2 <= Len(s) => ~InvalidLength(s[i + 2]) /\ i + 2 + s[i + 2] > Len(s)

IsPacket(s, i) == HasHeaderAt(s, i) /\ ~InvalidLength(s[i + 2])

(* What a packet counts as.                                                *)
Outcome(packet) ==
  IF Crc(Front(packet)) # Last(packet) THEN [commands |-> <<>>, issues |-> <<"crc">>]
  ELSE IF ~IsCommand(Payload(packet)) THEN [commands |-> <<>>, issues |-> <<"protocol">>]
  ELSE [commands |-> <<Payload(packet)>>, issues |-> <<>>]

(* What starts at i, and where the rest begins.                            *)
Found(s, i) ==
  IF ~HasHeaderAt(s, i) THEN Nothing
  ELSE IF IsPacket(s, i) THEN Outcome(SubSeq(s, i, i + 2 + s[i + 2]))
  ELSE [commands |-> <<>>, issues |-> <<"length">>]

After(s, i) == IF IsPacket(s, i) THEN i + 3 + s[i + 2] ELSE i + 1

(* What is in s from each position on.                                     *)
Meaning(s) ==
  LET from[i \in 1..(Len(s) + 1)] ==
        IF i > Len(s) \/ Incomplete(s, i) THEN Nothing
        ELSE Joined(Found(s, i), from[After(s, i)])
  IN from

Parse(s) == Meaning(s)[1]

(* However the stream is cut, feed() has returned the commands, and        *)
(* recorded the issues, of the stream received so far parsed in one piece. *)
ChunkIndependent ==
  connected /\ ~feeding => [commands |-> commands, issues |-> issues] = Parse(Received)

(* Between the pieces of a sound stream there may be noise, half headers,  *)
(* empty packets, packets with a wrong CRC or another payload: every sound *)
(* packet comes out, in order.  Only a packet cut short takes others with  *)
(* it.                                                                     *)
SoundPacketsComeOut ==
  connected /\ ~feeding /\ taken = Len(sent) /\ ~torn => commands = due

(* What is kept between two reads is empty or may become a packet, and is  *)
(* shorter than one: garbage does not pile up.                             *)
BufferStaysShort ==
  ~feeding => /\ Len(buffer) < HeadLength + MaxLength
              /\ buffer # <<>> => buffer[1] = H1

(* The parser makes of any stream what the stream contains.                *)
ParserInv ==
  /\ TypeOK
  /\ ChunkIndependent
  /\ SoundPacketsComeOut
  /\ BufferStaysShort
=============================================================================
