---------------------------- MODULE MCSwitchers ----------------------------
(* The backends.  create_switcher makes one of them, by the switcher type  *)
(* of the configuration; the manual client of the Deck and the parser of   *)
(* GSP frames stand beside them.  The ATEM is here in trouble only.  The   *)
(* models share no variable; a behaviour of this module is one of one of   *)
(* them.                                                                   *)
EXTENDS VmixBackend, Sequences

CONSTANTS
  s1, s2, s3, FewSources, OseeSources, OseeTransports, OseeQueue, OseeCommands, OseeFaults, OseeMoves,
  DeckCommands, DeckFaults, DeckMoves, Unmapped,
  GspTop, H1, H2, GspPieces, GspSessions, GspLength, GspRecv

ASSUME SwitcherBounds ==
  /\ OseeTransports \in Nat \ {0}
  /\ {OseeCommands, OseeFaults, OseeMoves, OseeQueue, DeckCommands, GspTop, GspPieces, GspSessions,
      GspRecv} \subseteq Nat
  /\ {H1, H2} \subseteq 3..GspTop /\ H1 # H2 /\ GspLength \in Nat /\ GspLength >= 4

VARIABLES
  part,   \* the model at work
  oseeSw, session, toSwitcher, toClient, noticed, open, transport, controller, state,
  oseeConnected, worker, loop, batch, batchOf, chosen, web, webOf, webBatch, shared, oseeIssued,
    oseeFaults, oseeMoves,
  deckSw, deckToSwitcher, deckToClient, linked, deckOpen, deckState, counts, history, stop,
  rxError, rx, deckBatch, deckPc, asks, deckCmd, reports, executed, ended, seen,
  deckIssued, deckFaults, deckMoves,
  sent, taken, pieces, due, torn, gspConnected, sessions, buffer, commands, issues, feeding,
  atemSw, knows, dirty, atemToSwitcher, atemToClient, socket, confirmed, atemStop, atemRxError,
  atemRx, packet, localId, acked, waiters, woken, atemState, atemFields, atemConnected,
  atemPc, atemCmd, started, atemWeb, atemIssued, atemExecuted, atemResult, atemFaults, atemMoves

oseeVars ==
  <<oseeSw, session, toSwitcher, toClient, noticed, open, transport, controller, state,
    oseeConnected, worker, loop, batch, batchOf, chosen, web, webOf, webBatch, shared, oseeIssued,
    oseeFaults, oseeMoves>>
deckVars ==
  <<deckSw, deckToSwitcher, deckToClient, linked, deckOpen, deckState, counts, history, stop,
    rxError, rx, deckBatch, deckPc, asks, deckCmd, reports, executed, ended, seen,
    deckIssued, deckFaults, deckMoves>>
gspVars ==
  <<sent, pieces, due, torn, taken, gspConnected, sessions, buffer, commands, issues, feeding>>
atemVars ==
  <<atemSw, knows, dirty, atemToSwitcher, atemToClient, socket, confirmed, atemStop, atemRxError,
    atemRx, packet, localId, acked, waiters, woken, atemState, atemFields, atemConnected,
    atemPc, atemCmd, started, atemWeb, atemIssued, atemExecuted, atemResult, atemFaults, atemMoves>>
mcVars == <<part, vars, oseeVars, deckVars, gspVars, atemVars>>

(* The Duet: with applies and a loss that is noticed at once or not; with  *)
(* commands and a panel; and with applies and a loss that is noticed.      *)
Osee == INSTANCE OseeSession WITH
  Sources <- OseeSources, MaxTransports <- OseeTransports, QueueMax <- OseeQueue,
  Silent <- TRUE, WebDisconnects <- TRUE,
  MaxCommands <- OseeCommands, MaxFaults <- OseeFaults, MaxMoves <- OseeMoves,
  sw <- oseeSw, connected <- oseeConnected, issued <- oseeIssued, faults <- oseeFaults,
  moves <- oseeMoves
Heard == INSTANCE OseeSession WITH
  Sources <- OseeSources, MaxTransports <- OseeTransports, QueueMax <- OseeQueue,
  Silent <- FALSE, WebDisconnects <- FALSE,
  MaxCommands <- OseeCommands, MaxFaults <- OseeFaults, MaxMoves <- OseeMoves,
  sw <- oseeSw, connected <- oseeConnected, issued <- oseeIssued, faults <- oseeFaults,
  moves <- oseeMoves
Applied == INSTANCE OseeSession WITH
  Sources <- OseeSources, MaxTransports <- OseeTransports + 2, QueueMax <- OseeQueue,
  Silent <- FALSE, WebDisconnects <- TRUE,
  MaxCommands <- 0, MaxFaults <- OseeFaults, MaxMoves <- 0,
  sw <- oseeSw, connected <- oseeConnected, issued <- oseeIssued, faults <- oseeFaults,
  moves <- oseeMoves

(* The Deck's client, with a panel that moves or with a session that is    *)
(* lost.                                                                   *)
Deck == INSTANCE OseeDeckManual WITH
  Sources <- FewSources, MaxCommands <- DeckCommands, MaxFaults <- DeckFaults, MaxMoves <- DeckMoves,
  sw <- deckSw, toSwitcher <- deckToSwitcher, toClient <- deckToClient, open <- deckOpen,
  state <- deckState, batch <- deckBatch, pc <- deckPc, cmd <- deckCmd, issued <- deckIssued,
  faults <- deckFaults, moves <- deckMoves
Lost == INSTANCE OseeDeckManual WITH
  Sources <- FewSources, MaxCommands <- DeckCommands, MaxFaults <- 1, MaxMoves <- 0,
  sw <- deckSw, toSwitcher <- deckToSwitcher, toClient <- deckToClient, open <- deckOpen,
  state <- deckState, batch <- deckBatch, pc <- deckPc, cmd <- deckCmd, issued <- deckIssued,
  faults <- deckFaults, moves <- deckMoves

Gsp == INSTANCE GspParser WITH
  Top <- GspTop, MaxPieces <- GspPieces, MaxSessions <- GspSessions, MaxLength <- GspLength,
  RecvSize <- GspRecv, connected <- gspConnected

(* It may restart, fail to answer a handshake and be disconnected by an    *)
(* apply.                                                                  *)
Atem == INSTANCE AtemSession WITH
  Sources <- FewSources, IdMax <- 2, MaxCommands <- 1, MaxFaults <- 1, MaxMoves <- 1,
  QueueMax <- 2, MayRestart <- TRUE, Reorders <- FALSE,
  HandshakesFail <- TRUE,
  sw <- atemSw, toSwitcher <- atemToSwitcher, toClient <- atemToClient, stop <- atemStop,
  rxError <- atemRxError, rx <- atemRx, state <- atemState, fields <- atemFields,
  connected <- atemConnected, pc <- atemPc, cmd <- atemCmd, web <- atemWeb,
  issued <- atemIssued, executed <- atemExecuted, result <- atemResult,
  faults <- atemFaults, moves <- atemMoves

HeardParts == {"heard", "applied"}
DeckParts == {"deck", "lost"}

Parts(parts) ==
  /\ part \in parts
  /\ Init /\ Osee!Init /\ Deck!Init /\ Gsp!Init /\ Atem!Init
  /\ part # "vmix" => vmix.program = s1 /\ vmix.preview = s1
  /\ part \notin {"osee"} \cup HeardParts => oseeSw.program = s1 /\ oseeSw.preview = s1
  /\ part \notin {"osee", "applied"} => ~shared
  /\ part # "atem" => atemSw.program = s1 /\ atemSw.preview = s1
  /\ part \notin DeckParts => deckSw.program = s1 /\ deckSw.preview = s1

MCNext ==
  \/ part = "vmix" /\ Next /\ UNCHANGED <<part, oseeVars, deckVars, gspVars, atemVars>>
  \/ part = "osee" /\ Osee!Next /\ UNCHANGED <<part, vars, deckVars, gspVars, atemVars>>
  \/ part = "heard" /\ Heard!Next /\ UNCHANGED <<part, vars, deckVars, gspVars, atemVars>>
  \/ part = "applied" /\ Applied!Next /\ UNCHANGED <<part, vars, deckVars, gspVars, atemVars>>
  \/ part = "deck" /\ Deck!Next /\ UNCHANGED <<part, vars, oseeVars, gspVars, atemVars>>
  \/ part = "lost" /\ Lost!Next /\ UNCHANGED <<part, vars, oseeVars, gspVars, atemVars>>
  \/ part = "gsp" /\ Gsp!Next /\ UNCHANGED <<part, vars, oseeVars, deckVars, atemVars>>
  \/ part = "atem" /\ Atem!NextWithApply /\ UNCHANGED <<part, vars, oseeVars, deckVars, gspVars>>

MCSpec == Parts({"vmix", "osee", "deck", "gsp"}) /\ [][MCNext]_mcVars

(* The fairness of each model, for the behaviours that are its own.        *)
MCFairSpec ==
  /\ Parts({"vmix", "heard", "applied", "deck", "lost", "atem"}) /\ [][MCNext]_mcVars
  /\ WF_vars(part = "vmix" /\ Poll) /\ WF_vars(part = "vmix" /\ Succeed)
  /\ WF_vars(part = "vmix" /\ FadeEnds)
  /\ WF_vars(part = "vmix" /\ \E r \in requests : Execute(r))
  /\ WF_oseeVars(part = "heard" /\ Heard!Worker) /\ WF_oseeVars(part = "heard" /\ Heard!Loop)
  /\ WF_oseeVars(part = "applied" /\ Applied!Worker) /\ WF_oseeVars(part = "applied" /\ Applied!Loop)
  /\ WF_oseeVars(part = "applied" /\ Applied!Web)
  /\ WF_oseeVars(part \in HeardParts /\ Heard!SwitcherExecutes)
  /\ WF_oseeVars(part \in HeardParts /\ Heard!TransitionEnds)
  /\ WF_deckVars(part \in DeckParts /\ Deck!Receiver) /\ WF_deckVars(part \in DeckParts /\ Deck!Caller)
  /\ WF_deckVars(part \in DeckParts /\ Deck!SwitcherExecutes)
  /\ WF_deckVars(part \in DeckParts /\ Deck!TransitionEnds)
  /\ WF_atemVars(part = "atem" /\ Atem!Poll)
  /\ WF_atemVars(part = "atem" /\ Atem!WaitForAck)
  /\ WF_atemVars(part = "atem" /\ Atem!WaitForFeedback)
  /\ WF_atemVars(part = "atem" /\ Atem!Connecting)
  /\ WF_atemVars(part = "atem" /\ Atem!Receiver)
  /\ WF_atemVars(part = "atem" /\ Atem!FadeEnds)
  /\ WF_atemVars(part = "atem" /\ Atem!Repeat)
  /\ WF_atemVars(part = "atem" /\ (Atem!WebClose \/ Atem!WebWake))
  /\ WF_atemVars(part = "atem" /\ \E p \in atemToSwitcher : Atem!Execute(p))

(* The Duet's reconnects never mix up two sessions.                        *)
SessionInv == Osee!SessionInv

(* The Deck's client answers a command by its own feedback only.           *)
FeedbackInv == Deck!FeedbackInv

(* The parser makes of any stream what the stream contains.                *)
ParserInv == Gsp!ParserInv

(* Every backend comes to show the switcher's Program and Preview for      *)
(* good: FieldsFollow of VmixBackend, MirrorFollows of OseeSession and     *)
(* ClientFollows of OseeDeckManual, each in the behaviours of its model.   *)
BackendsFollow ==
  <>[](/\ part = "vmix" => connected /\ fields = Shown
       /\ part \in HeardParts /\ web # "retired" =>
            /\ Heard!is_connected /\ session = transport
            /\ ~shared => state = Heard!Shown
       /\ linked => deckState.program = deckSw.program /\ deckState.preview = deckSw.preview)

(* Whatever happens to the receiver, the socket and the events under it,   *)
(* no wait for an answer lasts for ever: EveryCommandAnswered of           *)
(* AtemSession, and CleanEnd of OseeDeckManual.                            *)
NobodyWaits ==
  /\ []<>(\A n \in Atem!Commands : atemResult[n] # "waiting")
  /\ Deck!CleanEnd
=============================================================================
