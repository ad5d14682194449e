--------------------------- MODULE OseeDeckManual ---------------------------
(***************************************************************************)
(* The manual control client of the GoStream Deck: one caller sends        *)
(* commands and waits for feedback, one receiver thread reads the pushes   *)
(* of the switcher.  The two share the state, the feedback counters, the   *)
(* transition history and one condition; a critical section is a step.     *)
(*                                                                         *)
(* MaxCommands, MaxFaults and MaxMoves bound the commands, the broken      *)
(* sessions and the moves at the panel.  A wait times out only where       *)
(* Unanswered allows it: feedback is quicker than the timeout, a           *)
(* transition may be slower.                                               *)
(***************************************************************************)
EXTENDS Integers, Sequences

CONSTANTS
  Sources, NoSource,
  Unmapped,      \* sources of the switcher the deck map does not know
  MaxCommands, MaxFaults, MaxMoves

VARIABLES
  sw,         \* the switcher: program, preview and by whose AUTO it fades
  toSwitcher, toClient, linked,   \* the session and what is under way in it
  open,       \* the transport has a socket
  state,      \* the controller's program, preview and transition_status
  counts,     \* _preview_feedback_count and _program_feedback_count
  history,    \* _transition_history; its length is the third counter
  stop, rxError,        \* _stop_event and _receiver_error
  rx, batch,            \* the receiver and the messages it has yet to handle
  pc, asks, cmd,        \* the caller, GETs yet to send, the command at work
  reports,              \* what each command has reported
  executed, ended,      \* commands the switcher carried out, AUTOs it ended
  seen,                 \* what was on Preview; see Begin
  issued, faults, moves

switcherVars == <<sw, executed, ended, seen, moves>>
linkVars == <<toSwitcher, toClient, linked, faults>>
clientVars == <<state, counts, history>>
flagVars == <<stop, rxError>>
rxVars == <<rx, batch>>
callerVars == <<pc, asks, cmd, reports, issued>>
vars == <<sw, toSwitcher, toClient, linked, open, state, counts, history, stop,
          rxError, rx, batch, pc, asks, cmd, reports, executed, ended, seen,
          issued, faults, moves>>

Known == Sources \cup {NoSource}
Commands == 1..MaxCommands
Nobody == -1
ByPanel == 0
NoCommand == [n |-> 0, op |-> "none", src |-> NoSource, pvw |-> 0, pgm |-> 0, events |-> 0]
Waits == {"initial", "wait", "waitEnd"}

TypeOK ==
  /\ sw \in [program : Sources, preview : Sources, fading : {Nobody, ByPanel} \cup Commands]
  /\ state \in [program : Known, preview : Known, transition : {"none", "idle", "active"}]
  /\ counts \in [pvw : Nat, pgm : Nat] /\ history \in Seq({"idle", "active"})
  /\ rx \in {"off", "receive", "handle", "failed", "done"}
  /\ pc \in Waits \cup {"off", "asking", "ready", "send", "closing", "joining"}
  /\ reports \in [Commands -> {"none", "waiting", "confirmed", "started",
                               "completed", "unconfirmed", "raised"}]
  /\ {stop, rxError, open, linked} \subseteq BOOLEAN

Init ==
  /\ sw \in [program : Sources, preview : Sources, fading : {Nobody}]
  /\ toSwitcher = <<>> /\ toClient = <<>> /\ linked = FALSE /\ open = FALSE
  /\ state = [program |-> NoSource, preview |-> NoSource, transition |-> "none"]
  /\ counts = [pvw |-> 0, pgm |-> 0] /\ history = <<>>
  /\ stop = FALSE /\ rxError = FALSE /\ rx = "off" /\ batch = <<>>
  /\ pc = "off" /\ asks = <<>> /\ cmd = NoCommand
  /\ reports = [n \in Commands |-> "none"]
  /\ executed = {} /\ ended = {} /\ seen = {sw.preview}
  /\ issued = 0 /\ faults = 0 /\ moves = 0

-----------------------------------------------------------------------------
(* The caller.                                                             *)

(* Mutant: Preview is not asked for.                                       *)
FirstAsksTwo == <<"pgm", "transition">>

FirstAsks == <<"pgm", "pvw", "transition">>

(* connect(): the receiver starts before the three GETs are sent.          *)
Connect ==
  /\ pc = "off" /\ rx = "off"
  /\ linked' = TRUE /\ open' = TRUE /\ rx' = "receive"
  /\ pc' = "asking" /\ asks' = FirstAsks
  /\ UNCHANGED <<switcherVars, toSwitcher, toClient, faults, clientVars, flagVars,
                 batch, cmd, reports, issued>>

Request(n, op, src) == [n |-> n, op |-> op, src |-> src]

(* send_command: what is sent into a session that ended is lost.           *)
Send(r) ==
  /\ open
  /\ toSwitcher' = IF linked THEN Append(toSwitcher, r) ELSE toSwitcher
  /\ UNCHANGED <<toClient, linked, open>>

(* The program ends by its finally clause: disconnect().                   *)
Raise ==
  /\ ~open \/ ~linked
  /\ open' = FALSE /\ pc' = "closing"
  /\ UNCHANGED <<toSwitcher, toClient, linked>>

Ask ==
  /\ pc = "asking"
  /\ \/ /\ Send(Request(0, Head(asks), NoSource))
        /\ asks' = Tail(asks) /\ pc' = IF Len(asks) = 1 THEN "initial" ELSE "asking"
     \/ Raise /\ UNCHANGED asks
  /\ UNCHANGED <<switcherVars, faults, clientVars, flagVars, rxVars, cmd, reports, issued>>

(* A wait may run into its timeout.                                        *)
Unanswered ==
  \/ pc = "waitEnd" /\ sw.fading # Nobody
  \/ toSwitcher = <<>> /\ toClient = <<>> /\ rx # "handle"

AllKnown == state.program # NoSource /\ state.preview # NoSource /\ state.transition # "none"

(* wait_for_initial_state; the program goes on whatever it returns.        *)
InitialStateReturns ==
  /\ pc = "initial" /\ (AllKnown \/ rxError \/ Unanswered)
  /\ pc' = "ready"
  /\ UNCHANGED <<switcherVars, linkVars, open, clientVars, flagVars, rxVars, asks, cmd,
                 reports, issued>>

BaselineOfHistory == Len(history)

Messages == {batch[i] : i \in 1..Len(batch)} \cup {toClient[i] : i \in 1..Len(toClient)}

PreviewUnderWay == \E m \in Messages : m.id = "preview"

(* The baselines, read under the condition before anything is sent.  What  *)
(* was on Preview is seen from here on, or from an earlier command on if   *)
(* the feedback of that one is still under way.                            *)
Begin(op, src) ==
  /\ pc = "ready" /\ issued < MaxCommands
  /\ issued' = issued + 1 /\ pc' = "send"
  /\ cmd' = [n |-> issued + 1, op |-> op, src |-> src,
             pvw |-> counts.pvw, pgm |-> counts.pgm, events |-> BaselineOfHistory]
  /\ reports' = [reports EXCEPT ![issued + 1] = "waiting"]
  /\ seen' = IF PreviewUnderWay THEN seen ELSE {sw.preview}
  /\ UNCHANGED <<sw, executed, ended, moves, linkVars, open, clientVars, flagVars, rxVars,
                 asks>>

(* copy_program_to_preview needs a Program the deck map knows.             *)
Command ==
  \/ \E s \in Sources \ Unmapped : Begin("preview", s)
  \/ Begin("cut", NoSource) \/ Begin("auto", NoSource)
  \/ state.program \in Sources \ Unmapped /\ Begin("preview", state.program)

SendCommand ==
  /\ pc = "send"
  /\ \/ Send(Request(cmd.n, cmd.op, cmd.src)) /\ pc' = "wait" /\ UNCHANGED reports
     \/ Raise /\ reports' = [reports EXCEPT ![cmd.n] = "raised"]
  /\ UNCHANGED <<switcherVars, faults, clientVars, flagVars, rxVars, asks, cmd, issued>>

Since == SubSeq(history, cmd.events + 1, Len(history))

Started == \E i \in 1..Len(Since) : Since[i] = "active"

(* Mutant: any end of a transition counts.                                 *)
CompletedAny == \E j \in 1..Len(Since) : Since[j] = "idle"

(* _transition_event_since with after_active.                              *)
Completed == \E i, j \in 1..Len(Since) : i < j /\ Since[i] = "active" /\ Since[j] = "idle"

(* Mutant: any preview feedback confirms.                                  *)
PreviewConfirmedAny == counts.pvw > cmd.pvw

PreviewConfirmed == counts.pvw > cmd.pvw /\ state.preview = cmd.src

(* What the wait of the command at work waits for.                         *)
Predicate ==
  CASE pc = "waitEnd" -> Completed
    [] cmd.op = "preview" -> PreviewConfirmed
    [] cmd.op = "cut" -> counts.pvw > cmd.pvw \/ counts.pgm > cmd.pgm
    [] OTHER -> Started

Success == IF pc = "waitEnd" THEN "completed"
           ELSE IF cmd.op = "auto" THEN "started" ELSE "confirmed"

Report == IF Predicate /\ ~rxError THEN Success
          ELSE IF pc = "waitEnd" THEN "started" ELSE "unconfirmed"

(* _wait_for; auto waits twice.                                            *)
WaitReturns ==
  /\ pc \in {"wait", "waitEnd"} /\ (Predicate \/ rxError \/ stop \/ Unanswered)
  /\ reports' = [reports EXCEPT ![cmd.n] = Report]
  /\ pc' = IF pc = "wait" /\ Report = "started" THEN "waitEnd" ELSE "ready"
  /\ cmd' = IF pc' = "ready" THEN NoCommand ELSE cmd
  /\ UNCHANGED <<switcherVars, linkVars, open, clientVars, flagVars, rxVars, asks, issued>>

(* The operator quits, or interrupts a wait.                               *)
Quit ==
  /\ pc \in Waits \cup {"ready"} /\ issued = MaxCommands
  /\ pc' = "closing"
  /\ UNCHANGED <<switcherVars, linkVars, open, clientVars, flagVars, rxVars, asks, cmd,
                 reports, issued>>

(* disconnect() up to the join.                                            *)
Disconnect ==
  /\ pc = "closing" /\ pc' = "joining"
  /\ stop' = TRUE /\ open' = FALSE /\ linked' = FALSE
  /\ toSwitcher' = <<>> /\ toClient' = <<>>
  /\ UNCHANGED <<switcherVars, faults, clientVars, rxError, rxVars, asks, cmd, reports,
                 issued>>

JoinReturns ==
  /\ pc = "joining" /\ rx = "done" /\ pc' = "off"
  /\ UNCHANGED <<switcherVars, linkVars, open, clientVars, flagVars, rxVars, asks, cmd,
                 reports, issued>>

-----------------------------------------------------------------------------
(* The receiver.                                                           *)

(* receive(): some of what has arrived.                                    *)
RxReceives ==
  /\ rx = "receive" /\ ~stop /\ open /\ toClient # <<>>
  /\ \E k \in 1..Len(toClient) :
       batch' = SubSeq(toClient, 1, k) /\ toClient' = SubSeq(toClient, k + 1, Len(toClient))
  /\ rx' = "handle"
  /\ UNCHANGED <<switcherVars, toSwitcher, linked, faults, open, clientVars, flagVars,
                 callerVars>>

RxStops ==
  /\ rx = "receive" /\ stop /\ rx' = "done"
  /\ UNCHANGED <<switcherVars, linkVars, open, clientVars, flagVars, batch, callerVars>>

RxFails ==
  /\ rx = "receive" /\ (~open \/ (~linked /\ toClient = <<>>))
  /\ open' = FALSE /\ rx' = "failed"
  /\ UNCHANGED <<switcherVars, linkVars, clientVars, flagVars, batch, callerVars>>

(* Mutant: the stop event is not looked at.                                *)
ReportsErrorAlways == TRUE

ReportsError == rxError \/ ~stop

RxReports ==
  /\ rx = "failed" /\ rx' = "done"
  /\ rxError' = ReportsError
  /\ UNCHANGED <<switcherVars, linkVars, open, clientVars, stop, batch, callerVars>>

(* handle_command.                                                         *)
Handled(m) == [state EXCEPT ![m.id] = m.value]

(* _handle_incoming: one message, one critical section.                    *)
RxHandles ==
  LET m == Head(batch) IN
  /\ rx = "handle"
  /\ state' = Handled(m)
  /\ counts' = [pvw |-> counts.pvw + (IF m.id = "preview" THEN 1 ELSE 0),
                pgm |-> counts.pgm + (IF m.id = "program" THEN 1 ELSE 0)]
  /\ history' = IF m.id = "transition" THEN Append(history, m.value) ELSE history
  /\ batch' = Tail(batch) /\ rx' = IF Len(batch) = 1 THEN "receive" ELSE "handle"
  /\ UNCHANGED <<switcherVars, linkVars, open, flagVars, callerVars>>

-----------------------------------------------------------------------------
(* The switcher and its panel.                                             *)

Msg(id, value) == [id |-> id, value |-> value]

Swapped == [sw EXCEPT !.program = sw.preview, !.preview = sw.program, !.fading = Nobody]

(* What is pushed when the switcher gets into state s.                     *)
Pushes(s) ==
  (IF s.program # sw.program THEN <<Msg("program", s.program)>> ELSE <<>>)
  \o <<Msg("preview", s.preview)>>
  \o (IF s.fading # sw.fading
      THEN <<Msg("transition", IF s.fading = Nobody THEN "idle" ELSE "active")>> ELSE <<>>)

Enter(s) ==
  /\ sw' = s
  /\ toClient' = IF linked THEN toClient \o Pushes(s) ELSE toClient
  /\ seen' = seen \cup {s.preview}

Reply(op) ==
  CASE op = "pgm" -> Msg("program", sw.program)
    [] op = "pvw" -> Msg("preview", sw.preview)
    [] OTHER -> Msg("transition", IF sw.fading = Nobody THEN "idle" ELSE "active")

(* An AUTO during a transition is ignored.                                 *)
SwitcherExecutes ==
  LET r == Head(toSwitcher) IN
  /\ toSwitcher # <<>> /\ toSwitcher' = Tail(toSwitcher)
  /\ IF r.n = 0
     THEN /\ toClient' = Append(toClient, Reply(r.op))
          /\ UNCHANGED <<sw, seen, executed>>
     ELSE CASE r.op = "preview" ->
                 Enter([sw EXCEPT !.preview = r.src]) /\ executed' = executed \cup {r.n}
            [] r.op = "cut" -> Enter(Swapped) /\ executed' = executed \cup {r.n}
            [] r.op = "auto" /\ sw.fading = Nobody ->
                 Enter([sw EXCEPT !.fading = r.n]) /\ executed' = executed \cup {r.n}
            [] OTHER -> UNCHANGED <<sw, toClient, seen, executed>>
  /\ UNCHANGED <<linked, faults, open, clientVars, flagVars, rxVars, callerVars, ended,
                 moves>>

TransitionEnds ==
  /\ sw.fading # Nobody /\ Enter(Swapped) /\ ended' = ended \cup {sw.fading}
  /\ UNCHANGED <<toSwitcher, linked, faults, open, clientVars, flagVars, rxVars, callerVars,
                 executed, moves>>

Panel ==
  /\ moves < MaxMoves /\ moves' = moves + 1
  /\ \/ \E s \in Sources : Enter([sw EXCEPT !.preview = s])
     \/ Enter(Swapped)
     \/ sw.fading = Nobody /\ Enter([sw EXCEPT !.fading = ByPanel])
  /\ UNCHANGED <<toSwitcher, linked, faults, open, clientVars, flagVars, rxVars, callerVars,
                 executed, ended>>

Break ==
  /\ linked /\ faults < MaxFaults /\ faults' = faults + 1
  /\ linked' = FALSE /\ toSwitcher' = <<>>
  /\ UNCHANGED <<switcherVars, toClient, open, clientVars, flagVars, rxVars, callerVars>>

-----------------------------------------------------------------------------
Receiver == RxReceives \/ RxStops \/ RxFails \/ RxReports \/ RxHandles
Caller == Connect \/ Ask \/ InitialStateReturns \/ SendCommand \/ WaitReturns \/ Disconnect \/ JoinReturns
Switcher == SwitcherExecutes \/ TransitionEnds
Environment == Command \/ Quit \/ Panel \/ Break

Next == Receiver \/ Caller \/ Switcher \/ Environment

Spec == Init /\ [][Next]_vars

(* Both threads run, the switcher answers, a transition ends, and at last  *)
(* the operator quits.                                                     *)
FairSpec ==
  Spec /\ WF_vars(Receiver) /\ WF_vars(Caller) /\ WF_vars(SwitcherExecutes)
       /\ WF_vars(TransitionEnds)

(* A Preview is confirmed only when the switcher had it on Preview since   *)
(* the command was issued, or since one before it was, from which on there *)
(* was always feedback under way: a CUT is confirmed by the first of its   *)
(* two pushes, the second of which may confirm the next command.           *)
PreviewWasShown ==
  cmd.op = "preview" /\ pc = "wait" /\ Predicate => cmd.src \in seen

(* AUTO is reported started or completed only when the switcher started or *)
(* ended the transition of this very command, also when earlier            *)
(* transitions outlived their wait.                                        *)
AutoIsOurs ==
  \A n \in Commands :
    /\ reports[n] \in {"started", "completed"} => n \in executed
    /\ reports[n] = "completed" => n \in ended

(* A command is answered by its own feedback only.                         *)
FeedbackInv ==
  /\ TypeOK
  /\ PreviewWasShown
  /\ AutoIsOurs

(* The end of the program or of the session never leaves the caller in a   *)
(* wait, or the receiver running, and no failure is reported after a       *)
(* deliberate disconnect.                                                  *)
CleanEnd ==
  /\ []<>(pc \notin Waits \cup {"closing", "joining"})
  /\ [][stop => rxError' = rxError]_vars

(* While the session lasts, the client comes to show what the switcher     *)
(* shows.                                                                  *)
ClientFollows ==
  <>[](linked => state.program = sw.program /\ state.preview = sw.preview)
=============================================================================
