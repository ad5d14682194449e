---------------------------- MODULE VmixBackend -----------------------------
(***************************************************************************)
(* The vMix backend: every poll and every command is an HTTP request of    *)
(* the poll loop that HttpClient repeats after any failure.  A request     *)
(* whose attempt timed out may be lost before vMix, may have lost its      *)
(* answer, or may still be on its way and be carried out later.            *)
(*                                                                         *)
(* MaxCommands, MaxFaults and MaxMoves bound the commands, the failing     *)
(* attempts and the moves of the vMix operator.                            *)
(***************************************************************************)
EXTENDS Naturals

CONSTANTS Sources, NoSource, Retries, MaxCommands, MaxFaults, MaxMoves

ASSUME VmixAssumption ==
  NoSource \notin Sources /\ Retries \in Nat /\ MaxCommands \in Nat

VARIABLES
  vmix,      \* vMix: Program (active), Preview, a fade is running
  requests,  \* attempts of commands vMix has not received yet
  answered,  \* attempts it has carried out
  fields,    \* the backend's program_source_id and preview_source_id
  connected,
  pc, cmd,   \* the loop: idle, waiting for an answer, or about to poll
  issued, tries, result,  \* commands issued, how often each was sent, outcomes
  faults, moves

serverVars == <<vmix, requests, answered>>
viewVars == <<fields, connected>>
loopVars == <<pc, cmd>>
boundVars == <<faults, moves>>
vars == <<vmix, requests, answered, fields, connected, pc, cmd, issued, tries,
          result, faults, moves>>

Known == Sources \cup {NoSource}
Commands == 1..MaxCommands
Attempts == 0..Retries
Ops == {"preview", "cut", "fade"}
Request == [n : Commands, op : Ops, src : Known, attempt : Attempts]
NoCommand == [n |-> 0, op |-> "none", src |-> NoSource, attempt |-> 0,
              preview |-> NoSource, syncs |-> FALSE]

TypeOK ==
  /\ vmix \in [program : Sources, preview : Sources, fading : BOOLEAN]
  /\ requests \subseteq Request /\ answered \subseteq Request
  /\ fields \in [program : Known, preview : Known] /\ connected \in BOOLEAN
  /\ pc \in {"idle", "waiting", "sync"}
  /\ pc = "waiting" => cmd.n \in Commands /\ cmd.attempt \in Attempts
  /\ issued \in 0..MaxCommands /\ tries \in [Commands -> 0..(Retries + 1)]
  /\ result \in [Commands -> {"none", "waiting", "done", "failed"}]

Init ==
  /\ vmix \in [program : Sources, preview : Sources, fading : {FALSE}]
  /\ requests = {} /\ answered = {}
  /\ fields = [program |-> NoSource, preview |-> NoSource] /\ connected = FALSE
  /\ pc = "sync" /\ cmd = NoCommand
  /\ issued = 0
  /\ tries = [n \in Commands |-> 0] /\ result = [n \in Commands |-> "none"]
  /\ faults = 0 /\ moves = 0

Shown == [program |-> vmix.program, preview |-> vmix.preview]

-----------------------------------------------------------------------------
(* The loop.                                                               *)

(* Mutant: a disconnected backend is not polled again.                     *)
PollsNowConnectedOnly == pc = "sync" \/ (pc = "idle" /\ connected)

(* connect() and reconnect() are a poll that raises nothing; the loop      *)
(* reconnects when the backend is disconnected and polls otherwise.        *)
PollsNow == pc \in {"idle", "sync"}

Poll ==
  /\ PollsNow
  /\ pc' = "idle"
  /\ \/ fields' = Shown /\ connected' = TRUE /\ UNCHANGED faults
     \/ /\ faults < MaxFaults /\ faults' = faults + 1
        /\ connected' = FALSE /\ UNCHANGED fields
  /\ UNCHANGED <<serverVars, cmd, issued, tries, result, moves>>

RequestOf(c) == [n |-> c.n, op |-> c.op, src |-> c.src, attempt |-> c.attempt]

(* set_preview_source, cut, fade and copy_program_to_preview up to the     *)
(* first attempt.  ensure_connected never prevents a command.              *)
Command(op, src, syncs) ==
  LET c == [n |-> issued + 1, op |-> op, src |-> src, attempt |-> 0,
            preview |-> vmix.preview, syncs |-> syncs]
  IN
  /\ pc = "idle" /\ issued < MaxCommands
  /\ issued' = issued + 1
  /\ result' = [result EXCEPT ![c.n] = "waiting"]
  /\ requests' = requests \cup {RequestOf(c)} /\ tries' = [tries EXCEPT ![c.n] = 1]
  /\ pc' = "waiting" /\ cmd' = c
  /\ UNCHANGED <<vmix, answered, viewVars, boundVars>>

CommandAny ==
  \/ \E s \in Sources : Command("preview", s, FALSE)
  \/ Command("cut", NoSource, TRUE)
  \/ Command("fade", NoSource, TRUE)
  \/ fields.program # NoSource /\ Command("preview", fields.program, TRUE)

(* _require_source: an input that vMix cannot have is refused unsent.      *)
RefuseCommand ==
  /\ pc = "idle" /\ issued < MaxCommands
  /\ issued' = issued + 1
  /\ result' = [result EXCEPT ![issued + 1] = "failed"]
  /\ UNCHANGED <<serverVars, viewVars, loopVars, tries, boundVars>>

(* What the backend enters after a success, before any poll.               *)
Expected ==
  IF cmd.op = "preview" THEN [fields EXCEPT !.preview = cmd.src]
  ELSE [program |-> fields.preview, preview |-> fields.program]

Succeed ==
  /\ pc = "waiting" /\ RequestOf(cmd) \in answered
  /\ fields' = Expected /\ connected' = TRUE
  /\ result' = [result EXCEPT ![cmd.n] = "done"]
  /\ pc' = IF cmd.syncs THEN "sync" ELSE "idle"
  /\ cmd' = NoCommand
  /\ UNCHANGED <<serverVars, issued, tries, boundVars>>

(* Mutant: one attempt more than asked for.                                *)
LastAttemptLate == cmd.attempt > Retries

(* attempts = max(1, retries + 1)                                          *)
LastAttempt == cmd.attempt = Retries

(* An attempt fails: the request is lost, or it is still under way, or its *)
(* answer is lost.  Any failure is repeated.                               *)
AttemptFails ==
  /\ pc = "waiting" /\ faults < MaxFaults
  /\ faults' = faults + 1
  /\ \E lost \in {{}, {RequestOf(cmd)}} :
       LET next == [cmd EXCEPT !.attempt = @ + 1]
       IN IF LastAttempt
          THEN /\ requests' = requests \ lost
               /\ result' = [result EXCEPT ![cmd.n] = "failed"]
               /\ pc' = "idle" /\ cmd' = NoCommand
               /\ UNCHANGED tries
          ELSE /\ requests' = (requests \ lost) \cup {RequestOf(next)}
               /\ tries' = [tries EXCEPT ![cmd.n] = @ + 1]
               /\ cmd' = next
               /\ UNCHANGED <<pc, result>>
  /\ UNCHANGED <<vmix, answered, viewVars, issued, moves>>

-----------------------------------------------------------------------------
(* vMix and its operator.                                                  *)

Swapped == [vmix EXCEPT !.program = vmix.preview, !.preview = vmix.program,
                        !.fading = FALSE]

Execute(r) ==
  /\ r \in requests
  /\ requests' = requests \ {r} /\ answered' = answered \cup {r}
  /\ vmix' = CASE r.op = "preview" -> [vmix EXCEPT !.preview = r.src]
               [] r.op = "cut" -> Swapped
               [] r.op = "fade" -> [vmix EXCEPT !.fading = TRUE]
  /\ UNCHANGED <<viewVars, loopVars, issued, tries, result, boundVars>>

FadeEnds ==
  /\ vmix.fading /\ vmix' = Swapped
  /\ UNCHANGED <<requests, answered, viewVars, loopVars, issued, tries, result,
                 boundVars>>

Panel(s) ==
  /\ moves < MaxMoves /\ moves' = moves + 1
  /\ vmix' = [vmix EXCEPT !.preview = s]
  /\ UNCHANGED <<requests, answered, viewVars, loopVars, issued, tries, result,
                 faults>>

Next ==
  \/ Poll \/ CommandAny \/ RefuseCommand \/ Succeed \/ AttemptFails \/ FadeEnds
  \/ \E r \in requests : Execute(r)
  \/ \E s \in Sources : Panel(s)

(* The loop polls in every cycle, and vMix carries out what reaches it.    *)
Fairness ==
  /\ WF_vars(Poll) /\ WF_vars(Succeed) /\ WF_vars(FadeEnds)
  /\ WF_vars(\E r \in requests : Execute(r))

Spec == Init /\ [][Next]_vars
FairSpec == Spec /\ Fairness

-----------------------------------------------------------------------------
(* PROPERTIES *)

(* The backend implements the contract of the executor: a command is sent  *)
(* at most once more for every retry and only while it waits, each request *)
(* is carried out at most once, and a command is reported as done only if  *)
(* its last request was.  With one retry, a Cut may be carried out twice.  *)
Contract == INSTANCE SwitcherContract WITH
  Commands <- Commands, MaxTries <- Retries + 1, issued <- 1..issued, tries <- tries,
  executed <- {<<r.n, r.attempt + 1>> : r \in answered}, result <- result

ImplementsContract == Contract!Spec

(* When commands, failures and the operator have come to an end, the       *)
(* backend shows vMix's Program and Preview for good: a poll corrects the  *)
(* fields that a command entered in advance, and a failed poll is repeated.*)
FieldsFollow == <>[](connected /\ fields = Shown)
=============================================================================
