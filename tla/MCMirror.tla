------------------------------ MODULE MCMirror ------------------------------
(* What has to come true in the end, on the way from the switcher to the   *)
(* joystick: an ATEM session shows what the switcher shows, the bridge     *)
(* mirrors what its backend shows, also across applied configurations, and *)
(* the camera of the Preview source gets the joystick.  The models share   *)
(* no variable; a behaviour of this module is one of one of them.          *)
EXTENDS PtzRouting, Naturals

CONSTANTS in1, in2, in3, camA, camB

VARIABLES
  part,   \* the model at work
  applyPc, applyStick, applyPreview, applyActive, applyTracked, applyMoving, applySwPreview,
  config, sessions, bridgeSw, execSw, up, seen, cam, src, saved, new, applies,
  sw, knows, dirty, toSwitcher, toClient, socket, confirmed, stop, rxError,
  rx, packet, localId, acked, waiters, woken, state, fields, connected,
  atemPc, cmd, started, web, issued, executed, result, faults, moves

applyVars ==
  <<applyPc, applyStick, applyPreview, applyActive, applyTracked, applyMoving, applySwPreview,
    config, sessions, bridgeSw, execSw, up, seen, cam, src, saved, new, applies>>
atemVars ==
  <<sw, knows, dirty, toSwitcher, toClient, socket, confirmed, stop, rxError,
    rx, packet, localId, acked, waiters, woken, state, fields, connected,
    atemPc, cmd, started, web, issued, executed, result, faults, moves>>
mcVars == <<part, vars, applyVars, atemVars>>

MCMapping ==
  [s \in Sources |-> CASE s = in1 -> camA [] s = in2 -> camB [] OTHER -> NoCamera]

Both ==
  [mapping |-> [s \in {in1, in2} |-> IF s = in1 THEN camA ELSE camB],
   enabled |-> {camA, camB}, reachable |-> TRUE, creatable |-> TRUE]
OnlySecond ==
  [Both EXCEPT !.mapping = [s \in {in1, in2} |-> IF s = in1 THEN camB ELSE NoCamera],
               !.enabled = {camB}]
NoCameraHost == [OnlySecond EXCEPT !.reachable = FALSE]

Apply == INSTANCE ConfigApply WITH
  Sources <- {in1, in2}, Configs <- {Both, OnlySecond, NoCameraHost},
  MaxApplies <- 1, CalmOperator <- TRUE,
  pc <- applyPc, stick <- applyStick, preview <- applyPreview, activePtz <- applyActive,
  tracked <- applyTracked, moving <- applyMoving, swPreview <- applySwPreview

(* The ATEM stays reachable.                                               *)
Atem == INSTANCE AtemSession WITH
  Sources <- {in1, in2}, IdMax <- 2, MaxCommands <- 1, MaxFaults <- 1, MaxMoves <- 1,
  QueueMax <- 2, MayRestart <- FALSE, Reorders <- FALSE,
  HandshakesFail <- FALSE, pc <- atemPc
MCInit ==
  /\ part \in {"routing", "apply", "atem"}
  /\ Init /\ Apply!Init /\ Atem!Init
  /\ part # "routing" =>
       /\ stick = Centred /\ swUp /\ swProgram = in1 /\ swPreview = in1
       /\ program = in1 /\ preview = in1
  /\ part # "apply" => config = Both /\ applySwPreview = in1 /\ applyPreview = NoSource
  /\ part \notin {"atem"} => sw.program = in1 /\ sw.preview = in1


MCNext ==
  \/ part = "routing" /\ Next /\ UNCHANGED <<part, applyVars, atemVars>>
  \/ part = "apply" /\ Apply!Next /\ UNCHANGED <<part, vars, atemVars>>
  \/ part = "atem" /\ Atem!Next /\ UNCHANGED <<part, vars, applyVars>>

(* The fairness of each model, for the behaviours that are its own.        *)
MCFairness ==
  /\ WF_vars(part = "routing" /\ PollJoystick)
  /\ WF_vars(part = "routing" /\ SwitcherPhase)
  /\ WF_vars(part = "routing" /\ ButtonsDone)
  /\ WF_vars(part = "routing" /\ (RouteControls \/ SkipRoute))
  /\ WF_applyVars(part = "apply" /\ Apply!Loop)
  /\ WF_applyVars(part = "apply" /\ Apply!ContinueApply)
  /\ WF_atemVars(part = "atem" /\ Atem!Poll)
  /\ WF_atemVars(part = "atem" /\ Atem!WaitForAck)
  /\ WF_atemVars(part = "atem" /\ Atem!WaitForFeedback)
  /\ WF_atemVars(part = "atem" /\ Atem!Connecting)
  /\ WF_atemVars(part = "atem" /\ Atem!Receiver)
  /\ WF_atemVars(part = "atem" /\ Atem!FadeEnds)
  /\ WF_atemVars(part = "atem" /\ Atem!Repeat)
  /\ WF_atemVars(part = "atem" /\ \E p \in toSwitcher : Atem!Execute(p))

MCSpec == MCInit /\ [][MCNext]_mcVars /\ MCFairness

(* Bridge and executor end up with the same switcher, and it is mirrored.  *)
PreviewSettles == Apply!PreviewSettles

(* MirrorFollows of AtemSession, in the behaviours that are its own.       *)
MirrorFollows == <>[](part = "atem" => connected /\ fields = Atem!Shown)
=============================================================================
