----------------------------- MODULE MCDevices ------------------------------
(* Finding devices and keeping them: a scan of the network for three       *)
(* tasks, and the joystick monitor with two axes, over evdev and over      *)
(* pygame.  The models share no variable; a behaviour of this module is    *)
(* one of one of them.                                                     *)
EXTENDS DiscoveryJobs

CONSTANTS
  StickAxes, QueueSize, MaxFailures, MaxPresses,
  MaxPlugs   \* for each of the two backends

ASSUME StickAssumption ==
  /\ StickAxes # {} /\ "button" \notin StickAxes
  /\ MaxPlugs \in [{"evdev", "pygame"} -> Nat]

VARIABLES
  part,   \* the model at work
  backend, plugged, stick, queue, counts, pressed, behind, provider, health, announced,
  pc, found, snapshot, wasConnected, moving, recalls

stickVars ==
  <<backend, plugged, stick, queue, counts, pressed, behind, provider, health, announced,
    pc, found, snapshot, wasConnected, moving, recalls>>
mcVars == <<part, vars, stickVars>>

Stick == INSTANCE JoystickMonitor WITH Axes <- StickAxes

MCPlugs == [evdev |-> 2, pygame |-> 3]

MCInit ==
  /\ part \in {"scan", "stick"}
  /\ Init /\ Stick!Init
  /\ part = "scan" => backend = "evdev"

MCNext ==
  \/ part = "scan" /\ Next /\ UNCHANGED <<part, stickVars>>
  \/ part = "stick" /\ Stick!Next /\ UNCHANGED <<part, vars>>

(* The fairness of each model, for the behaviours that are its own.        *)
MCFairness ==
  /\ WF_vars(part = "scan" /\ Thread) /\ WF_vars(part = "scan" /\ PageReads)
  /\ \A t \in Tasks :
       WF_vars(part = "scan" /\ StartTask(t)) /\ WF_vars(part = "scan" /\ EndTask(t))
  /\ WF_stickVars(part = "stick" /\ Stick!Loop)

MCSpec == MCInit /\ [][MCNext]_mcVars /\ MCFairness

(* The stick of the cycle is the stick on the desk.                        *)
StickInv == Stick!StickInv

(* Every scan ends, cancelled or not, and the page is told; a stick that   *)
(* stays plugged in is used: JobEnds of DiscoveryJobs and StickIsUsed of   *)
(* JoystickMonitor, each in the behaviours of its model.                   *)
DevicesSettle ==
  []<>(/\ part = "scan" => job.finished /\ page.status \in Ended
       /\ part = "stick" /\ plugged # 0 => health.of = plugged \/ pc = "ended")
=============================================================================
