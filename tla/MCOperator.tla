----------------------------- MODULE MCOperator -----------------------------
(* From the operator's hand to the camera: the commands a position of      *)
(* stick and hat gives, and the link that carries commands to a camera,    *)
(* with failing sends only, with a disconnect and a kill as well, or with  *)
(* every fault of network and process.                                     *)
(* The models share no variable; a behaviour of this module is one of one  *)
(* of them.                                                                *)
EXTENDS ViscaLink

CONSTANTS
  One, Notches, Flat,
  AxisConfigs   \* configurations of joystick and camera

VARIABLES
  part,   \* the model at work
  conf, stick, hat

axisVars == <<conf, stick, hat>>
mcVars == <<part, vars, axisVars>>

Axis == INSTANCE AxisMapping WITH Configs <- AxisConfigs

(* What the models accept, and speeds that a camera knows, a range that    *)
(* does not end before it begins and a threshold above zero.               *)
SpeedRanges(max) ==
  {r \in [min : 0..max, max : 0..max] : r.min <= r.max \/ r.max = 0}

ASSUME AxisAssumption ==
  /\ One \in Nat \ {0} /\ Notches \in Nat \ {0} /\ Flat \in 0..(Notches - 1)
  /\ \A c \in AxisConfigs :
       /\ c.deadzone \in 0..One /\ {c.threshold.panTilt, c.threshold.zoom} \subseteq 1..One
       /\ {c.throttleInvert, c.hatThrottle} \subseteq BOOLEAN
       /\ c.maxMultiplier \in 0..One /\ c.minMultiplier \in 0..c.maxMultiplier
       /\ c.fine \in 0..20 /\ c.invert \in [{"pan", "tilt", "zoom"} -> BOOLEAN]
       /\ c.pan \in SpeedRanges(24) /\ c.tilt \in SpeedRanges(20) /\ c.zoom \in SpeedRanges(7)

Thresholds(panTilt, zoom) == [panTilt |-> panTilt, zoom |-> zoom]
Speeds(min, max) == [min |-> min, max |-> max]
Usual ==
  [deadzone |-> One \div 5, threshold |-> Thresholds(One \div 20, One \div 20), throttleInvert |-> TRUE,
   minMultiplier |-> One \div 5, maxMultiplier |-> One, fine |-> 2, hatThrottle |-> FALSE,
   invert |-> [pan |-> FALSE, tilt |-> FALSE, zoom |-> FALSE],
   pan |-> Speeds(1, 24), tilt |-> Speeds(1, 20), zoom |-> Speeds(1, 7)]
Turned == [Usual EXCEPT !.invert = [pan |-> TRUE, tilt |-> TRUE, zoom |-> FALSE]]
Throttled == [Usual EXCEPT !.hatThrottle = TRUE, !.throttleInvert = FALSE, !.minMultiplier = 0]
Slow ==
  [Turned EXCEPT !.pan = Speeds(0, 3), !.tilt = Speeds(2, 2), !.zoom = Speeds(0, 0), !.fine = 0]
Numb == [Usual EXCEPT !.deadzone = One]
Sharp == [Throttled EXCEPT !.deadzone = 0, !.threshold = Thresholds(One \div 2, One \div 10)]
MCConfigs == {Turned, Throttled, Slow, Numb, Sharp}

MCEnvironments == {{}, {"web", "kill"}, {"lose", "reorder", "web", "kill"}}
MCCommands == [e \in MCEnvironments |-> IF e = {} THEN 4 ELSE 2]
MCFaults == [e \in MCEnvironments |-> IF e = {} THEN 3 ELSE 2]

MCInit ==
  /\ part \in {"axis", "link"}
  /\ Init /\ Axis!Init
  /\ part = "link" => conf = CHOOSE c \in AxisConfigs : TRUE
  /\ part = "axis" => faulty = {}

MCNext ==
  \/ part = "axis" /\ Axis!Next /\ UNCHANGED <<part, vars>>
  \/ part = "link" /\ Next /\ UNCHANGED <<part, axisVars>>

MCSpec == MCInit /\ [][MCNext]_mcVars

(* The commands of a position are those the position means.                *)
MappingInv == part = "axis" => Axis!MappingInv

(* Pushing an axis further never slows the camera down.                    *)
FurtherIsFaster == Axis!FurtherIsFaster
=============================================================================
