--------------------------- MODULE MotionControl ---------------------------
(***************************************************************************)
(* What the PTZ half of the controller promises, without saying how: there *)
(* is at most one camera under the joystick, only that camera is ever in   *)
(* continuous motion, and the joystick is handed to another camera only    *)
(* when the one it leaves is at rest.  PtzRouting (the poll loop, the      *)
(* router and the switcher mirror of the controller) is shown to implement *)
(* this specification.                                                     *)
(***************************************************************************)
CONSTANTS
  Cameras,    \* the configured PTZ cameras
  NoCamera,   \* "no camera under the joystick" (None in the code)
  Axes        \* the independently stopped motions of a camera

VARIABLES
  activePtz,  \* the camera under the joystick
  moving      \* per camera, the axes in continuous motion

vars == <<activePtz, moving>>

AtRest == \A c \in Cameras : moving[c] = {}

Init ==
  /\ activePtz \in Cameras \cup {NoCamera}
  /\ moving = [c \in Cameras |-> {}]

(* The camera under the joystick starts, changes or stops its motion.      *)
Drive(c) ==
  /\ activePtz = c
  /\ \E A \in SUBSET Axes : moving' = [moving EXCEPT ![c] = A]
  /\ UNCHANGED activePtz

(* The joystick goes to another camera, or to none: every motion has ended *)
(* before, or ends in the same step.                                       *)
Handover ==
  /\ activePtz' \in Cameras \cup {NoCamera}
  /\ moving' = [c \in Cameras |-> {}]

Next == (\E c \in Cameras : Drive(c)) \/ Handover

Spec == Init /\ [][Next]_vars
=============================================================================
