---------------------------- MODULE MCPtzRouting ----------------------------
(***************************************************************************)
(* Small instances of PtzRouting for TLC: two driven cameras, a third      *)
(* source that is unmapped or mapped to a disabled camera, and one id the  *)
(* controller does not accept.                                             *)
(***************************************************************************)
EXTENDS PtzRouting

CONSTANTS in1, in2, in3, camA, camB, camC, foreign

\* in3 is a switcher input without a PTZ mapping
MCMapping ==
  [s \in Sources |-> CASE s = in1 -> camA [] s = in2 -> camB [] OTHER -> NoCamera]
\* in3 is mapped to a camera that is configured but disabled
MCMappingDisabled ==
  [s \in Sources |-> CASE s = in1 -> camA [] s = in2 -> camB [] OTHER -> camC]
=============================================================================
