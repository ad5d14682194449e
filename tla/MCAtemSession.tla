--------------------------- MODULE MCAtemSession ----------------------------
(* AtemSession for TLC: two sources; commands, faults, panel moves and     *)
(* datagrams under way are few but enough for a command that times out     *)
(* after it was executed, followed by another one.                         *)
EXTENDS AtemSession, TLC

CONSTANTS s1, s2

SourceSymmetry == Permutations({s1, s2})
=============================================================================
