----------------------------- MODULE MCConfirm ------------------------------
(* Changes that wait for a confirmation, of two browsers with two POSTs    *)
(* under way, and the network change behind one of them, with addresses of *)
(* four bits.  A token lives one tick.  The models share no variable; a    *)
(* behaviour of this module is one of one of them.                         *)
EXTENDS PendingConfirm, TLC

CONSTANTS b1, b2, p1, p2, Width, Addresses, Interfaces, Helpers, MaxStarts

VARIABLES
  part,   \* the model at work
  interface, profile, active, backup, helper, waiting, answer, had, starts

networkVars == <<interface, profile, active, backup, helper, waiting, answer, had, starts>>
mcVars == <<part, vars, networkVars>>

MCLifetime == [k \in Kinds |-> 1]
Symmetry == Permutations(Browsers) \cup Permutations(Posts)

Network == INSTANCE NetworkChange

(* Zero is no helper: the handler waits for 0 when it waits for none.      *)
ASSUME HelpersAssumption == 0 \notin Helpers

(* The interface matters to the network change only.                       *)
MCInit ==
  /\ part \in {"confirm", "network"} /\ Init /\ Network!Init
  /\ part = "confirm" => interface = CHOOSE i \in Interfaces : TRUE

MCNext ==
  \/ part = "confirm" /\ Next /\ UNCHANGED <<part, networkVars>>
  \/ part = "network" /\ Network!Next /\ UNCHANGED <<part, vars>>

MCSpec == MCInit /\ [][MCNext]_mcVars

(* Profile, device and backup hold whole settings.                         *)
NetworkInv == part = "network" => Network!NetworkInv

(* When the handler reports success, the machine uses what was asked for.  *)
AnswerIsReal == Network!AnswerIsReal
=============================================================================
