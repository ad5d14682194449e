-------------------------- MODULE SwitcherContract --------------------------
(***************************************************************************)
(* What the command executor is promised by a switcher backend: while a    *)
(* command waits it is sent at most MaxTries times, each time the switcher *)
(* carries it out at most once, and it is reported as done only when the   *)
(* switcher carried out what was sent last.  Once it is reported it is not *)
(* sent again, but what was sent may still be carried out at any later     *)
(* time, of a failed command too: the executor cannot tell.                *)
(***************************************************************************)
EXTENDS Naturals

CONSTANTS Commands, MaxTries

VARIABLES
  issued,    \* commands handed to the backend
  tries,     \* how often the backend has sent each of them
  executed,  \* <<command, try>>: what the switcher has carried out
  result     \* what the backend told the executor

vars == <<issued, tries, executed, result>>

Init ==
  /\ issued = {} /\ executed = {}
  /\ tries = [n \in Commands |-> 0]
  /\ result = [n \in Commands |-> "none"]

Issue(n) ==
  /\ n \notin issued
  /\ issued' = issued \cup {n}
  /\ tries' = [tries EXCEPT ![n] = 1]
  /\ result' = [result EXCEPT ![n] = "waiting"]
  /\ UNCHANGED executed

(* Refused before it was sent, or failed as it was sent.                   *)
Refuse(n) ==
  /\ n \notin issued
  /\ issued' = issued \cup {n}
  /\ \E t \in {0, 1} : tries' = [tries EXCEPT ![n] = t]
  /\ result' = [result EXCEPT ![n] = "failed"]
  /\ UNCHANGED executed

Retry(n) ==
  /\ result[n] = "waiting" /\ tries[n] < MaxTries
  /\ tries' = [tries EXCEPT ![n] = @ + 1]
  /\ UNCHANGED <<issued, executed, result>>

Execute(n) ==
  /\ \E t \in 1..tries[n] :
       <<n, t>> \notin executed /\ executed' = executed \cup {<<n, t>>}
  /\ UNCHANGED <<issued, tries, result>>

Succeed(n) ==
  /\ result[n] = "waiting" /\ <<n, tries[n]>> \in executed
  /\ result' = [result EXCEPT ![n] = "done"]
  /\ UNCHANGED <<issued, tries, executed>>

Fail(n) ==
  /\ result[n] = "waiting"
  /\ result' = [result EXCEPT ![n] = "failed"]
  /\ UNCHANGED <<issued, tries, executed>>

Next ==
  \E n \in Commands :
    Issue(n) \/ Refuse(n) \/ Retry(n) \/ Execute(n) \/ Succeed(n) \/ Fail(n)

Spec == Init /\ [][Next]_vars
=============================================================================
