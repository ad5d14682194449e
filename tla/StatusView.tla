----------------------------- MODULE StatusView -----------------------------
(***************************************************************************)
(* What the web pages see of the running controller: the histories that    *)
(* RuntimeStatusProvider keeps of the events on the EventBus, and its      *)
(* reference to the switcher object of the bridge.                         *)
(*                                                                         *)
(* The bus calls its subscribers within publish, in the thread that        *)
(* publishes: first those of the event's type, then record_event, which    *)
(* takes every event.  Both the poll loop and the web thread that applies  *)
(* a configuration publish, without a lock; each list operation is atomic. *)
(* The router, subscribed to "ptz.stop_requested", publishes an event of   *)
(* its own from inside its handler, or raises when a VISCA stop cannot be  *)
(* sent; the exception then leaves publish.                                *)
(***************************************************************************)
EXTENDS Naturals, Sequences, SequencesExt

CONSTANTS
  Size,          \* per history: the number of events it keeps
  MaxEvents,     \* bound: events in one behaviour
  MaxApplies     \* bound: applied configurations in one behaviour

Histories == {"recent", "diagnostic", "actions"}

(* request: ptz.stop_requested.  ptz: another event of the router.         *)
Kinds == {"request", "ptz", "other"}
Threads == {"loop", "web"}
Switchers == 0 .. MaxApplies   \* the switcher objects, numbered as they are created

VARIABLES
  created,       \* events so far, which numbers them in the order of created_at
  calls,         \* per thread: its publish calls, the innermost first
  history,       \* per history: the events in it, newest insertion first
  apply,         \* the web thread: "idle" or inside "apply_config"
  result,        \* last_apply_result
  bridgeSw, shownSw  \* the switcher object of the bridge, of the status provider

vars == <<created, calls, history, apply, result, bridgeSw, shownSw>>

Events == [number : 1 .. MaxEvents, kind : Kinds]
Insertion(h) == [do |-> "insert", into |-> h]
Trimming(h) == [do |-> "trim", into |-> h]
Handling == [do |-> "stop", into |-> "recent"]
Operations == {Insertion(h) : h \in Histories} \cup {Trimming(h) : h \in Histories} \cup {Handling}

(* What record_event does with an event, in order.                         *)
Recording(e) ==
  <<Insertion("recent"), Trimming("recent"), Insertion("diagnostic"), Trimming("diagnostic")>>
    \o IF e.kind = "other" THEN <<>> ELSE <<Insertion("actions"), Trimming("actions")>>

(* The subscribers of an event, in the order the bus calls them.           *)
Delivery(e) == (IF e.kind = "request" THEN <<Handling>> ELSE <<>>) \o Recording(e)

Call(kind) ==
  LET e == [number |-> created + 1, kind |-> kind] IN [event |-> e, todo |-> Delivery(e)]

TypeOK ==
  /\ created \in 0 .. MaxEvents
  /\ \A t \in Threads :
       /\ Len(calls[t]) <= 2
       /\ \A i \in DOMAIN calls[t] : /\ calls[t][i].event \in Events
                                     /\ calls[t][i].todo \in Seq(Operations) \ {<<>>}
  /\ \A h \in Histories : history[h] \in Seq(Events)
  /\ apply \in {"idle", "applying"} /\ result \in {"none", "ok", "error"}
  /\ bridgeSw \in Switchers /\ shownSw \in 0 .. bridgeSw

Init ==
  /\ created = 0
  /\ calls = [t \in Threads |-> <<>>]
  /\ history = [h \in Histories |-> <<>>]
  /\ apply = "idle" /\ result = "none"
  /\ bridgeSw = 0 /\ shownSw = 0

Idle(t) == calls[t] = <<>>

(* The next operation of a thread's innermost call, and the call without   *)
(* it: a call that has nothing left returns to the one around it.          *)
Due(t, do) == ~Idle(t) /\ Head(calls[t]).todo[1].do = do
Current(t) == Head(calls[t])
Advanced(t) ==
  LET rest == Tail(Current(t).todo)
  IN IF rest = <<>> THEN Tail(calls[t])
     ELSE [calls[t] EXCEPT ![1] = [event |-> Current(t).event, todo |-> rest]]

(* The poll loop publishes, or the web thread does inside apply_config     *)
(* (of which sync_from_switcher is the last part).                         *)
Publish(t) ==
  /\ Idle(t) /\ created < MaxEvents
  /\ t = "web" => apply = "applying"
  /\ \E kind \in Kinds : calls' = [calls EXCEPT ![t] = <<Call(kind)>>]
  /\ created' = created + 1
  /\ UNCHANGED <<history, apply, result, bridgeSw, shownSw>>

(* The router's handler finds nothing to stop, or no session.              *)
NothingToStop(t) ==
  /\ Due(t, "stop")
  /\ calls' = [calls EXCEPT ![t] = Advanced(t)]
  /\ UNCHANGED <<created, history, apply, result, bridgeSw, shownSw>>

(* It stops the camera and publishes that, inside the handler.             *)
StopPublishes(t) ==
  /\ Due(t, "stop") /\ created < MaxEvents
  /\ calls' = [calls EXCEPT ![t] = <<Call("ptz")>> \o Advanced(t)]
  /\ created' = created + 1
  /\ UNCHANGED <<history, apply, result, bridgeSw, shownSw>>

(* The stop cannot be sent.  The exception ends every publish of the       *)
(* thread; in the web thread it ends apply_config as well, and             *)
(* apply_loaded_config records the error.                                  *)
StopRaises(t) ==
  /\ Due(t, "stop")
  /\ calls' = [calls EXCEPT ![t] = <<>>]
  /\ IF t = "web" THEN apply' = "idle" /\ result' = "error"
     ELSE UNCHANGED <<apply, result>>
  /\ UNCHANGED <<created, history, bridgeSw, shownSw>>

Insert(t) ==
  /\ Due(t, "insert")
  /\ LET h == Current(t).todo[1].into IN
       history' = [history EXCEPT ![h] = <<Current(t).event>> \o @]
  /\ calls' = [calls EXCEPT ![t] = Advanced(t)]
  /\ UNCHANGED <<created, apply, result, bridgeSw, shownSw>>

(* Mutant: one event less is kept when the list is cut.                    *)
TrimmedShort(s, n) == IF Len(s) > n THEN SubSeq(s, 1, n - 1) ELSE s

(* del events[n:]                                                          *)
Trimmed(s, n) == IF Len(s) > n THEN SubSeq(s, 1, n) ELSE s

Trim(t) ==
  /\ Due(t, "trim")
  /\ LET h == Current(t).todo[1].into IN
       history' = [history EXCEPT ![h] = Trimmed(@, Size[h])]
  /\ calls' = [calls EXCEPT ![t] = Advanced(t)]
  /\ UNCHANGED <<created, apply, result, bridgeSw, shownSw>>

(* apply_config up to the new switcher object, which it keeps when the new *)
(* one cannot be created.                                                  *)
ReplaceSwitcher ==
  /\ apply = "idle" /\ Idle("web") /\ bridgeSw < MaxApplies
  /\ bridgeSw' \in {bridgeSw, bridgeSw + 1}
  /\ apply' = "applying"
  /\ UNCHANGED <<created, calls, history, result, shownSw>>

(* Mutant: the references are left as they are.                            *)
ApplyEndsAlone ==
  /\ apply = "applying" /\ Idle("web") /\ created < MaxEvents
  /\ apply' = "idle" /\ result' = "ok"
  /\ calls' = [calls EXCEPT !["web"] = <<Call("other")>>]
  /\ created' = created + 1
  /\ UNCHANGED <<history, bridgeSw, shownSw>>

(* The provider's references follow the bridge's after apply_config, and   *)
(* config.applied is published.                                            *)
ApplyEnds ==
  /\ apply = "applying" /\ Idle("web") /\ created < MaxEvents
  /\ shownSw' = bridgeSw
  /\ apply' = "idle" /\ result' = "ok"
  /\ calls' = [calls EXCEPT !["web"] = <<Call("other")>>]
  /\ created' = created + 1
  /\ UNCHANGED <<history, bridgeSw>>

Next ==
  \/ \E t \in Threads :
       \/ Publish(t) \/ NothingToStop(t) \/ StopPublishes(t) \/ StopRaises(t)
       \/ Insert(t) \/ Trim(t)
  \/ ReplaceSwitcher \/ ApplyEnds

Spec == Init /\ [][Next]_vars

Quiet == \A t \in Threads : Idle(t)
BelongsTo(e, h) == h = "actions" => e.kind # "other"

(* With nobody publishing, the histories are within their sizes and agree: *)
(* an event that one of them shows is in every other it belongs to, unless *)
(* that one is full.  Two threads cut the lists after each other's inserts *)
(* and a handler that raises drops the rest of the delivery; neither loses *)
(* an event from one list only (record_event, and test_runtime_event_      *)
(* buffer_is_bounded for the sizes).                                       *)
HistoriesAgree ==
  Quiet => /\ \A h \in Histories : Len(history[h]) <= Size[h]
           /\ \A g, h \in Histories : \A e \in ToSet(history[g]) :
                BelongsTo(e, h) => e \in ToSet(history[h]) \/ Len(history[h]) = Size[h]

(* A configuration that is reported as applied is the one the pages show:  *)
(* the provider reads the switcher object that the bridge uses.            *)
AppliedIsShown == apply = "idle" /\ result = "ok" => shownSw = bridgeSw

(* The pages show what happened and what is in use.                        *)
ViewInv ==
  /\ TypeOK
  /\ HistoriesAgree
  /\ AppliedIsShown
=============================================================================
