--------------------------- MODULE JoystickMonitor ---------------------------
(* The joystick from the plug to the router: discovery and providers          *)
(* (joystick/discovery.py, linux_evdev.py, windows_pygame.py), the monitor    *)
(* (joystick/runtime.py) and the joystick's part of the bridge's poll_once    *)
(* (runtime/joystick_switcher_bridge.py).                                     *)
(*                                                                            *)
(* The stick can be unplugged and plugged again between any two steps, and    *)
(* one is plugged in at a time. An opened evdev device queues its moves and   *)
(* presses, and when the queue overflows the kernel drops what is in it;      *)
(* pygame queues presses and asks the device for its axes. An axis is         *)
(* deflected (1) or not.                                                      *)
EXTENDS Integers, Sequences, FiniteSets, FiniteSetsExt

CONSTANTS
    Axes,
    QueueSize,     \* events the kernel keeps; bound on the presses queued for pygame
    MaxPlugs,      \* bound: times a stick is plugged in, for each backend
    MaxFailures,   \* bound: openings that fail
    MaxPresses     \* bound: presses of the button while a stick is plugged in

VARIABLES
    backend,       \* the provider of this platform, "evdev" or "pygame"
    plugged,       \* number of the device plugged in, 0 for none
    stick,         \* deflection of its axes
    queue,         \* its events, oldest first
    counts,        \* devices plugged in so far, and openings that failed
    pressed,       \* ghost: presses since the present device was opened that no overflow dropped
    behind,        \* ghost: axes whose last move an overflow has dropped
    provider,      \* NoProvider or what the provider knows
    health,        \* state of JoystickHealth, and of which device
    announced,     \* events on the bus: the last one, and disconnections in a row
    pc,            \* step of poll_once
    found,         \* device discovery has found
    snapshot,      \* axes of this cycle, or NoSnapshot
    wasConnected,  \* _last_joystick_connected
    moving,        \* axes of the camera in motion
    recalls        \* ghost: presses dispatched from the present provider

device == <<plugged, stick, queue, counts, pressed, behind>>
monitor == <<provider, health, announced>>
bridge == <<pc, found, snapshot, wasConnected, moving, recalls>>
vars == <<backend, device, monitor, bridge>>

Fresh(number) == [of |-> number, axes |-> [a \in Axes |-> 0], events |-> 0, seen |-> {}]
NoProvider == Fresh(0)
NoSnapshot == [a \in {} |-> 0]
Press == [axis |-> "button", value |-> 1]

Init ==
    /\ backend \in {"evdev", "pygame"}
    /\ plugged = 0 /\ stick = [a \in Axes |-> 0] /\ queue = <<>>
    /\ counts = [plugs |-> 0, failures |-> 0] /\ pressed = 0 /\ behind = {}
    /\ provider = NoProvider
    /\ health = [state |-> "disconnected", of |-> 0]
    /\ announced = [last |-> "disconnected", repeated |-> 0]
    /\ pc = "poll" /\ found = 0 /\ snapshot = NoSnapshot
    /\ wasConnected = FALSE /\ moving = {} /\ recalls = 0

(* -------------------------------- the device ------------------------------ *)
(* The axes that queued events tell of, and the presses among them.           *)
MovesOf(a) == {i \in DOMAIN queue : queue[i].axis = a}
Told == {a \in Axes : MovesOf(a) # {}}
Presses == Cardinality(MovesOf("button"))

(* An overflow leaves the newest event only.                                  *)
Room == Len(queue) < QueueSize
Queue(event) == queue' = IF Room THEN Append(queue, event) ELSE <<event>>
Dropped(moves) == IF Room THEN {} ELSE moves
PressesLeft == IF Room THEN pressed ELSE pressed - Presses

Plug ==
    /\ plugged = 0 /\ counts.plugs < MaxPlugs[backend]
    /\ counts' = [counts EXCEPT !.plugs = @ + 1]
    /\ plugged' = counts'.plugs
    /\ stick' \in [Axes -> {0, 1}] /\ queue' = <<>> /\ pressed' = 0 /\ behind' = {}
    /\ UNCHANGED <<monitor, bridge>>

Unplug ==
    /\ plugged # 0 /\ plugged' = 0 /\ queue' = <<>>
    /\ UNCHANGED <<stick, counts, pressed, behind, monitor, bridge>>

Deflect(a) ==
    /\ plugged # 0 /\ stick' = [stick EXCEPT ![a] = 1 - @]
    /\ IF backend = "evdev" /\ provider.of = plugged
       THEN /\ Queue([axis |-> a, value |-> stick'[a]])
            /\ behind' = (behind \cup Dropped(Told)) \ {a} /\ pressed' = PressesLeft
       ELSE UNCHANGED <<queue, behind, pressed>>
    /\ UNCHANGED <<plugged, counts, monitor, bridge>>

PressButton ==
    /\ plugged # 0 /\ provider.of = plugged /\ pressed < MaxPresses
    /\ backend = "pygame" => Room
    /\ Queue(Press) /\ behind' = behind \cup Dropped(Told) /\ pressed' = PressesLeft + 1
    /\ UNCHANGED <<plugged, stick, counts, monitor, bridge>>

(* -------------------------------- providers ------------------------------- *)
Lost == provider.of # plugged

(* poll() of the provider goes through the queued events: an axis is where    *)
(* the last of its events has put it, and every press is kept.                *)
(* Mutant: an axis that returns to its flat zone is not stored.               *)
AxisAfterMoves(known, a) ==
    IF a \in Told /\ queue[Max(MovesOf(a))].value # 0 THEN queue[Max(MovesOf(a))].value ELSE known.axes[a]

AxisAfter(known, a) == IF a \in Told THEN queue[Max(MovesOf(a))].value ELSE known.axes[a]

(* pygame gives the axes as they are; evdev knows what events have told.      *)
Polled(known) ==
    [of |-> known.of,
     axes |-> IF backend = "pygame" THEN stick ELSE [a \in Axes |-> AxisAfter(known, a)],
     events |-> known.events + Presses,
     seen |-> IF backend = "pygame" THEN Axes ELSE known.seen \cup Told]

(* --------------------------------- monitor -------------------------------- *)
Announce(event) ==
    announced' = [last |-> event, repeated |-> IF announced.last = event THEN announced.repeated + 1 ELSE 0]

(* Mutant: every attempt to reconnect is announced as a disconnection.        *)
MarkDisconnectedAlways ==
    /\ health' = [state |-> "disconnected", of |-> 0]
    /\ Announce("disconnected")

(* _mark_disconnected_once *)
MarkDisconnected ==
    /\ health' = [state |-> "disconnected", of |-> 0]
    /\ IF health.state # "disconnected" THEN Announce("disconnected") ELSE UNCHANGED announced

ProviderAfterLoss == NoProvider

(* poll() with a provider: its snapshot, or the loss of the device.           *)
Read ==
    /\ \/ pc = "poll" /\ provider # NoProvider
       \/ pc = "read"
    /\ pc' = "bridge"
    /\ IF Lost
       THEN /\ provider' = ProviderAfterLoss /\ MarkDisconnected
            /\ snapshot' = NoSnapshot
            /\ UNCHANGED queue
       ELSE /\ provider' = Polled(provider) /\ queue' = <<>>
            /\ snapshot' = provider'.axes
            /\ UNCHANGED <<health, announced>>
    /\ UNCHANGED <<plugged, stick, counts, pressed, behind, found, wasConnected, moving, recalls>>

(* Mutant: without a refresh, discovery does not see a stick plugged in anew. *)
DiscoveredStale == IF counts.plugs > 1 THEN 0 ELSE plugged

(* Discovery lists the devices afresh each time.                              *)
Discovered == plugged

(* reconnect_if_needed: discovery ...                                         *)
Discover ==
    /\ pc = "poll" /\ provider = NoProvider
    /\ found' = Discovered
    /\ IF found' = 0
       THEN pc' = "bridge" /\ snapshot' = NoSnapshot /\ MarkDisconnected
       ELSE pc' = "open" /\ UNCHANGED <<health, announced, snapshot>>
    /\ UNCHANGED <<device, provider, wasConnected, moving, recalls>>

(* ... and the provider with its first snapshot, any part of which may fail.  *)
Open ==
    /\ pc = "open" /\ found = plugged
    /\ provider' = Polled(Fresh(found))
    /\ queue' = <<>> /\ pressed' = 0 /\ behind' = {} /\ recalls' = 0
    /\ health' = [state |-> "connected", of |-> found]
    /\ Announce("connected")
    /\ pc' = "read"
    /\ UNCHANGED <<plugged, stick, counts, found, snapshot, wasConnected, moving>>

OpenFails ==
    /\ pc = "open"
    /\ \/ found # plugged /\ UNCHANGED counts
       \/ /\ found = plugged /\ counts.failures < MaxFailures
          /\ counts' = [counts EXCEPT !.failures = @ + 1]
    /\ health' = [state |-> "error", of |-> 0] /\ Announce("error")
    /\ snapshot' = NoSnapshot /\ pc' = "bridge"
    /\ UNCHANGED <<plugged, stick, queue, pressed, behind, provider, found, wasConnected, moving, recalls>>

(* --------------------------------- bridge --------------------------------- *)
(* Mutant: only an error counts as a loss.                                    *)
JustLostByError == wasConnected /\ health.state = "error"

JustLost == wasConnected /\ health.state # "connected"

(* A loss since the last cycle stops the camera; the switcher follows.        *)
SafeStop ==
    /\ pc = "bridge" /\ pc' = "buttons"
    /\ moving' = (IF JustLost THEN {} ELSE moving)
    /\ wasConnected' = (health.state = "connected")
    /\ UNCHANGED <<device, monitor, found, snapshot, recalls>>

(* Mutant: the events are returned but stay in the list.                      *)
TakenKept(known) == known

Taken(known) == [known EXCEPT !.events = 0]

(* button_events() of the provider polls again.                               *)
Buttons ==
    /\ pc = "buttons" /\ (provider = NoProvider \/ ~Lost)
    /\ pc' = "route"
    /\ IF provider = NoProvider THEN UNCHANGED <<provider, queue, recalls>>
       ELSE /\ recalls' = recalls + Polled(provider).events
            /\ provider' = Taken(Polled(provider)) /\ queue' = <<>>
    /\ UNCHANGED <<plugged, stick, counts, pressed, behind, health, announced, found, snapshot, wasConnected, moving>>

(* An error leaves poll_once, and run_forever stops: the device is gone, or   *)
(* the dispatcher or a recall raises at one of the presses.                   *)
ButtonsRaise ==
    /\ pc = "buttons" /\ provider # NoProvider
    /\ IF Lost THEN UNCHANGED <<provider, queue, recalls>>
       ELSE /\ \E carried \in 0..(Polled(provider).events - 1) : recalls' = recalls + carried
            /\ provider' = Taken(Polled(provider)) /\ queue' = <<>>
    /\ pc' = "ended" /\ moving' = {}
    /\ UNCHANGED <<plugged, stick, counts, pressed, behind, health, announced, found, snapshot, wasConnected>>

Route ==
    /\ pc = "route" /\ pc' = "poll"
    /\ moving' = (IF snapshot = NoSnapshot THEN moving ELSE {a \in Axes : snapshot[a] = 1})
    /\ UNCHANGED <<device, monitor, found, snapshot, wasConnected, recalls>>

Loop ==
    /\ UNCHANGED backend
    /\ Read \/ Discover \/ Open \/ OpenFails \/ SafeStop \/ Buttons \/ ButtonsRaise \/ Route

Operator == UNCHANGED backend /\ (Plug \/ Unplug \/ PressButton \/ \E a \in Axes : Deflect(a))

Next == Operator \/ Loop \/ (pc = "ended" /\ UNCHANGED vars)

Spec == Init /\ [][Next]_vars

(* The loop goes on; openings fail a bounded number of times.                 *)
FairSpec == Spec /\ WF_vars(Loop)

(* ------------------------------- properties ------------------------------- *)
TypeOK ==
    /\ provider.of \in 0..MaxPlugs[backend] /\ health.state \in {"connected", "disconnected", "error"}
    /\ (provider = NoProvider) = (health.state # "connected")
    /\ health.of = provider.of

(* At the end of a cycle no camera moves unless the stick of that cycle is    *)
(* deflected: a loss in any step, a failed opening or a quick replug included.*)
StillWhenLost ==
    pc = "poll" => moving = (IF snapshot = NoSnapshot THEN {} ELSE {a \in Axes : snapshot[a] = 1})

(* Each press on the connected stick that no overflow has dropped is carried  *)
(* out exactly once, as long as the loop runs.                                *)
PressesKept ==
    provider.of = plugged /\ plugged # 0 /\ pc # "ended" =>
        pressed = recalls + provider.events + Presses

(* However often reconnecting finds no stick, a disconnection is not announced*)
(* again: between two announcements a stick was connected or failed to open.  *)
LossNotRepeated == announced.last = "disconnected" => announced.repeated = 0

(* An axis the provider was told of is where it says, once it has read all    *)
(* events, unless an overflow has dropped the axis' last move: one more move  *)
(* of it makes up for that.                                                   *)
FollowsStick ==
    provider.of = plugged /\ queue = <<>> =>
        \A a \in provider.seen \ behind : provider.axes[a] = stick[a]

(* The stick of a cycle is the one on the desk.  pygame has no queue of moves *)
(* to be behind with: it gives an axis as it is when it is asked.             *)
StickInv ==
    /\ TypeOK
    /\ StillWhenLost
    /\ PressesKept
    /\ LossNotRepeated
    /\ backend = "evdev" => FollowsStick

(* A stick that stays plugged in is used.                                     *)
StickIsUsed == []<>(plugged # 0 => health.of = plugged \/ pc = "ended")
==============================================================================
