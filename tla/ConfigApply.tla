---------------------------- MODULE ConfigApply -----------------------------
(***************************************************************************)
(* A configuration is applied to the running controller.  The web server's *)
(* thread runs JoystickToSwitcherBridge.apply_config while the poll loop   *)
(* goes on in the main thread: there is no lock, so the model takes one    *)
(* step per access to what the two share (AppState, the router's sessions  *)
(* and flag, the switcher objects) and interleaves the two threads.        *)
(*                                                                         *)
(* Web handlers are coroutines of one event loop that do not await inside  *)
(* an apply, so there is at most one apply at a time.                      *)
(*                                                                         *)
(* Compared with PtzRouting, which has the loop alone: one movement axis,  *)
(* no buttons, no lost joystick, and every VISCA command is sent.  A       *)
(* session that was replaced still drives its camera (its transport        *)
(* reconnects on the next send), so a captured session is its camera.      *)
(***************************************************************************)
EXTENDS Naturals, FiniteSets

CONSTANTS
  Sources, NoSource,   \* switcher sources, and None
  Cameras, NoCamera,   \* camera ids of all the configurations, and None
  Configs,             \* the configurations that can be applied
  MaxApplies,          \* bound: applies in one behaviour
  CalmOperator         \* the stick is released before an apply and until its end

ASSUME NoneAssumption == NoSource \notin Sources /\ NoCamera \notin Cameras

(* enabled: the cameras with enabled: true.  reachable: all of them have a *)
(* host, so every transport can be built.  creatable: create_switcher      *)
(* succeeds (host set, type supported).                                    *)
ASSUME ConfigsAssumption ==
  Configs \subseteq [mapping : [Sources -> Cameras \cup {NoCamera}],
                     enabled : SUBSET Cameras,
                     reachable : BOOLEAN,
                     creatable : BOOLEAN]

ASSUME BoundsAssumption == MaxApplies \in Nat /\ CalmOperator \in BOOLEAN

VARIABLES
  pc,               \* per thread, the next statement
  stick,            \* the loop's reading: deflected or not
  config,           \* AppState.config
  preview, activePtz, \* AppState's preview source and active camera
  sessions,         \* cameras PtzRouter.sessions holds a session for
  tracked,          \* PtzRouter.pan_tilt_active
  moving,           \* cameras a VISCA command has set in motion
  bridgeSw, execSw, \* the switcher object of the bridge, of the executor
  up, seen,         \* per switcher object: is_connected(), its last report
  swPreview,        \* the source the switcher has in Preview
  cam, src,         \* per thread: a captured camera, a captured report
  saved,            \* the preview and camera apply_config restores
  new,              \* the configuration being applied
  applies           \* applies so far

loopVars == <<stick>>
stateVars == <<preview, activePtz>>
routerVars == <<tracked, moving>>
switcherVars == <<bridgeSw, execSw, up, seen>>
localVars == <<cam, src>>
applyVars == <<config, sessions, saved, new, applies>>
vars == <<pc, stick, config, preview, activePtz, sessions, tracked, moving,
          bridgeSw, execSw, up, seen, swPreview, cam, src, saved, new, applies>>

Threads == {"loop", "web"}
Objects == 0 .. MaxApplies
MaybeSource == Sources \cup {NoSource}
MaybeCamera == Cameras \cup {NoCamera}

(* set_preview and sync_from_switcher run in either thread.                *)
SyncSteps == {"report", "assign", "old", "stop", "drop", "candidate", "store"}
LoopSteps == {"poll", "check", "ensure", "route", "move", "flag", "halt", "unflag"}
WebSteps == {"idle", "halt", "unflag", "save", "config", "restore", "select",
             "recompute", "rebuild", "flags", "disconnect", "create", "swap", "connect"}
StepsOf(t) == SyncSteps \cup (IF t = "loop" THEN LoopSteps ELSE WebSteps)

TypeOK ==
  /\ pc \in [Threads -> LoopSteps \cup WebSteps \cup SyncSteps]
  /\ \A t \in Threads : pc[t] \in StepsOf(t)
  /\ stick \in BOOLEAN
  /\ config \in Configs /\ new \in Configs
  /\ preview \in MaybeSource /\ activePtz \in MaybeCamera
  /\ sessions \subseteq Cameras /\ moving \subseteq Cameras
  /\ tracked \in BOOLEAN
  /\ bridgeSw \in Objects /\ execSw \in Objects
  /\ up \in [Objects -> BOOLEAN] /\ seen \in [Objects -> MaybeSource]
  /\ swPreview \in Sources
  /\ cam \in [Threads -> MaybeCamera] /\ src \in [Threads -> MaybeSource]
  /\ saved \in [preview : MaybeSource, activePtz : MaybeCamera]
  /\ applies \in 0 .. MaxApplies

(* The camera a configuration selects for a preview source.                *)
CameraFor(c, s) == IF s = NoSource THEN NoCamera ELSE c.mapping[s]

Nothing == [preview |-> NoSource, activePtz |-> NoCamera]

(* The process has started with a configuration that could be built.       *)
Init ==
  /\ pc = [t \in Threads |-> IF t = "loop" THEN "poll" ELSE "idle"]
  /\ stick = FALSE
  /\ config \in {c \in Configs : c.reachable /\ c.creatable}
  /\ new = config
  /\ sessions = config.enabled
  /\ swPreview \in Sources
  /\ preview \in {NoSource, swPreview}
  /\ activePtz = CameraFor(config, preview)
  /\ tracked = FALSE /\ moving = {}
  /\ bridgeSw = 0 /\ execSw = 0
  /\ up = [o \in Objects |-> o = 0 /\ preview # NoSource]
  /\ seen = [o \in Objects |-> IF o = 0 THEN preview ELSE NoSource]
  /\ cam = [t \in Threads |-> NoCamera]
  /\ src = [t \in Threads |-> NoSource]
  /\ saved = Nothing
  /\ applies = 0

GoTo(t, label) == pc' = [pc EXCEPT ![t] = label]

(* A local variable is forgotten after its last use.                       *)
Forget(t) == cam' = [cam EXCEPT ![t] = NoCamera]

(* Where a thread goes on after sync_from_switcher.                        *)
AfterSync(t) == IF t = "loop" THEN "route" ELSE "idle"

(* PtzRouter.active_session: its camera, or none.                          *)
ActiveSession == IF activePtz \in sessions THEN activePtz ELSE NoCamera

-----------------------------------------------------------------------------
(* sync_from_switcher and set_preview, in thread t.                        *)

(* poll() and get_preview_source(): the executor's switcher reports, turns *)
(* out to be lost, or, not connected, still returns what it last saw.      *)
Report(t) ==
  /\ pc[t] = "report"
  /\ \/ /\ up[execSw]
        /\ seen' = [seen EXCEPT ![execSw] = swPreview]
        /\ src' = [src EXCEPT ![t] = swPreview]
        /\ GoTo(t, "assign")
        /\ UNCHANGED up
     \/ /\ up' = [up EXCEPT ![execSw] = FALSE]
        /\ GoTo(t, AfterSync(t))
        /\ UNCHANGED <<seen, src>>
     \/ /\ ~up[execSw]
        /\ src' = [src EXCEPT ![t] = seen[execSw]]
        /\ GoTo(t, "assign")
        /\ UNCHANGED <<up, seen>>
  /\ UNCHANGED <<loopVars, stateVars, routerVars, applyVars, bridgeSw, execSw,
                 swPreview, cam>>

(* set_preview is called only for a source that differs from the current   *)
(* one, so that the camera it leaves is always to be stopped.              *)
AssignPreview(t) ==
  /\ pc[t] = "assign"
  /\ preview' = src[t]
  /\ src' = [src EXCEPT ![t] = NoSource]
  /\ GoTo(t, IF src[t] = preview THEN AfterSync(t) ELSE "old")
  /\ UNCHANGED <<loopVars, activePtz, routerVars, applyVars, switcherVars,
                 swPreview, cam>>

ReadOldCamera(t) ==
  /\ pc[t] = "old"
  /\ GoTo(t, IF activePtz = NoCamera THEN "candidate" ELSE "stop")
  /\ UNCHANGED <<loopVars, stateVars, routerVars, applyVars, switcherVars,
                 swPreview, localVars>>

(* Mutant: the stop reaches nobody.                                        *)
StopOldCameraSilently(t) ==
  /\ pc[t] = "stop"
  /\ GoTo(t, IF activePtz \in sessions \cup {NoCamera} THEN "drop" ELSE "candidate")
  /\ UNCHANGED <<loopVars, stateVars, routerVars, applyVars, switcherVars,
                 swPreview, localVars>>

(* request_stop reads the active camera again.  The stop reaches whatever  *)
(* session it now names; without one nothing is sent, and the flag is      *)
(* dropped only when there is no camera at all.                            *)
StopOldCamera(t) ==
  /\ pc[t] = "stop"
  /\ moving' = moving \ {ActiveSession}
  /\ GoTo(t, IF activePtz \in sessions \cup {NoCamera} THEN "drop" ELSE "candidate")
  /\ UNCHANGED <<loopVars, stateVars, tracked, applyVars, switcherVars,
                 swPreview, localVars>>

DropFlag(t) ==
  /\ pc[t] = "drop"
  /\ tracked' = FALSE
  /\ GoTo(t, "candidate")
  /\ UNCHANGED <<loopVars, stateVars, moving, applyVars, switcherVars,
                 swPreview, localVars>>

(* AppState.recompute_active_ptz selects from the preview and the          *)
(* configuration it reads, and assigns the result.                         *)
SelectCamera(t) ==
  /\ cam' = [cam EXCEPT ![t] = CameraFor(config, preview)]
  /\ UNCHANGED <<loopVars, stateVars, routerVars, applyVars, switcherVars,
                 swPreview, src>>

StoreCamera(t) ==
  /\ activePtz' = cam[t]
  /\ Forget(t)
  /\ UNCHANGED <<loopVars, preview, routerVars, applyVars, switcherVars,
                 swPreview, src>>

SetPreviewSelects(t) == pc[t] = "candidate" /\ GoTo(t, "store") /\ SelectCamera(t)
SetPreviewStores(t) == pc[t] = "store" /\ GoTo(t, AfterSync(t)) /\ StoreCamera(t)

Sync(t) ==
  \/ Report(t) \/ AssignPreview(t) \/ ReadOldCamera(t) \/ StopOldCamera(t)
  \/ DropFlag(t) \/ SetPreviewSelects(t) \/ SetPreviewStores(t)

-----------------------------------------------------------------------------
(* The poll loop.                                                          *)

PollJoystick ==
  /\ pc["loop"] = "poll"
  /\ stick' \in IF CalmOperator /\ pc["web"] # "idle" THEN {FALSE} ELSE BOOLEAN
  /\ GoTo("loop", "check")
  /\ UNCHANGED <<stateVars, routerVars, applyVars, switcherVars, swPreview, localVars>>

(* poll_once asks the bridge's switcher object and then uses the           *)
(* executor's: the two differ while an apply is between its assignments.   *)
CheckSwitcher ==
  /\ pc["loop"] = "check"
  /\ GoTo("loop", IF up[bridgeSw] THEN "report" ELSE "ensure")
  /\ UNCHANGED <<loopVars, stateVars, routerVars, applyVars, switcherVars,
                 swPreview, localVars>>

EnsureConnected ==
  /\ pc["loop"] = "ensure"
  /\ \E connected \in {TRUE, up[execSw]} : up' = [up EXCEPT ![execSw] = connected]
  /\ GoTo("loop", "route")
  /\ UNCHANGED <<loopVars, stateVars, routerVars, applyVars, bridgeSw, execSw,
                 seen, swPreview, localVars>>

(* route_controls captures the active session, and drops the flag when     *)
(* there is none.                                                          *)
Route ==
  /\ pc["loop"] = "route"
  /\ cam' = [cam EXCEPT !["loop"] = ActiveSession]
  /\ IF ActiveSession = NoCamera
     THEN GoTo("loop", "poll") /\ tracked' = FALSE
     ELSE /\ UNCHANGED tracked
          /\ GoTo("loop", IF stick THEN "move" ELSE IF tracked THEN "halt" ELSE "poll")
  /\ UNCHANGED <<loopVars, stateVars, moving, applyVars, switcherVars, swPreview, src>>

(* A command is sent to the captured session; the flag is set or dropped   *)
(* after it.                                                               *)
RouteMove ==
  /\ pc["loop"] = "move"
  /\ moving' = moving \cup {cam["loop"]}
  /\ GoTo("loop", "flag") /\ Forget("loop")
  /\ UNCHANGED <<loopVars, stateVars, tracked, applyVars, switcherVars, swPreview, src>>

HaltSession(t) ==
  /\ pc[t] = "halt"
  /\ moving' = moving \ {cam[t]}
  /\ GoTo(t, "unflag") /\ Forget(t)
  /\ UNCHANGED <<loopVars, stateVars, tracked, applyVars, switcherVars, swPreview, src>>

SetFlag(t, value, next) ==
  /\ tracked' = value
  /\ GoTo(t, next)
  /\ UNCHANGED <<loopVars, stateVars, moving, applyVars, switcherVars, swPreview, localVars>>

RouteFlag == pc["loop"] = "flag" /\ SetFlag("loop", TRUE, "poll")
RouteUnflag == pc["loop"] = "unflag" /\ SetFlag("loop", FALSE, "poll")

RouteControls == Route \/ RouteMove \/ RouteFlag \/ HaltSession("loop") \/ RouteUnflag

Loop ==
  PollJoystick \/ CheckSwitcher \/ EnsureConnected \/ Sync("loop") \/ RouteControls

-----------------------------------------------------------------------------
(* apply_config, in the web thread.                                        *)

(* Mutant: nothing is stopped before the apply.                            *)
StartApplyMoving(c) ==
  /\ pc["web"] = "idle"
  /\ applies < MaxApplies
  /\ CalmOperator => ~stick
  /\ applies' = applies + 1
  /\ new' = c
  /\ GoTo("web", "save")
  /\ UNCHANGED <<loopVars, stateVars, routerVars, config, sessions, saved,
                 switcherVars, swPreview, localVars>>

(* Save and apply: stop_all_active_motion captures the active session.     *)
StartApply(c) ==
  /\ pc["web"] = "idle"
  /\ applies < MaxApplies
  /\ CalmOperator => ~stick
  /\ applies' = applies + 1
  /\ new' = c
  /\ cam' = [cam EXCEPT !["web"] = ActiveSession]
  /\ GoTo("web", IF ActiveSession = NoCamera THEN "save" ELSE "halt")
  /\ UNCHANGED <<loopVars, stateVars, routerVars, config, sessions, saved,
                 switcherVars, swPreview, src>>

ApplyUnflag == pc["web"] = "unflag" /\ SetFlag("web", FALSE, "save")

SaveState ==
  /\ pc["web"] = "save"
  /\ saved' = [preview |-> preview, activePtz |-> activePtz]
  /\ GoTo("web", "config")
  /\ UNCHANGED <<loopVars, stateVars, routerVars, config, sessions, new, applies,
                 switcherVars, swPreview, localVars>>

ReplaceConfig ==
  /\ pc["web"] = "config"
  /\ config' = new
  /\ GoTo("web", "restore")
  /\ UNCHANGED <<loopVars, stateVars, routerVars, sessions, saved, new, applies,
                 switcherVars, swPreview, localVars>>

RestoreState ==
  /\ pc["web"] = "restore"
  /\ preview' = saved.preview
  /\ activePtz' = saved.activePtz
  /\ saved' = Nothing
  /\ GoTo("web", "select")
  /\ UNCHANGED <<loopVars, routerVars, config, sessions, new, applies,
                 switcherVars, swPreview, localVars>>

ApplySelects == pc["web"] = "select" /\ GoTo("web", "recompute") /\ SelectCamera("web")
ApplyStores == pc["web"] = "recompute" /\ GoTo("web", "rebuild") /\ StoreCamera("web")

(* Mutant: sessions of cameras no longer enabled are kept.                 *)
RebuildAddsSessions ==
  /\ pc["web"] = "rebuild"
  /\ sessions' = sessions \cup new.enabled
  /\ GoTo("web", "flags")
  /\ UNCHANGED <<loopVars, stateVars, routerVars, config, saved, new, applies,
                 switcherVars, swPreview, localVars>>

(* Mutant: the sessions are built one by one in place.                     *)
RebuildInPlace ==
  /\ pc["web"] = "rebuild"
  /\ IF new.reachable
     THEN sessions' = new.enabled /\ GoTo("web", "flags")
     ELSE sessions' = {} /\ GoTo("web", "idle")
  /\ UNCHANGED <<loopVars, stateVars, routerVars, config, saved, new, applies,
                 switcherVars, swPreview, localVars>>

(* rebuild_sessions: an enabled camera without a host raises out of the    *)
(* apply, with the configuration already replaced and the sessions not.    *)
RebuildSessions ==
  /\ pc["web"] = "rebuild"
  /\ IF new.reachable
     THEN sessions' = new.enabled /\ GoTo("web", "flags")
     ELSE UNCHANGED sessions /\ GoTo("web", "idle")
  /\ UNCHANGED <<loopVars, stateVars, routerVars, config, saved, new, applies,
                 switcherVars, swPreview, localVars>>

ClearFlags == pc["web"] = "flags" /\ SetFlag("web", FALSE, "disconnect")

DisconnectSwitcher ==
  /\ pc["web"] = "disconnect"
  /\ up' = [up EXCEPT ![bridgeSw] = FALSE]
  /\ GoTo("web", "create")
  /\ UNCHANGED <<loopVars, stateVars, routerVars, applyVars, bridgeSw, execSw, seen,
                 swPreview, localVars>>

(* A backend that cannot be created leaves the old object in place.        *)
CreateSwitcher ==
  /\ pc["web"] = "create"
  /\ bridgeSw' = IF new.creatable THEN applies ELSE bridgeSw
  /\ GoTo("web", "swap")
  /\ UNCHANGED <<loopVars, stateVars, routerVars, applyVars, execSw, up, seen,
                 swPreview, localVars>>

(* Mutant: the executor keeps its switcher object.                         *)
KeepExecutorSwitcher ==
  /\ pc["web"] = "swap"
  /\ GoTo("web", "connect")
  /\ UNCHANGED <<loopVars, stateVars, routerVars, applyVars, switcherVars,
                 swPreview, localVars>>

SwapExecutorSwitcher ==
  /\ pc["web"] = "swap"
  /\ execSw' = bridgeSw
  /\ GoTo("web", "connect")
  /\ UNCHANGED <<loopVars, stateVars, routerVars, applyVars, bridgeSw, up, seen,
                 swPreview, localVars>>

ConnectSwitcher ==
  /\ pc["web"] = "connect"
  /\ \E connected \in {TRUE, up[bridgeSw]} : up' = [up EXCEPT ![bridgeSw] = connected]
  /\ GoTo("web", "report")
  /\ UNCHANGED <<loopVars, stateVars, routerVars, applyVars, bridgeSw, execSw, seen,
                 swPreview, localVars>>

ContinueApply ==
  \/ HaltSession("web") \/ ApplyUnflag \/ SaveState \/ ReplaceConfig \/ RestoreState
  \/ ApplySelects \/ ApplyStores \/ RebuildSessions \/ ClearFlags
  \/ DisconnectSwitcher \/ CreateSwitcher \/ SwapExecutorSwitcher \/ ConnectSwitcher
  \/ Sync("web")

-----------------------------------------------------------------------------
(* The switcher.                                                           *)

Panel ==
  /\ swPreview' \in Sources
  /\ UNCHANGED <<pc, loopVars, stateVars, routerVars, applyVars, switcherVars, localVars>>

SwitcherLost(o) ==
  /\ up[o]
  /\ up' = [up EXCEPT ![o] = FALSE]
  /\ UNCHANGED <<pc, loopVars, stateVars, routerVars, applyVars, bridgeSw, execSw,
                 seen, swPreview, localVars>>

Next ==
  \/ Loop
  \/ \E c \in Configs : StartApply(c)
  \/ ContinueApply
  \/ Panel
  \/ \E o \in Objects : SwitcherLost(o)

Spec == Init /\ [][Next]_vars

(* Both threads always take their next statement.                          *)
Fairness == WF_vars(Loop) /\ WF_vars(ContinueApply)

FairSpec == Spec /\ Fairness

-----------------------------------------------------------------------------
(* Properties.                                                             *)

(* Neither thread is inside a statement sequence that the other could see  *)
(* half done.                                                              *)
Quiet == pc["loop"] = "poll" /\ pc["web"] = "idle"

(* When the stick is released and no apply is running, every camera is at  *)
(* rest, those of an earlier configuration included.                       *)
StillWhenReleased == (Quiet /\ ~stick) => moving = {}

(* An apply leaves no camera moving behind the loop's back: what moves is  *)
(* the active camera, it has a session, and the flag that will stop it is  *)
(* set or about to be.                                                     *)
NoOrphanMotion ==
  /\ moving \subseteq {activePtz} \cap sessions
  /\ moving # {} => tracked \/ pc["loop"] = "flag"

(* Why: with a calm operator the loop never starts a motion during an      *)
(* apply, every stop has left nothing in motion, and a captured session is *)
(* still the one that moves when it is halted.                             *)
StickAgrees ==
  /\ pc["web"] # "idle" => ~stick
  /\ pc["loop"] \in {"move", "flag"} => stick
  /\ pc["loop"] = "poll" /\ ~stick => moving = {}

StoppedIsStill ==
  /\ pc["loop"] \in {"drop", "candidate", "store", "unflag"} => moving = {}
  /\ pc["web"] \notin {"idle", "halt"} => moving = {}

CapturedMoves ==
  /\ \A t \in Threads : pc[t] = "halt" => moving \subseteq {cam[t]}
  /\ pc["loop"] = "move" => cam["loop"] = activePtz /\ activePtz \in sessions

CalmInv == NoOrphanMotion /\ StickAgrees /\ StoppedIsStill /\ CapturedMoves

(* Between applies the router drives the cameras of the configuration in   *)
(* force, also when an apply before it had raised out of rebuild_sessions; *)
(* after one that raises it goes on with all the cameras of an earlier     *)
(* configuration, never with some of one.                                  *)
SessionsMatchConfig ==
  /\ pc["web"] = "idle" /\ config.reachable => sessions = config.enabled
  /\ \E c \in Configs : c.reachable /\ sessions = c.enabled

(* Between applies the joystick has the camera that the configuration in   *)
(* force maps to the preview source.                                       *)
ActiveFollowsPreview == Quiet => activePtz = CameraFor(config, preview)

(* Bridge and executor end up with the same switcher object, and what it   *)
(* shows in Preview for good is mirrored, whatever applies came before.    *)
PreviewSettles ==
  \A s \in Sources :
     <>[](swPreview = s /\ up[bridgeSw]) => <>[](preview = s /\ execSw = bridgeSw)
=============================================================================
