----------------------------- MODULE PtzRouting -----------------------------
(***************************************************************************)
(* The controller's poll loop (20 times a second): it reads the joystick,  *)
(* mirrors the switcher's Program and Preview, executes the pressed        *)
(* buttons, and drives the PTZ camera mapped to the Preview source.        *)
(*                                                                         *)
(*   JoystickToSwitcherBridge.poll_once      one action per phase ("pc")   *)
(*   SwitcherCommandExecutor                 SyncSwitcher and the buttons  *)
(*   PreviewProgramStateMachine, PtzControlStateMachine, AppState          *)
(*                                           SetPreview and RequestStop    *)
(*   PtzRouter, CameraSession                the stops and RouteControls   *)
(*                                                                         *)
(* The loop is one thread, so a phase is one step; the switcher and the    *)
(* operator at its panel move between the phases.  Every VISCA command may *)
(* fail (SendMayFail): the exception then leaves the code where the call   *)
(* stands, with what was assigned before it, and the model keeps that      *)
(* order.  Speeds and directions are abstracted to "this axis is           *)
(* deflected"; the movement thresholds are positive, so a deflected axis   *)
(* always gives a command that moves the camera.                           *)
(***************************************************************************)
EXTENDS FiniteSets

CONSTANTS
  Sources,       \* source ids valid for the selected switcher, mapped or not
  Foreign,       \* ids the switcher may report that the controller rejects
  NoSource,      \* "not known" (None)
  Cameras,       \* configured PTZ cameras
  Enabled,       \* those with enabled: true, the ones that have a session
  NoCamera,      \* no camera (None)
  Mapping,       \* source -> camera or NoCamera: sources.mappings
  NoSnapshot,    \* the joystick is not connected
  StopOnSwitch,  \* ptz.stop_on_switch
  SendMayFail    \* a VISCA send may raise (route, address or interface lost)

ASSUME SourcesAssumption ==
  /\ NoSource \notin Sources \cup Foreign
  /\ Sources \cap Foreign = {}
  /\ Mapping \in [Sources -> Cameras \cup {NoCamera}]

ASSUME CamerasAssumption ==
  /\ NoCamera \notin Cameras
  /\ Enabled \subseteq Cameras

ASSUME SwitchesAssumption ==
  /\ StopOnSwitch \in BOOLEAN
  /\ SendMayFail \in BOOLEAN

VARIABLES
  pc,               \* the phase poll_once is about to run
  stick,            \* the joystick snapshot of the current cycle
  program, preview, \* AppState's mirror of the switcher
  activePtz,        \* AppState.active_ptz_camera_id
  moving,           \* per camera, the axes a VISCA command has set in motion
  travelling,       \* cameras on their way to a recalled preset
  tracked,          \* PtzRouter.pan_tilt_active and zoom_active
  effective,        \* PtzRouter.effective_pan_tilt_source
  swUp,             \* switcher.is_connected()
  swProgram, swPreview  \* what the switcher backend reports

mirrorVars == <<program, preview, activePtz>>
cameraVars == <<moving, travelling>>
routerVars == <<tracked, effective>>
motionVars == <<moving, travelling, tracked, effective>>
switcherVars == <<swUp, swProgram, swPreview>>
vars == <<pc, stick, program, preview, activePtz, moving, travelling,
          tracked, effective, swUp, swProgram, swPreview>>

Axes == {"panTilt", "zoom"}
Known == Sources \cup {NoSource}
Reported == Known \cup Foreign
Phases == {"poll", "switcher", "buttons", "route"}

(* A reading of the stick: which of the main pan/tilt, the hat and the     *)
(* zoom are beyond their threshold.                                        *)
Readings == [main : BOOLEAN, hat : BOOLEAN, zoom : BOOLEAN]
Centred == [main |-> FALSE, hat |-> FALSE, zoom |-> FALSE]

TypeOK ==
  /\ pc \in Phases \cup {"failing", "down"}
  /\ stick \in Readings \cup {NoSnapshot}
  /\ program \in Known /\ preview \in Known
  /\ activePtz \in Cameras \cup {NoCamera}
  /\ moving \in [Cameras -> SUBSET Axes]
  /\ travelling \in SUBSET Cameras
  /\ tracked \in SUBSET Axes
  /\ effective \in {"none", "main", "hat"}
  /\ swUp \in BOOLEAN
  /\ swProgram \in Reported /\ swPreview \in Reported

(* The camera of a preview source, None for no source or an unmapped one.  *)
CameraFor(s) == IF s = NoSource THEN NoCamera ELSE Mapping[s]

(* __post_init__ and start(): nothing moves; the first sync mirrored what  *)
(* the switcher reports, or nothing when it could not be reached.          *)
Init ==
  /\ pc = "poll"
  /\ stick \in {NoSnapshot, Centred}
  /\ moving = [c \in Cameras |-> {}]
  /\ travelling = {}
  /\ tracked = {} /\ effective = "none"
  /\ swUp \in BOOLEAN
  /\ swProgram \in Reported /\ swPreview \in Reported
  /\ program \in {NoSource} \cup ({swProgram} \cap Known)
  /\ preview \in {NoSource} \cup ({swPreview} \cap Known)
  /\ activePtz = CameraFor(preview)

-----------------------------------------------------------------------------
(* VISCA commands to one camera.                                           *)

(* The commands for the axes A are sent pan/tilt first.  These are the     *)
(* sets that may have been sent when the call returns or raises; it        *)
(* returns exactly when all of A was sent.                                 *)
SendOutcomes(A) ==
  IF SendMayFail THEN {{}, A \cap {"panTilt"}, A} ELSE {A}

(* Stop commands for the axes in sent reach c; a stop ends preset travel.  *)
SendStops(c, sent) ==
  /\ moving' = [moving EXCEPT ![c] = @ \ sent]
  /\ travelling' = IF sent = {} THEN travelling ELSE travelling \ {c}

(* Mutants: the zoom flag, or the pan/tilt source, is not reset.           *)
ClearTrackedKeepsZoom == tracked' = tracked \ {"panTilt"} /\ effective' = "none"
ClearTrackedKeepsSource == tracked' = {} /\ UNCHANGED effective

ClearTracked == tracked' = {} /\ effective' = "none"

(* Mutants: a failing stop is swallowed; the flags are dropped first.      *)
StopActiveSwallowing(A, ok) ==
  \E sent \in SendOutcomes(A) : SendStops(activePtz, sent) /\ ok /\ ClearTracked
StopActiveFlagsFirst(A, ok) ==
  \E sent \in SendOutcomes(A) :
     SendStops(activePtz, sent) /\ ok = (sent = A) /\ ClearTracked

(* Stop the axes A of the active camera's session and then, all sent, drop *)
(* the router's flags.  A failing send leaves the flags as they are.       *)
StopActive(A, ok) ==
  \E sent \in SendOutcomes(A) :
     /\ SendStops(activePtz, sent)
     /\ ok = (sent = A)
     /\ IF ok THEN ClearTracked ELSE UNCHANGED routerVars

(* PtzControlStateMachine.request_stop, delivered to the router by the     *)
(* event bus.  Without an active camera only the flags are dropped; an     *)
(* active camera without a session (disabled) changes nothing.             *)
RequestStop(A, ok) ==
  \/ /\ activePtz = NoCamera
     /\ ok
     /\ ClearTracked
     /\ UNCHANGED cameraVars
  \/ /\ activePtz \in Cameras \ Enabled
     /\ ok
     /\ UNCHANGED motionVars
  \/ /\ activePtz \in Enabled
     /\ StopActive(A, ok)

(* Mutant: zoom is forgotten when the camera is left.                      *)
PreviousPanTiltOnly == {"panTilt"}

(* A stop for "preview_source_changed" sends the tracked axes only, and    *)
(* both when none is tracked.                                              *)
PreviousCameraAxes == IF tracked = {} THEN Axes ELSE tracked

(* Mutants: stop only while pan/tilt is flagged; stop pan/tilt only.       *)
StopAllIfPanTilt(ok) ==
  IF activePtz \in Enabled /\ "panTilt" \in tracked
  THEN StopActive(Axes, ok)
  ELSE ok /\ UNCHANGED motionVars
StopAllPanTiltOnly(ok) ==
  IF activePtz \in Enabled THEN StopActive({"panTilt"}, ok)
  ELSE ok /\ UNCHANGED motionVars

(* stop_all_active_motion: joystick lost, configuration applied, exit.     *)
StopAllActiveMotion(ok) ==
  IF activePtz \in Enabled
  THEN StopActive(Axes, ok)
  ELSE ok /\ UNCHANGED motionVars

-----------------------------------------------------------------------------
(* The mirror of the switcher.                                             *)

(* PreviewProgramStateMachine.set_preview with stop_on_change: the preview *)
(* is assigned first; then the camera it leaves is stopped; then the       *)
(* active camera is recomputed, unless the stop raised.                    *)
SetPreview(s, ok) ==
  /\ preview' = s
  /\ IF activePtz # NoCamera /\ (s # preview \/ activePtz # CameraFor(s))
     THEN /\ RequestStop(PreviousCameraAxes, ok)
          /\ activePtz' = IF ok THEN CameraFor(s) ELSE activePtz
     ELSE /\ ok
          /\ activePtz' = CameraFor(s)
          /\ UNCHANGED motionVars

(* Mutant: the active camera is not recomputed.                            *)
SetPreviewStaleActive(s) == preview' = s /\ UNCHANGED activePtz

(* set_preview without stop_on_change, as sync_from_switcher calls it      *)
(* after a transition.                                                     *)
SetPreviewQuietly(s) ==
  /\ preview' = s
  /\ activePtz' = CameraFor(s)

(* Mutants: an unsupported source is accepted; the preview is followed     *)
(* only while some camera is active.                                       *)
MirrorProgramUnchecked(s) == program' = s
MirrorPreviewWhileActive(s, ok) ==
  IF s \in Known /\ s # preview /\ activePtz # NoCamera
  THEN SetPreview(s, ok)
  ELSE ok /\ UNCHANGED <<preview, activePtz, motionVars>>

(* Mirroring what the switcher reports; an unsupported source keeps the    *)
(* previous one.                                                           *)
MirrorProgram(s) == program' = IF s \in Known THEN s ELSE program

MirrorPreview(s, ok) ==
  IF s \in Known /\ s # preview
  THEN SetPreview(s, ok)
  ELSE ok /\ UNCHANGED <<preview, activePtz, motionVars>>

MirrorPreviewQuietly(s) ==
  IF s \in Known /\ s # preview
  THEN SetPreviewQuietly(s)
  ELSE UNCHANGED <<preview, activePtz>>

-----------------------------------------------------------------------------
(* poll_once, phase by phase.                                              *)

(* joystick_monitor.poll(): a snapshot, or none while the joystick is not  *)
(* connected.  Losing it stops the active camera.                          *)
PollJoystick ==
  /\ pc = "poll"
  /\ stick' \in Readings \cup {NoSnapshot}
  /\ \E ok \in BOOLEAN :
       /\ IF stick # NoSnapshot /\ stick' = NoSnapshot
          THEN StopAllActiveMotion(ok)
          ELSE ok /\ UNCHANGED motionVars
       /\ pc' = IF ok THEN "switcher" ELSE "failing"
  /\ UNCHANGED <<mirrorVars, switcherVars>>

(* sync_from_switcher() when the switcher is connected.  Its poll() may    *)
(* raise, which is recorded and survived; a failing stop is not.           *)
SyncSwitcher ==
  /\ pc = "switcher" /\ swUp
  /\ \E ok \in BOOLEAN :
       /\ MirrorProgram(swProgram)
       /\ MirrorPreview(swPreview, ok)
       /\ pc' = IF ok THEN "buttons" ELSE "failing"
  /\ UNCHANGED <<stick, switcherVars>>

SyncFailed ==
  /\ pc = "switcher" /\ swUp
  /\ swUp' = FALSE
  /\ pc' = "buttons"
  /\ UNCHANGED <<stick, mirrorVars, motionVars, swProgram, swPreview>>

(* ensure_connected() otherwise: nothing is mirrored in this cycle.        *)
ReconnectSwitcher ==
  /\ pc = "switcher" /\ ~swUp
  /\ swUp' \in BOOLEAN
  /\ pc' = "buttons"
  /\ UNCHANGED <<stick, mirrorVars, motionVars, swProgram, swPreview>>

(* A command leaves the switcher connected, reconnected or lost.           *)
ButtonPressed ==
  /\ pc = "buttons"
  /\ stick # NoSnapshot
  /\ UNCHANGED stick
  /\ swUp' \in BOOLEAN

(* SET_PREVIEW_SOURCE: the switcher takes the source, reports it later, or *)
(* raises.  Whatever it then reports is mirrored; execute() catches every  *)
(* failure, the one of the stop included.                                  *)
PreviewButton(s) ==
  /\ ButtonPressed
  /\ swPreview' \in {s, swPreview}
  /\ LET new == IF swPreview' = NoSource THEN s ELSE swPreview'
     IN IF new \in Known
        THEN \E ok \in BOOLEAN : SetPreview(new, ok)
        ELSE UNCHANGED <<preview, activePtz, motionVars>>
  /\ UNCHANGED <<pc, program, swProgram>>

(* COPY_PROGRAM_TO_PREVIEW, then sync_from_switcher().                     *)
CopyButton ==
  /\ ButtonPressed
  /\ swPreview' \in {swProgram, swPreview}
  /\ MirrorProgram(swProgram)
  /\ \E ok \in BOOLEAN : MirrorPreview(swPreview', ok)
  /\ UNCHANGED <<pc, swProgram>>

(* A cut is done at once or, like a fade, reported later.                  *)
SwappedOrNot ==
  \/ swProgram' = swPreview /\ swPreview' = swProgram
  \/ UNCHANGED <<swProgram, swPreview>>

(* CUT and AUTO: the active camera is stopped first when stop_on_switch is *)
(* set; a failing stop leaves the transition out.  Afterwards the switcher *)
(* is mirrored without a stop.                                             *)
TransitionButton ==
  /\ ButtonPressed
  /\ \/ /\ StopOnSwitch
        /\ RequestStop(Axes, FALSE)
        /\ UNCHANGED <<mirrorVars, swProgram, swPreview>>
     \/ /\ IF StopOnSwitch THEN RequestStop(Axes, TRUE) ELSE UNCHANGED motionVars
        /\ SwappedOrNot
        /\ MirrorProgram(swProgram')
        /\ MirrorPreviewQuietly(swPreview')
  /\ UNCHANGED pc

(* The switcher's method raised, or the poll after it did: the command may *)
(* or may not have had its effect, and nothing is mirrored.                *)
ButtonFailed ==
  /\ ButtonPressed
  /\ \/ /\ swPreview' \in Sources \cup {swProgram, swPreview}
        /\ UNCHANGED <<swProgram, motionVars>>
     \/ /\ SwappedOrNot
        /\ IF StopOnSwitch THEN RequestStop(Axes, TRUE) ELSE UNCHANGED motionVars
  /\ UNCHANGED <<pc, mirrorVars>>

(* PTZ_PRESET_RECALL goes to the router, outside execute(): tracked motion *)
(* is stopped, then the preset is recalled; a failing send raises out of   *)
(* poll_once.                                                              *)
PresetButton ==
  /\ pc = "buttons" /\ stick # NoSnapshot
  /\ IF activePtz \in Enabled
     THEN \/ \E sent \in SendOutcomes(tracked) :
               /\ sent # tracked
               /\ SendStops(activePtz, sent)
               /\ pc' = "failing"
               /\ UNCHANGED routerVars
          \/ /\ ClearTracked
             /\ moving' = [moving EXCEPT ![activePtz] = @ \ tracked]
             /\ \/ /\ travelling' = travelling \cup {activePtz}
                   /\ UNCHANGED pc
                \/ /\ SendMayFail
                   /\ travelling' = IF tracked = {} THEN travelling
                                    ELSE travelling \ {activePtz}
                   /\ pc' = "failing"
     ELSE UNCHANGED <<pc, motionVars>>
  /\ UNCHANGED <<stick, mirrorVars, switcherVars>>

ButtonsDone ==
  /\ pc = "buttons"
  /\ pc' = "route"
  /\ UNCHANGED <<stick, mirrorVars, motionVars, switcherVars>>

(* The axes the reading asks to move, and what drives pan/tilt: the main   *)
(* stick first, the hat only when it is centred.                           *)
Intent(r) ==
  (IF r.main \/ r.hat THEN {"panTilt"} ELSE {}) \cup (IF r.zoom THEN {"zoom"} ELSE {})

PanTiltSource(r) == IF r.main THEN "main" ELSE IF r.hat THEN "hat" ELSE "none"

(* Mutant: both axes are commanded in every cycle.                         *)
CommandBothAxes(r) == Axes

(* The axes that get a command: the deflected ones, and the tracked ones   *)
(* that have come to rest.                                                 *)
AxesToCommand(r) == Intent(r) \cup tracked

(* route_controls: each axis that is deflected is moved, each tracked axis *)
(* that is centred is stopped once; pan/tilt before zoom, and a flag is    *)
(* changed only after its command was sent.  Without a session the flags   *)
(* are dropped.                                                            *)
RouteControls ==
  /\ pc = "route" /\ stick # NoSnapshot
  /\ IF activePtz \in Enabled
     THEN LET move == Intent(stick)
              todo == AxesToCommand(stick)
          IN \E sent \in SendOutcomes(todo) :
               /\ moving' = [moving EXCEPT ![activePtz] = (@ \ sent) \cup (move \cap sent)]
               /\ tracked' = (tracked \ sent) \cup (move \cap sent)
               /\ effective' = IF "panTilt" \in todo \ sent THEN effective
                               ELSE PanTiltSource(stick)
               /\ travelling' = IF sent = {} THEN travelling
                                ELSE travelling \ {activePtz}
               /\ pc' = IF sent = todo THEN "poll" ELSE "failing"
     ELSE /\ ClearTracked
          /\ pc' = "poll"
          /\ UNCHANGED cameraVars
  /\ UNCHANGED <<stick, mirrorVars, switcherVars>>

(* No snapshot: the cycle ends without routing.                            *)
SkipRoute ==
  /\ pc = "route" /\ stick = NoSnapshot
  /\ pc' = "poll"
  /\ UNCHANGED <<stick, mirrorVars, motionVars, switcherVars>>

-----------------------------------------------------------------------------
(* The end of the process.                                                 *)

(* An exception leaves poll_once between two phases: a keyboard interrupt, *)
(* a button mapping the dispatcher rejects, a joystick that vanishes       *)
(* between its snapshot and its buttons.                                   *)
Raise ==
  /\ pc \in Phases
  /\ pc' = "failing"
  /\ UNCHANGED <<stick, mirrorVars, motionVars, switcherVars>>

(* run_forever's finally clause: RuntimeApplication.stop().                *)
Shutdown ==
  /\ pc = "failing"
  /\ \E ok \in BOOLEAN : StopAllActiveMotion(ok)
  /\ pc' = "down"
  /\ UNCHANGED <<stick, mirrorVars, switcherVars>>

-----------------------------------------------------------------------------
(* The switcher and the operator at its panel.                             *)

Panel ==
  /\ swProgram' \in Reported /\ swPreview' \in Reported
  /\ UNCHANGED <<pc, stick, mirrorVars, motionVars, swUp>>

SwitcherLost ==
  /\ swUp /\ swUp' = FALSE
  /\ UNCHANGED <<pc, stick, mirrorVars, motionVars, swProgram, swPreview>>

Switcher == Panel \/ SwitcherLost

SwitcherPhase == SyncSwitcher \/ SyncFailed \/ ReconnectSwitcher

Buttons ==
  \/ \E s \in Sources : PreviewButton(s)
  \/ CopyButton
  \/ TransitionButton
  \/ ButtonFailed
  \/ PresetButton

Loop == PollJoystick \/ SwitcherPhase \/ Buttons \/ ButtonsDone
          \/ RouteControls \/ SkipRoute

Next == Loop \/ Raise \/ Shutdown \/ Switcher

Spec == Init /\ [][Next]_vars

(* The loop thread always takes its next phase, and the buttons of one     *)
(* cycle are a finite list.                                                *)
Fairness ==
  /\ WF_vars(PollJoystick)
  /\ WF_vars(SwitcherPhase)
  /\ WF_vars(ButtonsDone)
  /\ WF_vars(RouteControls \/ SkipRoute)

FairSpec == Spec /\ Fairness

-----------------------------------------------------------------------------
(* Properties.                                                             *)

AtRest == \A c \in Cameras : moving[c] = {}

(* No camera but the active one is ever in continuous motion: every path   *)
(* that hands the joystick to another camera (button, sync, cut, auto,     *)
(* copy, in any order, with sends failing anywhere) stopped the one it     *)
(* left.                                                                   *)
NoOrphanMotion == \A c \in Cameras : moving[c] # {} => c = activePtz

(* The router's flags are one set for all cameras, and they decide which   *)
(* stop is sent.  They cover every axis that is in motion on any camera,   *)
(* also after a stop that failed half way.                                 *)
MotionTracked == \A c \in Cameras : moving[c] \subseteq tracked

(* The flags describe the active camera and nothing else: a camera that    *)
(* becomes active inherits no flag, and no flag outlives its motion.  The  *)
(* pan/tilt source is set exactly while pan/tilt is flagged.               *)
FlagsExact ==
  /\ tracked = IF activePtz \in Cameras THEN moving[activePtz] ELSE {}
  /\ (effective # "none") = ("panTilt" \in tracked)

(* When a cycle has ended with the stick released, or with the joystick    *)
(* gone, every camera is at rest: whatever sources, cameras and buttons    *)
(* came in between, releasing the stick stops what it started.             *)
StillWhenReleased ==
  (pc = "poll" /\ stick \in {NoSnapshot, Centred}) => AtRest

(* No flag outlives the session it is about: with no driven camera under   *)
(* the joystick, nothing is flagged as moving.                             *)
FlagsNeedSession == activePtz \notin Enabled => tracked = {}

(* A camera on its way to a preset is not flagged as moving.               *)
TravelUntracked == tracked # {} => activePtz \notin travelling

(* While the joystick is gone nothing moves, in any phase of the loop.     *)
StillWithoutJoystick == (pc \in Phases /\ stick = NoSnapshot) => AtRest

(* The parts above in the form in which every step preserves them.         *)
MotionInv ==
  /\ TypeOK
  /\ NoOrphanMotion
  /\ MotionTracked
  /\ FlagsNeedSession
  /\ TravelUntracked
  /\ StillWithoutJoystick
  /\ StillWhenReleased

(* The camera under the joystick is the one mapped to the preview source.  *)
ActiveFollowsPreview == activePtz = CameraFor(preview)

(* The process never ends with a camera in motion.                         *)
SafeExit == pc = "down" => AtRest

(* A new active camera does not inherit the movement flags of the old one. *)
NewCameraDoesNotInherit == [][activePtz' # activePtz => tracked' = {}]_vars

(* Routing a released stick sends no stop that would cut a preset recall   *)
(* short (the reason recall_preset gives for never stopping afterwards).   *)
RecallSurvivesRelease ==
  [][(pc = "route" /\ pc' # "route" /\ stick = Centred)
       => travelling' = travelling]_vars

(* While the switcher is reachable and keeps one supported source in       *)
(* Preview, the controller ends up mirroring it with its camera active.    *)
MirrorConverges ==
  \A s \in Sources :
     <>[](swUp /\ swPreview = s /\ pc \in Phases)
       => <>[](preview = s /\ activePtz = Mapping[s])

(* Every step is one the abstract PTZ control allows.                      *)
Control == INSTANCE MotionControl WITH activePtz <- activePtz, moving <- moving
ImplementsMotionControl == Control!Spec
=============================================================================
