-------------------------- MODULE PtzRoutingProofs --------------------------
(***************************************************************************)
(* Proofs about PtzRouting, for any sources, cameras and mapping.          *)
(*                                                                         *)
(* The argument: every stop and every change of the preview only takes     *)
(* motion away (Calms), keeps the flags covering it, and empties the flags *)
(* whenever the camera under the joystick changes.  Those facts are proved *)
(* once per operation; each action of the loop then follows from them.     *)
(***************************************************************************)
EXTENDS PtzRouting, TLAPS

MotionTypes ==
  /\ activePtz \in Cameras \cup {NoCamera}
  /\ moving \in [Cameras -> SUBSET Axes]
  /\ travelling \in SUBSET Cameras
  /\ tracked \in SUBSET Axes
  /\ effective \in {"none", "main", "hat"}

(* What holds of the motion whatever the phase of the loop.                *)
Covered == MotionTypes /\ NoOrphanMotion /\ MotionTracked /\ FlagsNeedSession

(* A step that takes motion away, with the flags still covering the rest.  *)
Calms ==
  /\ moving' \in [Cameras -> SUBSET Axes]
  /\ travelling' \in SUBSET travelling
  /\ tracked' \in SUBSET tracked
  /\ effective' \in {"none", "main", "hat"}
  /\ \A c \in Cameras : moving'[c] \subseteq moving[c] /\ moving'[c] \subseteq tracked'

(* The joystick changes hands with nothing flagged.                        *)
CleanHandover == activePtz' # activePtz => tracked' = {}

-----------------------------------------------------------------------------
(* The stops.                                                              *)

LEMMA SendOutcomesSubset ==
  ASSUME NEW A, NEW sent \in SendOutcomes(A)
  PROVE  sent \subseteq A
  BY DEF SendOutcomes

(* Nothing is in motion when nothing is flagged.                           *)
LEMMA CoveredRest ==
  ASSUME Covered, tracked = {}
  PROVE  AtRest
  BY DEF Covered, MotionTracked, AtRest

(* A stop that sends at least the flagged axes of the active camera.       *)
LEMMA StopActiveCalms ==
  ASSUME Covered, activePtz \in Cameras,
         NEW A \in SUBSET Axes, tracked \subseteq A,
         NEW ok \in BOOLEAN, StopActive(A, ok)
  PROVE  Calms /\ (ok => tracked' = {})
  <1>1. PICK sent \in SendOutcomes(A) :
          /\ SendStops(activePtz, sent)
          /\ ok = (sent = A)
          /\ IF ok THEN ClearTracked ELSE UNCHANGED routerVars
    BY DEF StopActive
  <1>2. sent \subseteq A
    BY SendOutcomesSubset
  <1>3. /\ moving' = [moving EXCEPT ![activePtz] = @ \ sent]
        /\ travelling' \in SUBSET travelling
    BY <1>1 DEF SendStops
  <1>4. /\ moving' \in [Cameras -> SUBSET Axes]
        /\ \A c \in Cameras : moving'[c] = IF c = activePtz THEN moving[c] \ sent
                                                            ELSE moving[c]
    BY <1>3 DEF Covered, MotionTypes
  <1>5. CASE ok
    <2>1. sent = A /\ tracked' = {} /\ effective' = "none"
      BY <1>1, <1>5 DEF ClearTracked
    <2>2. \A c \in Cameras : moving'[c] = {}
      BY <1>4, <2>1 DEF Covered, NoOrphanMotion, MotionTracked
    <2> QED
      BY <1>3, <1>4, <2>1, <2>2 DEF Calms
  <1>6. CASE ~ok
    <2>1. tracked' = tracked /\ effective' = effective
      BY <1>1, <1>6 DEF routerVars
    <2> QED
      BY <1>3, <1>4, <1>6, <2>1 DEF Calms, Covered, MotionTypes, MotionTracked
  <1> QED
    BY <1>5, <1>6

(* Without a driven camera, leaving the motion alone is a stop.            *)
LEMMA NothingToStop ==
  ASSUME Covered, activePtz \notin Enabled, UNCHANGED motionVars
  PROVE  Calms /\ tracked' = {}
  BY DEF Covered, MotionTypes, MotionTracked, FlagsNeedSession, Calms, motionVars

LEMMA RequestStopCalms ==
  ASSUME Covered, NEW A \in SUBSET Axes, tracked \subseteq A,
         NEW ok \in BOOLEAN, RequestStop(A, ok)
  PROVE  Calms /\ (ok => tracked' = {})
  <1>1. CASE activePtz = NoCamera /\ ClearTracked /\ UNCHANGED cameraVars
    <2>1. activePtz \notin Enabled
      BY <1>1, CamerasAssumption
    <2> QED
      BY <1>1, <2>1 DEF Covered, MotionTypes, MotionTracked, FlagsNeedSession,
                        Calms, ClearTracked, cameraVars
  <1>2. CASE activePtz \in Cameras \ Enabled /\ UNCHANGED motionVars
    BY <1>2, NothingToStop
  <1>3. CASE activePtz \in Enabled /\ StopActive(A, ok)
    BY <1>3, StopActiveCalms, CamerasAssumption
  <1> QED
    BY <1>1, <1>2, <1>3 DEF RequestStop

LEMMA StopAllCalms ==
  ASSUME Covered, NEW ok \in BOOLEAN, StopAllActiveMotion(ok)
  PROVE  Calms /\ (ok => tracked' = {})
  <1>1. CASE activePtz \in Enabled /\ StopActive(Axes, ok)
    <2>1. tracked \subseteq Axes
      BY DEF Covered, MotionTypes
    <2> QED
      BY <1>1, <2>1, StopActiveCalms, CamerasAssumption
  <1>2. CASE activePtz \notin Enabled /\ UNCHANGED motionVars
    BY <1>2, NothingToStop
  <1> QED
    BY <1>1, <1>2 DEF StopAllActiveMotion

-----------------------------------------------------------------------------
(* Following the preview.                                                  *)

LEMMA CameraForType ==
  ASSUME NEW s \in Known
  PROVE  CameraFor(s) \in Cameras \cup {NoCamera}
  BY SourcesAssumption DEF CameraFor, Known

LEMMA SetPreviewCalms ==
  ASSUME Covered, NEW s \in Known, NEW ok \in BOOLEAN, SetPreview(s, ok)
  PROVE  /\ Calms /\ CleanHandover
         /\ preview' \in Known /\ activePtz' \in Cameras \cup {NoCamera}
  <1>1. /\ preview' \in Known
        /\ CameraFor(s) \in Cameras \cup {NoCamera}
    BY CameraForType DEF SetPreview
  <1>2. CASE activePtz # NoCamera /\ (s # preview \/ activePtz # CameraFor(s))
    <2>1. /\ RequestStop(PreviousCameraAxes, ok)
          /\ activePtz' = IF ok THEN CameraFor(s) ELSE activePtz
      BY <1>2 DEF SetPreview
    <2>2. PreviousCameraAxes \in SUBSET Axes /\ tracked \subseteq PreviousCameraAxes
      BY DEF Covered, MotionTypes, PreviousCameraAxes
    <2>3. Calms /\ (ok => tracked' = {})
      BY <2>1, <2>2, RequestStopCalms
    <2> QED
      BY <1>1, <2>1, <2>3 DEF CleanHandover, Covered, MotionTypes
  <1>3. CASE ~(activePtz # NoCamera /\ (s # preview \/ activePtz # CameraFor(s)))
    <2>1. activePtz' = CameraFor(s) /\ UNCHANGED motionVars
      BY <1>3 DEF SetPreview
    <2>2. Calms
      BY <2>1 DEF Calms, Covered, MotionTypes, MotionTracked, motionVars
    <2>3. CASE activePtz = NoCamera
      <3>1. tracked = {}
        BY <2>3, CamerasAssumption DEF Covered, FlagsNeedSession
      <3> QED
        BY <1>1, <2>1, <2>2, <3>1 DEF CleanHandover, motionVars
    <2>4. CASE activePtz = CameraFor(s)
      BY <1>1, <2>1, <2>2, <2>4 DEF CleanHandover
    <2> QED
      BY <1>3, <2>3, <2>4
  <1> QED
    BY <1>2, <1>3

LEMMA MirrorPreviewCalms ==
  ASSUME Covered, preview \in Known, NEW s, NEW ok \in BOOLEAN, MirrorPreview(s, ok)
  PROVE  /\ Calms /\ CleanHandover
         /\ preview' \in Known /\ activePtz' \in Cameras \cup {NoCamera}
  <1>1. CASE s \in Known /\ s # preview
    BY <1>1, SetPreviewCalms DEF MirrorPreview
  <1>2. CASE ~(s \in Known /\ s # preview)
    BY <1>2 DEF MirrorPreview, Calms, CleanHandover, Covered, MotionTypes,
                MotionTracked, motionVars
  <1> QED
    BY <1>1, <1>2

-----------------------------------------------------------------------------
(* Type correctness, whatever the switches: the stops first, then one step *)
(* per action.                                                             *)

MotionVarTypes ==
  /\ moving \in [Cameras -> SUBSET Axes]
  /\ travelling \in SUBSET Cameras
  /\ tracked \in SUBSET Axes
  /\ effective \in {"none", "main", "hat"}

LEMMA StopActiveTypes ==
  ASSUME MotionVarTypes, NEW A, NEW ok, StopActive(A, ok)
  PROVE  MotionVarTypes'
  <1>1. PICK sent : SendStops(activePtz, sent)
                    /\ IF ok THEN ClearTracked ELSE UNCHANGED routerVars
    BY DEF StopActive
  <1>2. moving' \in [Cameras -> SUBSET Axes] /\ travelling' \in SUBSET Cameras
    BY <1>1 DEF SendStops, MotionVarTypes
  <1>3. tracked' \in SUBSET Axes /\ effective' \in {"none", "main", "hat"}
    BY <1>1 DEF ClearTracked, routerVars, MotionVarTypes
  <1> QED
    BY <1>2, <1>3 DEF MotionVarTypes

LEMMA RequestStopTypes ==
  ASSUME MotionVarTypes, NEW A, NEW ok, RequestStop(A, ok)
  PROVE  MotionVarTypes'
  BY StopActiveTypes
  DEF RequestStop, ClearTracked, cameraVars, motionVars, MotionVarTypes

LEMMA StopAllTypes ==
  ASSUME MotionVarTypes, NEW ok, StopAllActiveMotion(ok)
  PROVE  MotionVarTypes'
  BY StopActiveTypes DEF StopAllActiveMotion, motionVars, MotionVarTypes

LEMMA SetPreviewTypes ==
  ASSUME TypeOK, NEW s \in Known, NEW ok, SetPreview(s, ok)
  PROVE  /\ MotionVarTypes'
         /\ preview' \in Known /\ activePtz' \in Cameras \cup {NoCamera}
  <1>1. MotionVarTypes'
    BY RequestStopTypes DEF SetPreview, TypeOK, MotionVarTypes, motionVars
  <1>2. preview' \in Known /\ activePtz' \in {activePtz, CameraFor(s)}
    BY DEF SetPreview
  <1> QED
    BY <1>1, <1>2, CameraForType DEF TypeOK

LEMMA MirrorPreviewTypes ==
  ASSUME TypeOK, NEW s, NEW ok, MirrorPreview(s, ok)
  PROVE  /\ MotionVarTypes'
         /\ preview' \in Known /\ activePtz' \in Cameras \cup {NoCamera}
  BY SetPreviewTypes DEF MirrorPreview, TypeOK, MotionVarTypes, motionVars

LEMMA MirrorQuietlyTypes ==
  ASSUME TypeOK, NEW s, MirrorPreviewQuietly(s)
  PROVE  preview' \in Known /\ activePtz' \in Cameras \cup {NoCamera}
  BY CameraForType DEF MirrorPreviewQuietly, SetPreviewQuietly, TypeOK

LEMMA MirrorProgramType ==
  ASSUME TypeOK, NEW s, MirrorProgram(s)
  PROVE  program' \in Known
  BY DEF MirrorProgram, TypeOK

LEMMA InitTypes ==
  Init => TypeOK
  <1> SUFFICES ASSUME Init PROVE TypeOK
    OBVIOUS
  <1>1. program \in Known /\ preview \in Known
    BY DEF Init, Known
  <1>2. activePtz \in Cameras \cup {NoCamera}
    BY <1>1, CameraForType DEF Init
  <1>3. stick \in Readings \cup {NoSnapshot}
    <2>1. Centred \in Readings
      BY DEF Centred, Readings
    <2> QED
      BY <2>1 DEF Init
  <1>4. moving \in [Cameras -> SUBSET Axes]
    BY DEF Init
  <1> QED
    BY <1>1, <1>2, <1>3, <1>4 DEF Init, TypeOK, Phases

LEMMA NextTypes ==
  TypeOK /\ [Next]_vars => TypeOK'
  <1> SUFFICES ASSUME TypeOK, [Next]_vars PROVE TypeOK'
    OBVIOUS
  <1> USE DEF mirrorVars, switcherVars
  <1>0. MotionVarTypes
    BY DEF TypeOK, MotionVarTypes
  <1>1. CASE PollJoystick
    <2>1. MotionVarTypes'
      BY <1>0, <1>1, StopAllTypes DEF PollJoystick, motionVars, MotionVarTypes
    <2> QED
      BY <1>1, <2>1 DEF PollJoystick, TypeOK, Phases, MotionVarTypes
  <1>2. CASE SyncSwitcher
    <2>1. PICK ok \in BOOLEAN : MirrorProgram(swProgram) /\ MirrorPreview(swPreview, ok)
                               /\ pc' = IF ok THEN "buttons" ELSE "failing"
      BY <1>2 DEF SyncSwitcher
    <2> QED
      BY <1>2, <2>1, MirrorProgramType, MirrorPreviewTypes
      DEF SyncSwitcher, TypeOK, Phases, MotionVarTypes
  <1>3. CASE SyncFailed \/ ReconnectSwitcher \/ ButtonsDone \/ SkipRoute \/ Raise
             \/ Panel \/ SwitcherLost \/ UNCHANGED vars
    BY <1>3 DEF SyncFailed, ReconnectSwitcher, ButtonsDone, SkipRoute, Raise,
                Panel, SwitcherLost, vars, TypeOK, Phases, motionVars
  <1>4. ASSUME NEW s \in Sources, PreviewButton(s) PROVE TypeOK'
    <2>1. swPreview' \in Reported /\ swUp' \in BOOLEAN
      BY <1>4 DEF PreviewButton, ButtonPressed, TypeOK, Reported, Known
    <2>2. MotionVarTypes' /\ preview' \in Known /\ activePtz' \in Cameras \cup {NoCamera}
      BY <1>4, <1>0, SetPreviewTypes DEF PreviewButton, TypeOK, MotionVarTypes, motionVars
    <2> QED
      BY <1>4, <2>1, <2>2 DEF PreviewButton, ButtonPressed, TypeOK, MotionVarTypes
  <1>5. CASE CopyButton
    <2>1. swPreview' \in Reported /\ swUp' \in BOOLEAN
      BY <1>5 DEF CopyButton, ButtonPressed, TypeOK
    <2>2. MotionVarTypes' /\ preview' \in Known /\ activePtz' \in Cameras \cup {NoCamera}
      BY <1>5, MirrorPreviewTypes DEF CopyButton
    <2>3. program' \in Known
      BY <1>5, MirrorProgramType DEF CopyButton
    <2> QED
      BY <1>5, <2>1, <2>2, <2>3 DEF CopyButton, ButtonPressed, TypeOK, MotionVarTypes
  <1>6. CASE TransitionButton
    <2>1. MotionVarTypes'
      BY <1>0, <1>6, RequestStopTypes DEF TransitionButton, MotionVarTypes, motionVars
    <2>2. /\ swProgram' \in Reported /\ swPreview' \in Reported
          /\ program' \in Known /\ preview' \in Known
          /\ activePtz' \in Cameras \cup {NoCamera}
      BY <1>6, MirrorProgramType, MirrorQuietlyTypes
      DEF TransitionButton, SwappedOrNot, TypeOK
    <2> QED
      BY <1>6, <2>1, <2>2 DEF TransitionButton, ButtonPressed, TypeOK, MotionVarTypes
  <1>7. CASE ButtonFailed
    <2>1. MotionVarTypes'
      BY <1>0, <1>7, RequestStopTypes DEF ButtonFailed, MotionVarTypes, motionVars
    <2>2. swProgram' \in Reported /\ swPreview' \in Reported
      BY <1>7 DEF ButtonFailed, SwappedOrNot, TypeOK, Reported, Known
    <2> QED
      BY <1>7, <2>1, <2>2 DEF ButtonFailed, ButtonPressed, TypeOK, MotionVarTypes
  <1>8. CASE PresetButton
    <2>1. MotionVarTypes'
      BY <1>0, <1>8, CamerasAssumption
      DEF PresetButton, MotionVarTypes, motionVars, SendStops, ClearTracked, routerVars
    <2>2. pc' \in {pc, "failing"}
      BY <1>8 DEF PresetButton
    <2> QED
      BY <1>8, <2>1, <2>2 DEF PresetButton, TypeOK, MotionVarTypes
  <1>9. CASE RouteControls
    <2>1. MotionVarTypes'
      BY <1>0, <1>9 DEF RouteControls, MotionVarTypes, ClearTracked, cameraVars,
                        Intent, PanTiltSource, Axes
    <2>2. pc' \in {"poll", "failing"}
      BY <1>9 DEF RouteControls
    <2> QED
      BY <1>9, <2>1, <2>2 DEF RouteControls, TypeOK, MotionVarTypes, Phases
  <1>10. CASE Shutdown
    <2>1. MotionVarTypes'
      BY <1>0, <1>10, StopAllTypes DEF Shutdown
    <2> QED
      BY <1>10, <2>1 DEF Shutdown, TypeOK, MotionVarTypes
  <1> QED
    BY <1>1, <1>2, <1>3, <1>4, <1>5, <1>6, <1>7, <1>8, <1>9, <1>10
    DEF Next, Loop, SwitcherPhase, Buttons, Switcher

(* Every variable keeps its type, with or without stop_on_switch and with  *)
(* sends failing anywhere.                                                 *)
THEOREM TypeCorrect == Spec => []TypeOK
  BY InitTypes, NextTypes, PTL DEF Spec

-----------------------------------------------------------------------------
(* The motion invariant, with stop_on_switch set.                          *)

LEMMA InvCovered ==
  ASSUME MotionInv
  PROVE  Covered
  BY DEF MotionInv, TypeOK, Covered, MotionTypes

LEMMA InitInv ==
  Init => MotionInv
  <1> SUFFICES ASSUME Init PROVE MotionInv
    OBVIOUS
  <1>1. TypeOK
    BY InitTypes
  <1> QED
    BY <1>1 DEF Init, MotionInv, NoOrphanMotion, MotionTracked, FlagsNeedSession,
                TravelUntracked, StillWithoutJoystick, StillWhenReleased, AtRest

(* A calming step with a clean handover keeps the invariant if it does not *)
(* reach the end of a cycle, or an absent joystick, with motion left.      *)
LEMMA CalmStep ==
  ASSUME MotionInv, TypeOK', Calms, CleanHandover,
         \/ tracked' = {}
         \/ /\ pc' = "poll" => pc = "poll"
            /\ pc' \in Phases => pc \in Phases
            /\ stick' = stick
         \/ pc' \notin Phases
         \/ pc' # "poll" /\ stick' # NoSnapshot
  PROVE  MotionInv'
  <1>1. NoOrphanMotion'
    BY DEF Calms, CleanHandover, MotionInv, NoOrphanMotion
  <1>2. MotionTracked'
    BY DEF Calms, MotionTracked
  <1>3. FlagsNeedSession'
    BY DEF Calms, CleanHandover, MotionInv, FlagsNeedSession
  <1>4. TravelUntracked'
    BY DEF Calms, CleanHandover, MotionInv, TravelUntracked
  <1>5. AtRest \/ tracked' = {} => AtRest'
    BY DEF Calms, AtRest
  <1>6. StillWithoutJoystick' /\ StillWhenReleased'
    BY <1>5 DEF MotionInv, StillWithoutJoystick, StillWhenReleased, Phases
  <1> QED
    BY <1>1, <1>2, <1>3, <1>4, <1>6 DEF MotionInv

(* A step that leaves the motion and the camera alone.                     *)
LEMMA IdleCalms ==
  ASSUME MotionInv, UNCHANGED <<activePtz, motionVars>>
  PROVE  Calms /\ CleanHandover
  BY DEF MotionInv, TypeOK, MotionTracked, Calms, CleanHandover, motionVars

(* The two steps that set something in motion.                             *)
LEMMA RouteKeepsInv ==
  ASSUME MotionInv, TypeOK', RouteControls
  PROVE  MotionInv' /\ activePtz' = activePtz
  <1>0. stick' = stick /\ activePtz' = activePtz
    BY DEF RouteControls, mirrorVars
  <1>1. CASE activePtz \in Enabled
    <2> DEFINE move == Intent(stick)
               todo == AxesToCommand(stick)
    <2>1. PICK sent \in SendOutcomes(todo) :
            /\ moving' = [moving EXCEPT ![activePtz] = (@ \ sent) \cup (move \cap sent)]
            /\ tracked' = (tracked \ sent) \cup (move \cap sent)
            /\ travelling' = IF sent = {} THEN travelling
                             ELSE travelling \ {activePtz}
            /\ pc' = IF sent = todo THEN "poll" ELSE "failing"
      BY <1>1 DEF RouteControls
    <2>2. activePtz \in Cameras
      BY <1>1, CamerasAssumption
    <2>3. \A c \in Cameras :
            moving'[c] = IF c = activePtz THEN (moving[c] \ sent) \cup (move \cap sent)
                                          ELSE {}
      BY <2>1, <2>2 DEF MotionInv, TypeOK, NoOrphanMotion
    <2>4. NoOrphanMotion' /\ MotionTracked'
      BY <1>0, <2>1, <2>2, <2>3 DEF MotionInv, NoOrphanMotion, MotionTracked
    <2>5. FlagsNeedSession'
      BY <1>0, <1>1 DEF FlagsNeedSession
    <2>6. TravelUntracked'
      BY <1>0, <2>1 DEF MotionInv, TravelUntracked
    <2>7. StillWithoutJoystick'
      BY <1>0 DEF RouteControls, StillWithoutJoystick
    <2>8. ASSUME pc' = "poll", stick = Centred PROVE AtRest'
      <3>1. sent = todo /\ move = {} /\ todo = tracked
        BY <2>1, <2>8 DEF Intent, AxesToCommand, Centred
      <3> QED
        BY <2>3, <3>1 DEF MotionInv, MotionTracked, AtRest
    <2>9. StillWhenReleased'
      BY <1>0, <2>8 DEF RouteControls, StillWhenReleased
    <2> QED
      BY <1>0, <2>4, <2>5, <2>6, <2>7, <2>9 DEF MotionInv
  <1>2. CASE activePtz \notin Enabled
    <2>1. ClearTracked /\ UNCHANGED cameraVars
      BY <1>2 DEF RouteControls
    <2>2. tracked = {} /\ tracked' = {}
      BY <1>2, <2>1 DEF MotionInv, FlagsNeedSession, ClearTracked
    <2>3. Calms /\ CleanHandover
      BY <2>1, <2>2 DEF Calms, CleanHandover, MotionInv, TypeOK, MotionTracked,
                        ClearTracked, cameraVars
    <2> QED
      BY <1>0, <2>2, <2>3, CalmStep
  <1> QED
    BY <1>1, <1>2

LEMMA PresetKeepsInv ==
  ASSUME MotionInv, TypeOK', PresetButton
  PROVE  MotionInv' /\ activePtz' = activePtz
  <1>0. stick' = stick /\ stick # NoSnapshot /\ activePtz' = activePtz
        /\ pc = "buttons" /\ pc' \in {pc, "failing"}
    BY DEF PresetButton, mirrorVars
  <1>1. CASE activePtz \in Enabled
    <2>1. activePtz \in Cameras
      BY <1>1, CamerasAssumption
    <2>2. CASE \E sent \in SendOutcomes(tracked) :
                 SendStops(activePtz, sent) /\ UNCHANGED routerVars
      <3>1. Calms /\ CleanHandover
        BY <1>0, <2>1, <2>2 DEF SendStops, routerVars, Calms, CleanHandover,
                                MotionInv, TypeOK, MotionTracked
      <3> QED
        BY <1>0, <3>1, CalmStep
    <2>3. CASE /\ ClearTracked
               /\ moving' = [moving EXCEPT ![activePtz] = @ \ tracked]
      <3>1. tracked' = {} /\ \A c \in Cameras : moving'[c] = {}
        BY <2>1, <2>3 DEF ClearTracked, MotionInv, TypeOK, NoOrphanMotion, MotionTracked
      <3> QED
        BY <1>0, <3>1 DEF MotionInv, NoOrphanMotion, MotionTracked, FlagsNeedSession,
                          TravelUntracked, StillWithoutJoystick, StillWhenReleased, AtRest
    <2> QED
      BY <1>1, <2>2, <2>3 DEF PresetButton
  <1>2. CASE activePtz \notin Enabled
    <2>1. UNCHANGED <<activePtz, motionVars>>
      BY <1>0, <1>2 DEF PresetButton
    <2> QED
      BY <1>0, <2>1, IdleCalms, CalmStep
  <1> QED
    BY <1>1, <1>2

LEMMA NextInv ==
  ASSUME StopOnSwitch, MotionInv, [Next]_vars
  PROVE  MotionInv' /\ CleanHandover
  <1>0. TypeOK /\ TypeOK' /\ Covered
    BY NextTypes, InvCovered DEF MotionInv
  <1>1. CASE PollJoystick
    <2>1. PICK ok \in BOOLEAN :
            /\ IF stick # NoSnapshot /\ stick' = NoSnapshot
               THEN StopAllActiveMotion(ok)
               ELSE ok /\ UNCHANGED motionVars
            /\ pc' = IF ok THEN "switcher" ELSE "failing"
      BY <1>1 DEF PollJoystick
    <2>2. pc = "poll" /\ activePtz' = activePtz
      BY <1>1 DEF PollJoystick, mirrorVars
    <2>3. CASE stick # NoSnapshot /\ stick' = NoSnapshot
      <3>1. Calms /\ CleanHandover /\ (tracked' = {} \/ pc' = "failing")
        BY <1>0, <2>1, <2>2, <2>3, StopAllCalms DEF CleanHandover
      <3> QED
        BY <1>0, <3>1, CalmStep DEF Phases
    <2>4. CASE ~(stick # NoSnapshot /\ stick' = NoSnapshot)
      <3>1. Calms /\ CleanHandover
        BY <2>1, <2>2, <2>4, IdleCalms
      <3>2. stick' = stick \/ stick' # NoSnapshot
        BY <2>4
      <3> QED
        BY <1>0, <2>1, <2>2, <3>1, <3>2, CalmStep DEF Phases
    <2> QED
      BY <2>3, <2>4
  <1>2. CASE SyncSwitcher
    <2>1. PICK ok \in BOOLEAN : MirrorPreview(swPreview, ok)
      BY <1>2 DEF SyncSwitcher
    <2>2. Calms /\ CleanHandover
      BY <1>0, <2>1, MirrorPreviewCalms DEF TypeOK
    <2>3. stick' = stick /\ pc \in Phases /\ pc' # "poll"
      BY <1>2 DEF SyncSwitcher, Phases
    <2> QED
      BY <1>0, <2>2, <2>3, CalmStep
  <1>3. CASE \/ SyncFailed \/ ReconnectSwitcher \/ ButtonsDone \/ Raise
             \/ Panel \/ SwitcherLost \/ UNCHANGED vars
    <2>1. Calms /\ CleanHandover
      BY <1>3, IdleCalms
      DEF SyncFailed, ReconnectSwitcher, ButtonsDone, Raise, Panel, SwitcherLost,
          vars, mirrorVars, motionVars
    <2>2. /\ stick' = stick
          /\ pc' = "poll" => pc = "poll"
          /\ pc' \in Phases => pc \in Phases
      BY <1>3 DEF SyncFailed, ReconnectSwitcher, ButtonsDone, Raise, Panel,
                  SwitcherLost, vars, Phases
    <2> QED
      BY <1>0, <2>1, <2>2, CalmStep
  <1>4. CASE SkipRoute
    <2>1. tracked' = tracked /\ moving' = moving /\ activePtz' = activePtz
          /\ travelling' = travelling /\ AtRest
      BY <1>4 DEF SkipRoute, mirrorVars, motionVars, MotionInv, StillWithoutJoystick, Phases
    <2> QED
      BY <1>0, <2>1 DEF CleanHandover, MotionInv, NoOrphanMotion, MotionTracked,
           FlagsNeedSession, TravelUntracked, StillWithoutJoystick, StillWhenReleased, AtRest
  <1>5. ASSUME NEW s \in Sources, PreviewButton(s) PROVE MotionInv' /\ CleanHandover
    <2>1. Calms /\ CleanHandover
      BY <1>0, <1>5, SetPreviewCalms, IdleCalms DEF PreviewButton
    <2>2. stick' = stick /\ pc' = pc
      BY <1>5 DEF PreviewButton, ButtonPressed
    <2> QED
      BY <1>0, <2>1, <2>2, CalmStep
  <1>6. CASE CopyButton
    <2>1. Calms /\ CleanHandover
      BY <1>0, <1>6, MirrorPreviewCalms DEF CopyButton, TypeOK
    <2>2. stick' = stick /\ pc' = pc
      BY <1>6 DEF CopyButton, ButtonPressed
    <2> QED
      BY <1>0, <2>1, <2>2, CalmStep
  <1>7. CASE TransitionButton
    <2>1. tracked \subseteq Axes
      BY <1>0 DEF TypeOK
    <2>2. \/ RequestStop(Axes, FALSE) /\ activePtz' = activePtz
          \/ RequestStop(Axes, TRUE)
      BY <1>7 DEF TransitionButton, mirrorVars
    <2>3. Calms /\ CleanHandover
      BY <1>0, <2>1, <2>2, RequestStopCalms DEF CleanHandover
    <2>4. stick' = stick /\ pc' = pc
      BY <1>7 DEF TransitionButton, ButtonPressed
    <2> QED
      BY <1>0, <2>3, <2>4, CalmStep
  <1>8. CASE ButtonFailed
    <2>1. tracked \subseteq Axes
      BY <1>0 DEF TypeOK
    <2>2. activePtz' = activePtz /\ (UNCHANGED motionVars \/ RequestStop(Axes, TRUE))
      BY <1>8 DEF ButtonFailed, mirrorVars
    <2>3. Calms /\ CleanHandover
      BY <1>0, <2>1, <2>2, RequestStopCalms, IdleCalms DEF CleanHandover
    <2>4. stick' = stick /\ pc' = pc
      BY <1>8 DEF ButtonFailed, ButtonPressed
    <2> QED
      BY <1>0, <2>3, <2>4, CalmStep
  <1>9. CASE PresetButton
    BY <1>0, <1>9, PresetKeepsInv DEF CleanHandover
  <1>10. CASE RouteControls
    BY <1>0, <1>10, RouteKeepsInv DEF CleanHandover
  <1>11. CASE Shutdown
    <2>1. Calms /\ CleanHandover /\ pc' = "down"
      BY <1>0, <1>11, StopAllCalms DEF Shutdown, CleanHandover, mirrorVars
    <2> QED
      BY <1>0, <2>1, CalmStep DEF Phases
  <1> QED
    BY <1>1, <1>2, <1>3, <1>4, <1>5, <1>6, <1>7, <1>8, <1>9, <1>10, <1>11
    DEF Next, Loop, SwitcherPhase, Buttons, Switcher

(* With stop_on_switch set, whatever fails: no camera but the active one   *)
(* moves, the flags cover every motion, and a released stick or a lost     *)
(* joystick leaves every camera at rest.                                   *)
THEOREM MotionInvariant ==
  ASSUME StopOnSwitch
  PROVE  Spec => []MotionInv
  <1>1. MotionInv /\ [Next]_vars => MotionInv'
    BY NextInv
  <1> QED
    BY <1>1, InitInv, PTL DEF Spec

(* The camera that was left is never still in motion.                      *)
THEOREM OrphanFree ==
  ASSUME StopOnSwitch
  PROVE  Spec => []NoOrphanMotion
  <1>1. MotionInv => NoOrphanMotion
    BY DEF MotionInv
  <1> QED
    BY <1>1, MotionInvariant, PTL

(* The router's flags cover every axis in motion, after failed stops too.  *)
THEOREM MotionAlwaysTracked ==
  ASSUME StopOnSwitch
  PROVE  Spec => []MotionTracked
  <1>1. MotionInv => MotionTracked
    BY DEF MotionInv
  <1> QED
    BY <1>1, MotionInvariant, PTL

(* A cycle that ends with the stick released ends with all cameras still.  *)
THEOREM ReleasedIsStill ==
  ASSUME StopOnSwitch
  PROVE  Spec => []StillWhenReleased
  <1>1. MotionInv => StillWhenReleased
    BY DEF MotionInv
  <1> QED
    BY <1>1, MotionInvariant, PTL

-----------------------------------------------------------------------------
(* Action properties and the refinement, from the same invariant.          *)

(* A camera that comes under the joystick inherits no movement flag.       *)
THEOREM CleanInheritance ==
  ASSUME StopOnSwitch
  PROVE  Spec => NewCameraDoesNotInherit
  <1>1. MotionInv /\ [Next]_vars => [activePtz' # activePtz => tracked' = {}]_vars
    BY NextInv DEF CleanHandover
  <1> QED
    BY <1>1, MotionInvariant, PTL DEF Spec, NewCameraDoesNotInherit

(* Routing a released stick never ends the travel of a recalled preset.    *)
THEOREM RecallSurvives ==
  ASSUME StopOnSwitch
  PROVE  Spec => RecallSurvivesRelease
  <1>1. ASSUME MotionInv, [Next]_vars, pc = "route", pc' # "route", stick = Centred
        PROVE  travelling' = travelling
    <2>1. CASE RouteControls /\ activePtz \in Enabled
      <3> DEFINE todo == AxesToCommand(stick)
      <3>1. PICK sent \in SendOutcomes(todo) :
              travelling' = IF sent = {} THEN travelling ELSE travelling \ {activePtz}
        BY <2>1 DEF RouteControls
      <3>2. todo = tracked
        BY <1>1 DEF Intent, AxesToCommand, Centred
      <3>3. sent \subseteq tracked
        BY <3>1, <3>2, SendOutcomesSubset
      <3>4. sent # {} => activePtz \notin travelling
        BY <1>1, <3>3 DEF MotionInv, TravelUntracked
      <3> QED
        BY <1>1, <3>1, <3>4 DEF MotionInv, TypeOK
    <2>2. CASE RouteControls /\ activePtz \notin Enabled
      BY <2>2 DEF RouteControls, cameraVars
    <2>3. CASE SkipRoute \/ Raise \/ Switcher \/ UNCHANGED vars
      BY <2>3 DEF SkipRoute, Raise, Switcher, Panel, SwitcherLost, motionVars, vars
    <2> QED
      BY <1>1, <2>1, <2>2, <2>3
      DEF Next, Loop, SwitcherPhase, Buttons, PollJoystick, SyncSwitcher, SyncFailed,
          ReconnectSwitcher, PreviewButton, CopyButton, TransitionButton, ButtonFailed,
          ButtonPressed, PresetButton, ButtonsDone, Shutdown
  <1>2. MotionInv /\ [Next]_vars =>
          [(pc = "route" /\ pc' # "route" /\ stick = Centred)
             => travelling' = travelling]_vars
    BY <1>1
  <1> QED
    BY <1>2, MotionInvariant, PTL DEF Spec, RecallSurvivesRelease

LEMMA HandoverOrDrive ==
  ASSUME MotionInv, MotionInv', CleanHandover
  PROVE  [Control!Next]_(Control!vars)
  <1>1. /\ moving \in [Cameras -> SUBSET Axes] /\ moving' \in [Cameras -> SUBSET Axes]
        /\ activePtz \in Cameras \cup {NoCamera} /\ activePtz' \in Cameras \cup {NoCamera}
    BY DEF MotionInv, TypeOK
  <1>2. CASE activePtz' # activePtz
    <2>1. moving' = [c \in Cameras |-> {}]
      BY <1>1, <1>2 DEF CleanHandover, MotionInv, MotionTracked
    <2> QED
      BY <1>1, <2>1 DEF Control!Next, Control!Handover
  <1>3. CASE activePtz' = activePtz /\ activePtz \in Cameras
    <2>1. moving' = [moving EXCEPT ![activePtz] = moving'[activePtz]]
      BY <1>1, <1>3 DEF MotionInv, NoOrphanMotion
    <2>2. moving'[activePtz] \in SUBSET Axes
      BY <1>1, <1>3
    <2>3. Control!Drive(activePtz)
      BY <1>3, <2>1, <2>2 DEF Control!Drive
    <2> QED
      BY <1>3, <2>3 DEF Control!Next
  <1>4. CASE activePtz' = activePtz /\ activePtz = NoCamera
    <2>1. moving' = moving
      BY <1>1, <1>4, CamerasAssumption DEF MotionInv, NoOrphanMotion
    <2> QED
      BY <1>4, <2>1 DEF Control!vars
  <1> QED
    BY <1>1, <1>2, <1>3, <1>4

(* The poll loop implements the abstract PTZ control: one camera under the *)
(* joystick, and a handover only between cameras at rest.                  *)
THEOREM Refinement ==
  ASSUME StopOnSwitch
  PROVE  Spec => ImplementsMotionControl
  <1>1. Init => Control!Init
    <2>1. Init => activePtz \in Cameras \cup {NoCamera}
      BY InitTypes DEF TypeOK
    <2> QED
      BY <2>1 DEF Init, Control!Init
  <1>2. MotionInv /\ MotionInv' /\ [Next]_vars => [Control!Next]_(Control!vars)
    BY NextInv, HandoverOrDrive
  <1> QED
    BY <1>1, <1>2, MotionInvariant, PTL DEF Spec, ImplementsMotionControl, Control!Spec

-----------------------------------------------------------------------------
(* The end of the process, when every command can be sent.                 *)

(* The process never ends with a camera in motion.                         *)
THEOREM SafeEnd ==
  ASSUME StopOnSwitch, ~SendMayFail
  PROVE  Spec => []SafeExit
  <1>1. ASSUME MotionInv, SafeExit, [Next]_vars PROVE SafeExit'
    <2>1. CASE Shutdown
      <3>1. PICK ok \in BOOLEAN : StopAllActiveMotion(ok)
        BY <2>1 DEF Shutdown
      <3>2. ok \/ activePtz \notin Enabled
        BY <3>1 DEF StopAllActiveMotion, StopActive, SendOutcomes
      <3>3. tracked' = {}
        BY <1>1, <3>1, <3>2, StopAllCalms, InvCovered, NothingToStop
        DEF StopAllActiveMotion
      <3>4. MotionInv'
        BY <1>1, NextInv
      <3> QED
        BY <3>3, <3>4 DEF SafeExit, AtRest, MotionInv, MotionTracked
    <2>2. CASE ~Shutdown
      <3>1. pc' = "down" => pc = "down" /\ moving' = moving
        BY <1>1, <2>2
        DEF Next, Loop, SwitcherPhase, Buttons, Switcher, PollJoystick, SyncSwitcher,
            SyncFailed, ReconnectSwitcher, PreviewButton, CopyButton, TransitionButton,
            ButtonFailed, ButtonPressed, PresetButton, ButtonsDone, RouteControls,
            SkipRoute, Raise, Panel, SwitcherLost, motionVars, vars
      <3> QED
        BY <1>1, <3>1 DEF SafeExit, AtRest
    <2> QED
      BY <2>1, <2>2
  <1>2. Init => SafeExit
    BY DEF Init, SafeExit
  <1>3. MotionInv /\ SafeExit /\ [Next]_vars => SafeExit'
    BY <1>1
  <1> QED
    BY <1>2, <1>3, MotionInvariant, PTL DEF Spec

(* A stop that cannot fail does not.                                       *)
LEMMA ReliableStop ==
  ASSUME ~SendMayFail, NEW A, NEW ok \in BOOLEAN, StopActive(A, ok)
  PROVE  ok /\ ClearTracked
  BY DEF StopActive, SendOutcomes

LEMMA ReliableRequest ==
  ASSUME ~SendMayFail, NEW A, NEW ok \in BOOLEAN, RequestStop(A, ok)
  PROVE  ok /\ (ClearTracked \/ UNCHANGED motionVars)
  BY ReliableStop DEF RequestStop

LEMMA ReliablePreview ==
  ASSUME ~SendMayFail, NEW s, NEW ok \in BOOLEAN, SetPreview(s, ok)
  PROVE  /\ preview' = s /\ activePtz' = CameraFor(s)
         /\ ClearTracked \/ UNCHANGED motionVars
  BY ReliableRequest DEF SetPreview

LEMMA ReliableMirror ==
  ASSUME ~SendMayFail, NEW s, NEW ok \in BOOLEAN, MirrorPreview(s, ok)
  PROVE  /\ UNCHANGED <<preview, activePtz>> \/ activePtz' = CameraFor(preview')
         /\ ClearTracked \/ UNCHANGED motionVars
  BY ReliablePreview DEF MirrorPreview

(* What one step does when sends do not fail: the motion is routed, left   *)
(* alone or stopped, and the active camera follows the preview.            *)
LEMMA ReliableStep ==
  ASSUME ~SendMayFail, [Next]_vars
  PROVE  /\ RouteControls \/ ClearTracked \/ UNCHANGED motionVars
         /\ UNCHANGED <<preview, activePtz>> \/ activePtz' = CameraFor(preview')
  <1> USE DEF mirrorVars
  <1>1. CASE PollJoystick
    BY <1>1, ReliableStop DEF PollJoystick, StopAllActiveMotion
  <1>2. CASE SyncSwitcher
    BY <1>2, ReliableMirror DEF SyncSwitcher
  <1>3. CASE \/ SyncFailed \/ ReconnectSwitcher \/ ButtonsDone \/ SkipRoute
             \/ Raise \/ Panel \/ SwitcherLost \/ UNCHANGED vars
    BY <1>3 DEF SyncFailed, ReconnectSwitcher, ButtonsDone, SkipRoute, Raise, Panel,
                SwitcherLost, vars, motionVars
  <1>4. ASSUME NEW s \in Sources, PreviewButton(s)
        PROVE  /\ RouteControls \/ ClearTracked \/ UNCHANGED motionVars
               /\ UNCHANGED <<preview, activePtz>> \/ activePtz' = CameraFor(preview')
    BY <1>4, ReliablePreview DEF PreviewButton
  <1>5. CASE CopyButton
    BY <1>5, ReliableMirror DEF CopyButton
  <1>6. CASE TransitionButton
    <2>1. ClearTracked \/ UNCHANGED motionVars
      BY <1>6, ReliableRequest DEF TransitionButton
    <2>2. UNCHANGED <<preview, activePtz>> \/ MirrorPreviewQuietly(swPreview')
      BY <1>6 DEF TransitionButton
    <2> QED
      BY <2>1, <2>2 DEF MirrorPreviewQuietly, SetPreviewQuietly
  <1>7. CASE ButtonFailed
    BY <1>7, ReliableRequest DEF ButtonFailed
  <1>8. CASE PresetButton
    BY <1>8 DEF PresetButton, SendOutcomes
  <1>9. CASE RouteControls
    BY <1>9 DEF RouteControls
  <1>10. CASE Shutdown
    BY <1>10, ReliableStop DEF Shutdown, StopAllActiveMotion
  <1> QED
    BY <1>1, <1>2, <1>3, <1>4, <1>5, <1>6, <1>7, <1>8, <1>9, <1>10
    DEF Next, Loop, SwitcherPhase, Buttons, Switcher

(* The camera under the joystick is the one of the preview source, however *)
(* preview changes, transitions and switcher failures interleave.          *)
THEOREM ActiveIsPreviewed ==
  ASSUME ~SendMayFail
  PROVE  Spec => []ActiveFollowsPreview
  <1>1. Init => ActiveFollowsPreview
    BY DEF Init, ActiveFollowsPreview
  <1>2. ActiveFollowsPreview /\ [Next]_vars => ActiveFollowsPreview'
    BY ReliableStep DEF ActiveFollowsPreview, CameraFor
  <1> QED
    BY <1>1, <1>2, PTL DEF Spec

(* The flags are exactly the motion of the active camera.                  *)
THEOREM FlagsAreExact ==
  ASSUME StopOnSwitch, ~SendMayFail
  PROVE  Spec => []FlagsExact
  <1>1. Init => FlagsExact
    BY DEF Init, FlagsExact
  <1>2. ASSUME MotionInv, MotionInv', FlagsExact, [Next]_vars PROVE FlagsExact'
    <2>1. CleanHandover
      BY <1>2, NextInv
    <2>2. CASE RouteControls /\ activePtz \in Enabled
      <3> DEFINE move == Intent(stick)
                 todo == AxesToCommand(stick)
      <3>1. /\ moving' = [moving EXCEPT ![activePtz] = (@ \ todo) \cup (move \cap todo)]
            /\ tracked' = (tracked \ todo) \cup (move \cap todo)
            /\ effective' = PanTiltSource(stick)
            /\ activePtz' = activePtz
        BY <2>2 DEF RouteControls, SendOutcomes, mirrorVars
      <3>2. tracked' = move
        BY <3>1 DEF AxesToCommand
      <3>3. activePtz \in Cameras /\ moving'[activePtz] = move
        BY <1>2, <2>2, <3>1, CamerasAssumption
        DEF FlagsExact, MotionInv, TypeOK, AxesToCommand
      <3>4. (effective' # "none") = ("panTilt" \in move)
        BY <3>1 DEF PanTiltSource, Intent
      <3> QED
        BY <3>1, <3>2, <3>3, <3>4 DEF FlagsExact
    <2>3. CASE ClearTracked
      BY <1>2, <2>3 DEF ClearTracked, FlagsExact, MotionInv, MotionTracked
    <2>4. CASE UNCHANGED motionVars
      BY <1>2, <2>1, <2>4
      DEF motionVars, FlagsExact, CleanHandover, MotionInv, MotionTracked
    <2> QED
      BY <1>2, <2>2, <2>3, <2>4, ReliableStep DEF RouteControls
  <1>3. MotionInv /\ MotionInv' /\ FlagsExact /\ [Next]_vars => FlagsExact'
    BY <1>2
  <1> QED
    BY <1>1, <1>3, MotionInvariant, PTL DEF Spec
=============================================================================
