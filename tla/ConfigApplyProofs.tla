------------------------- MODULE ConfigApplyProofs --------------------------
(***************************************************************************)
(* Theorems about ConfigApply, for any sources, cameras, configurations    *)
(* and number of applies: type correctness; that an apply under a calm     *)
(* operator is safe; that sessions and configuration agree after an apply, *)
(* whichever applies raised before it.                                     *)
(***************************************************************************)
EXTENDS ConfigApply, TLAPS

(* The configuration selects None or one of its cameras.                   *)
LEMMA CameraForType ==
  ASSUME NEW c \in Configs, NEW s \in MaybeSource
  PROVE  CameraFor(c, s) \in MaybeCamera
BY ConfigsAssumption DEF CameraFor, MaybeSource, MaybeCamera

(* TypeOK made inductive: a session is captured before it is commanded.    *)
CapturedSession == pc["loop"] = "move" => cam["loop"] \in Cameras
TypeInv == TypeOK /\ CapturedSession

(* The program counters under a step of one thread.                        *)
LEMMA GoToType ==
  ASSUME TypeOK, NEW t \in Threads, NEW label \in StepsOf(t), GoTo(t, label)
  PROVE  /\ pc' \in [Threads -> LoopSteps \cup WebSteps \cup SyncSteps]
         /\ \A u \in Threads : pc'[u] \in StepsOf(u)
         /\ pc'[t] = label
         /\ \A u \in Threads : u # t => pc'[u] = pc[u]
BY DEF TypeOK, GoTo, StepsOf

LEMMA TypeInit == Init => TypeInv
<1>. SUFFICES ASSUME Init PROVE TypeInv
  OBVIOUS
<1>1. preview \in MaybeSource
  BY DEF Init, MaybeSource
<1>2. activePtz \in MaybeCamera
  BY <1>1, CameraForType DEF Init
<1>3. /\ pc \in [Threads -> LoopSteps \cup WebSteps \cup SyncSteps]
      /\ \A t \in Threads : pc[t] \in StepsOf(t)
      /\ pc["loop"] # "move"
  BY DEF Init, Threads, StepsOf, LoopSteps, WebSteps
<1>4. sessions \subseteq Cameras
  BY ConfigsAssumption DEF Init
<1>5. /\ up \in [Objects -> BOOLEAN] /\ seen \in [Objects -> MaybeSource]
      /\ bridgeSw \in Objects /\ execSw \in Objects
      /\ applies \in 0 .. MaxApplies
  BY <1>1, BoundsAssumption DEF Init, Objects, MaybeSource
<1>6. /\ cam \in [Threads -> MaybeCamera] /\ src \in [Threads -> MaybeSource]
      /\ saved \in [preview : MaybeSource, activePtz : MaybeCamera]
  BY DEF Init, MaybeSource, MaybeCamera, Nothing
<1>. QED
  BY <1>1, <1>2, <1>3, <1>4, <1>5, <1>6 DEF Init, TypeOK, TypeInv, CapturedSession

(* A step of sync_from_switcher, in either thread.                         *)
LEMMA SyncType ==
  ASSUME TypeInv, NEW t \in Threads, Sync(t)
  PROVE  TypeInv'
<1>. USE DEF loopVars, stateVars, routerVars, switcherVars, localVars, applyVars
<1>0. /\ AfterSync(t) \in StepsOf(t) /\ AfterSync(t) # "move"
      /\ SyncSteps \subseteq StepsOf(t) /\ "move" \notin SyncSteps
  BY DEF AfterSync, StepsOf, LoopSteps, WebSteps, SyncSteps
<1>1. \E label \in SyncSteps \cup {AfterSync(t)} : GoTo(t, label)
  BY DEF Sync, Report, AssignPreview, ReadOldCamera, StopOldCamera, DropFlag,
         SetPreviewSelects, SetPreviewStores, SyncSteps
<1>2. /\ pc' \in [Threads -> LoopSteps \cup WebSteps \cup SyncSteps]
      /\ \A u \in Threads : pc'[u] \in StepsOf(u)
      /\ pc'[t] # "move"
      /\ \A u \in Threads : u # t => pc'[u] = pc[u]
  BY <1>0, <1>1, GoToType DEF TypeInv
<1>3. CapturedSession'
  <2>1. \A u \in Threads : u # t => cam'[u] = cam[u]
    BY DEF Sync, Report, AssignPreview, ReadOldCamera, StopOldCamera, DropFlag,
           SetPreviewSelects, SelectCamera, SetPreviewStores, StoreCamera, Forget,
           TypeInv, TypeOK
  <2>. QED
    BY <1>2, <2>1 DEF CapturedSession, TypeInv, Threads
<1>4. CASE Report(t)
  BY <1>2, <1>3, <1>4 DEF Report, TypeInv, TypeOK, MaybeSource
<1>5. CASE AssignPreview(t)
  BY <1>2, <1>3, <1>5 DEF AssignPreview, TypeInv, TypeOK, MaybeSource
<1>6. CASE ReadOldCamera(t) \/ StopOldCamera(t) \/ DropFlag(t)
  BY <1>2, <1>3, <1>6 DEF ReadOldCamera, StopOldCamera, DropFlag, TypeInv, TypeOK
<1>7. CASE SetPreviewSelects(t)
  BY <1>2, <1>3, <1>7, CameraForType DEF SetPreviewSelects, SelectCamera, TypeInv, TypeOK
<1>8. CASE SetPreviewStores(t)
  BY <1>2, <1>3, <1>8
  DEF SetPreviewStores, StoreCamera, Forget, TypeInv, TypeOK, MaybeCamera
<1>. QED
  BY <1>4, <1>5, <1>6, <1>7, <1>8 DEF Sync

(* A step of the poll loop outside the sync.                               *)
LEMMA LoopType ==
  ASSUME TypeInv,
         PollJoystick \/ CheckSwitcher \/ EnsureConnected \/ RouteControls
  PROVE  TypeInv'
<1>. USE DEF loopVars, stateVars, routerVars, switcherVars, localVars, applyVars
<1>0. "loop" \in Threads
  BY DEF Threads
<1>1. \E label \in LoopSteps \cup {"report"} : GoTo("loop", label)
  BY DEF PollJoystick, CheckSwitcher, EnsureConnected, RouteControls, Route,
         RouteMove, RouteFlag, HaltSession, RouteUnflag, SetFlag, LoopSteps
<1>2. /\ pc' \in [Threads -> LoopSteps \cup WebSteps \cup SyncSteps]
      /\ \A u \in Threads : pc'[u] \in StepsOf(u)
  BY <1>0, <1>1, GoToType DEF TypeInv, StepsOf, SyncSteps
<1>3. CASE PollJoystick \/ CheckSwitcher \/ EnsureConnected
  <2>1. pc'["loop"] # "move"
    BY <1>0, <1>3 DEF PollJoystick, CheckSwitcher, EnsureConnected, GoTo, TypeInv, TypeOK
  <2>. QED
    BY <1>2, <1>3, <2>1
    DEF PollJoystick, CheckSwitcher, EnsureConnected, TypeInv, TypeOK, CapturedSession
<1>4. CASE Route
  <2>1. cam' \in [Threads -> MaybeCamera] /\ cam'["loop"] = ActiveSession
    BY <1>0, <1>4 DEF Route, ActiveSession, MaybeCamera, TypeInv, TypeOK
  <2>2. CapturedSession'
    BY <1>0, <1>4, <2>1
    DEF Route, ActiveSession, GoTo, TypeInv, TypeOK, CapturedSession
  <2>. QED
    BY <1>2, <1>4, <2>1, <2>2 DEF Route, TypeInv, TypeOK
<1>5. CASE RouteMove
  <2>1. moving' \subseteq Cameras
    BY <1>5 DEF RouteMove, TypeInv, TypeOK, CapturedSession
  <2>2. pc'["loop"] # "move"
    BY <1>0, <1>5 DEF RouteMove, GoTo, TypeInv, TypeOK
  <2>. QED
    BY <1>2, <1>5, <2>1, <2>2
    DEF RouteMove, Forget, MaybeCamera, TypeInv, TypeOK, CapturedSession
<1>6. CASE HaltSession("loop") \/ RouteFlag \/ RouteUnflag
  <2>1. pc'["loop"] # "move"
    BY <1>0, <1>6
    DEF HaltSession, RouteFlag, RouteUnflag, SetFlag, GoTo, TypeInv, TypeOK
  <2>. QED
    BY <1>2, <1>6, <2>1
    DEF HaltSession, RouteFlag, RouteUnflag, SetFlag, Forget, MaybeCamera, TypeInv,
        TypeOK, CapturedSession
<1>. QED
  BY <1>3, <1>4, <1>5, <1>6 DEF RouteControls

(* A step of apply_config, or its start.                                   *)
LEMMA ApplyType ==
  ASSUME TypeInv, (\E c \in Configs : StartApply(c)) \/ ContinueApply, ~Sync("web")
  PROVE  TypeInv'
<1>. USE DEF loopVars, stateVars, routerVars, switcherVars, localVars, applyVars
<1>0. "web" \in Threads /\ "loop" \in Threads
  BY DEF Threads
<1>1. \E label \in WebSteps \cup {"report"} : GoTo("web", label)
  BY DEF StartApply, ContinueApply, HaltSession, ApplyUnflag, SetFlag, SaveState,
         ReplaceConfig, RestoreState, ApplySelects, ApplyStores, RebuildSessions,
         ClearFlags, DisconnectSwitcher, CreateSwitcher, SwapExecutorSwitcher,
         ConnectSwitcher, WebSteps
<1>2. /\ pc' \in [Threads -> LoopSteps \cup WebSteps \cup SyncSteps]
      /\ \A u \in Threads : pc'[u] \in StepsOf(u)
      /\ pc'["loop"] = pc["loop"]
  BY <1>0, <1>1, GoToType DEF TypeInv, StepsOf, SyncSteps
<1>3. CapturedSession'
  <2>1. cam' = cam \/ \E v : cam' = [cam EXCEPT !["web"] = v]
    BY DEF StartApply, ContinueApply, HaltSession, ApplyUnflag, SetFlag, SaveState,
           ReplaceConfig, RestoreState, ApplySelects, SelectCamera, ApplyStores,
           StoreCamera, Forget, RebuildSessions, ClearFlags, DisconnectSwitcher,
           CreateSwitcher, SwapExecutorSwitcher, ConnectSwitcher
  <2>. QED
    BY <1>0, <1>2, <2>1 DEF CapturedSession, TypeInv, TypeOK
<1>4. ASSUME NEW c \in Configs, StartApply(c) PROVE TypeOK'
  <2>1. applies' \in 0 .. MaxApplies
    BY <1>4, BoundsAssumption DEF StartApply, TypeInv, TypeOK
  <2>. QED
    BY <1>2, <1>4, <2>1 DEF StartApply, ActiveSession, MaybeCamera, TypeInv, TypeOK
<1>5. CASE HaltSession("web") \/ ApplyUnflag \/ ClearFlags
  BY <1>2, <1>3, <1>5
  DEF HaltSession, ApplyUnflag, ClearFlags, SetFlag, Forget, MaybeCamera, TypeInv, TypeOK
<1>6. CASE SaveState \/ ReplaceConfig \/ RestoreState
  BY <1>2, <1>3, <1>6
  DEF SaveState, ReplaceConfig, RestoreState, Nothing, MaybeCamera, MaybeSource,
      TypeInv, TypeOK
<1>7. CASE ApplySelects \/ ApplyStores
  BY <1>0, <1>2, <1>3, <1>7, CameraForType
  DEF ApplySelects, SelectCamera, ApplyStores, StoreCamera, Forget, MaybeCamera,
      TypeInv, TypeOK
<1>8. CASE RebuildSessions
  <2>1. sessions' \subseteq Cameras
    BY <1>8, ConfigsAssumption DEF RebuildSessions, TypeInv, TypeOK
  <2>. QED
    BY <1>2, <1>3, <1>8, <2>1 DEF RebuildSessions, TypeInv, TypeOK
<1>9. CASE DisconnectSwitcher \/ CreateSwitcher \/ SwapExecutorSwitcher
             \/ ConnectSwitcher
  <2>1. bridgeSw' \in Objects /\ execSw' \in Objects
    BY <1>9
    DEF DisconnectSwitcher, CreateSwitcher, SwapExecutorSwitcher, ConnectSwitcher,
        Objects, TypeInv, TypeOK
  <2>. QED
    BY <1>2, <1>3, <1>9, <2>1
    DEF DisconnectSwitcher, CreateSwitcher, SwapExecutorSwitcher, ConnectSwitcher,
        TypeInv, TypeOK
<1>. QED
  BY <1>3, <1>4, <1>5, <1>6, <1>7, <1>8, <1>9 DEF ContinueApply, TypeInv

LEMMA TypeStep == TypeInv /\ [Next]_vars => TypeInv'
<1>. SUFFICES ASSUME TypeInv, [Next]_vars PROVE TypeInv'
  OBVIOUS
<1>1. CASE Loop
  BY <1>1, SyncType, LoopType DEF Loop, Threads
<1>2. CASE (\E c \in Configs : StartApply(c)) \/ ContinueApply
  BY <1>2, SyncType, ApplyType DEF Threads
<1>3. CASE Panel \/ \E o \in Objects : SwitcherLost(o)
  BY <1>3
  DEF Panel, SwitcherLost, loopVars, stateVars, routerVars, switcherVars, localVars,
      applyVars, TypeInv, TypeOK, CapturedSession
<1>4. CASE UNCHANGED vars
  BY <1>4 DEF vars, TypeInv, TypeOK, CapturedSession
<1>. QED
  BY <1>1, <1>2, <1>3, <1>4 DEF Next

(* Both threads' variables stay in their types, however many applies come  *)
(* and however they interleave with the loop: in particular the loop never *)
(* commands a session that it did not capture.                             *)
THEOREM TypeCorrect == Spec => [](TypeOK /\ CapturedSession)
<1>. QED
  BY TypeInit, TypeStep, PTL DEF Spec, TypeInv

-----------------------------------------------------------------------------
(* Motion under a calm operator.                                           *)

LEMMA CalmInit == Init => CalmInv
BY DEF Init, Threads, CalmInv, NoOrphanMotion, StickAgrees, StoppedIsStill, CapturedMoves

(* In the sync a stop comes before every change of the active camera.      *)
LEMMA CalmSync ==
  ASSUME TypeInv, CalmInv, NEW t \in Threads, Sync(t)
  PROVE  CalmInv'
<1>. USE DEF loopVars, stateVars, routerVars, switcherVars, localVars, applyVars,
             CalmInv, NoOrphanMotion, StickAgrees, StoppedIsStill, CapturedMoves
<1>0. /\ pc \in [Threads -> LoopSteps \cup WebSteps \cup SyncSteps]
      /\ cam \in [Threads -> MaybeCamera]
      /\ Threads = {"loop", "web"}
  BY DEF TypeInv, TypeOK, Threads
<1>1. CASE Report(t)
  BY <1>0, <1>1 DEF Report, GoTo, AfterSync
<1>2. CASE AssignPreview(t)
  BY <1>0, <1>2 DEF AssignPreview, GoTo, AfterSync
<1>3. CASE ReadOldCamera(t)
  BY <1>0, <1>3, NoneAssumption DEF ReadOldCamera, GoTo, TypeInv, TypeOK
<1>4. CASE StopOldCamera(t)
  <2>1. moving' = {}
    BY <1>4 DEF StopOldCamera, ActiveSession
  <2>. QED
    BY <1>0, <1>4, <2>1 DEF StopOldCamera, GoTo
<1>5. CASE DropFlag(t)
  <2>1. moving = {}
    BY <1>0, <1>5 DEF DropFlag
  <2>. QED
    BY <1>0, <1>5, <2>1 DEF DropFlag, GoTo
<1>6. CASE SetPreviewSelects(t)
  BY <1>0, <1>6 DEF SetPreviewSelects, SelectCamera, GoTo
<1>7. CASE SetPreviewStores(t)
  <2>1. moving = {}
    BY <1>0, <1>7 DEF SetPreviewStores
  <2>. QED
    BY <1>0, <1>7, <2>1 DEF SetPreviewStores, StoreCamera, Forget, GoTo, AfterSync
<1>. QED
  BY <1>1, <1>2, <1>3, <1>4, <1>5, <1>6, <1>7 DEF Sync

(* The loop starts a motion only with the stick deflected, so with no      *)
(* apply under way.                                                        *)
LEMMA CalmLoop ==
  ASSUME TypeInv, CalmInv, CalmOperator,
         PollJoystick \/ CheckSwitcher \/ EnsureConnected \/ RouteControls
  PROVE  CalmInv'
<1>. USE DEF loopVars, stateVars, routerVars, switcherVars, localVars, applyVars,
             CalmInv, NoOrphanMotion, StickAgrees, StoppedIsStill, CapturedMoves
<1>0. /\ pc \in [Threads -> LoopSteps \cup WebSteps \cup SyncSteps]
      /\ cam \in [Threads -> MaybeCamera]
      /\ Threads = {"loop", "web"}
  BY DEF TypeInv, TypeOK, Threads
<1>1. CASE PollJoystick
  BY <1>0, <1>1 DEF PollJoystick, GoTo
<1>2. CASE CheckSwitcher
  BY <1>0, <1>2 DEF CheckSwitcher, GoTo
<1>3. CASE EnsureConnected
  BY <1>0, <1>3 DEF EnsureConnected, GoTo
<1>4. CASE Route
  <2>1. CASE ActiveSession = NoCamera
    <3>1. moving = {}
      BY <2>1, NoneAssumption DEF ActiveSession, TypeInv, TypeOK
    <3>. QED
      BY <1>0, <1>4, <2>1, <3>1 DEF Route, GoTo
  <2>2. CASE ActiveSession # NoCamera
    <3>1. ActiveSession = activePtz /\ activePtz \in sessions
      BY <2>2 DEF ActiveSession
    <3>2. cam'["loop"] = activePtz /\ cam'["web"] = cam["web"]
      BY <1>0, <1>4, <3>1 DEF Route
    <3>. QED
      BY <1>0, <1>4, <2>2, <3>1, <3>2 DEF Route, GoTo
  <2>. QED
    BY <2>1, <2>2
<1>5. CASE RouteMove
  BY <1>0, <1>5 DEF RouteMove, Forget, GoTo
<1>6. CASE HaltSession("loop")
  <2>1. moving' = {}
    BY <1>0, <1>6 DEF HaltSession
  <2>. QED
    BY <1>0, <1>6, <2>1 DEF HaltSession, Forget, GoTo
<1>7. CASE RouteFlag
  BY <1>0, <1>7 DEF RouteFlag, SetFlag, GoTo
<1>8. CASE RouteUnflag
  BY <1>0, <1>8 DEF RouteUnflag, SetFlag, GoTo
<1>. QED
  BY <1>1, <1>2, <1>3, <1>4, <1>5, <1>6, <1>7, <1>8 DEF RouteControls

(* An apply halts what its captured session moves; from then on nothing    *)
(* moves until it ends.                                                    *)
LEMMA CalmApply ==
  ASSUME TypeInv, CalmInv, CalmOperator,
         (\E c \in Configs : StartApply(c)) \/ ContinueApply, ~Sync("web")
  PROVE  CalmInv'
<1>. USE DEF loopVars, stateVars, routerVars, switcherVars, localVars, applyVars,
             CalmInv, NoOrphanMotion, StickAgrees, StoppedIsStill, CapturedMoves
<1>0. /\ pc \in [Threads -> LoopSteps \cup WebSteps \cup SyncSteps]
      /\ cam \in [Threads -> MaybeCamera]
      /\ Threads = {"loop", "web"}
  BY DEF TypeInv, TypeOK, Threads
<1>1. ASSUME NEW c \in Configs, StartApply(c) PROVE CalmInv'
  <2>1. moving \subseteq {ActiveSession} /\ (ActiveSession = NoCamera => moving = {})
    BY NoneAssumption DEF ActiveSession, TypeInv, TypeOK
  <2>2. cam'["web"] = ActiveSession /\ cam'["loop"] = cam["loop"]
    BY <1>0, <1>1 DEF StartApply
  <2>. QED
    BY <1>0, <1>1, <2>1, <2>2 DEF StartApply, GoTo
<1>2. CASE HaltSession("web")
  <2>1. moving' = {}
    BY <1>0, <1>2 DEF HaltSession
  <2>. QED
    BY <1>0, <1>2, <2>1 DEF HaltSession, Forget, GoTo
<1>3. CASE ~HaltSession("web") /\ ContinueApply
  <2>1. /\ moving = {} /\ moving' = {}
        /\ ~stick /\ ~stick'
        /\ pc'["loop"] = pc["loop"]
    BY <1>0, <1>3
    DEF ContinueApply, ApplyUnflag, SetFlag, SaveState, ReplaceConfig, RestoreState,
        ApplySelects, SelectCamera, ApplyStores, StoreCamera, RebuildSessions,
        ClearFlags, DisconnectSwitcher, CreateSwitcher, SwapExecutorSwitcher,
        ConnectSwitcher, GoTo
  <2>. QED
    BY <1>0, <2>1
<1>. QED
  BY <1>1, <1>2, <1>3

LEMMA CalmStep ==
  ASSUME CalmOperator, TypeInv, CalmInv, [Next]_vars
  PROVE  CalmInv'
<1>1. CASE Loop
  BY <1>1, CalmSync, CalmLoop DEF Loop, Threads
<1>2. CASE (\E c \in Configs : StartApply(c)) \/ ContinueApply
  BY <1>2, CalmSync, CalmApply DEF Threads
<1>3. CASE Panel \/ (\E o \in Objects : SwitcherLost(o)) \/ UNCHANGED vars
  BY <1>3
  DEF Panel, SwitcherLost, vars, loopVars, stateVars, routerVars, switcherVars,
      localVars, applyVars, CalmInv, NoOrphanMotion, StickAgrees, StoppedIsStill,
      CapturedMoves
<1>. QED
  BY <1>1, <1>2, <1>3 DEF Next

(* With the stick released from the start of an apply to its end, no apply *)
(* leaves a camera in motion unattended, and releasing the stick stops     *)
(* what moves, in every interleaving with the loop.                        *)
THEOREM CalmApplyIsSafe ==
  ASSUME CalmOperator
  PROVE  Spec => [](CalmInv /\ StillWhenReleased)
<1>1. CalmInv => StillWhenReleased
  BY DEF CalmInv, StickAgrees, StillWhenReleased, Quiet
<1>. QED
  BY <1>1, TypeInit, TypeStep, CalmInit, CalmStep, PTL DEF Spec

(* While no apply and no change of preview is under way, a released stick  *)
(* means that every camera is at rest.                                     *)
THEOREM ReleasedIsStill ==
  ASSUME CalmOperator
  PROVE  Spec => []StillWhenReleased
BY CalmApplyIsSafe, PTL

(* Whatever moves, during an apply too, is the active camera, has a        *)
(* session, and is or will be covered by a flag.                           *)
THEOREM OrphanFree ==
  ASSUME CalmOperator
  PROVE  Spec => []NoOrphanMotion
<1>1. CalmInv => NoOrphanMotion
  BY DEF CalmInv
<1>. QED
  BY <1>1, CalmApplyIsSafe, PTL

-----------------------------------------------------------------------------
(* Sessions and configuration.                                             *)

(* The steps between the new configuration and its sessions.               *)
Rebuilding == {"restore", "select", "recompute", "rebuild"}

SessionsInv ==
  /\ pc["web"] \in Rebuilding => new = config
  /\ pc["web"] \notin Rebuilding /\ config.reachable => sessions = config.enabled
  /\ \E c \in Configs : c.reachable /\ sessions = c.enabled

(* Whenever no apply is replacing them, the router's sessions are those of *)
(* the configuration in force, if its cameras have hosts, whatever raised  *)
(* before; and never a part of a configuration.                            *)
THEOREM SessionsFollowConfig == Spec => []SessionsMatchConfig
<1>1. Init => SessionsInv
  BY DEF Init, SessionsInv, Rebuilding
<1>2. TypeInv /\ SessionsInv /\ [Next]_vars => SessionsInv'
  <2>. SUFFICES ASSUME TypeInv, SessionsInv, [Next]_vars PROVE SessionsInv'
    OBVIOUS
  <2>. USE DEF loopVars, stateVars, routerVars, switcherVars, localVars, applyVars
  <2>0. pc \in [Threads -> LoopSteps \cup WebSteps \cup SyncSteps] /\ "web" \in Threads
    BY DEF TypeInv, TypeOK, Threads
  <2>1. ASSUME NEW t \in Threads, Sync(t) PROVE SessionsInv'
    BY <2>0, <2>1
    DEF Sync, Report, AssignPreview, ReadOldCamera, StopOldCamera, DropFlag,
        SetPreviewSelects, SelectCamera, SetPreviewStores, StoreCamera, GoTo,
        AfterSync, SessionsInv, Rebuilding
  <2>2. CASE PollJoystick \/ CheckSwitcher \/ EnsureConnected \/ RouteControls
    BY <2>0, <2>2
    DEF PollJoystick, CheckSwitcher, EnsureConnected, RouteControls, Route, RouteMove,
        RouteFlag, HaltSession, RouteUnflag, SetFlag, GoTo, SessionsInv
  <2>3. ASSUME NEW c \in Configs, StartApply(c) PROVE SessionsInv'
    BY <2>0, <2>3 DEF StartApply, GoTo, SessionsInv, Rebuilding
  <2>4. CASE ReplaceConfig
    BY <2>0, <2>4 DEF ReplaceConfig, GoTo, SessionsInv, Rebuilding
  <2>5. CASE RebuildSessions
    BY <2>0, <2>5 DEF RebuildSessions, GoTo, SessionsInv, Rebuilding, TypeInv, TypeOK
  <2>6. CASE RestoreState \/ ApplySelects \/ ApplyStores
    BY <2>0, <2>6
    DEF RestoreState, ApplySelects, SelectCamera, ApplyStores, StoreCamera, GoTo,
        SessionsInv, Rebuilding
  <2>7. CASE HaltSession("web") \/ ApplyUnflag \/ SaveState \/ ClearFlags
               \/ DisconnectSwitcher \/ CreateSwitcher \/ SwapExecutorSwitcher
               \/ ConnectSwitcher
    BY <2>0, <2>7
    DEF HaltSession, ApplyUnflag, SaveState, ClearFlags, SetFlag, DisconnectSwitcher,
        CreateSwitcher, SwapExecutorSwitcher, ConnectSwitcher, GoTo, SessionsInv,
        Rebuilding
  <2>8. CASE Panel \/ (\E o \in Objects : SwitcherLost(o)) \/ UNCHANGED vars
    BY <2>8 DEF Panel, SwitcherLost, vars, SessionsInv
  <2>. QED
    BY <2>1, <2>2, <2>3, <2>4, <2>5, <2>6, <2>7, <2>8
    DEF Next, Loop, ContinueApply, Threads
<1>3. SessionsInv => SessionsMatchConfig
  BY DEF SessionsInv, SessionsMatchConfig, Rebuilding
<1>. QED
  BY <1>1, <1>2, <1>3, TypeInit, TypeStep, PTL DEF Spec
=============================================================================
