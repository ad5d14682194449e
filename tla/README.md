# Verification of the PTZ joystick controller

The program reads a joystick, follows the Program and Preview of a video switcher, and drives
over VISCA the PTZ camera that is mapped to the Preview source.  Joystick buttons command the
switcher (preview, cut, auto, copy) or recall camera presets; a web interface shows the state
and replaces the configuration of the running process.

This directory holds TLA+ modules translated from the Python source under
`src/src/ptz_joystick_controller/` (paths below are relative to it), TLC configurations that
check them on small instances, and TLAPS proofs that hold for every instance.  `PROJECT.json`
maps every definition to the lines it stands for.

## 1. The system

| Component | State it keeps | Operations |
| --- | --- | --- |
| Runtime loop (`runtime/joystick_switcher_bridge.py`, `application.py`) | last joystick connection | `poll_once` 20 times a second, `apply_config`, `stop` |
| PTZ router, camera sessions (`runtime/ptz_router.py`, `ptz/session.py`) | movement flags (one set for all cameras), pan/tilt source, a session per enabled camera | `route_controls`, `stop`, `stop_previous_camera`, `stop_all_active_motion`, `recall_preset`, `rebuild_sessions` |
| Switcher executor (`runtime/switcher_executor.py`) | none | `sync_from_switcher`, `ensure_connected`, `execute` |
| State machines (`state_machine/`, `app_state.py`, `models/sources.py`) | mirrored program and preview, active camera | `set_preview`, `set_program`, `request_stop`, `recompute_active_ptz` |
| VISCA transport (`ptz/transport.py`, `builder.py`, `packet.py`) | connection, sequence number | `send` with one reconnect, then raise |
| Joystick monitor and providers (`joystick/runtime.py`, `linux_evdev.py`, `windows_pygame.py`) | provider, health | `poll`, `reconnect_if_needed` |
| Dispatcher (`joystick/dispatcher.py`) | button map | button to command |
| Axis and speed conversion (`joystick/calibration.py`, `deadzone.py`, `hat.py`, `ptz_speed.py`, `throttle.py`, `ptz/speed.py`) | none | pure functions of a sample |
| vMix backend (`switchers/vmix.py`) | last polled state, optimistic changes | HTTP commands and polls |
| ATEM backend (`switchers/atem_*.py`) | UDP session, packet ids, ACK waiters, receiver thread | handshake, reliable commands, state feedback |
| Osee backends (`switchers/osee_*.py`) | TCP stream, parser buffer, reconnect worker | GSP frames, background reconnect |
| Event bus (`event_bus.py`) | subscribers, history | synchronous `publish`; a handler's exception reaches the publisher |
| Configuration apply (`webui/config_runtime.py`) | loaded-at time, last result | reload, validate, `apply_config` from the web thread |
| Web application, editor, authentication (`webui/`) | sessions, login failures, pending imports | HTTP handlers, coroutines of one web server thread |
| Network discovery (`discovery/`, `webui/discovery_panel.py`) | jobs | start, progress, cancel |
| Network manager and helper (`network_manager.py`, `deploy/`) | the host's connection profile | apply DHCP or static addressing |
| Presets and storage (`presets/`, `storage/`) | files | atomic writes, which the editor uses; presets and a backup rotation, which nothing in the runtime calls |
| Configuration (`config.py`, `models/`) | none | merge of local over example file, validation |

How they interact: the loop calls the monitor, the executor, the dispatcher and the router in
this order, all in one thread.  The executor calls the state machines, which publish "stop
requested" on the event bus; the router, its subscriber, sends the VISCA stop before the call
returns.  An exception of that send therefore travels back through the bus and the state
machine into the executor.  The web thread reads all of this and runs `apply_config` on it.
ATEM has a receiver thread and Osee a reconnect worker beside the loop.

What is hard: the order of "stop the old camera" against "change the active camera" on each of
the paths that change it; stops that fail half way; movement flags shared by all cameras;
switcher states that arrive late or change under the operator's hands; a joystick that vanishes
while a camera moves; reconfiguration under the running loop; acknowledgements and reconnects
that race the calls that wait for them; crash points of file updates.

What makes each part correct, in short: the router never leaves a camera in motion that nobody controls,
and stops what the released stick no longer asks for; the mirror follows the switcher and the active
camera follows the preview; reconfiguration is all or nothing for the motion state; a backend reports
success only for what the switcher did; a stored file is old or new, never a mixture, and a backup holds
what it replaced; an import or network change is applied only with the token it was shown for.

## 2. The modules

### MotionControl: what the controller promises

The abstract specification: one camera at most is under the joystick (`activePtz`), only that
camera moves (`Drive`), and the joystick changes hands only with every camera at rest
(`Handover`).

### PtzRouting: how the poll loop keeps the promise

One action per phase of `poll_once`, the phase in `pc`:

| Action | Code |
| --- | --- |
| `PollJoystick` | `joystick_monitor.poll()`; a lost joystick calls `stop_all_active_motion` |
| `SyncSwitcher`, `SyncFailed`, `ReconnectSwitcher` | `sync_from_switcher` or `ensure_connected` |
| `PreviewButton`, `CopyButton`, `TransitionButton`, `ButtonFailed` | `execute` for SET_PREVIEW_SOURCE, COPY_PROGRAM_TO_PREVIEW, CUT and AUTO, and its `except` branch |
| `PresetButton` | `recall_preset`, called outside `execute` |
| `ButtonsDone`, `RouteControls`, `SkipRoute` | the rest of the cycle |
| `Raise`, `Shutdown` | an exception leaves `poll_once`; `run_forever`'s `finally` |
| `Panel`, `SwitcherLost` | the switcher and its operator (external) |

Any number of buttons may be pressed in a cycle.  A phase is one step because the loop is one
thread (the web thread, which writes some of its variables during an apply, is the subject of
`ConfigApply`); the switcher moves between the phases, and inside
a button action it may have done the command, may report it later, or may raise.

`moving[c]` is the set of axes that VISCA commands have set in motion on camera `c`;
`travelling` holds the cameras on their way to a recalled preset; `tracked` are the router's two
flags `pan_tilt_active` and `zoom_active`; `effective` is its pan/tilt source (and
`hat_active`, which is set exactly when the source is the hat).

Abstractions.  An axis is deflected or not: values, directions and speeds are left out, with the
assumption that `output_deadzone` is positive, so that a deflected axis gives a command that moves.
A send of several commands may stop after any prefix (`SendOutcomes`): the exception is followed
to where it is caught, with everything assigned before it kept and everything after it skipped.
Left out are `center_confirm_samples` (it only adds log lines), `transition_state` and
`switcher_connected` (never read by the loop), and dry run (which executes nothing).
A datagram that is lost without an error is not in this module: `moving` means what was commanded.

### MCPtzRouting

Instances: two driven cameras on two sources, a third source that is unmapped or mapped to a
disabled camera, and one id that the switcher reports and the controller rejects.

### ConfigApply: the configuration is replaced under the running loop

Two threads, `loop` and `web`, each with a program counter in `pc`, and one step per access to what
they share.  `AppState` (`config`, `preview`, `activePtz`), the router (`sessions`, `tracked`) and the
two references to the switcher object (`bridgeSw`, `execSw`) have no lock in the code and none here.
`cam` and `src` are the threads' local variables: a captured session or computed camera, and a captured
report.

| Actions | Code |
| --- | --- |
| `Report` .. `SetPreviewStores` (`Sync(t)`) | `sync_from_switcher` and `set_preview`, which both threads run |
| `PollJoystick`, `CheckSwitcher`, `EnsureConnected`, `Route`, `RouteMove`, `HaltSession`, `RouteFlag`, `RouteUnflag` | `poll_once`, statement by statement |
| `StartApply`, `HaltSession`, `ApplyUnflag` | `stop_all_active_motion` at the head of `apply_config` |
| `SaveState` .. `ApplyStores` | configuration replaced, preview and camera restored and recomputed |
| `RebuildSessions`, `ClearFlags` | `rebuild_sessions`, which may raise out of the apply |
| `DisconnectSwitcher` .. `ConnectSwitcher` | the switcher object replaced, or kept when the new one cannot be created |

A configuration is its mapping, its enabled cameras, and whether its transports and its switcher can
be built.  Abstractions against `PtzRouting`: one movement axis instead of two, no buttons, no lost
joystick, and every VISCA command is sent.  A session that was replaced still drives its camera,
because its transport opens a new socket on the next send; so a session is identified with its camera.
Steps that no other thread can observe apart are one step (`RestoreState` assigns two fields).

### MCConfigApply

Two sources and two cameras; the applied configurations remap the sources and remove a camera,
disable one, or leave the switcher without a host; with one of them `rebuild_sessions` raises for a
camera without a host.

### SwitcherContract: what a switcher backend promises

The abstract specification of a backend, as the executor sees it: a command handed to it is sent in at
most `MaxTries` tries, each of which the switcher carries out at most once; no try is made after the
outcome was reported; and a command is reported as done only if its last try was carried out.
`AtemSession` implements it with one try, `VmixBackend` with one more for each retry.  A command that
was reported as failed may still run later: none of the three protocols lets the client take it back.

### AtemSession: the ATEM backend and its UDP session

Three threads: the poll loop (`pc`), the receiver thread (`rx`), and the web thread that disconnects
the session during an apply (`web`).

| Actions | Code |
| --- | --- |
| `Poll`, `StartReconnect`, `Connecting` (`OpenSocket`, `HandshakeDone`, `HandshakeFails`) | `AtemSwitcher.poll`, `reconnect`; `AtemProductionClient.connect` |
| `SendCommand`, `RefuseCommand` | `set_preview`, `cut`, `auto` up to the packet's sending |
| `WaitForAck` (`AckWoken`, `ReceiverFailed`, `AckTimeout`, `ReadAck`, `AckReadFails`) | `_wait_for_transport_ack`, with or without a receiver |
| `WaitForFeedback`, `Confirmed` | `_wait_for`, and what `AtemSwitcher` makes of its result |
| `Receiver` (`RxReceive`, `RxDispatch`, `RxEnd`, `Wake`) | `_receive_loop` |
| `WebStop`, `WebClose`, `WebWake` (in `NextWithApply`) | `AtemManualControlClient.disconnect`, called by an apply |
| `Switcher` (`Execute`, `FadeEnds`, `Panel`, `Repeat`, `Lose`, `Overtake`, `Restart`) | the switcher, its panel, the network (external) |

Commands and packet ids are numbers; `acked`, `waiters` and `woken` are the client's sets of ids.
Abstractions: a packet is an ACK or a state (Program and Preview), not bytes; time-outs may come at
any moment; the product name, inputs and tally are left out.

### VmixBackend: HTTP commands with a retry

A request may be lost before vMix, may lose its answer, or may still be carried out after its time-out
(`requests`, `answered`); `AttemptFails` is `HttpClient.request`'s loop, which repeats any GET
(`Retries` is 1 in the runtime, `switchers/factory.py:54`, and in every run); `Succeed` enters the
expected state in advance as `cut` and `fade` do; `Poll` reads vMix's own. XML and input names are
abstracted to the reported source.

### OseeSession, OseeDeckManual, GspParser: the Osee GoStream backends

`OseeSession` has the poll loop, the reconnect worker and the thread of an apply, which replace and use
`transport` and `controller` without a lock; transports are numbered, so that a message handled by the
controller of another transport and a socket nobody closes can be told.  One `recv` may return any part of
what has arrived.  The apply disconnects the backend (`WebCloses`, `WebUnflags`); then it has another one
made, and this one is no longer used (`retired`), or that fails and it connects and polls this one again
(`WebConnects` .. `WebHandles`) beside loop and worker, which `shared` records.

`OseeDeckManual` is the manual client of the Deck: a caller that waits on a condition for feedback,
and the receiver that counts it.  A critical section is one step; what the waits test is `Predicate`.
A wait may time out where `Unanswered` says so: feedback that is under way is quicker than the
time-out, a transition may be slower.  A CUT pushes Program and Preview, and either confirms it;
the second push may then confirm the next command, which `PreviewWasShown` takes into account.

`GspParser` is `GspStreamParser.feed`, one iteration of its loop a step, over the bytes 0..`Top` with a
header, one length byte and a checksum.  `Parse` is the reference: the parse of a whole stream by
position.  Streams are made of sound, broken and torn packets and noise, and cut anywhere; `sent` is
the stream, `due` the payloads that must come out of it.  `disconnect()`, called by another thread, may
fall between two iterations of `feed`, and `connect()` after it; inside an iteration it may not, though
the code's `find` and `del` are separate calls.

### ViscaLink: one camera session down to its datagrams

`Call` and `Encode` are `CameraSession.send_command` and the encoder; `TestSocket`, `SendTo`,
`Retry`, `Raise` are the two transports, one access to `_socket` at a time, because the web thread
disconnects (`WebTests`, `WebCloses`, `WebClears`) between any two of them; `Exit` is
`SafeStopCameraSession.__exit__`; the network delivers, loses or reorders, a signal kills (external).
What may go wrong besides failing sends is chosen initially and kept (`faulty`, one of `Environments`).
`PtzRouting` and `ConfigApply` take a send as one step; this module says what that step hides.

### ConfigStore: the configuration files and their editor

A YAML document is the function from the paths of its leaves to their values (a keyed list's item has
its key in the path), so that `deep_merge_config` is a union in which the override wins.  Pages are
read (`OpenPage`), held, and saved later (`SaveForm`, `SaveRaw`); `Import`, `HandEdit`, `Apply`,
`ApplyEnds` and `Restart` complete it.  `Load` merges, fills in the defaults of the switcher type and
validates, in the code's order.  The Osee Deck stands for the types with defaults.

### WebAuth, PendingConfirm: the web handlers around their awaits

The async handlers run alone between two awaits.  `WebAuth` splits each where it awaits the form
(`LoginBegins`, `LoginSucceeds`, ...), adds the page threads that read the password file and fill the
cache (`ReaderReads`, `ReaderVerifies`, `ReaderStores`), and the command line reset, a process of its
own.  `PendingConfirm` does the same for the changes that are previewed, kept under a token and
confirmed; a token carries its scope and expiry.  Its requests are POSTs, any number of which may be under
way from any browser and for any token.

### NetworkChange: the privileged helper

One action per `nmcli` call of the helper, each of which may fail; the handler that gives up after
30 seconds while the helper goes on (`TimeOut`); restore and reboot.  The validations on both sides
are compared over all addresses of four bits.  The interface is the configured one: the web process
takes any, the helper only those of `AllowedInterfaces`.

### AxisMapping: from the stick to the command

The whole conversion of one cycle in exact fractions: `Normalized`, `Deadzoned`,
`ThrottleMultiplier`, `Inverted`, `HatSpeed`, `Source`, `AxisSpeed`, `Command`.  The operator moves one
control by one notch at a time, so that monotonicity is an action property.

### JoystickMonitor: the joystick from the plug to the router

Discovery, opening, the two providers (evdev's event queue, pygame's polling), the monitor's health and
its announcements, and the bridge's use of both within a cycle (`SafeStop`, `Buttons`, `Route`), with
the stick unplugged and plugged between any two steps.  The initial state chooses the platform's
provider (`backend`).  When the kernel's queue overflows, what was in it is gone (`Queue`): `behind` has
the axes whose last move was dropped.  One stick is plugged in at a time.  `Polled` is one pass over the
queued events: `AxisAfter` is what the last event of an axis says, `Presses` counts those of the button.

### DiscoveryJobs: one network scan

The job's thread (`Submit` .. `Finish`), the pool's tasks (`StartTask`, `EndTask`), `Cancel`, and the
page that reads the payload field by field (`PageReads`): only some accesses take the lock.

### ConfigFiles: the calls that write the configuration

A save of the configuration page, call by call: `CopyOpens` and `CopyEnds` are `copy2` of the backup,
`Create`, `Write`, `Replace` are `atomic_write_text`, of a marker when there is no file to back up and then
of the file.  Every call may fail (`Fails`); between any two the process may die (`Crash`) or the machine
lose its power (`PowerFails`), which leaves of each file what `lost` says may have been undone since the
last `Flush`.  A file is its content, a number; what contents say is in `ConfigStore`.  An apply, which
makes the editor read the file again, is in `ConfigStore` too.

### StatusView: the event bus and what the pages see

The bus delivers inside `publish`, in the thread that publishes; `calls` is each thread's stack of
deliveries.  The router may publish from inside its handler (`StopPublishes`) or raise
(`StopRaises`), which in the web thread ends the apply before the provider's references are copied
(`ApplyEnds`).  `Insert` and `Trim` are the two list operations of `record_event` on each history.

### PtzRoutingProofs, ConfigApplyProofs, AtemSessionProofs, SwitcherProofs, OperatorProofs, DevicesProofs, WebProofs, ConfirmProofs

The theorems, see section 4.  The last five extend the composed model of the same name (`MCSwitchers`
and so on) and prove about each model in it.

### The composed models: MCMirror, MCSwitchers, MCOperator, MCWeb, MCConfirm, MCDevices

`PtzRouting`, `ConfigApply`, `AtemSession` and `ConfigStore` have instances of their own
(`MCPtzRouting`, `MCConfigApply`, `MCAtemSession`, `MCConfigStore`).  The other runs ask a question of
a whole side of the system, and their MC modules put the models of that side together: the module of
one model is extended, the others are instances with their own variables and bounds.

| Module | Question | Models (`part`) |
| --- | --- | --- |
| `MCMirror` | from the switcher to the joystick: does everything come to agree? | `PtzRouting`, `ConfigApply`, `AtemSession` |
| `MCSwitchers` | do the backends keep their promises? | `VmixBackend`, `OseeSession` (twice), `OseeDeckManual` (twice), `GspParser`, `AtemSession` in trouble |
| `MCOperator` | from the stick to the camera | `AxisMapping`, `ViscaLink` (failing sends only; a disconnect and a kill too; every fault) |
| `MCWeb` | what the web process keeps and shows | `WebAuth` (sessions, and the limiter), `ConfigStore`, `ConfigFiles`, `StatusView` |
| `MCConfirm` | a change that waits for a confirmation | `PendingConfirm`, `NetworkChange` |
| `MCDevices` | finding devices and keeping them | `DiscoveryJobs`, `JoystickMonitor` (with either provider) |

The constant variable `part` says which model a behaviour belongs to; its steps are those of `Next`,
the other models stay in an initial state.  These models share no variable in the modules either
(where two parts of the program share state, one module has both), so nothing is lost by not
interleaving them, and the number of states is the sum and not the product.  An invariant holds of a
frozen model because it holds initially; some are guarded by `part` to spare TLC the evaluation.  The
fairness of each model is the one its module states, restricted to the behaviours of its part.  The
liveness formulas of the modules (`MirrorFollows`, `FieldsFollow`, `ClientFollows`,
`EveryCommandAnswered`, `JobEnds`, `StickIsUsed`) are restated there for several parts at once.

### How the modules fit together

`PtzRouting` and `ConfigApply` see a switcher as one step that works, fails or answers late; what they
allow it covers what `AtemSession`, `VmixBackend` and `OseeSession` do, and `SwitcherContract` states
the part the loop relies on.  They see a VISCA send as one step that works or raises; `ViscaLink`
shows when flags and camera agree across that step (`FlagsMatchCamera`) and how they part.  They see
the joystick as a reading that may vanish; `JoystickMonitor` shows which losses reach the loop that
way.  `AxisMapping` justifies the abstraction "deflected or not".  `ConfigApply` starts from a
configuration that has been loaded, `ConfigStore` from an apply that succeeds or fails.

## 3. What the runs show

Runs in which everything holds:

| Run | Checked | Shows |
| --- | --- | --- |
| `send_failures` | `MotionInv`, `NewCameraDoesNotInherit`, `RecallSurvivesRelease`, `ImplementsMotionControl` | With a send failing anywhere, one source mapped to a disabled camera: no camera is left moving unattended, and the loop implements MotionControl. |
| `mirror` | `FlagsExact`, `ActiveFollowsPreview`, `SafeExit`, `MirrorConverges`, `PreviewSettles`, `MirrorFollows` | An ATEM backend comes to show the switcher after a lost datagram, a receiver error and a panel move; the loop comes to mirror the switcher object in force, also after an apply that failed half way; a preview that stays gets the joystick to its camera; flags, active camera and exit are exact while sends succeed. |
| `apply_calm` | `CalmInv`, `SessionsMatchConfig` | Two applies of any configuration, one of them with a camera without a host, in every interleaving with the loop, while the stick stays released: no camera is left moving, and after the apply of a usable configuration the sessions are its cameras, whichever applies raised before. |
| `atem_reliable` | `AckIsHonest`, `SoleReader`, `ImplementsContract` | With losses, late ACKs, reordering, a failing receiver, reconnects and a restart of the switcher: a command executes at most once, is done only if it ran, and every ACK belongs to its packet. |
| `switchers_safe` | `SessionInv`, `FeedbackInv`, `ParserInv`, `ImplementsContract` | vMix with its retry implements the contract; the Duet's worker and an apply mix up no messages and leak no socket until an apply that could not make another backend connects this one; the Deck's waits succeed only for what its own command did, also when a transition outlives its wait; framing does not depend on where the stream is cut. |
| `switchers_follow` | `BackendsFollow`, `NobodyWaits` | vMix with its retry, the Duet and the Deck's client end up showing Program and Preview; neither a disconnect by the web thread nor a restart of the switcher leaves a caller waiting for ever. |
| `operator` | `FatalOnlyByWeb`, `LinkIsExact`, `StillAfterExit`, `MappingInv`, `FurtherIsFaster` | For every position of stick, throttle and hat under five configurations the commands are what an operator expects; flags and camera agree across failing sends and retries; only a concurrent disconnect makes a send fail with anything but a `ConnectionError`. |
| `web` | `AuthInv`, `LimiterMatches`, `StoreInv`, `FilesInv`, `ViewInv`, `NothingLost` | No session outlives a change of the password, and the limiter refuses whoever failed too often within the cooldown; what was saved loads again and differences are shown as pending; the configuration file stays whole, and what a save replaces is in the backup, through failing calls, crashes and power failures; the pages show what happened and what is in use. |
| `confirm` | `ConfirmInv`, `NetworkInv`, `AnswerIsReal` | Changes confirmed twice, also at the same time, late, or by another session; network changes and restores whose steps fail, with reboots: no mixture of two settings, and a success that is reported is real. |
| `devices` | `ScanInv`, `StickInv`, `CancelIsKept`, `DevicesSettle` | A scan cancelled, read and ending at any moment tells the truth and ends; a stick unplugged and plugged between any two steps stops the camera, loses no press that the queue had room for, and is used again. |

A property named `...Inv` is a conjunction of named parts, each stated and explained in its module:
`SessionInv` of `HandledByItsController` and `NoLeakedSession`; `FeedbackInv` of `PreviewWasShown` and
`AutoIsOurs`; `ParserInv` of `ChunkIndependent`, `SoundPacketsComeOut` and `BufferStaysShort`;
`MappingInv` of `NoValueError`, `ReleasedSendsNothing`, `HatAgreesWithStick` and `FullDeflection`;
`LinkIsExact` of `FlagsMatchCamera` and `NumberedApart`; `AuthInv` of `SessionsAreCurrent` and
`CacheTruthful`; `StoreInv` of `LoadsWhatWasSaved` and `PendingIsHonest`; `FilesInv` of
`LocalIsWhole`, `EditorFollows` and `TempsAreRemoved`; `ViewInv` of `HistoriesAgree` and `AppliedIsShown`;
`ConfirmInv` of `MadeOnce`, `MadeInTime` and `SameSession`; `NetworkInv` of `HelperAgrees`,
`SettingsWhole` and `BackupWhole`; `ScanInv` of `CompleteIsAll`, `PageSeesAll` and
`QuietWhenFinished`; `StickInv` of `StillWhenLost`, `PressesKept`, `LossNotRepeated` and
`FollowsStick`.  The state modules' type invariants are among the parts; those of `ConfigApply`,
`AtemSession`, `VmixBackend` and `ViscaLink` are proved instead (section 4).

Runs that end in a violation of what a comment or a docstring says; they are the findings in
`PROJECT.json`:

| Run | Violated | Shows |
| --- | --- | --- |
| `apply_while_moving` | `StillWhenReleased` | The loop moves a camera again after the apply's stop and before it clears the flags: the released stick then stops nothing. |
| `config_stale_button` | `SavedConfigLoads` | A button of the example that is saved without its source gets it back from the example when the files are merged. |

### Where the code parts from these properties

A property above holds under the constants of its run.  Most of these constants are switches for
something the code meets and does not withstand; turning one leads TLC to the behaviour described, as
does dropping the premise where a row names one.

| Constant, property | Behaviour |
| --- | --- |
| `PtzRouting` with `StopOnSwitch = FALSE`: `NewCameraDoesNotInherit` | With `ptz.stop_on_switch: false` a cut or auto mirrors the switcher without any stop (`runtime/switcher_executor.py:126`): the camera goes on moving, the flags stay set, and the released stick stops the new camera instead. |
| `SendMayFail = TRUE`: `ActiveFollowsPreview` | `set_preview` assigns the preview, then stops the old camera (`state_machine/preview_program.py:36`).  When the stop raises, a button's `execute` catches it and the old camera stays under the joystick until the preview changes again. |
| `ConfigApply`: `SessionsMatchConfig` without `config.reachable` | A camera without a host in the example file passes validation and makes `rebuild_sessions` raise (`runtime/joystick_switcher_bridge.py:163`): the new configuration is in force with the old sessions, until the next apply. |
| `ConfigApply`, any configuration: `ActiveFollowsPreview` | A preview change of the loop that overlaps an apply stores the camera it selected from the old configuration over the recomputed one (`app_state.py:79`). |
| `AtemSession` with `NextWithApply` for `Next`: `AckIsHonest`, `SoleReader` | The end of the receiver wakes every waiter as if acknowledged (`switchers/atem_control_probe.py:139`); a command that starts to wait then reads the socket beside it (`:319`). |
| `IdMax` below `MaxCommands`: `AckIsHonest` | Ids of late ACKs are never forgotten (`:303`) and are credited to another packet once the sequence has wrapped. |
| `MayRestart`, `HandshakesFail`, `Reorders`: `MirrorFollows` | A switcher that restarts is silent and never noticed (`:162`); one that does not answer the first attempt is reported as connected and never connected (`switchers/atem.py:80`); state that is overtaken is applied in the order of arrival (`switchers/atem_probe.py:396`). |
| `OseeSession` with `Silent = TRUE`: `MirrorFollows` | A session that ends without a word is noticed only at the next command (`switchers/osee_gsp.py:296`). |
| `OseeSession`: `SessionInv` and the last part of `MirrorFollows` without `~shared` | When `create_switcher` raises, the apply connects and polls the old backend in the web thread (`runtime/joystick_switcher_bridge.py:183`) while the reconnect worker may replace its transport (`switchers/osee_gostream_duet.py:136`): a socket stays open that nobody closes, and messages of one session are handled by the controller of another, or in another order. |
| `ViscaLink` in the environments with `"web"`, `"kill"` or `"lose"`, without the premises of `LinkIsExact` and `StillAfterExit` | A disconnect between the test of the socket and its use violates the assertion in `send` (`ptz/transport.py:100`), SIGTERM runs no safe stop (`ptz/session.py:131`), and a lost stop leaves a camera moving with clear flags (`ptz/transport.py:105`). |
| `AxisMapping` with `pan_max` 30, a `pan_min` above `pan_max`, or a threshold of 0: `NoValueError`, `ReleasedSendsNothing` | All are valid configurations (`models/ptz.py:12`, `models/joystick.py:63`): the first ends the loop at full deflection and the second whenever the axis moves, the third makes a centred stick count as moved (`runtime/ptz_router.py:174`). |
| `JoystickMonitor`: `FollowsStick` without `\ behind` | After `SYN_DROPPED` an axis whose last move was dropped, such as a release, stays where it was until it moves again (`joystick/linux_evdev.py:212`). |
| `ConfigStore` with `EditDuringApply = TRUE`: `PendingIsHonest` | A file written during an apply counts as loaded (`webui/config_runtime.py:88`). |
| `NetworkChange` with `Helpers = {1, 2}`: `BackupWhole` | A helper that outlives its handler's 30 seconds (`network_manager.py:137`) mixes two settings in the next one's backup. |
| `NetworkChange`: `HelperAgrees` without `AllowedInterfaces` | The web process passes on the configured interface, which may be any name (`webui/app.py:888`, `models/network.py:26`); the helper refuses all but `eth0` (`deploy/ptz-network-helper.py:32`). |

Some behaviours of the models are within the properties and worth knowing all the same:

* A vMix Cut or Fade whose answer is lost is sent again, and both may run
  (`switchers/http_client.py:111`): `SwitcherContract` bounds the executions by the tries.
* When the new switcher cannot be created, the old one is connected again
  (`runtime/joystick_switcher_bridge.py:183`), against the comment at line 172; and the worker of a
  backend that an apply has dropped may connect it again (`switchers/osee_gostream_duet.py:140`).
  `OseeSession` has the first; the ATEM and vMix backends are not connected from the web thread in
  their modules.
* The position of a stick that is held when it is opened is not told to evdev
  (`joystick/linux_evdev.py:212`), so `FollowsStick` speaks of the axes that have moved since.
* The limiter forgets failures only with a success or the end of a block: an address with one failure
  less than allowed, however old, is blocked by the next one (`webui/auth.py:156`).
* Failed openings separate announcements: disconnected, error, disconnected is published for a loss
  that goes on (`joystick/runtime.py:71`, `:90`).
* An apply that raises after it replaced the switcher leaves the pages with the old object
  (`webui/config_runtime.py:76`); a stop request is listed above the stop it caused (`event_bus.py:42`).
* A stick unplugged while the switcher is polled ends the loop (`runtime/joystick_switcher_bridge.py:110`).
* An import does not replace what it leaves out (`webui/config_editor.py:475`); the export leaves out
  what loading fills in (`:465`); a page opened before a camera was added disables it (`:358`).
* A setup form that was under way replaces a password set in the meantime (`webui/app.py:1024`); a
  change may be kept without a session when the session ends during the upload (`:1130`).
* A network change that fails has already overwritten the backup (`deploy/ptz-network-helper.py:42`).

### Bounds

`PtzRouting` has no counters, so its only bounds are the sets.  Two driven cameras are enough for
one to be left and one entered; a third source gives the handover to "no camera" and to a camera
without a session; one foreign id gives the rejected report.  `ConfigApply` bounds the number of
applies (`MaxApplies`, which also numbers the switcher objects): one apply overlaps the loop in every
way (`mirror`), a second one meets what the first has left (`apply_calm`).

The other modules name their bounds in the header comment and have them as constants.

* `ConfigApply`'s second apply is also the one that has to set right what a first, which raised, left.
* `JoystickMonitor`: a queue short enough to overflow with the moves and presses of one cycle.
* Commands, faults and panel moves: two commands let the late effects of the first meet the waits of
  the second; the Deck has four (`DeckCommands`), so that the second pushes of three CUTs can all be
  under way when a Preview waits.  One or two faults reach every error path, and a fault during the
  recovery from one.
* `ViscaLink`: four commands and three faults where only sends fail, two and two in the other
  environments.  With four sequence numbers no run of failures skips a whole turn of them.
* Packet ids (`IdMax`) wrap after 3 or 2 instead of 65535, VISCA's sequence after 4 instead of 2^32.
* `GspParser`: the bytes 0..4, three pieces, two connections, packets of at most 4 bytes, `recv` of 4:
  every cut of a packet, and garbage before, between and behind packets.  The theorem has none of
  these bounds.
* `ConfigFiles`: four saves and two crashes or power failures, so that a save can follow one that died
  in the backup and another that died in the file.  The theorems have neither bound.
* `AxisMapping`: `One` = 3600 makes every division of the configurations exact; seven positions per
  axis have the centre, both sides of the dead zone and the end.
* `WebAuth`, `PendingConfirm`: two browsers; lifetimes of one or two ticks, so that everything can
  expire between two steps.  Two POSTs are under way at a time, which is enough for two confirmations of
  one token, from one browser or two.
* `StatusView`: histories of one and two entries, three events and two applies, so that every list
  overflows while two threads insert.

The theorems of section 4 remove the bounds of the modules they are about.  `CHECK_DEADLOCK FALSE`
stands where an execution ends because a bound is used up, or because the process has ended (a kill,
the end of a manual client); the runs without it (`send_failures`, `apply_calm`, `atem_reliable`,
`devices`) have no such end.  Symmetry is used in runs without liveness only. The larger runs have
a few million states.

### Fairness

Every fair specification has weak fairness only, and only of what the program's threads do by
themselves.  The loop runs `poll_once` for ever in one thread and the button events of a cycle are a
finite list, so each phase is taken again and again; the receiver, the reconnect worker, the pool and an
apply that has started run in threads that nothing blocks for ever, since every wait has a time-out.  Of
the environment, only this is assumed: a transition ends, a switcher that received a request answers it
(`SwitcherExecutes`, `Execute`), an ATEM repeats state that was not acknowledged (`Repeat`), and a probe
has its time-outs (`EndTask`; that of the vMix probe, `discovery/network_probe.py:121`, is one for each
read, so a host that sends a byte at a time for ever is excluded).  Nothing is assumed of operators,
panels, losses or failures, which are bounded in number instead: the liveness properties say what holds
once they have come to an end.  `DevicesSettle` says of a stick that it is used or that the loop has
ended, as a lost stick may end it (`ButtonsRaise`).  `MirrorConverges` has as its premise that the
switcher stays reachable with one supported source in preview and that the process stays up.

## 4. What is proved

`ConfigApplyProofs`, for all configurations, any number of applies, and every interleaving:

| Theorem | Needs | Says |
| --- | --- | --- |
| `TypeCorrect` | | `[]TypeOK`, and the loop commands only a session it has captured |
| `CalmApplyIsSafe` | `CalmOperator` | `[](CalmInv /\ StillWhenReleased)`, hence `[]NoOrphanMotion` |
| `ReleasedIsStill`, `OrphanFree` | `CalmOperator` | `[]StillWhenReleased`, `[]NoOrphanMotion` |
| `SessionsFollowConfig` | | `[]SessionsMatchConfig` |

`CalmInv` is inductive because the loop starts a motion only with the stick deflected, and then no
apply is under way (`StickAgrees`); because each stop, in whichever thread, leaves nothing in motion
(`StoppedIsStill`); and because the session a thread captured is still the one that moves when it is
halted, though the active camera may have changed since (`CapturedMoves`).  `rebuild_sessions` makes all
sessions before it replaces any, so whether it raises or not the sessions are those of one usable
configuration.

`PtzRoutingProofs`, for all sources, cameras, mappings and readings of the stick:

| Theorem | Needs | Says |
| --- | --- | --- |
| `TypeCorrect` | | `[]TypeOK` |
| `MotionInvariant` | stop on switch | `[]MotionInv`, the inductive invariant |
| `OrphanFree`, `MotionAlwaysTracked`, `ReleasedIsStill` | stop on switch | `[]NoOrphanMotion`, `[]MotionTracked`, `[]StillWhenReleased` |
| `CleanInheritance`, `RecallSurvives` | stop on switch | the two action properties |
| `Refinement` | stop on switch | `Spec => Control!Spec` |
| `SafeEnd` | stop on switch, sends succeed | `[]SafeExit` |
| `ActiveIsPreviewed` | sends succeed | `[]ActiveFollowsPreview` |
| `FlagsAreExact` | stop on switch, sends succeed | `[]FlagsExact` |

The argument.  `NoOrphanMotion` alone is not inductive: a stop sends the tracked axes only, so it
leaves a camera at rest only if the flags cover its motion (`MotionTracked`); a request for a camera
without a session does nothing, so nothing may be flagged then (`FlagsNeedSession`); and a released
stick ends a cycle at rest only if the joystick's absence did not hide motion before
(`StillWithoutJoystick`).  `TravelUntracked` is what keeps a released stick from stopping a preset
recall.  Their conjunction is `MotionInv`.  Every stop and every preview change is shown once to be
`Calms` (motion only shrinks, still covered by the flags) and a `CleanHandover` (flags empty when the
active camera changes); each action then follows from `CalmStep`, except `RouteControls` and
`PresetButton`, which have lemmas of their own.  The refinement needs no more than the invariant in
both states and `CleanHandover`.  The assumptions on the constants are those named in `PtzRouting`:
the mapping is a function into the configured cameras, and the "none" values are distinct.

The other modules.  Their theorems are about the modules' own specifications or about `MCSpec` of the
composed model, which has the module as a part; the constants of both are arbitrary within the named
assumptions.

| Module, theorem | Needs | Says |
| --- | --- | --- |
| `AtemSession`: `AckHonest` | `Undisturbed` | `[]AckIsHonest` |
| `OneReader` | | `[]SoleReader` |
| `Refinement`, `TypeCorrect` | `Undisturbed` | `Spec => ImplementsContract`, `[]TypeOK` |
| `VmixBackend`: `Refinement`, `TypeCorrect` | | `Spec => ImplementsContract`, `[]TypeOK` |
| `OseeSession`: `SessionsNeverMix` | `SwitcherBounds` | `[]SessionInv` |
| `OseeDeckManual`: `AnswersAreOurs` | `DeckMoves = 0` | `[]FeedbackInv` |
| `GspParser`: `ParserMakesTheStream` | `SwitcherBounds` | `[]ParserInv` |
| `MeaningDef`, `EncodedDecodes` | `SwitcherBounds` | the parse is defined for every stream; decoding undoes encoding |
| `ViscaLink`: `FlagsAreTrue` | | `[](Ordered => FlagsMatchCamera)` |
| `Exact`, `ExitStopsCamera` | `FewFaults` | `[]LinkIsExact`, `[]StillAfterExit` |
| `OnlyWebIsFatal`, `TypeCorrect` | | `[]FatalOnlyByWeb`, `[]TypeOK` |
| `AxisMapping`: `PositionsMean`, `PushingIsFaster` | `AxisAssumption` | `[]MappingInv`, `FurtherIsFaster` |
| `DiscoveryJobs`: `HonestJobs` | | `[]ScanInv`; its parts are `CompleteJobs`, `CompletePages`, `QuietJobs`, `TypeCorrect` |
| `CancellationIsKept` | | `CancelIsKept` |
| `JoystickMonitor`: `StickIsFollowed` | | `[]StickInv` |
| `WebAuth`: `NoEarlierPassword` | | `[]AuthInv`; its parts are `SessionsCurrent`, `CacheIsTruthful`, `TypeCorrect` |
| `LimiterCounts` | | `[]LimiterMatches` |
| `ConfigStore`: `FilesAndRuntimeAgree` | `StoreAssumption` | `[](TypeOK /\ PendingIsHonest)` |
| `StoreHolds` | and `PlainButtons` | `[]StoreInv` |
| `ConfigFiles`: `FilesAreWhole` | | `[]FilesInv` |
| `ConfigStore`, `ConfigFiles`: `NothingIsLost` | | `NothingLost`, which is `UnrelatedKept` and `ReplacedIsKept` |
| `StatusView`: `PagesAreTrue` | | `[]ViewInv` |
| `PendingConfirm`: `ConfirmedProperly` | | `[]ConfirmInv`; its parts are `ConfirmedOnce`, `ConfirmedInTime`, `ConfirmedInSession`, `TypeCorrect` |
| `NetworkChange`: `SettingsAreWhole`, `SuccessIsReal` | `[]OneAtATime` | `[]NetworkInv`, `AnswerIsReal` |

`AtemSession`.  `Spec` is the session between two applies, and `Undisturbed` is `MaxCommands <= IdMax`:
no packet id is used twice.  Both are needed, as the table of section 3 shows.  Losses, errors, late
ACKs, reorderings, reconnects and restarts of the switcher are all allowed.  The inductive invariant
`IInv` says which ids may be in `acked`, `woken` or an ACK under way (only those of packets the switcher
received), that a packet under way has the number and id of an issued command, and how the loop's place,
its waiter and its result fit together.  `OneReader` needs only where loop and receiver are and which
flags let the loop read for itself; it holds with ids that wrap.

`VmixBackend`.  For any number of retries.  The invariant: the attempts of a command that are under way
or have been carried out are among those it has got to, none is in both sets, and only the command in
hand has attempts to come.

`OseeSession`.  `OseeIInv` ties each place of the worker to the transport and controller in use: a
controller is set only while its transport is, at most the current transport is open, and messages the
loop holds belong to the controller that will handle them, because the worker does not begin a new
session before they have been handled.  All this holds until an apply connects the backend beside the
worker (`shared`), where the code breaks it (section 3).

`OseeDeckManual`.  The hypothesis says that nobody works at the Deck's panel: the client cannot tell
the panel's AUTO from its own, and with a move `AutoIsOurs` is false.  `DeckIInv` reads what
the receiver holds and what the network holds as one line (`Stream`).  Requests are carried out in the
order of their numbers (`LineInv`); a Preview in the line, or the last one that came since the command's
baseline, was seen on the switcher (`ShownInv`); and at most one start of a transition is in the line,
that of the AUTO at work, with no end behind it but its own (`TransitionIInv`).

`GspParser`.  The reference `Parse` is a recursive function of a stream of any length, so three things
come first.  Induction: the library's theorems take an operator, which no backend can instantiate, but
the least element of a set (`WFMin`) is first order, and `NatSetInduction` follows from it.  Existence:
a recursive function is a CHOOSE, of which nothing is known before some function is shown to satisfy its
equation; `RecursiveFunction` shows it of every recursion that lowers a rank, and `MeaningDef` of the
parse, which moves on by a packet or by a byte.  Reading: `SkipNoise`, `ReadPacket`, `ReadBadLength` and
`ReadEnd` say what the parse does at a position.  `ParserInv` itself speaks only of the states between
two calls of `feed`; the invariant `GspIInv` speaks of each iteration and of every continuation of what
was received, because a packet may still be completed: the buffer is the end of the received stream
(`WindowInv`); what came out so far, joined with the parse from the buffer's first byte, is the parse of
the whole, for whatever the switcher still sends (`OutInv`); between two calls nothing can be parsed of
what is kept (`RestInv`); and the parse of what was sent goes on where the last piece ends, unless that
piece was torn (`DueInv`).  The last holds because no piece starts with the second byte of a header, so
that half a header stays noise.

`ViscaLink`.  `Ordered` excludes loss and reordering, not failing sends, retries, a kill or the web
thread; a lost stop shows why.  The invariant relates the flags, the commands still to be sent and the
datagrams under way: what the camera will do when all have arrived (`Ends`).  For the numbers, `GapInv`
counts: the newest datagram is `k` numbers behind the next packet, and the `k - 1` between them were
given up after two failed attempts each.  So the numbers can only meet if as many packets were given up
in a row as there are numbers; `FewFaults` excludes it, which for the 2^32 numbers of the code asks for
less than eight thousand million failures.

`AxisMapping`.  `AxisAssumption` asks what the models' validation accepts and three things more:
speeds the camera knows, a range that does not end before it begins, and a threshold above zero.  Section 3
shows what happens without them.  The unit, the number of notches and the flat zone are arbitrary, so
the theorem does not depend on fractions that come out even.  The way from a reading to a speed is a
chain of products and rounded quotients with a sign; a lemma per link says that it keeps the range
and the order of sizes, and turns the sign as configured.

`DiscoveryJobs`.  The invariant ties the place of the job's thread to what has been collected and
published, and the fields the page has read so far to the order in which the payload reads them.

`JoystickMonitor`.  `StickIInv`: the health is connected just while there is a provider; after each step of
a cycle the motion is what the snapshot in hand asks for, or a stop is still to come; presses are in
the queue, in the provider, carried out or dropped by an overflow; and what the provider knows, with what
is still queued, is where the stick is, but for the axes in `behind`.

`WebAuth`, `PendingConfirm`.  The cache holds the answer for the hash it names; a session's generation
is the current one because a change invalidates all and a login that awaited its form verifies
afterwards; a token that was used is gone, and what is kept under it carries the scope that was computed
when it was kept.  A confirmation takes its token out of the table in the step that makes the change, so
that however many POSTs are under way one of them makes it.  For the limiter, the failures that are no
longer counted are no longer recent, and an address is blocked until the cooldown after its last
failure.

`ConfigStore`.  `FormInv`: what the editor holds passed validation, a page is a form of it, and what is
applied was loaded from the file as it is.  That a saved form loads again is a computation: the
difference of form and example, merged over the example, gives the form back, up to keys the form
cannot remove.  `PlainButtons` excludes an example that has such keys; `config_stale_button` is the
counterexample, for an example with one.

`ConfigFiles`.  `FilesIInv` follows a save through its calls: from the end of the copy to the replacement
the backup holds what is being replaced; what a power failure may leave of the local file is always a
whole content, because the renamed file was synced; and temporary files are counted against crashes.

`StatusView`.  `StatusIInv` counts, per history, what each thread has still to insert and to trim; the
histories agree up to these.

`NetworkChange`.  There may be any number of helpers; the premise `[]OneAtATime` says that none works
while another does.  It is an assumption: it holds as long as every helper ends within its handler's 30
seconds and nobody runs `scripts/restore_network_config.py` beside a change made in the web interface.
`NetworkIInv` says for each place of the helper at work which parts of the profile it has already
written.  Without the premise `BackupWhole` is false (section 3).

Only model-checked.  Liveness, which is out of the prover's reach: `MirrorConverges`, `PreviewSettles`,
`MirrorFollows`, `BackendsFollow`, `NobodyWaits`, `DevicesSettle`.  Every other property of a passing run
is stated by a theorem.

## 5. What could follow

* A shared module of the loop and `ViscaLink`, with single datagrams under the poll loop.
* `DeckMoves = 0` replaced by what the operators do: a theorem for a panel that moves only while the
  client is idle.
* A third switcher type with defaults in `ConfigStore`.

## 6. Not modelled

* HTML rendering, page scripts, the formatting of status and diagnostics, and the read-only endpoints:
  they keep no state.  The bytes of VISCA commands and ATEM packets, XML, YAML and JSON parsing:
  tables and libraries; the modules take the parsed value.
* Switcher factory, capabilities, health and the fake switcher: construction by type, constant
  tables and test doubles.
* `state_machine/preview_program.py`'s own `cut`, `auto` and `copy_program_to_preview`, the router's
  `stop_hat`, `route_velocity` and `route_hat_step`, `ptz/presets.py`, the watchdog class,
  `osee_base.py`, and the apply without a bridge: nothing in the runtime calls them.
* The field ranges that pydantic declares, except where a property is about them (the largest speed, a
  threshold of zero).
* Joystick button and axis codes: tables.  Hashing, cookies and CSRF tokens: a session is known or not.
* The manual test scripts and the service file: operator tools outside the running system.
* The growth of the in-memory command logs, which nothing bounds and no document mentions.
