------------------------------- MODULE MCWeb --------------------------------
(* The web process: passwords, sessions and the login limiter of two       *)
(* browsers; the configuration files behind the configuration page, with   *)
(* one button, two inputs, cameras and slots, and the calls that write     *)
(* them; the events and the switcher the pages show.  The models share no  *)
(* variable; a behaviour of this module is one of one of them.             *)
EXTENDS WebAuth, TLC

CONSTANTS
  b1, b2,
  Example, Cameras, Inputs, DeckExtras, Buttons, Hosts, Presets, Imports, HandWritten, Tabs,
  MaxSaves, MaxCrashes,
  Size, MaxEvents, MaxApplies, MaxWrites,
  cam1, cam2, in1, in2, aux, btn, h1, one, t1

VARIABLES
  part,   \* the model at work
  local, editor, runtime, applying, newer, page, writer, writes,
  file, lost, temps, op, held, edited, saves, crashes,
  created, calls, history, apply, result, bridgeSw, shownSw

storeVars == <<local, editor, runtime, applying, newer, page, writer, writes>>
filesVars == <<file, lost, temps, op, held, edited, saves, crashes>>
statusVars == <<created, calls, history, apply, result, bridgeSw, shownSw>>
mcVars == <<part, vars, storeVars, filesVars, statusVars>>

MCPasswords == {Empty, "secret"}
Symmetry == Permutations(Browsers)

(* Many failed logins instead of many sessions and passwords.              *)
Limiter == INSTANCE WebAuth WITH MaxGen <- 1, MaxSessions <- 1, MaxAttempts <- 4, MaxTime <- 4

Store == INSTANCE ConfigStore WITH EditDuringApply <- FALSE

MCCameras == <<cam1, cam2>>
MCInputs == <<in1, in2>>

(* An entry without a value; a camera that is switched on.                *)
NotSet == "null"
CameraOn(c, host) == (<<"cam", c, "host">> :> host) @@ (<<"cam", c, "enabled">> :> "on")

(* The example: vMix, one camera without a host, one input mapped to it,   *)
(* the other to nothing, as config.example.yaml has them, and a button     *)
(* without an action, as button_10.                                        *)
MCExample ==
  (<<"switcher">> :> "vmix") @@ CameraOn(cam1, NotSet)
  @@ (<<"map", in1>> :> cam1) @@ (<<"map", in2>> :> NotSet)
  @@ (<<"button", btn, "action">> :> "none")

(* Every document names a camera's host and whether it is enabled, or      *)
(* neither, and the example alone loads.                                   *)
Slots(doc) ==
  \A p \in DOMAIN doc :
    /\ p[1] = "cam" => {<<"cam", p[2], "host">>, <<"cam", p[2], "enabled">>} \subseteq DOMAIN doc
    /\ p[1] = "map" => <<"map", p[2]>> \in DOMAIN doc
ASSUME StoreAssumption ==
  /\ \A doc \in {Example} \cup Imports \cup HandWritten : Slots(doc)
  /\ \A doc \in {Example} \cup Imports : <<"switcher">> \in DOMAIN doc
  /\ Store!Load(Store!NoFile) # Store!Failed
  /\ MaxWrites \in Nat

(* An export of another controller: no second mapping, one more camera.    *)
MCImports ==
  {(<<"switcher">> :> "vmix") @@ CameraOn(cam1, h1) @@ CameraOn(cam2, h1)
     @@ (<<"map", in1>> :> cam2)
     @@ (<<"button", btn, "action">> :> "recall") @@ (<<"button", btn, "preset">> :> one),
   (<<"switcher">> :> "deck") @@ (<<"map", aux>> :> cam1)}

(* Local files written by hand: a type and an unknown section, an unknown  *)
(* camera, an enabled camera without a host.                               *)
MCHandWritten ==
  {(<<"switcher">> :> "deck") @@ (<<"extra">> :> "kept"), <<"map", in2>> :> cam2,
   CameraOn(cam2, NotSet)}

(* The calls that write the local file.                                    *)
Files == INSTANCE ConfigFiles
ASSUME FilesAssumption == MaxSaves \in Nat /\ MaxCrashes \in Nat

MCSize == [recent |-> 1, diagnostic |-> 2, actions |-> 1]
Status == INSTANCE StatusView
ASSUME StatusAssumption ==
  Size \in [Status!Histories -> Nat] /\ MaxEvents \in Nat /\ MaxApplies \in Nat

MCInit ==
  /\ part \in {"sessions", "limiter", "store", "files", "status"}
  /\ Init /\ Store!Init /\ Files!Init /\ Status!Init

MCNext ==
  \/ part = "sessions" /\ Next /\ UNCHANGED <<part, storeVars, filesVars, statusVars>>
  \/ part = "limiter" /\ Limiter!Next /\ UNCHANGED <<part, storeVars, filesVars, statusVars>>
  \/ part = "store" /\ Store!Next /\ UNCHANGED <<part, vars, filesVars, statusVars>>
  \/ part = "files" /\ Files!Next /\ UNCHANGED <<part, vars, storeVars, statusVars>>
  \/ part = "status" /\ Status!Next /\ UNCHANGED <<part, vars, storeVars, filesVars>>

MCSpec == MCInit /\ [][MCNext]_mcVars

(* Files, editor and runtime agree, or a change is shown as pending.       *)
StoreInv == part = "store" => Store!StoreInv

(* The local file is whole and what the editor holds, and no temporary     *)
(* file stays.                                                             *)
FilesInv == Files!FilesInv

(* The pages show what happened and what is in use.                        *)
ViewInv == Status!ViewInv

(* A save loses nothing: the sections the form does not control stay, and  *)
(* the file it replaces is in a whole backup.                              *)
NothingLost == Store!UnrelatedKept /\ Files!ReplacedIsKept
=============================================================================
