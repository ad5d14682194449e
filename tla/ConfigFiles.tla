----------------------------- MODULE ConfigFiles ------------------------------
(* How the configuration page writes config.local.yaml and, before it, the    *)
(* backup config.local.yaml.bak (webui/config_editor.py, storage/             *)
(* atomic_write.py), call by call: the backup is a plain copy, the file       *)
(* itself a temporary file that is synced and renamed. Any call may fail (a   *)
(* full disk), and between any two the process may die or the power fail,     *)
(* which may undo what was not yet flushed. A file is its content, a number;  *)
(* what contents say is in ConfigStore.                                       *)
EXTENDS Integers

CONSTANTS
    MaxSaves,    \* bound: number of saves, imports and edits by hand
    MaxCrashes   \* bound: how often the process dies or the power fails

VARIABLES
    file,        \* the content of the "local" file and of its "bak"
    lost,        \* for each, what a power failure may leave instead
    temps,       \* number of temporary files in the directory
    op,          \* the save under way: its next call, the file it makes, the content saved
    held,        \* the content that ConfigEditor.current_config was made from
    edited,      \* an operator has edited the file since
    saves, crashes

vars == <<file, lost, temps, op, held, edited, saves, crashes>>

Files == {"local", "bak"}
Missing == 0
Torn == -1
Marker == -2    \* "# No previous config.local.yaml"
Idle == [pc |-> "idle", target |-> "local", new |-> Missing]
AtLocal == [op EXCEPT !.pc = "create", !.target = "local"]

Init ==
    /\ file = [f \in Files |-> Missing] /\ lost = [f \in Files |-> {}]
    /\ temps = 0 /\ op = Idle /\ held = Missing /\ edited = FALSE
    /\ saves = 0 /\ crashes = 0

(* save_patch and import_mapping, once the configuration has been validated.  *)
StartSave ==
    /\ op.pc = "idle" /\ saves < MaxSaves /\ saves' = saves + 1
    /\ op' = [pc |-> IF file["local"] = Missing THEN "create" ELSE "copy", target |-> "bak", new |-> saves']
    /\ UNCHANGED <<file, lost, temps, held, edited, crashes>>

(* --------------------------- _backup_local_config ------------------------- *)
(* copy2 truncates the backup, and fills it.                                  *)
CopyOpens ==
    /\ op.pc = "copy" /\ op' = [op EXCEPT !.pc = "copying"]
    /\ file' = [file EXCEPT !["bak"] = Torn]
    /\ lost' = [lost EXCEPT !["bak"] = @ \cup {file["bak"], Torn}]
    /\ UNCHANGED <<temps, held, edited, saves, crashes>>

CopyEnds ==
    /\ op.pc = "copying" /\ op' = AtLocal
    /\ file' = [file EXCEPT !["bak"] = file["local"]]
    /\ UNCHANGED <<lost, temps, held, edited, saves, crashes>>

(* ---------------------------- atomic_write_text --------------------------- *)
Create ==
    /\ op.pc = "create" /\ op' = [op EXCEPT !.pc = "write"]
    /\ temps' = temps + 1
    /\ UNCHANGED <<file, lost, held, edited, saves, crashes>>

Write ==
    /\ op.pc = "write" /\ op' = [op EXCEPT !.pc = "replace"]
    /\ UNCHANGED <<file, lost, temps, held, edited, saves, crashes>>

(* Mutant: renamed without os.fsync.                                          *)
UndoneUnsynced(old) == {old, Torn}

(* The temporary file has been synced, its renaming has not.                  *)
Undone(old) == {old}

Replace ==
    /\ op.pc = "replace"
    /\ temps' = temps - 1
    /\ file' = [file EXCEPT ![op.target] = IF op.target = "bak" THEN Marker ELSE op.new]
    /\ lost' = [lost EXCEPT ![op.target] = @ \cup Undone(file[op.target])]
    /\ IF op.target = "bak" THEN op' = AtLocal /\ UNCHANGED <<held, edited>>
       ELSE op' = Idle /\ held' = op.new /\ edited' = FALSE
    /\ UNCHANGED <<saves, crashes>>

(* ------------------------- failures and the machine ----------------------- *)
(* Mutant: the temporary file is left behind.                                 *)
TempsAfterErrorKept == temps

TempsAfterError == IF op.pc \in {"write", "replace"} THEN temps - 1 ELSE temps

(* Mutant: the backup is best effort.                                         *)
AfterErrorGoesOn == IF op.pc = "copying" THEN AtLocal ELSE Idle

(* An error ends the save; the temporary file is removed.                     *)
AfterError == Idle

Fails ==
    /\ op.pc # "idle" /\ op' = AfterError /\ temps' = TempsAfterError
    /\ UNCHANGED <<file, lost, held, edited, saves, crashes>>

(* The process dies, alone or with the machine, and is started again.         *)
Restarted ==
    /\ crashes < MaxCrashes /\ crashes' = crashes + 1
    /\ op' = Idle /\ held' = file'["local"] /\ edited' = FALSE
    /\ UNCHANGED <<temps, saves>>

Crash == op.pc # "idle" /\ UNCHANGED <<file, lost>> /\ Restarted

PowerFails ==
    /\ \E bak \in {file["bak"]} \cup lost["bak"], local \in {file["local"]} \cup lost["local"] :
         file' = [file EXCEPT !["bak"] = bak, !["local"] = local]
    /\ lost' = [f \in Files |-> {}]
    /\ Restarted

(* The system writes back what it has cached.                                 *)
Flush ==
    /\ op.pc # "copying" /\ lost' = [f \in Files |-> {}]
    /\ UNCHANGED <<file, temps, op, held, edited, saves, crashes>>

(* An operator replaces the file on the machine.                              *)
HandEdit ==
    /\ op.pc = "idle" /\ saves < MaxSaves /\ saves' = saves + 1
    /\ file' = [file EXCEPT !["local"] = saves'] /\ lost' = [lost EXCEPT !["local"] = @ \cup {file["local"]}]
    /\ edited' = TRUE
    /\ UNCHANGED <<temps, op, held, crashes>>

Next ==
    \/ StartSave \/ CopyOpens \/ CopyEnds \/ Create \/ Write \/ Replace
    \/ Fails \/ Crash \/ PowerFails \/ Flush \/ HandEdit

Spec == Init /\ [][Next]_vars

(* ------------------------------- properties ------------------------------- *)
TypeOK ==
    /\ file \in [Files -> -2..MaxSaves] /\ temps \in Nat /\ held \in -2..MaxSaves /\ edited \in BOOLEAN
    /\ op.pc \in {"idle", "copy", "copying", "create", "write", "replace"} /\ op.target \in Files

(* The file the process starts from is never half written, whichever call of  *)
(* a save failed or was the last one before a crash or a power failure.       *)
LocalIsWhole == file["local"] \notin {Torn, Marker}

(* Between saves the editor holds what the file says, also after a save that  *)
(* failed in any of its calls, unless somebody edited the file meanwhile.     *)
EditorFollows == op.pc = "idle" /\ ~edited => held = file["local"]

(* Only a crash leaves a temporary file behind, one at most.                  *)
TempsAreRemoved == temps <= crashes + IF op.pc \in {"write", "replace"} THEN 1 ELSE 0

FilesInv ==
    /\ TypeOK
    /\ LocalIsWhole
    /\ EditorFollows
    /\ TempsAreRemoved

(* What a save replaces is whole in the backup when it is replaced, also when *)
(* earlier saves failed or died while they made theirs.                       *)
ReplacedIsKept ==
    [][op.pc = "replace" /\ op.target = "local" /\ op' = Idle /\ crashes' = crashes /\ file'["local"] # file["local"]
         => file["bak"] = IF file["local"] = Missing THEN Marker ELSE file["local"]]_vars
===============================================================================
