----------------------------- MODULE ConfigStore -----------------------------
(* The configuration: config.example.yaml and config.local.yaml merged by     *)
(* config.py, edited by webui/config_editor.py from pages that browsers hold, *)
(* and applied to the runtime by webui/config_runtime.py.                     *)
(*                                                                            *)
(* A YAML document is the function from the paths of its leaves to their      *)
(* values; an item of a keyed list has its key in the path. The recursive     *)
(* merge of mappings and keyed lists is then a union in which the override    *)
(* wins. A path is <<"switcher">> (the type), <<"cam", c, "host" | "enabled">>,*)
(* <<"map", source>> (the camera of a source), <<"button", b, "action" |      *)
(* "source" | "preset">> or <<"extra">>, a section the schema does not know.  *)
EXTENDS Naturals, Sequences, FiniteSets, Functions

CONSTANTS
    Example,      \* the document config.example.yaml
    Cameras,      \* the camera ids cam1, cam2, ..., a sequence
    Inputs,       \* the inputs Input 1, Input 2, ..., a sequence of that length
    DeckExtras,   \* the sources of the Osee Deck besides its inputs
    Buttons,      \* CANONICAL_BUTTON_IDS
    Hosts,        \* host names an operator enters
    Presets,      \* preset numbers
    Imports,      \* documents an operator imports
    HandWritten,  \* documents an operator writes to config.local.yaml himself
    EditDuringApply, \* whether he may do so while a configuration is applied
    Tabs,         \* browser pages open on /config
    MaxWrites     \* bound: number of writes to config.local.yaml

VARIABLES
    local,        \* config.local.yaml, or NoFile
    editor,       \* ConfigEditor.current_config
    runtime,      \* state.config, or Failed when the process could not start
    applying,     \* the configuration being applied, or Failed when none is
    newer,        \* the file's mtime is later than status.loaded_at
    page,         \* what each tab shows
    writer,       \* who wrote config.local.yaml last
    writes        \* number of writes so far

vars == <<local, editor, runtime, applying, newer, page, writer, writes>>

Null == "null"
NoFile == <<>>
Failed == <<"failed">>

(* ------------------------------- documents ------------------------------- *)
Get(doc, path) == IF path \in DOMAIN doc THEN doc[path] ELSE Null
Ids(doc, kind) == {p[2] : p \in {q \in DOMAIN doc : q[1] = kind}}
Without(doc, kind) == Restrict(doc, {p \in DOMAIN doc : p[1] # kind})
Only(doc, kind) == Restrict(doc, {p \in DOMAIN doc : p[1] = kind})
TypeOf(doc) == doc[<<"switcher">>]

DeepMerge(base, override) ==
    [p \in DOMAIN base \cup DOMAIN override |-> IF p \in DOMAIN override THEN override[p] ELSE base[p]]

Entry(path, value) == [p \in {path} |-> value]
CameraFields(c, host, enabled) ==
    DeepMerge(Entry(<<"cam", c, "host">>, host), Entry(<<"cam", c, "enabled">>, enabled))

(* The slots every Osee Deck configuration has: a disabled camera for each    *)
(* input, mapped to it, and the other sources without a camera.               *)
DeckDefaults ==
    [p \in {<<"cam", Cameras[n], f>> : n \in DOMAIN Cameras, f \in {"host", "enabled"}}
         \cup {<<"map", s>> : s \in Range(Inputs) \cup DeckExtras} |->
       IF p[1] = "cam" THEN IF p[3] = "host" THEN Null ELSE "off"
       ELSE IF p[2] \in DeckExtras THEN Null
       ELSE Cameras[CHOOSE n \in DOMAIN Inputs : Inputs[n] = p[2]]]

(* Existing entries win; with fill, an input mapped to nothing gets its camera. *)
Defaulted(doc, fill) ==
    IF TypeOf(doc) # "deck" THEN doc
    ELSE LET missing == {p \in DOMAIN DeckDefaults : p[2] \notin Ids(doc, p[1])}
             unmapped == {p \in DOMAIN DeckDefaults \cap DOMAIN doc :
                            fill /\ p[1] = "map" /\ doc[p] = Null}
         IN DeepMerge(doc, Restrict(DeckDefaults, missing \cup unmapped))

(* ------------------------------- validation ------------------------------ *)
SourceIds(type) == Range(Inputs) \cup IF type = "deck" THEN DeckExtras ELSE {}

(* ButtonMapping.validate_action_payload: only a preview button has a source  *)
(* and only a recall button a preset number, and these need one.              *)
ButtonOk(doc, b) ==
    LET action == Get(doc, <<"button", b, "action">>)
    IN /\ (action = "preview") = (Get(doc, <<"button", b, "source">>) # Null)
       /\ (action = "recall") = (Get(doc, <<"button", b, "preset">>) # Null)

ButtonsOk(doc, sources) ==
    \A b \in Ids(doc, "button") :
        ButtonOk(doc, b) /\ Get(doc, <<"button", b, "source">>) \in sources \cup {Null}

CrossReferencesOk(doc) ==
    /\ \A s \in Ids(doc, "map") : doc[<<"map", s>>] \in Ids(doc, "cam") \cup {Null}
    /\ ButtonsOk(doc, Ids(doc, "map") \cup SourceIds(TypeOf(doc)))

EnabledHaveHosts(doc) ==
    \A c \in Ids(doc, "cam") :
        Get(doc, <<"cam", c, "enabled">>) = "on" => Get(doc, <<"cam", c, "host">>) # Null

Parse(doc) ==
    LET full == Defaulted(doc, FALSE)
    IN IF CrossReferencesOk(full) THEN Without(full, "extra") ELSE Failed

(* Mutant: the defaults are added to the example after the local file. *)
LoadFillsLate(file) == Parse(Defaulted(DeepMerge(Example, file), TRUE))

(* load_config: for a Deck the example gets the default slots first, so that  *)
(* an explicit null of the local file stays.                                  *)
Load(file) ==
    LET type == TypeOf(DeepMerge(Example, file))
        base == Defaulted(DeepMerge(Example, Entry(<<"switcher">>, type)), TRUE)
    IN Parse(DeepMerge(IF type = "deck" THEN base ELSE Example, file))

LoadForApply(file) == IF EnabledHaveHosts(file) THEN Load(file) ELSE Failed

(* -------------------------------- the page ------------------------------- *)
(* editable_payload: a camera without a host is shown as disabled. *)
Enabled(doc, c) == Get(doc, <<"cam", c, "enabled">>) = "on" /\ Get(doc, <<"cam", c, "host">>) # Null

Payload(config) ==
    [p \in DOMAIN config \cup {<<"button", b, "action">> : b \in Buttons} |->
       IF p[1] = "cam" /\ p[3] = "enabled" THEN IF Enabled(config, p[2]) THEN "on" ELSE "off"
       ELSE IF p \in DOMAIN config THEN config[p] ELSE "none"]

ButtonEntry(b, action, field, value) ==
    DeepMerge(IF field = "" THEN NoFile ELSE Entry(<<"button", b, field>>, value), Entry(<<"button", b, "action">>, action))

ButtonEntries(b) ==
    {ButtonEntry(b, "none", "", Null)}
    \cup {ButtonEntry(b, "preview", "source", s) : s \in Range(Inputs) \cup DeckExtras}
    \cup {ButtonEntry(b, "recall", "preset", n) : n \in Presets}

ClearButton(doc, b) == Restrict(doc, {p \in DOMAIN doc : ~(p[1] = "button" /\ p[2] = b)})

(* What an operator may submit: the page with at most one of its fields changed. *)
TypeEdits(p) == {[p EXCEPT ![<<"switcher">>] = t] : t \in {"vmix", "deck"}}
CameraEdits(p) ==
    {DeepMerge(p, CameraFields(c, h, e)) : c \in Ids(p, "cam"), h \in Hosts \cup {Null}, e \in {"on", "off"}}
MappingEdits(p) ==
    {[p EXCEPT ![<<"map", s>>] = c] : s \in Ids(p, "map"), c \in Ids(p, "cam") \cup {Null}}
ButtonEdits(p) == UNION {{DeepMerge(ClearButton(p, b), e) : e \in ButtonEntries(b)} : b \in Buttons}
Edited(p) == {p} \cup TypeEdits(p) \cup CameraEdits(p) \cup MappingEdits(p) \cup ButtonEdits(p)

(* form_payload_from_mapping: the cameras and mappings of the current         *)
(* configuration, with the form's values where it has them; a checkbox the    *)
(* form does not have is off.                                                 *)
FormPayload(p) ==
    LET unseen == {q \in DOMAIN editor : q[1] \in {"cam", "map"} /\ q \notin DOMAIN p}
        seen == {q \in DOMAIN p : q[1] \in {"cam", "map"} => q \in DOMAIN editor}
    IN DeepMerge([q \in unseen |-> IF q[Len(q)] = "enabled" THEN "off" ELSE editor[q]], Restrict(p, seen))

PatchOk(patch) ==
    EnabledHaveHosts(patch) /\ ButtonsOk(patch, SourceIds(TypeOf(patch)))

(* Mutant: the save starts from the example and forgets the local file. *)
MergedFromExample(patch) == DeepMerge(Only(patch, "button"), Without(DeepMerge(Example, patch), "button"))

(* save_patch merges the patch into the files and replaces the button table. *)
Merged(patch) ==
    LET deep == DeepMerge(DeepMerge(Example, local), patch)
    IN DeepMerge(Only(patch, "button"), Without(deep, "button"))

(* --------------------------------- actions -------------------------------- *)
Init ==
    /\ local = NoFile
    /\ runtime = Load(local) /\ editor = runtime
    /\ applying = Failed /\ newer = FALSE
    /\ page = [t \in Tabs |-> Payload(editor)]
    /\ writer = "nobody" /\ writes = 0

(* The handlers run on one event loop: none runs while a configuration is applied. *)
WebIdle == runtime # Failed /\ applying = Failed

OpenPage(t) ==
    /\ WebIdle
    /\ page' = [page EXCEPT ![t] = Payload(editor)]
    /\ UNCHANGED <<local, editor, runtime, applying, newer, writer, writes>>

Write(doc, who) ==
    /\ writes < MaxWrites
    /\ local' = doc /\ newer' = TRUE
    /\ writer' = who /\ writes' = writes + 1

(* POST /config/basic (form), /config/raw and /config (no form), with the     *)
(* answer rendered from the editor, and optionally applied at once.           *)
Save(t, patch, apply) ==
    /\ WebIdle
    /\ IF PatchOk(patch) /\ Parse(Merged(patch)) # Failed
       THEN /\ Write(Merged(patch), "form")
            /\ editor' = Parse(local')
            /\ applying' = IF apply THEN LoadForApply(local') ELSE Failed
       ELSE UNCHANGED <<local, editor, applying, newer, writer, writes>>
    /\ page' = [page EXCEPT ![t] = Payload(editor')]
    /\ UNCHANGED runtime

SaveForm(t) == \E p \in Edited(page[t]), apply \in BOOLEAN : Save(t, FormPayload(p), apply)
SaveRaw(t) == \E p \in Edited(page[t]) : Save(t, p, FALSE)

(* POST /config/import/confirm *)
Import(doc, apply) ==
    /\ WebIdle
    /\ EnabledHaveHosts(doc) /\ Parse(doc) # Failed
    /\ Write(doc, "import")
    /\ editor' = Parse(doc)
    /\ applying' = IF apply THEN LoadForApply(doc) ELSE Failed
    /\ UNCHANGED <<runtime, page>>

(* POST /api/config/apply: a file that does not load changes nothing. *)
Apply ==
    /\ WebIdle
    /\ applying' = LoadForApply(local)
    /\ UNCHANGED <<local, editor, runtime, newer, page, writer, writes>>

(* Mutant: loaded_at is set by a failed apply, too. *)
NewerAfterAny(success) == FALSE

(* loaded_at is set when an apply has succeeded. *)
NewerAfter(success) == newer /\ ~success

(* bridge.apply_config returns, or raises before or after it took the configuration. *)
ApplyEnds(success) ==
    /\ applying # Failed
    /\ runtime' \in IF success THEN {applying} ELSE {runtime, applying}
    /\ newer' = NewerAfter(success)
    /\ editor' = IF success THEN applying ELSE editor
    /\ applying' = Failed
    /\ UNCHANGED <<local, page, writer, writes>>

(* An operator edits config.local.yaml on the machine. *)
HandEdit(doc) ==
    /\ EditDuringApply \/ applying = Failed
    /\ Write(doc, "hand")
    /\ UNCHANGED <<editor, runtime, applying, page>>

(* The process is started anew, possibly after a crash. *)
Restart ==
    /\ runtime' = Load(local) /\ editor' = runtime'
    /\ applying' = Failed /\ newer' = FALSE
    /\ UNCHANGED <<local, page, writer, writes>>

Next ==
    \/ \E t \in Tabs : OpenPage(t) \/ SaveForm(t) \/ SaveRaw(t)
    \/ \E doc \in Imports, apply \in BOOLEAN : Import(doc, apply)
    \/ Apply
    \/ \E success \in BOOLEAN : ApplyEnds(success)
    \/ \E doc \in HandWritten : HandEdit(doc)
    \/ Restart

Spec == Init /\ [][Next]_vars

(* ------------------------------- properties ------------------------------- *)
(* The runtime and the editor hold configurations whose references resolve,   *)
(* whatever is written, imported, applied or started (validate_cross_references). *)
TypeOK ==
    /\ runtime # Failed => CrossReferencesOk(runtime) /\ CrossReferencesOk(editor)
    /\ applying # Failed => CrossReferencesOk(applying)
    /\ writes \in 0..MaxWrites /\ newer \in BOOLEAN
    /\ writer \in {"nobody", "form", "import", "hand"}

(* What the web interface has saved loads again, so that the process starts   *)
(* (save_patch validates the merged configuration before it writes).          *)
SavedConfigLoads == writer \in {"form", "import"} => Load(local) # Failed

(* After a save the editor shows what a load of the files gives, with the     *)
(* defaults of the switcher type ("reflect the actual saved values").         *)
LoadsWhatWasSaved == writer = "form" /\ runtime # Failed => Load(local) = editor

(* While no change is shown as pending, the runtime works with what the files *)
(* say (has_pending_changes).                                                 *)
PendingIsHonest ==
    ~newer /\ WebIdle => runtime = Load(local)

(* Files, editor and runtime agree, or a change is shown as pending.          *)
StoreInv ==
    /\ TypeOK
    /\ LoadsWhatWasSaved
    /\ PendingIsHonest

(* A save keeps the sections the form does not control (save_patch). *)
UnrelatedKept ==
    [][writer' = "form" /\ writes' # writes
         => Get(local', <<"extra">>) = Get(DeepMerge(Example, local), <<"extra">>)]_vars
==============================================================================
