------------------------------ MODULE Settings ------------------------------
(***************************************************************************)
(* The settings an operator changes over Bluetooth, and how they outlive   *)
(* the process: the LoRa configuration, which lora_cfg_save_persist writes *)
(* to a temporary file and renames, and the send path, which               *)
(* bt_save_send_path writes in place.  bt_comm_thread is the only thread   *)
(* that changes either.                                                    *)
(***************************************************************************)

CONSTANT Paths   \* the send paths besides AUTO that are selected

ASSUME PathsAssumption == "AUTO" \notin Paths /\ "empty" \notin Paths

VARIABLES
    cfg,        \* my_lora_config: mesh and root
    ini,        \* what lora_cfg.ini says
    path,       \* g_send_path
    pathFile,   \* the file of the send path: "empty" once it is truncated
    btPc,       \* where bt_comm_thread is
    \* History.
    refused,    \* a LoRa setting is in memory whose save failed
    owed,       \* the send path acknowledged last
    spoiled     \* the last save of the send path failed or was cut off

settingVars == <<cfg, ini, path, pathFile, btPc, refused, owed, spoiled>>

AllPaths == Paths \cup {"AUTO"}
Meshes == {"GATEWAY", "NODE"}
Roots  == {"ROOT", "NOTROOT"}
Default == [mesh |-> "GATEWAY", root |-> "ROOT"]

SettingsInit ==
    /\ cfg = Default /\ ini = Default
    /\ path = "AUTO" /\ pathFile = "empty"
    /\ btPc = "load"
    /\ refused = FALSE /\ owed = "AUTO" /\ spoiled = FALSE

\* Mutant: a file without a number is not noticed.
LoadPathUnchecked ==
    /\ btPc = "load"
    /\ path' = pathFile
    /\ owed' = path' /\ spoiled' = FALSE
    /\ btPc' = "poll"
    /\ UNCHANGED <<cfg, ini, pathFile, refused>>

\* bt_load_send_path, when the other threads already run; without a number in the
\* file the path is AUTO.
LoadPath ==
    /\ btPc = "load"
    /\ path' = IF pathFile = "empty" THEN "AUTO" ELSE pathFile
    /\ owed' = path' /\ spoiled' = FALSE
    /\ btPc' = "poll"
    /\ UNCHANGED <<cfg, ini, pathFile, refused>>

\* BL_MESH_x and BL_ROOT_x: lora_cfg_set comes first.
SetLora(c) ==
    /\ btPc = "poll"
    /\ cfg' = c
    /\ btPc' = "save"
    /\ UNCHANGED <<ini, path, pathFile, refused, owed, spoiled>>

SetLoraCommand ==
    \/ \E m \in Meshes : SetLora([cfg EXCEPT !.mesh = m])
    \/ \E r \in Roots : SetLora([cfg EXCEPT !.root = r])

\* lora_cfg_save_persist: the renamed file is complete; then BL_ACK_MESH.
SaveLora ==
    /\ btPc = "save"
    /\ ini' = cfg
    /\ refused' = FALSE
    /\ btPc' = "poll"
    /\ UNCHANGED <<cfg, path, pathFile, owed, spoiled>>

\* open, write, fsync or rename fails: BL_ACK_SAVE_ERR, and the setting stays in
\* memory, to be saved with the next one.
SaveLoraFails ==
    /\ btPc = "save"
    /\ refused' = (refused \/ cfg # ini)
    /\ btPc' = "poll"
    /\ UNCHANGED <<cfg, ini, path, pathFile, owed, spoiled>>

\* BL_00 to BL_04: bt_set_send_path.
SetPath(p) ==
    /\ btPc = "poll"
    /\ path' = p
    /\ btPc' = "open"
    /\ UNCHANGED <<cfg, ini, pathFile, refused, owed, spoiled>>

\* bt_save_send_path: fopen truncates the file ...
OpenPath ==
    /\ btPc = "open"
    /\ pathFile' = "empty"
    /\ btPc' = "write"
    /\ UNCHANGED <<cfg, ini, path, refused, owed, spoiled>>

\* Mutant: the number is not flushed.
WritePathUnflushed ==
    /\ btPc = "write"
    /\ owed' = path /\ spoiled' = FALSE
    /\ btPc' = "poll"
    /\ UNCHANGED <<cfg, ini, path, pathFile, refused>>

\* ... the number is written, and the command is acknowledged ...
WritePath ==
    /\ btPc = "write"
    /\ pathFile' = path
    /\ owed' = path /\ spoiled' = FALSE
    /\ btPc' = "poll"
    /\ UNCHANGED <<cfg, ini, path, refused>>

\* ... as it is when the file cannot be opened or written.
SavePathFails ==
    /\ btPc \in {"open", "write"}
    /\ owed' = path /\ spoiled' = TRUE
    /\ btPc' = "poll"
    /\ UNCHANGED <<cfg, ini, path, pathFile, refused>>

\* The process dies and is started again: lora_cfg_load_persist before there are
\* threads, and AUTO until LoadPath.
SettingsRestart ==
    /\ cfg' = ini
    /\ path' = "AUTO"
    /\ btPc' = "load"
    /\ spoiled' = (spoiled \/ btPc = "write")
    /\ refused' = FALSE
    /\ UNCHANGED <<ini, pathFile, owed>>

Bluetooth == LoadPath \/ SaveLora \/ SaveLoraFails \/ OpenPath \/ WritePath \/ SavePathFails

Operator == SetLoraCommand \/ \E p \in AllPaths : SetPath(p)

-----------------------------------------------------------------------------

SettingsTypeOK ==
    /\ {cfg, ini} \subseteq [mesh : Meshes, root : Roots]
    /\ {path, owed} \subseteq AllPaths /\ pathFile \in AllPaths \cup {"empty"}
    /\ btPc \in {"load", "poll", "save", "open", "write"}
    /\ {refused, spoiled} \subseteq BOOLEAN

\* What the operator has set outlives the process.  The LoRa configuration in force when
\* it dies is in force again after the restart, and bt_load_send_path finds the path
\* that was acknowledged last.  The exceptions are a save that failed, which for the path
\* is acknowledged all the same, and one that the restart has cut off.
SettingsSurvive ==
    [][/\ SettingsRestart => cfg' = cfg \/ refused \/ btPc = "save"
       /\ LoadPath => path' = owed \/ spoiled]_settingVars

=============================================================================
