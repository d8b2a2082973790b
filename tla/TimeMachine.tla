----------------------------- MODULE TimeMachine -----------------------------
(* The files behind "Time Machine" (src/cfe_main/gui/menu_tmachine.c and      *)
(* restore_tm_config of src/cfe_main/main.c): choosing a firmware rewrites    *)
(* TM/config.txt, keeps the user's own in config.txt.back, leaves the marker  *)
(* tm_reboot and reboots; CFE, started by the chosen firmware's VSH, puts the *)
(* user's file back.  Power may go at any step.  A file is the sequence of    *)
(* its blocks.                                                                *)
EXTENDS Integers, Sequences

CONSTANTS
    Firmwares,      \* the entries of the menu: NAND and the folders of TM
    Original,       \* the user's config.txt
    NoFile,         \* no such file
    MaxCrash,       \* bound: losses of power
    MaxFails        \* bound: times config.txt.back cannot be created

ASSUME TmAssumption ==
    /\ Original \in Seq(STRING) /\ Len(Original) > 1
    /\ NoFile \notin Seq(STRING \cup Firmwares)
    /\ \A f \in Firmwares : \A i \in 1 .. Len(Original) : f # Original[i]
    /\ {MaxCrash, MaxFails} \subseteq Nat

VARIABLES
    user,           \* what config.txt was before CFE touched it
    config,         \* ms0:/TM/config.txt
    back,           \* ms0:/TM/config.txt.back
    marker,         \* does ms0:/seplugins/cfe/tm_reboot exist?
    at,             \* what the PSP is doing
    copied,         \* blocks copy_file has copied
    choice,         \* the firmware chosen in the menu
    crashes, fails, \* losses of power and failures so far
    torn            \* did one of them disturb the writing of config.txt.back?

tmVars == <<user, config, back, marker, at, copied, choice, crashes, fails, torn>>
tmFiles == <<config, back, marker>>

Block == STRING \cup Firmwares
File == Seq(Block) \cup {NoFile}

Backup == {"backup", "backup_copy"}
Select == Backup \cup {"remove", "write", "mark", "reboot"}
Restore == {"start", "restore", "restore_remove", "restore_open", "restore_copy"}

TmTypeOK ==
    /\ user \in {Original, NoFile}
    /\ config \in File
    /\ back \in File
    /\ marker \in BOOLEAN
    /\ at \in {"off", "vsh"} \cup Select \cup Restore
    /\ copied \in Nat
    /\ choice \in Firmwares
    /\ crashes \in Nat
    /\ fails \in Nat
    /\ torn \in BOOLEAN

TmInit ==
    /\ user \in {Original, NoFile}
    /\ config = user
    /\ back = NoFile
    /\ marker = FALSE
    /\ at = "off"
    /\ copied = 0
    /\ choice \in Firmwares
    /\ crashes = 0
    /\ fails = 0
    /\ torn = FALSE

Goto(next) == at' = next /\ UNCHANGED <<user, choice, crashes, fails, torn>>

------------------------------------------------------------------------------
(* The VSH of the firmware config.txt names starts CFE.                       *)
Boot ==
    /\ at = "off"
    /\ Goto("start")
    /\ UNCHANGED <<tmFiles, copied>>

(* restore_tm_config: without the marker there is nothing to do; with it the  *)
(* marker goes first ...                                                      *)
NothingToRestore ==
    /\ at = "start" /\ ~marker
    /\ Goto("vsh")
    /\ UNCHANGED <<tmFiles, copied>>

RemoveMarker ==
    /\ at = "start" /\ marker
    /\ marker' = FALSE
    /\ Goto("restore")
    /\ UNCHANGED <<config, back, copied>>

(* ... then config.txt, if there is a backup ...                              *)
RemoveSelected ==
    /\ at = "restore"
    /\ IF back # NoFile
       THEN config' = NoFile /\ Goto("restore_open")
       ELSE Goto("vsh") /\ UNCHANGED config
    /\ UNCHANGED <<back, marker, copied>>

(* ... and copy_file creates it again and copies the backup into it.  (There  *)
(* is room for a file that was just removed: this open is not seen to fail.)  *)
OpenRestored ==
    /\ at = "restore_open"
    /\ config' = <<>>
    /\ copied' = 0
    /\ Goto("restore_copy")
    /\ UNCHANGED <<back, marker>>

CopyRestoredShort ==                                               \* mutant
    /\ at = "restore_copy"
    /\ IF copied + 1 < Len(back)
       THEN /\ config' = Append(config, back[copied + 1])
            /\ copied' = copied + 1
            /\ Goto("restore_copy")
       ELSE Goto("vsh") /\ UNCHANGED <<config, copied>>
    /\ UNCHANGED <<back, marker>>

CopyRestored ==
    /\ at = "restore_copy"
    /\ IF copied < Len(back)
       THEN /\ config' = Append(config, back[copied + 1])
            /\ copied' = copied + 1
            /\ Goto("restore_copy")
       ELSE Goto("vsh") /\ UNCHANGED <<config, copied>>
    /\ UNCHANGED <<back, marker>>

------------------------------------------------------------------------------
(* Mutant: the backup is written whenever a firmware is chosen.               *)
SelectBacksUpAgain ==
    /\ at = "vsh"
    /\ choice' \in Firmwares
    /\ at' = IF config # NoFile THEN "backup" ELSE "remove"
    /\ UNCHANGED <<user, tmFiles, copied, crashes, fails, torn>>

(* menu_tm, case 6: a firmware is chosen.  Only a missing backup is written.  *)
SelectFirmware ==
    /\ at = "vsh"
    /\ choice' \in Firmwares
    /\ at' = IF back = NoFile /\ config # NoFile THEN "backup" ELSE "remove"
    /\ UNCHANGED <<user, tmFiles, copied, crashes, fails, torn>>

(* copy_file's second open, which may fail (the memory stick is full) ...     *)
OpenBackup ==
    /\ at = "backup"
    /\ back' = <<>>
    /\ copied' = 0
    /\ Goto("backup_copy")
    /\ UNCHANGED <<config, marker>>

OpenBackupFails ==
    /\ at = "backup" /\ fails < MaxFails
    /\ fails' = fails + 1
    /\ torn' = TRUE
    /\ at' = "remove"
    /\ UNCHANGED <<user, tmFiles, copied, choice, crashes>>

(* ... and its loop.                                                          *)
CopyBackup ==
    /\ at = "backup_copy"
    /\ IF copied < Len(config)
       THEN /\ back' = Append(back, config[copied + 1])
            /\ copied' = copied + 1
            /\ Goto("backup_copy")
       ELSE Goto("remove") /\ UNCHANGED <<back, copied>>
    /\ UNCHANGED <<config, marker>>

RemoveConfig ==
    /\ at = "remove"
    /\ config' = IF back # NoFile THEN NoFile ELSE config
    /\ Goto("write")
    /\ UNCHANGED <<back, marker, copied>>

(* config.txt is opened without O_TRUNC: what is left of it keeps its tail.   *)
WriteSelected ==
    /\ at = "write"
    /\ config' = IF config \in {NoFile, <<>>} THEN <<choice>>
                 ELSE [config EXCEPT ![1] = choice]
    /\ Goto("mark")
    /\ UNCHANGED <<back, marker, copied>>

WriteMarker ==
    /\ at = "mark"
    /\ marker' = TRUE
    /\ Goto("reboot")
    /\ UNCHANGED <<config, back, copied>>

(* display_thread's do_reboot.                                                *)
Reboot ==
    /\ at \in {"reboot", "vsh"}
    /\ Goto("off")
    /\ UNCHANGED <<tmFiles, copied>>

------------------------------------------------------------------------------
PowerLost ==
    /\ at # "off" /\ crashes < MaxCrash
    /\ crashes' = crashes + 1
    /\ torn' = (torn \/ at \in Backup)
    /\ at' = "off"
    /\ UNCHANGED <<user, tmFiles, copied, choice, fails>>

RestoreStep ==
    Boot \/ NothingToRestore \/ RemoveMarker \/ RemoveSelected \/ OpenRestored \/ CopyRestored
SelectStep ==
    \/ OpenBackup \/ OpenBackupFails \/ CopyBackup
    \/ RemoveConfig \/ WriteSelected \/ WriteMarker

TmNext == RestoreStep \/ SelectFirmware \/ SelectStep \/ Reboot \/ PowerLost

TmSpec == TmInit /\ [][TmNext]_tmVars

------------------------------------------------------------------------------
(* README.md: whatever happens, the user can replace config.txt with          *)
(* config.txt.back to restore the original configuration: while config.txt is *)
(* not the user's, the backup is.                                             *)
BackupOriginal == user = Original => config = Original \/ back = Original

(* That holds however often power is lost, and wherever, once the writing of  *)
(* the backup itself was not disturbed.                                       *)
UserFileKept == ~torn => BackupOriginal

(* A backup of the original is never touched again: not by another choice     *)
(* made while the chosen firmware's config.txt is in place, not by a restore  *)
(* that power cut short.                                                      *)
BackupStable == [][back = Original => back' = Original]_tmVars

(* CFE under the VSH of the chosen firmware makes the next reboot go to the   *)
(* original one: once it has started, config.txt is the user's, unless power  *)
(* went or the backup could not be written.                                   *)
Restored == user = Original /\ at = "vsh" /\ crashes = 0 /\ fails = 0 => config = Original

==============================================================================
