---------------------------- MODULE RedirectMode ----------------------------
(* The life of the redirection (src/cfe_redirect/main.c): cfe_main calls      *)
(* redirect in the VSH; a game that is not on the memory stick is started     *)
(* through the launcher, in which cfe_redirect is loaded again with the mode; *)
(* leaving the game ends in the VSH.  Redirect's calls run all the while, and *)
(* wait where the code waits for the host.                                    *)
EXTENDS Redirect, HostStart

CONSTANTS
    Modes,        \* the modes redirect is called with
    Careless      \* what callers do that the code does not guard against: "early", a call
                  \* that does not wait for the host is made before it is there; "again", a
                  \* second redirect; "end", a call is under way while the driver is restored

ASSUME CarelessAssumption == Careless \subseteq {"early", "again", "end"}

VARIABLES
    host_mode,    \* OFF, USB or WIF
    host_drv,     \* host_drv has been noted
    hostfs_drv,   \* the driver "host" has been found
    patched,      \* fatms_drv's functions are msIo*_new
    main,         \* main.at: where redirect, main_thread or the exit is; main.ori: the
                  \* mode it leaves
    careless      \* what of Careless has happened since the boot

mode_vars == <<host_mode, host_drv, hostfs_drv, patched, main, careless>>
allVars == <<vars, host_vars, init_key, mode_vars>>

ModeTypeOK ==
    /\ host_mode \in {"OFF"} \cup Modes
    /\ {host_drv, hostfs_drv, patched} \subseteq BOOLEAN
    /\ main \in [at : {"off", "refused", "start", "patch_ms", "patch_host", "poison", "on",
                       "launch", "game", "restore", "stop", "reload"},
                 ori : {"OFF"} \cup Modes]
    /\ careless \subseteq Careless

(* A careless use is made or not, and remembered.                             *)
Carelessly(what, done) ==
    /\ done => what \in Careless
    /\ careless' = IF done THEN careless \cup {what} ELSE careless

At(at) == main' = [main EXCEPT !.at = at]

(* Switched on: the VSH, no redirection.                                      *)
ModeInit ==
    /\ Fresh(0) /\ HostInit
    /\ init_key = "VSH"
    /\ host_mode = "OFF"
    /\ host_drv = FALSE
    /\ hostfs_drv = FALSE
    /\ patched = FALSE
    /\ main = [at |-> "off", ori |-> "OFF"]
    /\ careless = {}

(* module_start after a reboot: in a game the memory stick is patched before  *)
(* main_thread starts the host.                                               *)
module_start(key, mode) ==
    /\ records' = <<>> /\ slots' = 0
    /\ d_records' = <<>> /\ d_slots' = 0
    /\ msopen' = {} /\ hostopen' = {}
    /\ files' = [h \in Handles |-> "closed"]
    /\ th' = [p \in Threads |-> Idle]
    /\ hs' = "idle" /\ up' = {}
    /\ inited' = 0 /\ user' = "none"
    /\ terms' = "loaded"
    /\ init_key' = key
    /\ host_mode' = mode
    /\ host_drv' = FALSE
    /\ hostfs_drv' = FALSE
    /\ patched' = (key = "GAME")
    /\ main' = [at |-> IF key = "GAME" THEN "start" ELSE "off", ori |-> "OFF"]
    /\ careless' = {}

------------------------------------------------------------------------------
(* redirect(mode): the mode is set first, what ran is ended, then the new     *)
(* host started.                                                              *)
redirect ==
    /\ init_key = "VSH"
    /\ main.at \in {"off", "refused", "on"}
    /\ Carelessly("again", main.at # "off")
    /\ \E mode \in Modes \cup {"OFF"} :
         /\ mode # host_mode
         /\ host_mode' = mode
         /\ main' = [at |-> IF host_mode = "OFF" THEN "start" ELSE "restore",
                     ori |-> host_mode]
    /\ UNCHANGED <<vars, host_vars, init_key, host_drv, hostfs_drv, patched>>

startHost ==
    /\ main.at = "start" /\ hs = "idle"
    /\ hs' = IF host_mode = "USB" THEN "usb" ELSE "wifi"
    /\ UNCHANGED <<vars, up, inited, user, terms, init_key, mode_vars>>

(* A failure turns the mode off in the VSH; main_thread ignores it.           *)
HostStarted ==
    /\ main.at = "start" /\ hs \in {"started", "failed"}
    /\ hs' = "idle"
    /\ IF init_key = "VSH" /\ hs = "failed"
       THEN host_mode' = "OFF" /\ At("refused")
       ELSE /\ At(IF init_key = "VSH" THEN "patch_ms" ELSE "patch_host")
            /\ UNCHANGED host_mode
    /\ UNCHANGED <<vars, up, inited, user, terms, init_key, host_drv, hostfs_drv, patched,
                   careless>>

patchMsDrv ==
    /\ main.at = "patch_ms"
    /\ patched' = TRUE
    /\ At("patch_host")
    /\ UNCHANGED <<vars, host_vars, init_key, host_mode, host_drv, hostfs_drv, careless>>

Patched == At(IF init_key = "VSH" THEN "on" ELSE "launch")

(* patchHostDrv: without the driver, or without a heap, nothing else is done  *)
(* and nobody is told.                                                        *)
patchHostDrv ==
    /\ main.at = "patch_host"
    /\ hostfs_drv' = ("host" \in up)
    /\ \/ /\ "host" \in up
          /\ records' = <<>> /\ slots' = Chunk
          /\ d_records' = <<>> /\ d_slots' = Chunk
          /\ At("poison")
       \/ Patched /\ UNCHANGED <<records_vars, d_records_vars>>
    /\ UNCHANGED <<msopen, hostopen, files, th, host_vars, init_key, host_mode, host_drv, patched,
                   careless>>

(* Mutant: the open fails before hostfsIoOpen_new is in place.                *)
PoisonUnseen ==
    /\ main.at = "poison"
    /\ Patched
    /\ UNCHANGED <<vars, host_vars, init_key, host_mode, host_drv, hostfs_drv, patched, careless>>

(* Its open of host:/poison.sup brings hostfsIoOpen_new the driver.           *)
Poison ==
    /\ main.at = "poison"
    /\ host_drv' = TRUE
    /\ Patched
    /\ UNCHANGED <<vars, host_vars, init_key, host_mode, hostfs_drv, patched, careless>>

(* The game is not on the memory stick: loading it waits for the host.        *)
Launch ==
    /\ main.at = "launch"
    /\ host_drv
    /\ \E at \in {"game", "restore"} : main' = [at |-> at, ori |-> host_mode]
    /\ UNCHANGED <<vars, host_vars, init_key, host_mode, host_drv, hostfs_drv, patched, careless>>

exitCallback ==
    /\ main.at = "game"
    /\ At("restore")
    /\ UNCHANGED <<vars, host_vars, init_key, host_mode, host_drv, hostfs_drv, patched, careless>>

(* LoadExecVSHCommon_new: the VSH starts a game.                              *)
LoadExec ==
    /\ init_key = "VSH" /\ main.at \in {"off", "refused", "on"}
    /\ IF host_mode = "OFF"
       THEN module_start("VSH", "OFF")
       ELSE /\ main' = [at |-> "restore", ori |-> host_mode]
            /\ UNCHANGED <<vars, host_vars, init_key, host_mode, host_drv, hostfs_drv, patched,
                           careless>>

(* Thread p is in a wait for host_drv.                                        *)
Waits(p) ==
    /\ ~host_drv
    /\ \/ th[p].at \in {"host_open", "host_dopen", "host_stat"} /\ host_mode # "OFF"
       \/ th[p].at \in {"host_dopen", "host_stat"} /\ init_key = "GAME"

Undisturbed == \A p \in Threads : th[p].at = "idle" \/ Waits(p)

(* Mutant: the functions stay msIo*_new.                                      *)
RestoreForgotten ==
    /\ main.at = "restore"
    /\ Carelessly("end", ~Undisturbed)
    /\ slots' = 0 /\ d_slots' = 0
    /\ At("stop")
    /\ UNCHANGED <<records, d_records, msopen, hostopen, files, th, host_vars, init_key,
                   host_mode, host_drv, hostfs_drv, patched>>

(* restoreIoDrv frees the arrays; count and d_count stay.                     *)
restoreIoDrv ==
    /\ main.at = "restore"
    /\ Carelessly("end", ~Undisturbed)
    /\ patched' = FALSE
    /\ slots' = 0 /\ d_slots' = 0
    /\ At("stop")
    /\ UNCHANGED <<records, d_records, msopen, hostopen, files, th, host_vars, init_key,
                   host_mode, host_drv, hostfs_drv>>

stopHost ==
    /\ main.at = "stop" /\ hs = "idle"
    /\ hs' = IF main.ori = "USB" THEN "stop_usb" ELSE "stop_wifi"
    /\ UNCHANGED <<vars, up, inited, user, terms, init_key, mode_vars>>

(* Stopped for another mode, or for the reload.                               *)
HostStopped ==
    /\ main.at = "stop" /\ hs = "stopped"
    /\ hs' = "idle"
    /\ At(IF host_mode = main.ori THEN "reload"
          ELSE IF host_mode = "OFF" THEN "off" ELSE "start")
    /\ UNCHANGED <<vars, up, inited, user, terms, init_key, host_mode, host_drv, hostfs_drv,
                   patched, careless>>

(* A game missing on the memory stick goes through the launcher with the mode; *)
(* any other is started as it is, and ends in the VSH as well.                *)
Reload ==
    /\ main.at = "reload"
    /\ \/ init_key = "VSH" /\ module_start("GAME", host_mode)
       \/ module_start("VSH", "OFF")

MainStep ==
    \/ startHost \/ HostStarted \/ patchMsDrv \/ patchHostDrv \/ Poison \/ Launch
    \/ restoreIoDrv \/ stopHost \/ HostStopped \/ Reload
Users == redirect \/ exitCallback \/ LoadExec

------------------------------------------------------------------------------
(* A call that uses the host driver without a wait for it.                    *)
Unwaited(call) == call.at \in {"d_dopen", "host_chdir"}

(* The arrays were replaced under a call that had found its record: it copies *)
(* from beyond the end, with a negative length, and nobody goes on.           *)
Lost(p) ==
    \/ th[p].at = "remove" /\ th[p].num > Len(records)
    \/ th[p].at \in {"d_remove", "host_dread"} /\ th[p].num > Len(d_records)

(* A redirected call: it goes on when the host is there.                      *)
Redirected(p) ==
    /\ patched \/ th[p].at # "idle"
    /\ ~Waits(p) /\ ~Lost(p)
    /\ ThreadStep(p)
    /\ Carelessly("early", Unwaited(th'[p]) /\ ~(hostfs_drv /\ d_slots > 0))
    /\ UNCHANGED <<host_vars, init_key, host_mode, host_drv, hostfs_drv, patched, main>>

(* Without msIo*_new the fatms driver is called as ever.                      *)
Direct(p) ==
    /\ ~patched /\ th[p].at = "idle"
    /\ \/ MsOpen(p)
       \/ /\ \E m \in MsHandles :
               /\ files[m] # "closed"
               /\ files' = [files EXCEPT ![m] = "closed"]
               /\ msopen' = msopen \ {m}
          /\ UNCHANGED <<records_vars, d_records_vars, hostopen, th>>
    /\ UNCHANGED <<host_vars, init_key, mode_vars>>

Lifecycle == MainStep \/ Users

HostRuns == (HostStep \/ UserStep) /\ UNCHANGED <<vars, init_key, mode_vars>>

ModeNext ==
    \/ Lifecycle
    \/ HostRuns
    \/ \E p \in Threads : Redirected(p) \/ Direct(p)

(* The threads of the redirection and of the host keep running, and the       *)
(* network answers one way or the other.                                      *)
ModeSpec ==
    /\ ModeInit /\ [][ModeNext]_allVars
    /\ WF_allVars(MainStep)
    /\ WF_allVars(HostRuns)

------------------------------------------------------------------------------
(* Callers and drivers agree on what is open, and where, as long as the       *)
(* memory stick is redirected; the records of one mode never show up in       *)
(* another (records, msIo*_new of main.c), until a caller was careless.       *)
ModeAccounted == careless = {} => MsAccounted /\ (patched => Routed)

UsesHost(p) ==
    /\ th[p].at \notin {"idle", "ms_close"}
    /\ ~Waits(p)

(* A call that goes to the host finds the driver, its arrays and, over WiFi,  *)
(* a network that nobody has begun to end: msIoOpen_new and its like wait for *)
(* it, and it is stopped only after the functions are restored.               *)
HostThere ==
    /\ InBounds
    /\ HostTypeOK /\ ModeTypeOK
    /\ \A p \in Threads : UsesHost(p) =>
         /\ hostfs_drv /\ "host" \in up
         /\ slots > 0 /\ d_slots > 0
         /\ host_mode = "WIF" => user = "asleep" /\ terms = "disabled"

(* It is there until something happened that the code does not guard against. *)
HostReady == careless = {} => HostThere

(* patchHostDrv could not do its work: nobody will ever set host_drv.         *)
NoHost == main.at \in {"on", "launch"} /\ slots = 0

(* A call that waits for the host gets on when the host is there, unless      *)
(* patchHostDrv failed or somebody was careless.                              *)
HostReached == \A p \in Threads : Waits(p) ~> ~Waits(p) \/ NoHost \/ careless # {}

==============================================================================
