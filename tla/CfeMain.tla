------------------------------- MODULE CfeMain -------------------------------
(* The main thread of cfe_main (vsh build): threadMain waits for a key combo, *)
(* menu_load stops the game's threads, shows the menus and lets the threads   *)
(* go again.  The game's threads run at any moment they are not suspended;    *)
(* they and the USB drivers are external.  The file browser is module Filer,  *)
(* the settings it changes module Conf, the music player module Music.        *)
EXTENDS Filer, FiniteSets

CONSTANTS
    Thread,   \* threads created after cfe_main was started
    Exempt,   \* those pauseGame lets run: music, usb storage
    MaxKeys,  \* bound: CROSS and combos
    MaxFail   \* bound: failures of the menu's heap

ASSUME CfeMainAssumption == Exempt \subseteq Thread /\ MaxKeys \in Nat /\ MaxFail \in Nat

VARIABLES
    thr,    \* a thread: life, suspended, and by the game itself (own)
    pause,  \* pauseuid, thread_buf_now and what pauseGame or resumeGame has to do
    ui,     \* where the main thread is, and its flags
    usb,    \* the active driver and the flags of the menu about it
    sema    \* who holds g_mainsema, when ms0: is redirected to the host

vars == <<thr, pause, ui, usb, sema, filer>>

Nobody == "nobody"

Init ==
    /\ thr \in [Thread -> {[life |-> l, suspended |-> FALSE, own |-> FALSE] : l \in {"none", "runs"}}]
    /\ pause = [uid |-> FALSE, now |-> {}, todo |-> {}]
    /\ ui = [at |-> "keys", shot |-> FALSE, io |-> FALSE, inGame |-> FALSE, reboot |-> FALSE, active |-> FALSE,
             poweroff |-> FALSE, music |-> FALSE, load |-> FALSE, folder |-> "none", keys |-> 0, fails |-> 0]
    /\ usb = [active |-> "none", joy |-> FALSE, joyModule |-> FALSE, host |-> FALSE, load |-> FALSE,
              loaded |-> FALSE, stop |-> FALSE]
    /\ sema = Nobody
    /\ FilerInit

TypeOK ==
    /\ thr \in [Thread -> [life : {"none", "runs", "ended"}, suspended : BOOLEAN, own : BOOLEAN]]
    /\ pause \in [uid : BOOLEAN, now : SUBSET Thread, todo : SUBSET Thread]
    /\ pause.todo \subseteq pause.now
    /\ ui.at \in {"keys", "pausing", "snapped", "load", "menu", "filer", "leave", "resuming", "music",
                  "top", "off"}
    /\ usb.active \in {"none", "storage", "joy", "host"}
    /\ sema \in Thread \cup {Nobody}
    /\ sema # Nobody => thr[sema].life = "runs"

Runs(t) == thr[t].life = "runs" /\ ~thr[t].suspended

(* While ui.io is set the main thread is inside an access to ms0:.            *)
At(place) == ui.at = place /\ ~ui.io
Key == ui.keys < MaxKeys
Pressed(u) == [u EXCEPT !.keys = @ + 1]
Access(u) == [u EXCEPT !.io = TRUE]

(* A redirected access needs the semaphore of command_xchg for a moment.      *)
IoDone ==
    /\ ui.io
    /\ usb.loaded => sema = Nobody
    /\ ui' = [ui EXCEPT !.io = FALSE]
    /\ UNCHANGED <<thr, pause, usb, sema, filer>>

------------------------------------------------------------------------------
(* pauseGame and resumeGame                                                   *)

(* Mutant: one of the names is missing in the list of pauseGame.              *)
SuspendsAll(t) == TRUE

Suspends(t) == t \notin Exempt

(* The second copy of the list of names.                                      *)
Resumes(t) == t \notin Exempt

Listed == {t \in Thread : thr[t].life = "runs"}

(* A second pause while one is on does nothing.                               *)
PauseBegin(p) == IF p.uid THEN p ELSE [uid |-> TRUE, now |-> Listed, todo |-> {t \in Listed : Suspends(t)}]
ResumeBegin(p) == IF p.uid THEN [p EXCEPT !.uid = FALSE, !.todo = {t \in p.now : Resumes(t)}] ELSE p

Suspended(x) == IF x.life = "runs" THEN [x EXCEPT !.suspended = TRUE] ELSE x
Resumed(x) == IF x.life = "runs" THEN [x EXCEPT !.suspended = FALSE, !.own = FALSE] ELSE x

(* One thread of the list after the other; the game runs in between.          *)
pauseGame ==
    /\ At("pausing") /\ \E t \in pause.todo :
          /\ thr' = [thr EXCEPT ![t] = Suspended(@)]
          /\ pause' = [pause EXCEPT !.todo = @ \ {t}]
    /\ UNCHANGED <<ui, usb, sema, filer>>

resumeGame ==
    /\ At("resuming") /\ \E t \in pause.todo :
          /\ thr' = [thr EXCEPT ![t] = Resumed(@)]
          /\ pause' = [pause EXCEPT !.todo = @ \ {t}]
    /\ UNCHANGED <<ui, usb, sema, filer>>

------------------------------------------------------------------------------
(* threadMain                                                                 *)

(* A combo: the menu, the music menu when there is music, or a screenshot of  *)
(* the stopped game.  A music menu that did not come up is shown the next time*)
ComboMenu ==
    /\ At("keys") /\ ~ui.shot /\ Key
    /\ \E inGame \in {FALSE, ui.active} :
          ui' = [Pressed(ui) EXCEPT !.at = "pausing", !.load = TRUE, !.inGame = @ \/ inGame]
    /\ pause' = PauseBegin(pause)
    /\ UNCHANGED <<thr, usb, sema, filer>>

ComboScreenshot ==
    /\ At("keys") /\ ~ui.shot /\ Key
    /\ ui' = [Pressed(ui) EXCEPT !.at = "pausing", !.load = FALSE]
    /\ pause' = PauseBegin(pause)
    /\ UNCHANGED <<thr, usb, sema, filer>>

(* menu_load after the screenshot asked for in the menu: nothing is paused.   *)
LoadAfterShot ==
    /\ At("keys") /\ ui.shot
    /\ ui' = Access([ui EXCEPT !.at = "load"])
    /\ UNCHANGED <<thr, pause, usb, sema, filer>>

Screenshot ==
    /\ At("pausing") /\ pause.todo = {} /\ ~ui.load
    /\ ui' = Access([ui EXCEPT !.at = "snapped"])
    /\ UNCHANGED <<thr, pause, usb, sema, filer>>

ScreenshotDone ==
    /\ At("snapped")
    /\ ui' = [ui EXCEPT !.at = "resuming"]
    /\ pause' = ResumeBegin(pause)
    /\ UNCHANGED <<thr, usb, sema, filer>>

(* Mutant: menu_main does not take screenshot_done back.                      *)
menu_main_shot(u) == [u EXCEPT !.at = "menu"]

menu_main(u) == [u EXCEPT !.at = "menu", !.shot = IF u.inGame THEN @ ELSE FALSE]

(* The heap of the menu; without it nothing is shown.                         *)
menu_load ==
    /\ \/ At("pausing") /\ pause.todo = {} /\ ui.load
       \/ At("load")
    /\ \/ ui' = menu_main(ui)
       \/ ui.fails < MaxFail /\ ui' = [ui EXCEPT !.at = "leave", !.fails = @ + 1]
    /\ UNCHANGED <<thr, pause, usb, sema, filer>>

(* Its end: with a screenshot to take the threads stay as they are.           *)
MenuLoaded ==
    /\ At("leave")
    /\ ui' = [ui EXCEPT !.at = IF ui.shot THEN "music" ELSE "resuming"]
    /\ pause' = IF ui.shot THEN pause ELSE ResumeBegin(pause)
    /\ UNCHANGED <<thr, usb, sema, filer>>

(* main_music waits for the stick and returns.                                *)
StartMusic ==
    /\ At("music") \/ (At("resuming") /\ pause.todo = {})
    /\ ui' = IF ui.music THEN Access([ui EXCEPT !.at = "top", !.music = FALSE]) ELSE [ui EXCEPT !.at = "top"]
    /\ UNCHANGED <<thr, pause, usb, sema, filer>>

(* The top of the loop: reboot, power off, the redirection asked for.         *)
Activated(u, driver) == IF u.active = "none" THEN [u EXCEPT !.active = driver] ELSE u
Deactivated(u, driver) == IF u.active = driver THEN [u EXCEPT !.active = "none"] ELSE u

Redirected(u) == [(IF u.host THEN Activated(u, "host") ELSE u) EXCEPT !.load = FALSE, !.loaded = TRUE]

TopOfLoop ==
    /\ At("top")
    /\ IF ui.reboot \/ usb.stop THEN ui' = [ui EXCEPT !.at = "off"] /\ UNCHANGED usb
       ELSE /\ ui' = [ui EXCEPT !.at = IF ui.poweroff THEN "off" ELSE "keys"]
            /\ usb' = IF usb.load THEN Redirected(usb) ELSE usb
    /\ UNCHANGED <<thr, pause, sema, filer>>

------------------------------------------------------------------------------
(* The menus                                                                  *)

(* CIRCLE in any section; CIRCLE or Stop in the music menu of the game.       *)
LeaveMenu ==
    /\ At("menu")
    /\ \E active \in {ui.active, ui.active /\ ~ui.inGame} :
          ui' = [ui EXCEPT !.at = "leave", !.inGame = FALSE, !.active = active]
    /\ UNCHANGED <<thr, pause, usb, sema, filer>>

Cross == At("menu") /\ ~ui.inGame /\ Key
Chosen(u) == [Pressed(u) EXCEPT !.at = "leave"]

MenuScreenshot ==
    /\ Cross
    /\ ui' = Access([Chosen(ui) EXCEPT !.shot = TRUE])
    /\ UNCHANGED <<thr, pause, usb, sema, filer>>

MenuFiler ==
    /\ Cross
    /\ \E folder \in {"plugin", "music", "capture"} : ui' = Access([Pressed(ui) EXCEPT !.at = "filer", !.folder = folder])
    /\ filer_on
    /\ UNCHANGED <<thr, pause, usb, sema>>

SaveConfig ==
    /\ Cross
    /\ ui' = Access(Pressed(ui))
    /\ UNCHANGED <<thr, pause, usb, sema, filer>>

StartMusicMenu ==
    /\ Cross
    /\ ui' = [Chosen(ui) EXCEPT !.music = TRUE, !.active = TRUE]
    /\ UNCHANGED <<thr, pause, usb, sema, filer>>

(* Reboot, power off, and the firmware chosen in the Time Machine section.    *)
MenuReboot ==
    /\ Cross
    /\ \/ ui' = [Chosen(ui) EXCEPT !.reboot = TRUE]
       \/ ui' = [Chosen(ui) EXCEPT !.poweroff = TRUE]
    /\ UNCHANGED <<thr, pause, usb, sema, filer>>

unloadUsbhost(u) == IF u.host THEN Deactivated(u, "host") ELSE u
stopRemotejoy(u) == IF u.joy THEN [Deactivated(u, "joy") EXCEPT !.joy = FALSE] ELSE u
unloadUsb(u) == Deactivated(u, "storage")

(* loadUsb starts or stops by the state it is told of.                        *)
loadUsb(u) == IF u.active # "none" THEN Deactivated(u, "storage") ELSE Activated(u, "storage")

MenuUsb ==
    /\ Cross
    /\ ui' = Access(Pressed(ui))
    /\ usb' = loadUsb(unloadUsbhost(stopRemotejoy(usb)))
    /\ UNCHANGED <<thr, pause, sema, filer>>

startRemotejoy(u) ==
    LET v == Activated(u, "joy") IN IF v.active = "joy" THEN [v EXCEPT !.joy = TRUE] ELSE v

(* The module starts its driver itself when it is loaded.                     *)
MenuRemotejoy ==
    /\ Cross
    /\ ui' = Access(Pressed(ui))
    /\ LET u == unloadUsbhost(unloadUsb(usb))
       IN  \/ ~u.joyModule /\ usb' = [startRemotejoy(u) EXCEPT !.joyModule = TRUE]
           \/ ~u.joyModule /\ usb' = u            \* it could not be loaded
           \/ u.joyModule /\ usb' = IF u.joy THEN stopRemotejoy(u) ELSE startRemotejoy(u)
    /\ UNCHANGED <<thr, pause, sema, filer>>

(* Mutant: remotejoy goes on when the host is asked for.                      *)
UsbhostWithJoy(u) == LET v == unloadUsb(u) IN IF v.loaded THEN v ELSE [v EXCEPT !.host = TRUE, !.load = TRUE]

UsbhostAsked(u) ==
    LET v == stopRemotejoy(unloadUsb(u)) IN IF v.loaded THEN v ELSE [v EXCEPT !.host = TRUE, !.load = TRUE]

MenuUsbhost ==
    /\ Cross
    /\ ui' = Chosen(ui)
    /\ \/ usb' = UsbhostAsked(usb)
       \/ usb' = [usb EXCEPT !.host = FALSE, !.stop = TRUE]  \* MENU_RESTORE_MS
    /\ UNCHANGED <<thr, pause, sema, filer>>

(* The browser; a plugin brings threads, a folder goes into the settings (Conf). *)
InFiler ==
    /\ At("filer")
    /\ \/ FilerMoves /\ ui' = ui
       \/ FilerEnter /\ Key /\ ui' = Access(Pressed(ui))
       \/ FilerBack /\ ui' = Access(ui)
       \/ FilerLeave /\ ui' = [ui EXCEPT !.at = "menu"]
       \/ FilerSquare /\ ui.folder # "plugin" /\ ui' = [ui EXCEPT !.at = "menu"]
    /\ UNCHANGED <<thr, pause, usb, sema>>

LoadPlugin ==
    /\ At("filer") /\ ui.folder = "plugin"
    /\ FilerPlugin
    /\ ui' = Access([ui EXCEPT !.at = "menu"])
    /\ \/ UNCHANGED thr
       \/ \E t \in Thread : thr[t].life = "none" /\ thr' = [thr EXCEPT ![t].life = "runs"]
    /\ UNCHANGED <<pause, usb, sema>>

------------------------------------------------------------------------------
(* The game (external): threads begin and end, suspend and resume each other, *)
(* and use redirected files.                                                  *)
GameThread(t) ==
    /\ Runs(t)
    /\ \/ \E u \in Thread :
             \/ thr[u].life = "none" /\ thr' = [thr EXCEPT ![u].life = "runs"]
             \/ u # t /\ u \notin Exempt /\ Runs(u) /\ thr' = [thr EXCEPT ![u].suspended = TRUE, ![u].own = TRUE]
             \/ thr[u].own /\ thr' = [thr EXCEPT ![u] = Resumed(@)]
       \/ sema # t /\ thr' = [thr EXCEPT ![t].life = "ended"]
    /\ UNCHANGED <<pause, ui, usb, sema, filer>>

TakeSema(t) ==
    /\ Runs(t) /\ usb.loaded /\ sema = Nobody
    /\ sema' = t
    /\ UNCHANGED <<thr, pause, ui, usb, filer>>

GiveSema ==
    /\ sema # Nobody /\ Runs(sema)
    /\ sema' = Nobody
    /\ UNCHANGED <<thr, pause, ui, usb, filer>>

MainStep ==
    \/ IoDone \/ pauseGame \/ resumeGame \/ LoadAfterShot \/ Screenshot \/ ScreenshotDone \/ menu_load
    \/ MenuLoaded \/ StartMusic \/ TopOfLoop
MainKey ==
    \/ ComboMenu \/ ComboScreenshot \/ MenuScreenshot \/ MenuFiler \/ SaveConfig \/ StartMusicMenu \/ MenuReboot
    \/ MenuUsb \/ MenuRemotejoy \/ MenuUsbhost \/ InFiler \/ LoadPlugin
Next ==
    \/ MainStep \/ MainKey \/ LeaveMenu \/ GiveSema
    \/ \E t \in Thread : GameThread(t) \/ TakeSema(t)

Spec == Init /\ [][Next]_vars

(* The threads are scheduled, the semaphore serves its waiters in turn, and   *)
(* the user leaves browser and menu.                                          *)
LeaveFiler == InFiler /\ (FilerBack \/ FilerLeave)
Fairness ==
    /\ WF_vars(MainStep) /\ SF_vars(IoDone)
    /\ WF_vars(LeaveMenu) /\ WF_vars(LeaveFiler) /\ WF_vars(GiveSema)

FairSpec == Spec /\ Fairness

------------------------------------------------------------------------------
(* When the main thread waits for keys and no pause is on, every thread that  *)
(* is suspended was suspended by the game itself: the two walks over the list *)
(* of threads leave nobody behind, whatever began or ended in between (lines  *)
(* 60 to 180 of main.c).                                                      *)
NotLeftAsleep == TypeOK /\
    (ui.at \in {"top", "keys"} /\ ~pause.uid => \A t \in Thread : thr[t].suspended => thr[t].own)

(* The game goes on after every pause, a screenshot asked for in the menu and *)
(* a heap that could not be had included, unless a thread was stopped inside  *)
(* an exchange with the host and the menu then used a file (lines 260 to 332  *)
(* of main.c).                                                                *)
Stuck == ui.io /\ sema # Nobody /\ ~Runs(sema)
GameRuns == pause.uid ~> (~pause.uid \/ Stuck)

(* The flags of the menu tell which driver the USB bus serves, so that the    *)
(* next choice stops the right one (lines 394 to 470 of menu_main.c).         *)
FlagsTrue ==
    /\ usb.joy <=> usb.active = "joy"
    /\ usb.active = "host" => usb.host \/ usb.stop
    /\ usb.load => usb.active \in {"none", "host"}

==============================================================================
