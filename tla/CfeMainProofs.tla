--------------------------- MODULE CfeMainProofs ---------------------------
(* CfeMain for every set of threads and exempt threads, any stick and any     *)
(* number of keys and failures: pauseGame and resumeGame, which walk over the *)
(* list of threads while threads begin, end, suspend and resume each other,   *)
(* leave nobody suspended; the flags of the menu follow the USB drivers it    *)
(* starts and stops; and the file browser goes back to where it came from.    *)
(* Then Conf for all folders: the settings keep those that fit their buffers. *)
EXTENDS CfeMain, Conf, FiniteSetTheorems, WellFoundedInduction, TLAPS

UiPlaces ==
    {"keys", "pausing", "snapped", "load", "menu", "filer", "leave", "resuming", "music", "top", "off"}

UiType ==
    [at : UiPlaces, shot : BOOLEAN, io : BOOLEAN, inGame : BOOLEAN, reboot : BOOLEAN, active : BOOLEAN,
     poweroff : BOOLEAN, music : BOOLEAN, load : BOOLEAN, folder : {"none", "plugin", "music", "capture"},
     keys : Nat, fails : Nat]

UsbType ==
    [active : {"none", "storage", "joy", "host"}, joy : BOOLEAN, joyModule : BOOLEAN, host : BOOLEAN,
     load : BOOLEAN, loaded : BOOLEAN, stop : BOOLEAN]

Shape == ui \in UiType /\ usb \in UsbType

(* Suspended by pauseGame, not by the game.                                   *)
Asleep(t) == thr[t].suspended /\ ~thr[t].own

(* While a pause is on, who sleeps is on the list resumeGame will walk; once  *)
(* resumeGame has begun, on what is left of its walk.                         *)
Accounted ==
    \A t \in Thread : Asleep(t) =>
        IF pause.uid THEN t \in pause.now \ Exempt ELSE ui.at = "resuming" /\ t \in pause.todo

(* The walk of pauseGame is inside a pause, the one of resumeGame after it;   *)
(* neither meets an exempt thread.                                            *)
Walks ==
    /\ ui.at = "pausing" => pause.uid
    /\ ui.at = "resuming" => ~pause.uid
    /\ pause.todo \cap Exempt = {}

(* A thread does not end while it is suspended.                               *)
SleepersLive == \A t \in Thread : thr[t].suspended => thr[t].life = "runs"

IInv == TypeOK /\ Shape /\ Accounted /\ Walks /\ SleepersLive

LEMMA InitInv == Init => IInv
<1>. SUFFICES ASSUME Init PROVE IInv
  OBVIOUS
<1>. DEFINE Fresh == {[life |-> l, suspended |-> FALSE, own |-> FALSE] : l \in {"none", "runs"}}
<1>0. thr \in [Thread -> Fresh]
  BY DEF Init
<1>9. ASSUME NEW x \in Fresh
      PROVE  x.suspended = FALSE /\ x \in [life : {"none", "runs", "ended"}, suspended : BOOLEAN, own : BOOLEAN]
  <2>1. PICK l \in {"none", "runs"} : x = [life |-> l, suspended |-> FALSE, own |-> FALSE]
    OBVIOUS
  <2>. QED
    BY <2>1
<1>. HIDE DEF Fresh
<1>1. \A t \in Thread : thr[t].suspended = FALSE
  BY <1>0, <1>9
<1>2. thr \in [Thread -> [life : {"none", "runs", "ended"}, suspended : BOOLEAN, own : BOOLEAN]]
  BY <1>0, <1>9
<1>3. pause = [uid |-> FALSE, now |-> {}, todo |-> {}] /\ sema = Nobody
  BY DEF Init
<1>4. Shape /\ ui.at = "keys"
  BY DEF Init, Shape, UiType, UsbType, UiPlaces
<1>. QED
  BY <1>1, <1>2, <1>3, <1>4 DEF IInv, TypeOK, Accounted, Walks, SleepersLive, Asleep, Shape, UsbType

(* A step of the main thread that leaves threads and pause alone, and neither *)
(* enters a walk nor leaves one unfinished.                                   *)
LEMMA Quiet ==
    ASSUME IInv, Shape', UNCHANGED <<thr, pause, sema>>,
           ui'.at = "pausing" => ui.at = "pausing",
           ui'.at = "resuming" => ui.at = "resuming",
           ui.at = "resuming" /\ ui'.at # "resuming" => pause.todo = {}
    PROVE  IInv'
<1>1. TypeOK'
  BY DEF IInv, TypeOK, Shape, UiType, UsbType, UiPlaces
<1>2. Accounted'
  BY DEF IInv, Accounted, Asleep
<1>3. Walks' /\ SleepersLive'
  BY DEF IInv, Walks, SleepersLive
<1>. QED
  BY <1>1, <1>2, <1>3 DEF IInv

(* A pause begins, or goes on: who is awake is put on the list.               *)
LEMMA Pauses ==
    ASSUME IInv, Shape', ui.at = "keys", ui'.at = "pausing", pause' = PauseBegin(pause), UNCHANGED <<thr, sema>>
    PROVE  IInv'
<1>1. CASE pause.uid
  <2>1. pause' = pause
    BY <1>1 DEF PauseBegin
  <2>2. TypeOK'
    BY <2>1 DEF IInv, TypeOK, Shape, UiType, UsbType, UiPlaces
  <2>. QED
    BY <1>1, <2>1, <2>2 DEF IInv, Accounted, Asleep, Walks, SleepersLive
<1>2. CASE ~pause.uid
  <2>1. pause' = [uid |-> TRUE, now |-> Listed, todo |-> {t \in Listed : Suspends(t)}]
    BY <1>2 DEF PauseBegin
  <2>2. pause'.uid = TRUE /\ pause'.now = Listed /\ pause'.todo = {t \in Listed : t \notin Exempt}
    BY <2>1 DEF Suspends
  <2>3. TypeOK'
    BY <2>1 DEF IInv, TypeOK, Shape, UiType, UsbType, UiPlaces, Listed
  <2>4. \A t \in Thread : ~Asleep(t) /\ ~Asleep(t)'
    BY <1>2 DEF IInv, Accounted, Asleep
  <2>5. Accounted' /\ Walks' /\ SleepersLive'
    BY <2>2, <2>4 DEF IInv, Accounted, Walks, SleepersLive
  <2>. QED
    BY <2>3, <2>5 DEF IInv
<1>. QED
  BY <1>1, <1>2 DEF IInv, TypeOK

(* resumeGame begins: its walk covers the sleepers.                           *)
LEMMA ResumeBegins ==
    ASSUME IInv, Shape', ui.at \in {"snapped", "leave"}, ui'.at = "resuming", pause' = ResumeBegin(pause),
           UNCHANGED <<thr, sema>>
    PROVE  IInv'
<1>1. CASE pause.uid
  <2>1. pause' = [pause EXCEPT !.uid = FALSE, !.todo = {t \in pause.now : t \notin Exempt}]
    BY <1>1 DEF ResumeBegin, Resumes
  <2>2. pause'.uid = FALSE /\ pause'.now = pause.now /\ pause'.todo = {t \in pause.now : t \notin Exempt}
    BY <2>1 DEF IInv, TypeOK
  <2>3. TypeOK'
    BY <2>1, <2>2 DEF IInv, TypeOK, Shape, UiType, UsbType, UiPlaces
  <2>4. Accounted' /\ Walks' /\ SleepersLive'
    BY <1>1, <2>2 DEF IInv, Accounted, Asleep, Walks, SleepersLive
  <2>. QED
    BY <2>3, <2>4 DEF IInv
<1>2. CASE ~pause.uid
  <2>1. pause' = pause
    BY <1>2 DEF ResumeBegin
  <2>2. TypeOK'
    BY <2>1 DEF IInv, TypeOK, Shape, UiType, UsbType, UiPlaces
  <2>. QED
    BY <1>2, <2>1, <2>2 DEF IInv, Accounted, Asleep, Walks, SleepersLive
<1>. QED
  BY <1>1, <1>2 DEF IInv, TypeOK

(* One thread of the walk of pauseGame.                                       *)
LEMMA PauseStep ==
    ASSUME IInv, pauseGame
    PROVE  IInv'
<1>1. PICK t \in pause.todo : /\ thr' = [thr EXCEPT ![t] = Suspended(@)]
                              /\ pause' = [pause EXCEPT !.todo = @ \ {t}]
  BY DEF pauseGame
<1>2. UNCHANGED <<ui, usb, sema>> /\ ui.at = "pausing" /\ pause.uid
  BY DEF pauseGame, At, IInv, Walks
<1>3. t \in Thread /\ t \in pause.now /\ t \notin Exempt
  BY DEF IInv, TypeOK, Walks
<1>4. pause'.uid = pause.uid /\ pause'.now = pause.now /\ pause'.todo = pause.todo \ {t}
  BY <1>1 DEF IInv, TypeOK
<1>5. /\ \A u \in Thread : u # t => thr'[u] = thr[u]
      /\ thr'[t] = Suspended(thr[t])
  BY <1>1, <1>3 DEF IInv, TypeOK
<1>6. /\ thr'[t].life = thr[t].life
      /\ thr'[t] = thr[t] \/ (thr[t].life = "runs" /\ thr'[t].suspended = TRUE)
      /\ thr'[t] \in [life : {"none", "runs", "ended"}, suspended : BOOLEAN, own : BOOLEAN]
  BY <1>3, <1>5 DEF IInv, TypeOK, Suspended
<1>7. TypeOK'
  <2>1. thr' \in [Thread -> [life : {"none", "runs", "ended"}, suspended : BOOLEAN, own : BOOLEAN]]
    BY <1>1, <1>3, <1>5, <1>6 DEF IInv, TypeOK
  <2>2. pause' \in [uid : BOOLEAN, now : SUBSET Thread, todo : SUBSET Thread] /\ pause'.todo \subseteq pause'.now
    BY <1>1, <1>4 DEF IInv, TypeOK
  <2>. QED
    BY <1>2, <1>5, <1>6, <2>1, <2>2 DEF IInv, TypeOK
<1>8. Accounted'
  BY <1>2, <1>3, <1>4, <1>5 DEF IInv, Accounted, Asleep
<1>9. Shape' /\ Walks' /\ SleepersLive'
  BY <1>2, <1>4, <1>5, <1>6 DEF IInv, Shape, Walks, SleepersLive
<1>. QED
  BY <1>7, <1>8, <1>9 DEF IInv

(* One thread of the walk of resumeGame.                                      *)
LEMMA ResumeStep ==
    ASSUME IInv, resumeGame
    PROVE  IInv'
<1>1. PICK t \in pause.todo : /\ thr' = [thr EXCEPT ![t] = Resumed(@)]
                              /\ pause' = [pause EXCEPT !.todo = @ \ {t}]
  BY DEF resumeGame
<1>2. UNCHANGED <<ui, usb, sema>> /\ ui.at = "resuming" /\ ~pause.uid
  BY DEF resumeGame, At, IInv, Walks
<1>3. t \in Thread
  BY DEF IInv, TypeOK
<1>4. pause'.uid = pause.uid /\ pause'.now = pause.now /\ pause'.todo = pause.todo \ {t}
  BY <1>1 DEF IInv, TypeOK
<1>5. /\ \A u \in Thread : u # t => thr'[u] = thr[u]
      /\ thr'[t] = Resumed(thr[t])
  BY <1>1, <1>3 DEF IInv, TypeOK
<1>6. /\ thr'[t].life = thr[t].life
      /\ thr'[t].suspended = FALSE
      /\ thr'[t] \in [life : {"none", "runs", "ended"}, suspended : BOOLEAN, own : BOOLEAN]
  BY <1>3, <1>5 DEF IInv, TypeOK, Resumed, SleepersLive
<1>7. TypeOK'
  <2>1. thr' \in [Thread -> [life : {"none", "runs", "ended"}, suspended : BOOLEAN, own : BOOLEAN]]
    BY <1>1, <1>3, <1>5, <1>6 DEF IInv, TypeOK
  <2>2. pause' \in [uid : BOOLEAN, now : SUBSET Thread, todo : SUBSET Thread] /\ pause'.todo \subseteq pause'.now
    BY <1>1, <1>4 DEF IInv, TypeOK
  <2>. QED
    BY <1>2, <1>5, <1>6, <2>1, <2>2 DEF IInv, TypeOK
<1>8. Accounted'
  BY <1>2, <1>4, <1>5, <1>6 DEF IInv, Accounted, Asleep
<1>9. Shape' /\ Walks' /\ SleepersLive'
  BY <1>2, <1>4, <1>5, <1>6 DEF IInv, Shape, Walks, SleepersLive
<1>. QED
  BY <1>7, <1>8, <1>9 DEF IInv

(* The game: a thread that runs may begin, stop or resume another, or end.    *)
LEMMA GameStep ==
    ASSUME IInv, NEW t \in Thread, GameThread(t)
    PROVE  IInv'
<1>1. UNCHANGED <<pause, ui, usb, sema>> /\ Runs(t)
  BY DEF GameThread
<1>2. ASSUME NEW u \in Thread, NEW x,
             thr' = [thr EXCEPT ![u] = x],
             x \in [life : {"none", "runs", "ended"}, suspended : BOOLEAN, own : BOOLEAN],
             x.suspended => x.life = "runs",
             x.suspended => x.own \/ Asleep(u),
             x.life = "runs" \/ sema # u
      PROVE  IInv'
  <2>1. thr'[u] = x /\ \A v \in Thread : v # u => thr'[v] = thr[v]
    BY <1>2 DEF IInv, TypeOK
  <2>2. thr' \in [Thread -> [life : {"none", "runs", "ended"}, suspended : BOOLEAN, own : BOOLEAN]]
    BY <1>2 DEF IInv, TypeOK
  <2>3. TypeOK'
    BY <1>1, <1>2, <2>1, <2>2 DEF IInv, TypeOK
  <2>4. Accounted'
    BY <1>1, <1>2, <2>1 DEF IInv, Accounted, Asleep
  <2>5. Shape' /\ Walks' /\ SleepersLive'
    BY <1>1, <1>2, <2>1 DEF IInv, Shape, Walks, SleepersLive
  <2>. QED
    BY <2>3, <2>4, <2>5 DEF IInv
<1>3. ASSUME NEW u \in Thread, thr[u].life = "none", thr' = [thr EXCEPT ![u].life = "runs"]
      PROVE  IInv'
  <2>. DEFINE x == [thr[u] EXCEPT !.life = "runs"]
  <2>1. thr[u] \in [life : {"none", "runs", "ended"}, suspended : BOOLEAN, own : BOOLEAN] /\ ~thr[u].suspended
    BY <1>3 DEF IInv, TypeOK, SleepersLive
  <2>2. x.life = "runs" /\ x.suspended = FALSE
        /\ x \in [life : {"none", "runs", "ended"}, suspended : BOOLEAN, own : BOOLEAN]
    BY <2>1
  <2>3. thr' = [thr EXCEPT ![u] = x]
    BY <1>3
  <2>. QED
    BY <1>2, <2>2, <2>3
<1>4. ASSUME NEW u \in Thread, Runs(u), thr' = [thr EXCEPT ![u].suspended = TRUE, ![u].own = TRUE]
      PROVE  IInv'
  <2>. DEFINE x == [thr[u] EXCEPT !.suspended = TRUE, !.own = TRUE]
  <2>1. thr[u] \in [life : {"none", "runs", "ended"}, suspended : BOOLEAN, own : BOOLEAN] /\ thr[u].life = "runs"
    BY <1>4 DEF IInv, TypeOK, Runs
  <2>2. x.life = "runs" /\ x.suspended = TRUE /\ x.own = TRUE
        /\ x \in [life : {"none", "runs", "ended"}, suspended : BOOLEAN, own : BOOLEAN]
    BY <2>1
  <2>3. thr' = [thr EXCEPT ![u] = x]
    BY <1>4 DEF IInv, TypeOK
  <2>. QED
    BY <1>2, <2>2, <2>3
<1>5. ASSUME NEW u \in Thread, thr' = [thr EXCEPT ![u] = Resumed(@)]
      PROVE  IInv'
  <2>. DEFINE x == Resumed(thr[u])
  <2>1. thr[u] \in [life : {"none", "runs", "ended"}, suspended : BOOLEAN, own : BOOLEAN]
    BY DEF IInv, TypeOK
  <2>2. thr[u].life # "runs" => ~thr[u].suspended
    BY DEF IInv, SleepersLive
  <2>3. sema = u => thr[u].life = "runs" \/ u = Nobody
    BY DEF IInv, TypeOK
  <2>4. x.life = thr[u].life /\ x.suspended = FALSE
        /\ x \in [life : {"none", "runs", "ended"}, suspended : BOOLEAN, own : BOOLEAN]
    BY <2>1, <2>2 DEF Resumed
  <2>5. thr' = [thr EXCEPT ![u] = x]
    BY <1>5
  <2>6. CASE thr[u].life = "runs" \/ sema # u
    BY <1>2, <2>4, <2>5, <2>6
  <2>7. CASE thr[u].life # "runs"
    <3>1. thr' = thr
      BY <1>5, <2>7 DEF Resumed, IInv, TypeOK
    <3>. QED
      BY <1>1, <3>1 DEF IInv, TypeOK, Shape, Accounted, Asleep, Walks, SleepersLive
  <2>. QED
    BY <2>6, <2>7
<1>6. ASSUME sema # t, thr' = [thr EXCEPT ![t].life = "ended"]
      PROVE  IInv'
  <2>. DEFINE x == [thr[t] EXCEPT !.life = "ended"]
  <2>1. thr[t] \in [life : {"none", "runs", "ended"}, suspended : BOOLEAN, own : BOOLEAN] /\ ~thr[t].suspended
    BY <1>1 DEF IInv, TypeOK, Runs
  <2>2. x.suspended = FALSE /\ x \in [life : {"none", "runs", "ended"}, suspended : BOOLEAN, own : BOOLEAN]
    BY <2>1
  <2>3. thr' = [thr EXCEPT ![t] = x]
    BY <1>6
  <2>. QED
    BY <1>2, <1>6, <2>2, <2>3
<1>. QED
  BY <1>3, <1>4, <1>5, <1>6 DEF GameThread

(* What a key, an access and a change of place do to the flags.               *)
LEMMA UiSteps ==
    ASSUME NEW u \in UiType
    PROVE  /\ Pressed(u) \in UiType /\ Pressed(u).at = u.at
           /\ Access(u) \in UiType /\ Access(u).at = u.at
           /\ Chosen(u) \in UiType /\ Chosen(u).at = "leave"
           /\ \A p \in UiPlaces : [u EXCEPT !.at = p] \in UiType /\ [u EXCEPT !.at = p].at = p
<1>1. u.keys + 1 \in Nat
  BY DEF UiType
<1>2. Pressed(u) \in UiType /\ Pressed(u).at = u.at
  BY <1>1 DEF Pressed, UiType
<1>3. Access(u) \in UiType /\ Access(u).at = u.at
  BY DEF Access, UiType
<1>4. \A v \in UiType, p \in UiPlaces : [v EXCEPT !.at = p] \in UiType /\ [v EXCEPT !.at = p].at = p
  BY DEF UiType
<1>5. Chosen(u) \in UiType /\ Chosen(u).at = "leave"
  BY <1>2, <1>4 DEF Chosen, UiPlaces
<1>. QED
  BY <1>2, <1>3, <1>4, <1>5

(* The combos, the menus, the browser and the top of the loop.                *)
LEMMA MainStepInv ==
    ASSUME IInv, MainStep
    PROVE  IInv'
<1>. USE DEF At
<1>1. CASE IoDone
  <2>1. Shape'
    BY <1>1 DEF IoDone, IInv, Shape, UiType
  <2>2. ui'.at = ui.at
    BY <1>1 DEF IoDone, IInv, Shape, UiType
  <2>. QED
    BY <1>1, <2>1, <2>2, Quiet DEF IoDone
<1>2. CASE LoadAfterShot
  <2>1. Shape' /\ ui'.at = "load" /\ ui.at = "keys"
    BY <1>2 DEF LoadAfterShot, Access, IInv, Shape, UiType, UiPlaces
  <2>. QED
    BY <1>2, <2>1, Quiet DEF LoadAfterShot
<1>3. CASE Screenshot
  <2>1. Shape' /\ ui'.at = "snapped" /\ ui.at = "pausing"
    BY <1>3 DEF Screenshot, Access, IInv, Shape, UiType, UiPlaces
  <2>. QED
    BY <1>3, <2>1, Quiet DEF Screenshot
<1>4. CASE ScreenshotDone
  <2>1. Shape' /\ ui'.at = "resuming" /\ ui.at = "snapped"
    BY <1>4 DEF ScreenshotDone, IInv, Shape, UiType, UiPlaces
  <2>. QED
    BY <1>4, <2>1, ResumeBegins DEF ScreenshotDone
<1>5. CASE menu_load
  <2>1. UNCHANGED <<thr, pause, usb, sema>> /\ ui.at \in {"pausing", "load"}
    BY <1>5 DEF menu_load
  <2>2. Shape' /\ ui'.at \in {"menu", "leave"}
    <3>1. ui \in UiType /\ usb' \in UsbType
      BY <2>1 DEF IInv, Shape
    <3>2. CASE ui' = menu_main(ui)
      BY <3>1, <3>2 DEF menu_main, Shape, UiType, UiPlaces
    <3>3. CASE ui' = [ui EXCEPT !.at = "leave", !.fails = @ + 1]
      <4>1. ui.fails + 1 \in Nat
        BY <3>1 DEF UiType
      <4>. QED
        BY <3>1, <3>3, <4>1 DEF Shape, UiType, UiPlaces
    <3>. QED
      BY <1>5, <3>2, <3>3 DEF menu_load
  <2>. QED
    BY <2>1, <2>2, Quiet
<1>6. CASE MenuLoaded
  <2>1. UNCHANGED <<thr, usb, sema>> /\ ui.at = "leave"
    BY <1>6 DEF MenuLoaded
  <2>2. CASE ui.shot
    <3>1. Shape' /\ ui'.at = "music" /\ pause' = pause
      BY <1>6, <2>2 DEF MenuLoaded, IInv, Shape, UiType, UiPlaces
    <3>. QED
      BY <2>1, <3>1, Quiet
  <2>3. CASE ~ui.shot
    <3>1. Shape' /\ ui'.at = "resuming" /\ pause' = ResumeBegin(pause)
      BY <1>6, <2>3 DEF MenuLoaded, IInv, Shape, UiType, UiPlaces
    <3>. QED
      BY <2>1, <3>1, ResumeBegins
  <2>. QED
    BY <2>2, <2>3
<1>7. CASE StartMusic
  <2>1. UNCHANGED <<thr, pause, usb, sema>>
    BY <1>7 DEF StartMusic
  <2>2. ui.at = "music" \/ (ui.at = "resuming" /\ pause.todo = {})
    BY <1>7 DEF StartMusic
  <2>3. Shape' /\ ui'.at = "top"
    BY <1>7 DEF StartMusic, Access, IInv, Shape, UiType, UiPlaces
  <2>. QED
    BY <2>1, <2>2, <2>3, Quiet
<1>8. CASE TopOfLoop
  <2>1. UNCHANGED <<thr, pause, sema>> /\ ui.at = "top"
    BY <1>8 DEF TopOfLoop
  <2>2. ui' \in UiType /\ ui'.at \in {"off", "keys"}
    BY <1>8 DEF TopOfLoop, IInv, Shape, UiType, UiPlaces
  <2>3. usb' \in UsbType
    BY <1>8 DEF TopOfLoop, Redirected, Activated, IInv, Shape, UsbType
  <2>. QED
    BY <2>1, <2>2, <2>3, Quiet DEF Shape
<1>. QED
  BY <1>1, <1>2, <1>3, <1>4, <1>5, <1>6, <1>7, <1>8, PauseStep, ResumeStep DEF MainStep

LEMMA MainKeyInv ==
    ASSUME IInv, MainKey
    PROVE  IInv'
<1>. USE DEF At
<1>1. CASE ComboMenu \/ ComboScreenshot
  <2>1. UNCHANGED <<thr, usb, sema>> /\ ui.at = "keys" /\ pause' = PauseBegin(pause)
    BY <1>1 DEF ComboMenu, ComboScreenshot
  <2>2. Shape' /\ ui'.at = "pausing"
    <3>1. ui \in UiType /\ usb' \in UsbType /\ Pressed(ui) \in UiType
      BY <2>1, UiSteps DEF IInv, Shape
    <3>. DEFINE v == Pressed(ui)
    <3>2. PICK b \in BOOLEAN, g \in BOOLEAN :
             ui' = [v EXCEPT !.at = "pausing", !.load = b, !.inGame = g]
      <4>1. CASE ComboMenu
        <5>1. PICK g \in {FALSE, ui.active} : ui' = [v EXCEPT !.at = "pausing", !.load = TRUE, !.inGame = @ \/ g]
          BY <4>1 DEF ComboMenu
        <5>2. v.inGame \/ g \in BOOLEAN
          BY <3>1, <5>1 DEF UiType
        <5>. QED
          BY <5>1, <5>2
      <4>2. CASE ComboScreenshot
        <5>1. ui' = [v EXCEPT !.at = "pausing", !.load = FALSE]
          BY <4>2 DEF ComboScreenshot
        <5>2. v.inGame \in BOOLEAN /\ ui' = [v EXCEPT !.at = "pausing", !.load = FALSE, !.inGame = v.inGame]
          BY <3>1, <5>1 DEF UiType
        <5>. QED
          BY <5>2
      <4>. QED
        BY <1>1, <4>1, <4>2
    <3>. HIDE DEF v
    <3>3. v \in UiType
      BY <3>1 DEF v
    <3>. QED
      BY <3>1, <3>2, <3>3 DEF Shape, UiType, UiPlaces
  <2>. QED
    BY <2>1, <2>2, Pauses
<1>2. CASE MenuScreenshot \/ SaveConfig \/ StartMusicMenu \/ MenuReboot
  <2>1. UNCHANGED <<thr, pause, usb, sema>> /\ ui.at = "menu"
    BY <1>2 DEF MenuScreenshot, SaveConfig, StartMusicMenu, MenuReboot, Cross
  <2>2. Shape' /\ ui'.at \in {"menu", "leave"}
    <3>1. ui \in UiType /\ usb' \in UsbType /\ Chosen(ui) \in UiType /\ Chosen(ui).at = "leave"
      BY <2>1, UiSteps DEF IInv, Shape
    <3>2. CASE MenuScreenshot
      <4>1. [Chosen(ui) EXCEPT !.shot = TRUE] \in UiType /\ [Chosen(ui) EXCEPT !.shot = TRUE].at = "leave"
        BY <3>1 DEF UiType
      <4>. QED
        BY <3>1, <3>2, <4>1, UiSteps DEF MenuScreenshot, Shape
    <3>3. CASE SaveConfig
      BY <2>1, <3>1, <3>3, UiSteps DEF SaveConfig, Shape
    <3>4. CASE StartMusicMenu
      BY <3>1, <3>4 DEF StartMusicMenu, Shape, UiType
    <3>5. CASE MenuReboot
      BY <3>1, <3>5 DEF MenuReboot, Shape, UiType
    <3>. QED
      BY <1>2, <3>2, <3>3, <3>4, <3>5
  <2>. QED
    BY <2>1, <2>2, Quiet
<1>3. CASE MenuFiler
  <2>1. UNCHANGED <<thr, pause, usb, sema>> /\ ui.at = "menu"
    BY <1>3 DEF MenuFiler, Cross
  <2>2. Shape' /\ ui'.at = "filer"
    <3>1. ui \in UiType /\ usb' \in UsbType /\ Pressed(ui) \in UiType
      BY <2>1, UiSteps DEF IInv, Shape
    <3>2. PICK f \in {"plugin", "music", "capture"} :
             ui' = Access([Pressed(ui) EXCEPT !.at = "filer", !.folder = f])
      BY <1>3 DEF MenuFiler
    <3>. DEFINE w == [Pressed(ui) EXCEPT !.at = "filer", !.folder = f]
    <3>3. w \in UiType /\ w.at = "filer"
      BY <3>1 DEF UiType, UiPlaces
    <3>. HIDE DEF w
    <3>. QED
      BY <3>1, <3>2, <3>3, UiSteps DEF Shape, w
  <2>. QED
    BY <2>1, <2>2, Quiet
<1>4. CASE MenuUsb \/ MenuRemotejoy \/ MenuUsbhost
  <2>1. UNCHANGED <<thr, pause, sema>> /\ ui.at = "menu"
    BY <1>4 DEF MenuUsb, MenuRemotejoy, MenuUsbhost, Cross
  <2>2. ui' \in UiType /\ ui'.at \in {"menu", "leave"}
    <3>1. ui \in UiType
      BY DEF IInv, Shape
    <3>2. ui' = Access(Pressed(ui)) \/ ui' = Chosen(ui)
      BY <1>4 DEF MenuUsb, MenuRemotejoy, MenuUsbhost
    <3>. QED
      BY <2>1, <3>1, <3>2, UiSteps
  <2>3. usb' \in UsbType
    <3>1. \A u \in UsbType, d \in {"storage", "joy", "host"} :
             Activated(u, d) \in UsbType /\ Deactivated(u, d) \in UsbType
      BY DEF Activated, Deactivated, UsbType
    <3>2. \A u \in UsbType : /\ unloadUsbhost(u) \in UsbType
                             /\ stopRemotejoy(u) \in UsbType
                             /\ unloadUsb(u) \in UsbType
                             /\ loadUsb(u) \in UsbType
                             /\ startRemotejoy(u) \in UsbType
      <4>1. \A u \in UsbType, b \in BOOLEAN : [u EXCEPT !.joy = b] \in UsbType
        BY DEF UsbType
      <4>2. TAKE u \in UsbType
      <4>3. Deactivated(u, "host") \in UsbType /\ Deactivated(u, "joy") \in UsbType
            /\ Deactivated(u, "storage") \in UsbType /\ Activated(u, "storage") \in UsbType
            /\ Activated(u, "joy") \in UsbType
        BY <3>1
      <4>4. startRemotejoy(u) \in UsbType
        BY <4>1, <4>3 DEF startRemotejoy
      <4>. QED
        BY <4>1, <4>3, <4>4 DEF unloadUsbhost, stopRemotejoy, unloadUsb, loadUsb
    <3>3. \A u \in UsbType : UsbhostAsked(u) \in UsbType
      BY <3>2 DEF UsbhostAsked, UsbType
    <3>4. usb \in UsbType
      BY DEF IInv, Shape
    <3>5. CASE MenuUsb
      BY <3>2, <3>4, <3>5 DEF MenuUsb
    <3>6. CASE MenuRemotejoy
      <4>1. PICK u \in UsbType : \/ usb' = [startRemotejoy(u) EXCEPT !.joyModule = TRUE]
                                \/ usb' = u
                                \/ usb' = IF u.joy THEN stopRemotejoy(u) ELSE startRemotejoy(u)
        BY <3>2, <3>4, <3>6 DEF MenuRemotejoy
      <4>2. \A v \in UsbType : [v EXCEPT !.joyModule = TRUE] \in UsbType
        BY DEF UsbType
      <4>. QED
        BY <3>2, <4>1, <4>2
    <3>7. CASE MenuUsbhost
      <4>1. [usb EXCEPT !.host = FALSE, !.stop = TRUE] \in UsbType
        BY <3>4 DEF UsbType
      <4>. QED
        BY <3>3, <3>4, <3>7, <4>1 DEF MenuUsbhost
    <3>. QED
      BY <1>4, <3>5, <3>6, <3>7
  <2>. QED
    BY <2>1, <2>2, <2>3, Quiet DEF Shape
<1>5. CASE InFiler
  <2>1. UNCHANGED <<thr, pause, usb, sema>> /\ ui.at = "filer"
    BY <1>5 DEF InFiler
  <2>2. \/ ui' = ui
        \/ ui' = Access(Pressed(ui))
        \/ ui' = Access(ui)
        \/ ui' = [ui EXCEPT !.at = "menu"]
    BY <1>5 DEF InFiler
  <2>3. Shape' /\ ui'.at \in {"filer", "menu"}
    <3>1. ui \in UiType /\ usb' \in UsbType /\ "menu" \in UiPlaces
      BY <2>1 DEF IInv, Shape, UiPlaces
    <3>2. Pressed(ui) \in UiType /\ Pressed(ui).at = "filer" /\ Access(ui) \in UiType /\ Access(ui).at = "filer"
      BY <2>1, <3>1, UiSteps
    <3>3. Access(Pressed(ui)) \in UiType /\ Access(Pressed(ui)).at = "filer"
      BY <3>2, UiSteps
    <3>4. [ui EXCEPT !.at = "menu"] \in UiType /\ [ui EXCEPT !.at = "menu"].at = "menu"
      BY <3>1, UiSteps
    <3>5. ui' \in UiType /\ ui'.at \in {"filer", "menu"}
      BY <2>1, <2>2, <3>1, <3>2, <3>3, <3>4
    <3>. QED
      BY <3>1, <3>5 DEF Shape
  <2>. QED
    BY <2>1, <2>3, Quiet
<1>6. CASE LoadPlugin
  <2>1. UNCHANGED <<pause, usb, sema>> /\ ui.at = "filer"
    BY <1>6 DEF LoadPlugin
  <2>2. Shape' /\ ui'.at = "menu"
    BY <1>6 DEF LoadPlugin, Access, IInv, Shape, UiType, UiPlaces
  <2>3. CASE UNCHANGED thr
    BY <2>1, <2>2, <2>3, Quiet
  <2>4. CASE \E t \in Thread : thr[t].life = "none" /\ thr' = [thr EXCEPT ![t].life = "runs"]
    <3>1. PICK t \in Thread : thr[t].life = "none" /\ thr' = [thr EXCEPT ![t].life = "runs"]
      BY <2>4
    <3>2. thr[t] \in [life : {"none", "runs", "ended"}, suspended : BOOLEAN, own : BOOLEAN] /\ ~thr[t].suspended
      BY <3>1 DEF IInv, TypeOK, SleepersLive
    <3>3. /\ thr'[t] \in [life : {"none", "runs", "ended"}, suspended : BOOLEAN, own : BOOLEAN]
          /\ thr'[t].life = "runs" /\ ~thr'[t].suspended
          /\ \A v \in Thread : v # t => thr'[v] = thr[v]
      BY <3>1, <3>2 DEF IInv, TypeOK
    <3>4. thr' \in [Thread -> [life : {"none", "runs", "ended"}, suspended : BOOLEAN, own : BOOLEAN]]
      BY <3>1, <3>3 DEF IInv, TypeOK
    <3>5. TypeOK'
      BY <2>1, <2>2, <3>3, <3>4 DEF IInv, TypeOK, Shape, UiType, UsbType, UiPlaces
    <3>6. Accounted'
      BY <2>1, <2>2, <3>3 DEF IInv, Accounted, Asleep, Walks
    <3>7. Walks' /\ SleepersLive'
      BY <2>1, <2>2, <3>3 DEF IInv, Walks, SleepersLive
    <3>. QED
      BY <2>2, <3>5, <3>6, <3>7 DEF IInv
  <2>. QED
    BY <1>6, <2>3, <2>4 DEF LoadPlugin
<1>. QED
  BY <1>1, <1>2, <1>3, <1>4, <1>5, <1>6 DEF MainKey

(* Giving and taking the semaphore of command_xchg.                           *)
LEMMA SemaInv ==
    ASSUME IInv, GiveSema \/ \E t \in Thread : TakeSema(t)
    PROVE  IInv'
<1>1. UNCHANGED <<thr, pause, ui, usb>>
  BY DEF GiveSema, TakeSema
<1>2. sema' \in Thread \cup {Nobody} /\ (sema' # Nobody => thr[sema'].life = "runs")
  BY DEF GiveSema, TakeSema, Runs
<1>3. TypeOK'
  BY <1>1, <1>2 DEF IInv, TypeOK
<1>. QED
  BY <1>1, <1>3 DEF IInv, Shape, Accounted, Asleep, Walks, SleepersLive

LEMMA NextInv == IInv /\ [Next]_vars => IInv'
<1>. SUFFICES ASSUME IInv, [Next]_vars PROVE IInv'
  OBVIOUS
<1>1. CASE LeaveMenu
  <2>1. UNCHANGED <<thr, pause, usb, sema>> /\ ui.at = "menu"
    BY <1>1 DEF LeaveMenu, At
  <2>2. Shape' /\ ui'.at = "leave"
    BY <1>1 DEF LeaveMenu, IInv, Shape, UiType, UiPlaces
  <2>. QED
    BY <2>1, <2>2, Quiet
<1>2. CASE UNCHANGED vars
  BY <1>2 DEF vars, IInv, TypeOK, Shape, Accounted, Asleep, Walks, SleepersLive
<1>. QED
  BY <1>1, <1>2, MainStepInv, MainKeyInv, GameStep, SemaInv DEF Next

(* Whatever threads there are and whatever the game does with them while the  *)
(* main thread walks over its list (pauseGame and resumeGame, main.c), nobody *)
(* stays suspended that the game did not suspend.                             *)
THEOREM NobodyLeftAsleep == Spec => []NotLeftAsleep
<1>1. IInv => NotLeftAsleep
  BY DEF IInv, NotLeftAsleep, Accounted, Asleep
<1>. QED
  BY InitInv, NextInv, <1>1, PTL DEF Spec

------------------------------------------------------------------------------
(* The choice of the USB driver.                                              *)

(* The host that was asked for is loaded before the keys are read again.      *)
LoadSoon == usb.load => ui.at \in {"leave", "resuming", "music", "top", "off"}

FlagsInv == FlagsTrue /\ LoadSoon

(* What one choice of the menu does to the flags, when no load is due.        *)
Flags(u) ==
    /\ u.joy <=> u.active = "joy"
    /\ u.active = "host" => u.host \/ u.stop
    /\ u.load => u.active \in {"none", "host"}

LEMMA ChoiceFlags ==
    ASSUME NEW u \in UsbType, Flags(u), ~u.load
    PROVE  /\ Flags(loadUsb(unloadUsbhost(stopRemotejoy(u)))) /\ ~loadUsb(unloadUsbhost(stopRemotejoy(u))).load
           /\ Flags(UsbhostAsked(u))
           /\ \A v : v = unloadUsbhost(unloadUsb(u)) =>
                /\ v \in UsbType /\ Flags(v) /\ ~v.load
                /\ Flags([startRemotejoy(v) EXCEPT !.joyModule = TRUE])
                /\ ~[startRemotejoy(v) EXCEPT !.joyModule = TRUE].load
                /\ Flags(stopRemotejoy(v)) /\ ~stopRemotejoy(v).load
                /\ Flags(startRemotejoy(v)) /\ ~startRemotejoy(v).load
           /\ Flags([u EXCEPT !.host = FALSE, !.stop = TRUE])
<1>1. \A w \in UsbType, d \in {"storage", "joy", "host"} :
        /\ Activated(w, d) \in UsbType /\ Deactivated(w, d) \in UsbType
        /\ Activated(w, d).active = (IF w.active = "none" THEN d ELSE w.active)
        /\ Deactivated(w, d).active = (IF w.active = d THEN "none" ELSE w.active)
        /\ Activated(w, d).joy = w.joy /\ Deactivated(w, d).joy = w.joy
        /\ Activated(w, d).host = w.host /\ Deactivated(w, d).host = w.host
        /\ Activated(w, d).stop = w.stop /\ Deactivated(w, d).stop = w.stop
        /\ Activated(w, d).load = w.load /\ Deactivated(w, d).load = w.load
        /\ Activated(w, d).loaded = w.loaded /\ Deactivated(w, d).loaded = w.loaded
  BY DEF Activated, Deactivated, UsbType
<1>2. \A w \in UsbType, b \in BOOLEAN :
        /\ [w EXCEPT !.joy = b] \in UsbType /\ [w EXCEPT !.joy = b].joy = b
        /\ [w EXCEPT !.joy = b].active = w.active /\ [w EXCEPT !.joy = b].host = w.host
        /\ [w EXCEPT !.joy = b].stop = w.stop /\ [w EXCEPT !.joy = b].load = w.load
        /\ [w EXCEPT !.joy = b].loaded = w.loaded
  BY DEF UsbType
<1>3. \A w \in UsbType : Flags(w) /\ ~w.load =>
        /\ unloadUsb(w) \in UsbType /\ Flags(unloadUsb(w)) /\ ~unloadUsb(w).load
        /\ unloadUsbhost(w) \in UsbType /\ Flags(unloadUsbhost(w)) /\ ~unloadUsbhost(w).load
        /\ stopRemotejoy(w) \in UsbType /\ Flags(stopRemotejoy(w)) /\ ~stopRemotejoy(w).load
        /\ loadUsb(w) \in UsbType /\ Flags(loadUsb(w)) /\ ~loadUsb(w).load
        /\ startRemotejoy(w) \in UsbType /\ Flags(startRemotejoy(w)) /\ ~startRemotejoy(w).load
        /\ stopRemotejoy(unloadUsb(w)).active \in {"none", "host"}
  <2>. TAKE w \in UsbType
  <2>. HAVE Flags(w) /\ ~w.load
  <2>1. unloadUsb(w) \in UsbType /\ Flags(unloadUsb(w)) /\ ~unloadUsb(w).load /\ unloadUsb(w).active # "storage"
    BY <1>1 DEF unloadUsb, Flags, UsbType
  <2>2. unloadUsbhost(w) \in UsbType /\ Flags(unloadUsbhost(w)) /\ ~unloadUsbhost(w).load
    BY <1>1 DEF unloadUsbhost, Flags
  <2>3. \A v \in UsbType : Flags(v) /\ ~v.load =>
          /\ stopRemotejoy(v) \in UsbType /\ Flags(stopRemotejoy(v)) /\ ~stopRemotejoy(v).load
          /\ stopRemotejoy(v).active = IF v.active = "joy" THEN "none" ELSE v.active
    <3>. TAKE v \in UsbType
    <3>. HAVE Flags(v) /\ ~v.load
    <3>1. CASE v.joy
      <4>1. v.active = "joy"
        BY <3>1 DEF Flags
      <4>. DEFINE w1 == Deactivated(v, "joy")
      <4>2. w1 \in UsbType /\ w1.active = "none" /\ ~w1.load
        BY <1>1, <4>1
      <4>3. stopRemotejoy(v) = [w1 EXCEPT !.joy = FALSE]
        BY <3>1 DEF stopRemotejoy
      <4>. HIDE DEF w1
      <4>. QED
        BY <1>2, <4>1, <4>2, <4>3 DEF Flags
    <3>2. CASE ~v.joy
      BY <3>2 DEF stopRemotejoy, Flags
    <3>. QED
      BY <3>1, <3>2
  <2>4. loadUsb(w) \in UsbType /\ Flags(loadUsb(w)) /\ ~loadUsb(w).load
    BY <1>1 DEF loadUsb, Flags
  <2>5. startRemotejoy(w) \in UsbType /\ Flags(startRemotejoy(w)) /\ ~startRemotejoy(w).load
    <3>. DEFINE v == Activated(w, "joy")
    <3>1. v \in UsbType /\ v.active = (IF w.active = "none" THEN "joy" ELSE w.active) /\ v.joy = w.joy
          /\ v.host = w.host /\ v.stop = w.stop /\ ~v.load
      BY <1>1
    <3>2. startRemotejoy(w) = IF v.active = "joy" THEN [v EXCEPT !.joy = TRUE] ELSE v
      BY DEF startRemotejoy
    <3>. HIDE DEF v
    <3>3. CASE v.active = "joy"
      <4>. DEFINE x == [v EXCEPT !.joy = TRUE]
      <4>1. x \in UsbType /\ x.joy = TRUE /\ x.active = "joy" /\ ~x.load
        BY <1>2, <3>1, <3>3
      <4>2. startRemotejoy(w) = x
        BY <3>2, <3>3
      <4>. HIDE DEF x
      <4>. QED
        BY <4>1, <4>2 DEF Flags
    <3>4. CASE v.active # "joy"
      BY <3>1, <3>2, <3>4 DEF Flags
    <3>. QED
      BY <3>3, <3>4
  <2>6. unloadUsb(w).active \in {"none", "joy", "host"}
    BY <2>1 DEF UsbType
  <2>7. stopRemotejoy(unloadUsb(w)).active \in {"none", "host"}
    BY <2>1, <2>3, <2>6
  <2>. QED
    BY <2>1, <2>2, <2>3, <2>4, <2>5, <2>7
<1>4. Flags(loadUsb(unloadUsbhost(stopRemotejoy(u)))) /\ ~loadUsb(unloadUsbhost(stopRemotejoy(u))).load
  BY <1>3
<1>5. Flags(UsbhostAsked(u))
  <2>. DEFINE v == stopRemotejoy(unloadUsb(u))
  <2>1. v \in UsbType /\ Flags(v) /\ ~v.load /\ v.active \in {"none", "host"}
    BY <1>3
  <2>2. UsbhostAsked(u) = IF v.loaded THEN v ELSE [v EXCEPT !.host = TRUE, !.load = TRUE]
    BY DEF UsbhostAsked
  <2>. HIDE DEF v
  <2>3. Flags([v EXCEPT !.host = TRUE, !.load = TRUE])
    BY <2>1 DEF Flags, UsbType
  <2>. QED
    BY <2>1, <2>2, <2>3
<1>6. ASSUME NEW v, v = unloadUsbhost(unloadUsb(u))
      PROVE  /\ v \in UsbType /\ Flags(v) /\ ~v.load
             /\ Flags([startRemotejoy(v) EXCEPT !.joyModule = TRUE])
             /\ ~[startRemotejoy(v) EXCEPT !.joyModule = TRUE].load
             /\ Flags(stopRemotejoy(v)) /\ ~stopRemotejoy(v).load
             /\ Flags(startRemotejoy(v)) /\ ~startRemotejoy(v).load
  <2>1. v \in UsbType /\ Flags(v) /\ ~v.load
    BY <1>3, <1>6
  <2>2. startRemotejoy(v) \in UsbType /\ Flags(startRemotejoy(v)) /\ ~startRemotejoy(v).load
        /\ Flags(stopRemotejoy(v)) /\ ~stopRemotejoy(v).load
    BY <1>3, <2>1
  <2>3. \A w \in UsbType : Flags(w) /\ ~w.load =>
          Flags([w EXCEPT !.joyModule = TRUE]) /\ ~[w EXCEPT !.joyModule = TRUE].load
    BY DEF Flags, UsbType
  <2>. QED
    BY <2>1, <2>2, <2>3
<1>7. Flags([u EXCEPT !.host = FALSE, !.stop = TRUE])
  BY DEF Flags, UsbType
<1>. QED
  BY <1>4, <1>5, <1>6, <1>7

LEMMA FlagsInit == Init => FlagsInv
  BY DEF Init, FlagsInv, FlagsTrue, LoadSoon

(* A step that leaves the flags alone and does not go back to the keys while  *)
(* a load is due.                                                             *)
LEMMA FlagsQuiet ==
    ASSUME FlagsInv, UNCHANGED usb,
           ui.at \in {"leave", "resuming", "music", "top", "off"} /\ usb.load
              => ui'.at \in {"leave", "resuming", "music", "top", "off"}
    PROVE  FlagsInv'
  BY DEF FlagsInv, FlagsTrue, LoadSoon

LEMMA FlagsNext == IInv /\ FlagsInv /\ [Next]_vars => FlagsInv'
<1>. SUFFICES ASSUME IInv, FlagsInv, [Next]_vars PROVE FlagsInv'
  OBVIOUS
<1>0. ui \in UiType /\ usb \in UsbType
  BY DEF IInv, Shape
<1>1. CASE MenuUsb \/ MenuRemotejoy \/ MenuUsbhost
  <2>1. ui.at = "menu" /\ ~usb.load /\ Flags(usb)
    BY <1>1 DEF MenuUsb, MenuRemotejoy, MenuUsbhost, Cross, At, FlagsInv, FlagsTrue, LoadSoon, Flags
  <2>2. CASE MenuUsb
    <3>1. Flags(usb') /\ ~usb'.load
      BY <1>0, <2>1, <2>2, ChoiceFlags DEF MenuUsb
    <3>. QED
      BY <3>1 DEF Flags, FlagsInv, FlagsTrue, LoadSoon
  <2>3. CASE MenuRemotejoy
    <3>1. Flags(usb') /\ ~usb'.load
      BY <1>0, <2>1, <2>3, ChoiceFlags DEF MenuRemotejoy
    <3>. QED
      BY <3>1 DEF Flags, FlagsInv, FlagsTrue, LoadSoon
  <2>4. CASE MenuUsbhost
    <3>1. Flags(usb')
      BY <1>0, <2>1, <2>4, ChoiceFlags DEF MenuUsbhost
    <3>2. ui'.at = "leave"
      BY <1>0, <2>4, UiSteps DEF MenuUsbhost
    <3>. QED
      BY <3>1, <3>2 DEF Flags, FlagsInv, FlagsTrue, LoadSoon
  <2>. QED
    BY <1>1, <2>2, <2>3, <2>4
<1>2. CASE TopOfLoop
  <2>1. CASE ui.reboot \/ usb.stop
    <3>1. UNCHANGED usb /\ ui'.at = "off"
      BY <1>0, <1>2, <2>1 DEF TopOfLoop, UiType
    <3>. QED
      BY <3>1, FlagsQuiet
  <2>2. CASE ~(ui.reboot \/ usb.stop)
    <3>1. CASE ~usb.load
      BY <1>2, <2>2, <3>1 DEF TopOfLoop, FlagsInv, FlagsTrue, LoadSoon
    <3>2. CASE usb.load
      <4>1. usb' = Redirected(usb)
        BY <1>2, <2>2, <3>2 DEF TopOfLoop
      <4>2. Flags(usb)
        BY DEF FlagsInv, FlagsTrue, Flags
      <4>3. Flags(usb') /\ ~usb'.load
        BY <1>0, <4>1, <4>2 DEF Redirected, Activated, Flags, UsbType
      <4>. QED
        BY <4>3 DEF Flags, FlagsInv, FlagsTrue, LoadSoon
    <3>. QED
      BY <3>1, <3>2
  <2>. QED
    BY <2>1, <2>2
<1>3. CASE IoDone
  BY <1>0, <1>3, FlagsQuiet DEF IoDone, UiType
<1>4. CASE pauseGame \/ resumeGame \/ LoadAfterShot \/ Screenshot \/ ScreenshotDone \/ menu_load
  <2>1. UNCHANGED usb
    BY <1>4 DEF pauseGame, resumeGame, LoadAfterShot, Screenshot, ScreenshotDone, menu_load
  <2>2. ui.at \in {"leave", "resuming", "music", "top", "off"} => ui' = ui
    BY <1>4 DEF pauseGame, resumeGame, LoadAfterShot, Screenshot, ScreenshotDone, menu_load, At
  <2>. QED
    BY <2>1, <2>2, FlagsQuiet
<1>5. CASE MenuLoaded \/ StartMusic
  <2>1. UNCHANGED usb
    BY <1>5 DEF MenuLoaded, StartMusic
  <2>2. ui'.at \in {"music", "resuming", "top"}
    BY <1>0, <1>5 DEF MenuLoaded, StartMusic, Access, UiType
  <2>. QED
    BY <2>1, <2>2, FlagsQuiet
<1>6. CASE ComboMenu \/ ComboScreenshot \/ MenuScreenshot \/ MenuFiler \/ SaveConfig \/ StartMusicMenu
           \/ MenuReboot \/ InFiler \/ LoadPlugin \/ LeaveMenu
  <2>1. UNCHANGED usb
    BY <1>6 DEF ComboMenu, ComboScreenshot, MenuScreenshot, MenuFiler, SaveConfig, StartMusicMenu,
                MenuReboot, InFiler, LoadPlugin, LeaveMenu
  <2>2. ui.at \in {"keys", "menu", "filer"}
    BY <1>6 DEF ComboMenu, ComboScreenshot, MenuScreenshot, MenuFiler, SaveConfig, StartMusicMenu,
                MenuReboot, InFiler, LoadPlugin, LeaveMenu, Cross, At
  <2>. QED
    BY <2>1, <2>2, FlagsQuiet
<1>7. CASE UNCHANGED <<ui, usb>>
  BY <1>7, FlagsQuiet
<1>8. CASE GiveSema \/ (\E t \in Thread : GameThread(t) \/ TakeSema(t)) \/ UNCHANGED vars
  BY <1>7, <1>8 DEF GiveSema, GameThread, TakeSema, vars
<1>. QED
  BY <1>1, <1>2, <1>3, <1>4, <1>5, <1>6, <1>8 DEF Next, MainStep, MainKey

(* The flags of the menu name the driver the USB bus serves (menu_main.c),    *)
(* after any sequence of choices, failures and reboots.                       *)
THEOREM FlagsCorrect == Spec => []FlagsTrue
<1>1. IInv /\ FlagsInv /\ [Next]_vars => (IInv /\ FlagsInv)'
  BY NextInv, FlagsNext
<1>2. FlagsInv => FlagsTrue
  BY DEF FlagsInv
<1>. QED
  BY InitInv, FlagsInit, <1>1, <1>2, PTL DEF Spec


------------------------------------------------------------------------------
(* The file browser.                                                          *)

Name == DOMAIN NameLength
Place == [start : Nat, pos : Nat]

FilerType ==
    [open : BOOLEAN, path : Seq(Name), list : Seq(Name), start : Nat, pos : Nat, depth : Nat,
     cbuf : Seq(Place), chosen : Seq(Name \cup {".", ".."}), over : BOOLEAN]

(* The cursor is on the screen.                                               *)
InWindow(start, pos) == start <= pos /\ pos <= start + Rows - 1

(* Level k of the path was entered from the cursor kept for it.               *)
EnteredAt(path, cbuf, k) ==
    LET l == Listing(SubSeq(path, 1, k - 1))
    IN  cbuf[k].pos < Len(l) /\ l[cbuf[k].pos + 1] = path[k]

(* The path is never longer than the depth; as long as it has not lost a      *)
(* level, it can be followed back.                                            *)
Traced(path, depth, cbuf) ==
    /\ Len(path) <= depth /\ depth <= Len(cbuf)
    /\ \A k \in 1 .. depth : InWindow(cbuf[k].start, cbuf[k].pos)
    /\ depth = Len(path) => \A k \in 1 .. depth : EnteredAt(path, cbuf, k)

(* A path that was never too long for now_path has not lost a level.           *)
Short(path, depth) == depth = Len(path) /\ \A k \in 0 .. Len(path) : Room(SubSeq(path, 1, k))

Kept(f) ==
    /\ f \in FilerType
    /\ f.over \/ Short(f.path, f.depth)
    /\ f.list \in {Listing(f.path), <<>>}
    /\ InWindow(f.start, f.pos)
    /\ f.list # <<>> => f.pos < Len(f.list)
    /\ Traced(f.path, f.depth, f.cbuf)

LEMMA FilerBounds ==
    /\ MaxPath \in Nat /\ MaxDepth \in Nat /\ MaxDirNum \in Nat /\ Rows \in Nat /\ Rows >= 1
    /\ \A d \in DOMAIN Tree : Tree[d] \in Seq(Name)
BY FilerAssumption DEF Name

(* A set of numbers with a bound that is not empty has a greatest one.        *)
LEMMA Greatest ==
    ASSUME NEW n \in Nat, NEW S \in SUBSET (0 .. n), S # {}
    PROVE  Max(S) \in S /\ \A x \in S : x <= Max(S)
<1>. DEFINE Above(k) == {j \in 0 .. n : j > k}
            T == {Above(k) : k \in S}
<1>1. T \subseteq FiniteSubsetsOf(Nat) /\ T # {}
  <2>1. SUFFICES ASSUME NEW k \in S PROVE Above(k) \in FiniteSubsetsOf(Nat)
    OBVIOUS
  <2>2. Above(k) \in SUBSET Nat /\ \A j \in Above(k) : j <= n
    OBVIOUS
  <2>3. IsFiniteSet(Above(k))
    BY <2>2, FS_BoundedSetOfNaturals
  <2>. QED
    BY <2>2, <2>3 DEF FiniteSubsetsOf
<1>2. PICK B \in T : \A C \in T : <<C, B>> \notin StrictSubsetOrdering(Nat)
  <2>1. IsWellFoundedOn(StrictSubsetOrdering(Nat), FiniteSubsetsOf(Nat))
    BY FS_StrictSubsetOrderingWellFounded
  <2>. HIDE DEF T
  <2>. QED
    BY <1>1, <2>1, WFMin
<1>3. PICK m \in S : B = Above(m)
  OBVIOUS
<1>4. ASSUME NEW x \in S, m < x PROVE FALSE
  <2>1. Above(x) \in T /\ Above(x) \subseteq Nat /\ Above(m) \subseteq Nat
    OBVIOUS
  <2>2. Above(x) \subseteq Above(m)
    BY <1>4
  <2>3. x \in Above(m) /\ x \notin Above(x)
    BY <1>4
  <2>4. <<Above(x), B>> \in StrictSubsetOrdering(Nat)
    BY <1>3, <2>1, <2>2, <2>3 DEF StrictSubsetOrdering
  <2>. QED
    BY <1>2, <2>1, <2>4
<1>5. \A x \in S : m >= x
  BY <1>4
<1>6. Max(S) \in S /\ \A y \in S : Max(S) >= y
  BY <1>5 DEF Max
<1>. QED
  BY <1>6

LEMMA Clamps ==
    ASSUME NEW i \in Nat, NEW n \in Nat
    PROVE  Clamped(i, n) = IF n = 0 THEN 0 ELSE IF i < n THEN i ELSE n - 1
<1>1. \A a, b \in Int : Max({a, b}) = IF a >= b THEN a ELSE b
  <2>. TAKE a \in Int, b \in Int
  <2>1. \E x \in {a, b} : \A y \in {a, b} : x >= y
    OBVIOUS
  <2>2. Max({a, b}) \in {a, b} /\ \A y \in {a, b} : Max({a, b}) >= y
    BY <2>1 DEF Max
  <2>. QED
    BY <2>2
<1>2. \A a, b \in Int : Min({a, b}) = IF a <= b THEN a ELSE b
  <2>. TAKE a \in Int, b \in Int
  <2>1. \E x \in {a, b} : \A y \in {a, b} : x <= y
    OBVIOUS
  <2>2. Min({a, b}) \in {a, b} /\ \A y \in {a, b} : Min({a, b}) <= y
    BY <2>1 DEF Min
  <2>. QED
    BY <2>2
<1>3. Min({i, n - 1}) = IF i <= n - 1 THEN i ELSE n - 1
  BY <1>2
<1>4. Min({i, n - 1}) \in Int
  BY <1>3
<1>5. Clamped(i, n) = IF 0 >= Min({i, n - 1}) THEN 0 ELSE Min({i, n - 1})
  BY <1>1, <1>4 DEF Clamped
<1>. QED
  BY <1>3, <1>5

LEMMA ListingType ==
    ASSUME NEW path
    PROVE  Listing(path) \in Seq(Name)
<1>1. CASE path \in DOMAIN Tree
  <2>. DEFINE t == Tree[path]
              m == Min({MaxDirNum, Len(t)})
  <2>1. t \in Seq(Name)
    BY <1>1, FilerBounds
  <2>. HIDE DEF t
  <2>2. Len(t) \in Nat /\ MaxDirNum \in Nat
    BY <2>1, FilerBounds
  <2>3. m \in {MaxDirNum, Len(t)} /\ \A y \in {MaxDirNum, Len(t)} : m <= y
    <3>1. \E x \in {MaxDirNum, Len(t)} : \A y \in {MaxDirNum, Len(t)} : x <= y
      BY <2>2
    <3>. QED
      BY <3>1 DEF Min
  <2>. HIDE DEF m
  <2>4. SubSeq(t, 1, m) \in Seq(Name)
    BY <2>1, <2>2, <2>3
  <2>. QED
    BY <1>1, <2>4 DEF Listing, t, m
<1>2. CASE path \notin DOMAIN Tree
  BY <1>2 DEF Listing
<1>. QED
  BY <1>1, <1>2

(* What Get_DirList reads, with a cursor that was on the screen.              *)
LEMMA ReadKept ==
    ASSUME NEW f \in FilerType, InWindow(f.start, f.pos), Traced(f.path, f.depth, f.cbuf),
           f.over \/ Short(f.path, f.depth),
           NEW g \in Get_DirList(f)
    PROVE  /\ Kept(g)
           /\ g.open = f.open /\ g.path = f.path /\ g.depth = f.depth
           /\ g.pos = Clamped(f.pos, Len(g.list))
<1>1. PICK l \in {Listing(f.path), <<>>} : g = ListRead(f, l)
  BY DEF Get_DirList
<1>2. l \in Seq(Name) /\ Len(l) \in Nat
  <2>1. Listing(f.path) \in Seq(Name)
    BY ListingType
  <2>2. <<>> \in Seq(Name)
    OBVIOUS
  <2>3. l \in Seq(Name)
    BY <2>1, <2>2
  <2>. QED
    BY <2>3
<1>3. f.start \in Nat /\ f.pos \in Nat
  BY DEF FilerType
<1>. DEFINE a == Clamped(f.start, Len(l))
            b == Clamped(f.pos, Len(l))
<1>4. /\ a = IF Len(l) = 0 THEN 0 ELSE IF f.start < Len(l) THEN f.start ELSE Len(l) - 1
      /\ b = IF Len(l) = 0 THEN 0 ELSE IF f.pos < Len(l) THEN f.pos ELSE Len(l) - 1
  BY <1>2, <1>3, Clamps
<1>5. g = [f EXCEPT !.list = l, !.start = a, !.pos = b]
  BY <1>1 DEF ListRead
<1>. HIDE DEF a, b
<1>6. a \in Nat /\ b \in Nat /\ (Len(l) # 0 => b < Len(l)) /\ InWindow(a, b)
  BY <1>2, <1>3, <1>4, FilerBounds DEF InWindow
<1>7. /\ g \in FilerType /\ g.list = l /\ g.start = a /\ g.pos = b
      /\ g.open = f.open /\ g.path = f.path /\ g.depth = f.depth /\ g.cbuf = f.cbuf /\ g.over = f.over
  BY <1>2, <1>5, <1>6 DEF FilerType
<1>8. l # <<>> => Len(l) # 0
  BY <1>2
<1>9. Kept(g)
  BY <1>6, <1>7, <1>8 DEF Kept
<1>. QED
  BY <1>7, <1>9 DEF b

LEMMA EnterTraced ==
    ASSUME NEW path \in Seq(Name), NEW depth \in Nat, NEW cbuf \in Seq(Place), Traced(path, depth, cbuf),
           NEW p \in Place, InWindow(p.start, p.pos), p.pos < Len(Listing(path))
    PROVE  Traced(Append(path, Listing(path)[p.pos + 1]), depth + 1, Append(SubSeq(cbuf, 1, depth), p))
<1>. DEFINE n == Listing(path)[p.pos + 1]
            q == Append(path, n)
            c == Append(SubSeq(cbuf, 1, depth), p)
<1>1. Len(path) \in Nat /\ Len(cbuf) \in Nat /\ Len(path) <= depth /\ depth <= Len(cbuf)
  BY DEF Traced
<1>2. n \in Name
  <2>1. Listing(path) \in Seq(Name) /\ p.pos \in Nat
    BY ListingType DEF Place
  <2>. QED
    BY <2>1
<1>. HIDE DEF n
<1>3. q \in Seq(Name) /\ Len(q) = Len(path) + 1 /\ q[Len(path) + 1] = n /\ \A k \in 1 .. Len(path) : q[k] = path[k]
  BY <1>2
<1>4. SubSeq(cbuf, 1, depth) \in Seq(Place) /\ Len(SubSeq(cbuf, 1, depth)) = depth
      /\ \A k \in 1 .. depth : SubSeq(cbuf, 1, depth)[k] = cbuf[k]
  BY <1>1
<1>5. Len(c) = depth + 1 /\ c[depth + 1] = p /\ \A k \in 1 .. depth : c[k] = cbuf[k]
  BY <1>4
<1>6. \A k \in 1 .. depth + 1 : InWindow(c[k].start, c[k].pos)
  <2>1. \A k \in 1 .. depth : InWindow(cbuf[k].start, cbuf[k].pos)
    BY DEF Traced
  <2>2. \A k \in 1 .. depth + 1 : k \in 1 .. depth \/ k = depth + 1
    OBVIOUS
  <2>. QED
    BY <1>5, <2>1, <2>2
<1>7. ASSUME depth + 1 = Len(q), NEW k \in 1 .. depth + 1
      PROVE  EnteredAt(q, c, k)
  <2>1. depth = Len(path)
    BY <1>1, <1>3, <1>7
  <2>2. SubSeq(q, 1, k - 1) = SubSeq(path, 1, k - 1)
    BY <1>2, <2>1
  <2>3. CASE k \in 1 .. depth
    <3>1. EnteredAt(path, cbuf, k)
      BY <2>1, <2>3 DEF Traced
    <3>. QED
      BY <1>3, <1>5, <2>1, <2>2, <2>3, <3>1 DEF EnteredAt
  <2>4. CASE k = depth + 1
    <3>1. SubSeq(path, 1, k - 1) = path
      BY <2>1, <2>4
    <3>. QED
      BY <1>3, <1>5, <2>1, <2>2, <2>4, <3>1 DEF EnteredAt, n
  <2>. QED
    BY <2>3, <2>4
<1>. HIDE DEF q, c
<1>8. Traced(q, depth + 1, c)
  BY <1>1, <1>3, <1>5, <1>6, <1>7 DEF Traced
<1>. QED
  BY <1>8 DEF q, c, n

(* CIRCLE shortens the path, by one name when the parent's is short enough.   *)
LEMMA CutFacts ==
    ASSUME NEW path \in Seq(Name)
    PROVE  /\ Cut(path) \in Seq(Name) /\ Len(Cut(path)) \in Nat
           /\ path # <<>> => Len(Cut(path)) < Len(path)
           /\ path = <<>> => Cut(path) = <<>>
           /\ Len(Cut(path)) <= Len(path)
           /\ path # <<>> /\ Len(Cut(path)) = Len(path) - 1 => Cut(path) = Front(path)
           /\ path # <<>> /\ Room(Front(path)) => Cut(path) = Front(path)
<1>1. CASE path = <<>>
  BY <1>1 DEF Cut
<1>2. CASE path # <<>>
  <2>. DEFINE n == Len(path) - 1
              m == Max(Parents(path))
  <2>1. n \in Nat /\ Len(path) \in Nat
    BY <1>2
  <2>2. SubSeq(path, 1, 0) = <<>>
    OBVIOUS
  <2>3. 0 \in Parents(path)
    <3>1. Room(SubSeq(path, 1, 0))
      BY <2>2, RootFits
    <3>2. 0 \in 0 .. Len(path) - 1
      BY <2>1
    <3>. QED
      BY <3>1, <3>2 DEF Parents
  <2>4. Parents(path) \in SUBSET (0 .. n) /\ Parents(path) # {}
    BY <2>3 DEF Parents
  <2>5. m \in Parents(path) /\ \A x \in Parents(path) : x <= m
    BY <2>1, <2>4, Greatest
  <2>. HIDE DEF m
  <2>6. m \in 0 .. n
    BY <2>4, <2>5
  <2>7. Cut(path) = SubSeq(path, 1, m)
    BY <1>2 DEF Cut, m
  <2>8. Cut(path) \in Seq(Name) /\ Len(Cut(path)) = m
    BY <2>1, <2>6, <2>7
  <2>9. m = n => Cut(path) = Front(path)
    BY <2>7 DEF Front
  <2>10. ASSUME Room(Front(path)) PROVE m = n
    <3>1. n \in Parents(path)
      BY <2>1, <2>10 DEF Parents, Front
    <3>2. n <= m
      BY <2>5, <3>1
    <3>. QED
      BY <2>1, <2>6, <3>2
  <2>. QED
    BY <1>2, <2>1, <2>6, <2>8, <2>9, <2>10
<1>. QED
  BY <1>1, <1>2

LEMMA BackTraced ==
    ASSUME NEW path \in Seq(Name), NEW depth \in Nat, NEW cbuf \in Seq(Place), Traced(path, depth, cbuf), depth > 0
    PROVE  Traced(Cut(path), depth - 1, cbuf)
<1>. DEFINE q == Cut(path)
<1>1. /\ q \in Seq(Name) /\ Len(q) \in Nat /\ Len(path) \in Nat /\ Len(cbuf) \in Nat
      /\ Len(path) <= depth /\ depth <= Len(cbuf) /\ Len(q) <= Len(path)
      /\ path # <<>> => Len(q) < Len(path)
      /\ path = <<>> => Len(q) = 0
  BY CutFacts DEF Traced
<1>2. Len(q) <= depth - 1
  BY <1>1
<1>3. \A k \in 1 .. depth - 1 : InWindow(cbuf[k].start, cbuf[k].pos)
  BY DEF Traced
<1>4. ASSUME depth - 1 = Len(q), NEW k \in 1 .. depth - 1
      PROVE  EnteredAt(q, cbuf, k)
  <2>1. path # <<>> /\ depth = Len(path)
    BY <1>1, <1>4
  <2>2. q = Front(path)
    BY <1>4, <2>1, CutFacts
  <2>3. q[k] = path[k] /\ SubSeq(q, 1, k - 1) = SubSeq(path, 1, k - 1)
    BY <2>1, <2>2 DEF Front
  <2>4. EnteredAt(path, cbuf, k)
    BY <2>1 DEF Traced
  <2>. QED
    BY <2>3, <2>4 DEF EnteredAt
<1>. HIDE DEF q
<1>5. Traced(q, depth - 1, cbuf)
  BY <1>1, <1>2, <1>3, <1>4 DEF Traced
<1>. QED
  BY <1>5 DEF q

(* Such a path stays short when a name is added for which there is room, and   *)
(* when CIRCLE takes its last name away.                                      *)
LEMMA EnterShort ==
    ASSUME NEW path \in Seq(Name), NEW depth, Short(path, depth), NEW n \in Name, Room(Append(path, n))
    PROVE  Short(Append(path, n), depth + 1)
<1>. DEFINE q == Append(path, n)
<1>1. Len(path) \in Nat /\ q \in Seq(Name) /\ Len(q) = Len(path) + 1
  OBVIOUS
<1>2. ASSUME NEW k \in 0 .. Len(q) PROVE Room(SubSeq(q, 1, k))
  <2>1. CASE k \in 0 .. Len(path)
    <3>1. SubSeq(q, 1, k) = SubSeq(path, 1, k)
      BY <2>1
    <3>. QED
      BY <2>1, <3>1 DEF Short
  <2>2. CASE k = Len(q)
    <3>1. SubSeq(q, 1, k) = q
      BY <1>1, <2>2
    <3>. QED
      BY <3>1
  <2>. QED
    BY <1>1, <2>1, <2>2
<1>3. depth + 1 = Len(q)
  BY <1>1 DEF Short
<1>. HIDE DEF q
<1>4. Short(q, depth + 1)
  BY <1>2, <1>3 DEF Short
<1>. QED
  BY <1>4 DEF q

LEMMA BackShort ==
    ASSUME NEW path \in Seq(Name), NEW depth, Short(path, depth), depth > 0
    PROVE  Room(Front(path)) /\ Short(Cut(path), depth - 1)
<1>. DEFINE q == SubSeq(path, 1, Len(path) - 1)
<1>1. Len(path) \in Nat /\ depth = Len(path) /\ Len(path) - 1 \in 0 .. Len(path) /\ path # <<>>
  BY DEF Short
<1>2. Room(Front(path))
  BY <1>1 DEF Short, Front
<1>3. Cut(path) = q
  BY <1>1, <1>2, CutFacts DEF Front
<1>4. q \in Seq(Name) /\ Len(q) = Len(path) - 1
  BY <1>1
<1>5. ASSUME NEW k \in 0 .. Len(q) PROVE Room(SubSeq(q, 1, k))
  <2>1. SubSeq(q, 1, k) = SubSeq(path, 1, k) /\ k \in 0 .. Len(path)
    BY <1>1, <1>4
  <2>. QED
    BY <2>1 DEF Short
<1>. HIDE DEF q
<1>6. Short(q, depth - 1)
  BY <1>1, <1>4, <1>5 DEF Short
<1>. QED
  BY <1>2, <1>3, <1>6

(* What the cursor keys do.                                                   *)
LEMMA MovesKept ==
    ASSUME Kept(filer), FilerMoves
    PROVE  Kept(filer') /\ filer'.depth = filer.depth
<1>1. /\ filer \in FilerType /\ filer.start \in Nat /\ filer.pos \in Nat /\ filer.depth \in Nat
      /\ filer.list \in Seq(Name) /\ Len(filer.list) \in Nat
      /\ InWindow(filer.start, filer.pos)
      /\ filer.list # <<>> => filer.pos < Len(filer.list)
      /\ filer.list \in {Listing(filer.path), <<>>}
      /\ Traced(filer.path, filer.depth, filer.cbuf) /\ (filer.over \/ Short(filer.path, filer.depth))
  BY DEF Kept, FilerType
<1>2. ASSUME NEW a \in Nat, NEW b \in Nat, InWindow(a, b), filer.list # <<>> => b < Len(filer.list),
             filer' = [filer EXCEPT !.pos = b, !.start = a]
      PROVE  Kept(filer') /\ filer'.depth = filer.depth
  <2>1. /\ filer' \in FilerType /\ filer'.start = a /\ filer'.pos = b /\ filer'.list = filer.list
        /\ filer'.path = filer.path /\ filer'.depth = filer.depth /\ filer'.cbuf = filer.cbuf
        /\ filer'.over = filer.over
    BY <1>1, <1>2 DEF FilerType
  <2>. QED
    BY <1>1, <1>2, <2>1 DEF Kept
<1>3. CASE FilerUp
  <2>. DEFINE b == filer.pos - 1
              a == IF filer.start <= b THEN filer.start ELSE b
  <2>1. Min({filer.start, b}) = a
    <3>1. b \in Nat
      BY <1>1, <1>3 DEF FilerUp
    <3>2. \E x \in {filer.start, b} : \A y \in {filer.start, b} : x <= y
      BY <1>1, <3>1
    <3>3. Min({filer.start, b}) \in {filer.start, b} /\ \A y \in {filer.start, b} : Min({filer.start, b}) <= y
      BY <3>2 DEF Min
    <3>. QED
      BY <1>1, <3>1, <3>3
  <2>2. filer' = [filer EXCEPT !.pos = b, !.start = a]
    BY <1>3, <2>1 DEF FilerUp
  <2>3. a \in Nat /\ b \in Nat /\ InWindow(a, b) /\ (filer.list # <<>> => b < Len(filer.list))
    BY <1>1, <1>3, FilerBounds DEF FilerUp, InWindow
  <2>. HIDE DEF a, b
  <2>. QED
    BY <1>2, <2>2, <2>3
<1>4. CASE FilerDown
  <2>. DEFINE b == filer.pos + 1
              a == Scrolled(filer.start, b)
  <2>1. filer' = [filer EXCEPT !.pos = b, !.start = a]
    BY <1>4 DEF FilerDown
  <2>2. a \in Nat /\ b \in Nat /\ InWindow(a, b) /\ (filer.list # <<>> => b < Len(filer.list))
    <3>1. filer.pos < Len(filer.list) - 1
      BY <1>4 DEF FilerDown
    <3>2. a = IF b >= filer.start + Rows THEN filer.start + 1 ELSE filer.start
      BY DEF Scrolled
    <3>3. a \in Nat /\ b \in Nat /\ b < Len(filer.list)
      BY <1>1, <3>1, <3>2
    <3>4. InWindow(a, b)
      BY <1>1, <3>2, FilerBounds DEF InWindow
    <3>. QED
      BY <3>3, <3>4
  <2>. HIDE DEF a, b
  <2>. QED
    BY <1>2, <2>1, <2>2
<1>. QED
  BY <1>3, <1>4 DEF FilerMoves

LEMMA RootShort == Short(<<>>, 0)
<1>1. SubSeq(<<>>, 1, 0) = <<>> /\ Len(<<>>) = 0
  OBVIOUS
<1>2. \A k \in 0 .. 0 : k = 0
  OBVIOUS
<1>. QED
  BY <1>1, <1>2, RootFits DEF Short

LEMMA OpenedKept ==
    ASSUME Kept(filer), filer_on
    PROVE  Kept(filer')
<1>. DEFINE c == [FilerClosed EXCEPT !.over = filer.over]
<1>0. filer.over \in BOOLEAN
  BY DEF Kept, FilerType
<1>1. /\ c \in FilerType /\ c.path = <<>> /\ c.depth = 0 /\ c.cbuf = <<>> /\ c.start = 0 /\ c.pos = 0
  <2>1. <<>> \in Seq(Name) /\ <<>> \in Seq(Place) /\ <<>> \in Seq(Name \cup {".", ".."})
    OBVIOUS
  <2>. DEFINE e == FilerClosed
  <2>2. /\ e \in FilerType /\ e.path = <<>> /\ e.depth = 0 /\ e.cbuf = <<>> /\ e.start = 0 /\ e.pos = 0
    BY <2>1 DEF FilerClosed, FilerType
  <2>. HIDE DEF e
  <2>3. c = [e EXCEPT !.over = filer.over]
    BY DEF e
  <2>. QED
    BY <1>0, <2>2, <2>3 DEF FilerType
<1>2. InWindow(0, 0)
  BY FilerBounds DEF InWindow
<1>3. Traced(<<>>, 0, <<>>)
  BY DEF Traced
<1>4. PICK f \in Get_DirList(c) : filer' = [f EXCEPT !.open = TRUE, !.start = 0, !.pos = 0]
  BY DEF filer_on
<1>. HIDE DEF c
<1>5. Kept(f)
  BY <1>1, <1>2, <1>3, ReadKept, RootShort
<1>6. /\ f \in FilerType /\ f.list \in {Listing(f.path), <<>>} /\ Traced(f.path, f.depth, f.cbuf)
      /\ f.over \/ Short(f.path, f.depth)
  BY <1>5 DEF Kept
<1>7. f.list # <<>> => 0 < Len(f.list)
  BY <1>6 DEF FilerType
<1>8. /\ filer' \in FilerType /\ filer'.start = 0 /\ filer'.pos = 0 /\ filer'.list = f.list
      /\ filer'.path = f.path /\ filer'.depth = f.depth /\ filer'.cbuf = f.cbuf /\ filer'.over = f.over
  BY <1>4, <1>6 DEF FilerType
<1>. QED
  BY <1>2, <1>6, <1>7, <1>8 DEF Kept

LEMMA EnteredKept ==
    ASSUME Kept(filer), FilerEnter
    PROVE  Kept(filer') /\ filer'.depth = filer.depth + 1
<1>. DEFINE p == [start |-> filer.start, pos |-> filer.pos]
            o == filer.over \/ ~Room(Append(filer.path, Entry(filer)))
            f == [filer EXCEPT !.path = Append(@, Entry(filer)), !.depth = @ + 1, !.start = 0, !.pos = 0,
                               !.over = @ \/ ~Room(Append(filer.path, Entry(filer))),
                               !.cbuf = Append(SubSeq(@, 1, filer.depth), p)]
<1>1. /\ filer \in FilerType /\ filer.start \in Nat /\ filer.pos \in Nat /\ filer.depth \in Nat
      /\ filer.path \in Seq(Name) /\ filer.cbuf \in Seq(Place)
      /\ InWindow(filer.start, filer.pos) /\ Traced(filer.path, filer.depth, filer.cbuf)
  BY DEF Kept, FilerType
<1>2. filer.list = Listing(filer.path) /\ filer.pos < Len(filer.list) /\ filer.list \in Seq(Name)
  BY DEF Kept, FilerEnter, NoDir, FilerType
<1>3. filer' \in Get_DirList(f)
  BY DEF FilerEnter
<1>4. p \in Place /\ p.start = filer.start /\ p.pos = filer.pos
  BY <1>1 DEF Place
<1>. HIDE DEF p
<1>5. Entry(filer) = Listing(filer.path)[p.pos + 1]
  BY <1>2, <1>4 DEF Entry
<1>6. Entry(filer) \in Name
  BY <1>1, <1>2 DEF Entry
<1>7. Traced(Append(filer.path, Entry(filer)), filer.depth + 1, Append(SubSeq(filer.cbuf, 1, filer.depth), p))
  <2>1. InWindow(p.start, p.pos) /\ p.pos < Len(Listing(filer.path))
    BY <1>1, <1>2, <1>4
  <2>. QED
    BY <1>1, <1>4, <1>5, <2>1, EnterTraced
<1>8. /\ Append(filer.path, Entry(filer)) \in Seq(Name)
      /\ Append(SubSeq(filer.cbuf, 1, filer.depth), p) \in Seq(Place)
  <2>1. SubSeq(filer.cbuf, 1, filer.depth) \in Seq(Place)
    BY <1>1 DEF Traced
  <2>. QED
    BY <1>1, <1>4, <1>6, <2>1
<1>9. /\ f \in FilerType /\ f.start = 0 /\ f.pos = 0 /\ f.depth = filer.depth + 1
      /\ f.path = Append(filer.path, Entry(filer)) /\ f.cbuf = Append(SubSeq(filer.cbuf, 1, filer.depth), p)
      /\ f.over = o
  <2>. DEFINE q == Append(filer.path, Entry(filer))
              c == Append(SubSeq(filer.cbuf, 1, filer.depth), p)
  <2>1. f = [filer EXCEPT !.path = q, !.depth = filer.depth + 1, !.start = 0, !.pos = 0, !.over = o, !.cbuf = c]
    BY <1>1 DEF FilerType
  <2>2. q \in Seq(Name) /\ c \in Seq(Place) /\ filer.depth + 1 \in Nat /\ o \in BOOLEAN
    BY <1>1, <1>8
  <2>. HIDE DEF q, c, f, o
  <2>3. /\ f \in FilerType /\ f.start = 0 /\ f.pos = 0 /\ f.depth = filer.depth + 1
        /\ f.path = q /\ f.cbuf = c /\ f.over = o
    BY <1>1, <2>1, <2>2 DEF FilerType
  <2>. QED
    BY <2>3 DEF q, c
<1>. HIDE DEF f
<1>10. InWindow(f.start, f.pos)
  BY <1>9, FilerBounds DEF InWindow
<1>11. Traced(f.path, f.depth, f.cbuf)
  BY <1>7, <1>9
<1>12. f.over \/ Short(f.path, f.depth)
  <2>1. CASE o
    BY <1>9, <2>1
  <2>2. CASE ~o
    <3>1. Short(filer.path, filer.depth) /\ Room(Append(filer.path, Entry(filer)))
      BY <2>2 DEF Kept
    <3>. QED
      BY <1>1, <1>6, <1>9, <3>1, EnterShort
  <2>. QED
    BY <2>1, <2>2
<1>13. filer.depth + 1 = f.depth
  BY <1>9
<1>. QED
  BY <1>3, <1>9, <1>10, <1>11, <1>12, <1>13, ReadKept

(* CIRCLE: the state it leaves, and where the cursor stands.                  *)
LEMMA LeftKept ==
    ASSUME Kept(filer), FilerBack
    PROVE  /\ Kept(filer')
           /\ filer.depth \in Nat /\ filer.depth > 0 /\ filer'.depth = filer.depth - 1
           /\ filer'.path = Cut(filer.path)
           /\ filer'.pos = Clamped(filer.cbuf[filer.depth].pos, Len(filer'.list))
<1>. DEFINE p == filer.cbuf[filer.depth]
            f == [filer EXCEPT !.path = Cut(@), !.depth = @ - 1, !.start = p.start, !.pos = p.pos]
<1>1. /\ filer \in FilerType /\ filer.depth \in Nat /\ filer.depth > 0
      /\ filer.path \in Seq(Name) /\ filer.cbuf \in Seq(Place)
      /\ Traced(filer.path, filer.depth, filer.cbuf)
  BY DEF Kept, FilerType, FilerBack
<1>2. filer' \in Get_DirList(f)
  BY DEF FilerBack, PlaceKept
<1>3. p \in Place /\ InWindow(p.start, p.pos)
  BY <1>1 DEF Traced
<1>4. p.start \in Nat /\ p.pos \in Nat
  BY <1>3 DEF Place
<1>. HIDE DEF p
<1>5. Cut(filer.path) \in Seq(Name)
  BY <1>1, CutFacts
<1>6. /\ f \in FilerType /\ f.start = p.start /\ f.pos = p.pos /\ f.depth = filer.depth - 1
      /\ f.path = Cut(filer.path) /\ f.cbuf = filer.cbuf /\ f.over = filer.over
  <2>. DEFINE q == Cut(filer.path)
  <2>1. f = [filer EXCEPT !.path = q, !.depth = filer.depth - 1, !.start = p.start, !.pos = p.pos]
    BY <1>1 DEF FilerType
  <2>2. q \in Seq(Name) /\ filer.depth - 1 \in Nat
    BY <1>1, <1>5
  <2>. HIDE DEF q, f
  <2>3. /\ f \in FilerType /\ f.start = p.start /\ f.pos = p.pos /\ f.depth = filer.depth - 1
        /\ f.path = q /\ f.cbuf = filer.cbuf /\ f.over = filer.over
    BY <1>1, <1>4, <2>1, <2>2 DEF FilerType
  <2>. QED
    BY <2>3 DEF q
<1>. HIDE DEF f
<1>7. Traced(f.path, f.depth, f.cbuf)
  BY <1>1, <1>6, BackTraced
<1>8. InWindow(f.start, f.pos)
  BY <1>3, <1>6
<1>10. f.over \/ Short(f.path, f.depth)
  <2>1. filer.over \/ Short(filer.path, filer.depth)
    BY DEF Kept
  <2>. QED
    BY <1>1, <1>6, <2>1, BackShort
<1>9. /\ Kept(filer') /\ filer'.path = f.path /\ filer'.depth = f.depth
      /\ filer'.pos = Clamped(f.pos, Len(filer'.list))
  BY <1>2, <1>6, <1>7, <1>8, <1>10, ReadKept
<1>. QED
  BY <1>1, <1>6, <1>9 DEF p

FilerEnds == FilerLeave \/ FilerSquare \/ FilerPlugin

(* What a chosen path is made of.                                             *)
AnyName == Name \cup {".", ".."}

(* The browser left with a path.                                              *)
LeftWith(c) == [filer EXCEPT !.open = FALSE, !.chosen = c]

LEMMA EndedKept ==
    ASSUME Kept(filer), FilerEnds
    PROVE  Kept(filer') /\ filer'.depth = filer.depth
<1>1. /\ filer \in FilerType /\ filer.pos \in Nat /\ filer.path \in Seq(Name) /\ filer.list \in Seq(Name)
      /\ filer.chosen \in Seq(AnyName) /\ (filer.list # <<>> => filer.pos < Len(filer.list))
  BY DEF Kept, FilerType, AnyName
<1>2. filer.path \in Seq(AnyName)
  BY <1>1 DEF AnyName
<1>3. \A n \in AnyName : Append(filer.path, n) \in Seq(AnyName)
  BY <1>2
<1>4. filer.list # <<>> => Entry(filer) \in AnyName
  BY <1>1 DEF Entry, AnyName
<1>5. "." \in AnyName /\ ".." \in AnyName
  BY DEF AnyName
<1>6. ASSUME NEW c \in Seq(AnyName), filer' = LeftWith(c)
      PROVE  /\ filer' \in FilerType /\ filer'.start = filer.start /\ filer'.pos = filer.pos
             /\ filer'.list = filer.list /\ filer'.path = filer.path /\ filer'.depth = filer.depth
             /\ filer'.cbuf = filer.cbuf /\ filer'.over = filer.over
  BY <1>1, <1>6 DEF FilerType, AnyName, LeftWith
<1>7. /\ filer' \in FilerType /\ filer'.start = filer.start /\ filer'.pos = filer.pos
      /\ filer'.list = filer.list /\ filer'.path = filer.path /\ filer'.depth = filer.depth
      /\ filer'.cbuf = filer.cbuf /\ filer'.over = filer.over
  <2>1. CASE FilerLeave
    <3>1. filer' = LeftWith(filer.chosen)
      BY <1>1, <2>1 DEF FilerLeave, FilerType, LeftWith
    <3>. QED
      BY <1>1, <1>6, <3>1
  <2>2. CASE FilerSquare
    <3>1. PICK c \in IF NoDir(filer) THEN {filer.path} \cup {Append(filer.path, n) : n \in {".", ".."}}
                     ELSE {Append(filer.path, Entry(filer))} :
              filer' = LeftWith(c)
      BY <2>2, Zenon DEF FilerSquare, LeftWith
    <3>2. c \in Seq(AnyName)
      BY <1>2, <1>3, <1>4, <1>5, <3>1 DEF NoDir
    <3>. QED
      BY <1>6, <3>1, <3>2
  <2>3. CASE FilerPlugin
    <3>1. Append(filer.path, Entry(filer)) \in Seq(AnyName)
      BY <1>3, <1>4, <2>3 DEF FilerPlugin, NoDir
    <3>2. filer' = LeftWith(Append(filer.path, Entry(filer)))
      BY <2>3 DEF FilerPlugin, LeftWith
    <3>. QED
      BY <1>6, <3>1, <3>2
  <2>. QED
    BY <2>1, <2>2, <2>3 DEF FilerEnds
<1>. QED
  BY <1>1, <1>7 DEF Kept

(* Nothing but the browser's own operations moves it.                         *)
LEMMA OnlyFiler ==
    ASSUME [Next]_vars
    PROVE  filer_on \/ FilerMoves \/ FilerEnter \/ FilerBack \/ FilerEnds \/ filer' = filer
<1>1. CASE MainStep
  BY <1>1 DEF MainStep, IoDone, pauseGame, resumeGame, LoadAfterShot, Screenshot, ScreenshotDone, menu_load,
              MenuLoaded, StartMusic, TopOfLoop
<1>2. CASE MainKey
  BY <1>2 DEF MainKey, ComboMenu, ComboScreenshot, MenuScreenshot, MenuFiler, SaveConfig, StartMusicMenu,
              MenuReboot, MenuUsb, MenuRemotejoy, MenuUsbhost, InFiler, LoadPlugin, FilerEnds
<1>3. CASE LeaveMenu \/ GiveSema \/ (\E t \in Thread : GameThread(t) \/ TakeSema(t))
  BY <1>3 DEF LeaveMenu, GiveSema, GameThread, TakeSema
<1>4. CASE UNCHANGED vars
  BY <1>4 DEF vars
<1>. QED
  BY <1>1, <1>2, <1>3, <1>4 DEF Next

LEMMA NextKept == Kept(filer) /\ [Next]_vars => Kept(filer')
BY OnlyFiler, OpenedKept, MovesKept, EnteredKept, LeftKept, EndedKept

LEMMA InitKept == Init => Kept(filer)
<1>. SUFFICES ASSUME filer = FilerClosed PROVE Kept(filer)
  BY DEF Init, FilerInit
<1>1. /\ filer \in FilerType /\ filer.path = <<>> /\ filer.list = <<>> /\ filer.depth = 0 /\ filer.cbuf = <<>>
      /\ filer.start = 0 /\ filer.pos = 0
  BY DEF FilerClosed, FilerType
<1>2. Traced(<<>>, 0, <<>>)
  BY DEF Traced
<1>3. InWindow(0, 0)
  BY FilerBounds DEF InWindow
<1>. QED
  BY <1>1, <1>2, <1>3, RootShort DEF Kept

LEMMA KeptShown == Kept(filer) => CursorShown
<1>. SUFFICES ASSUME Kept(filer) PROVE CursorShown
  OBVIOUS
<1>1. filer.start \in Nat /\ filer.pos \in Nat /\ InWindow(filer.start, filer.pos)
  BY DEF Kept, FilerType
<1>2. filer.pos \in filer.start .. filer.start + Rows - 1
  BY <1>1, FilerBounds DEF InWindow
<1>. QED
  BY <1>2 DEF Kept, CursorShown, NoDir

(* One level up: only CIRCLE goes there.                                      *)
LEMMA ReturnedStep ==
    ASSUME Kept(filer), [Next]_vars, filer.open, filer'.depth = filer.depth - 1, ~filer.over, filer'.list # <<>>
    PROVE  filer'.path = Front(filer.path) /\ Entry(filer') = Last(filer.path)
<1>. DEFINE d == filer.depth
            p == filer.cbuf[d]
            l == Listing(Front(filer.path))
<1>1. /\ filer.depth \in Nat /\ filer.path \in Seq(Name) /\ filer.cbuf \in Seq(Place)
      /\ Short(filer.path, filer.depth) /\ filer.depth = Len(filer.path)
  BY DEF Kept, FilerType, Short
<1>2. FilerBack
  <2>1. ~filer_on
    BY DEF filer_on
  <2>2. filer'.depth # filer.depth /\ filer'.depth # filer.depth + 1
    BY <1>1
  <2>. QED
    BY <2>1, <2>2, OnlyFiler, MovesKept, EnteredKept, EndedKept
<1>3. /\ Kept(filer') /\ d > 0 /\ filer'.path = Cut(filer.path)
      /\ filer'.pos = Clamped(p.pos, Len(filer'.list))
  BY <1>2, LeftKept
<1>4. filer.path # <<>>
  BY <1>1, <1>3
<1>5. filer'.path = Front(filer.path)
  BY <1>1, <1>3, <1>4, BackShort, CutFacts
<1>6. filer'.list = l
  BY <1>3, <1>5 DEF Kept
<1>7. EnteredAt(filer.path, filer.cbuf, d) /\ p \in Place
  BY <1>1, <1>3 DEF Kept, Traced
<1>8. SubSeq(filer.path, 1, d - 1) = Front(filer.path) /\ filer.path[d] = Last(filer.path)
  BY <1>1 DEF Front, Last
<1>9. p.pos < Len(l) /\ l[p.pos + 1] = Last(filer.path)
  BY <1>7, <1>8 DEF EnteredAt
<1>10. l \in Seq(Name) /\ p.pos \in Nat
  BY <1>7, ListingType DEF Place
<1>11. filer'.pos = p.pos
  <2>1. Len(l) \in Nat
    BY <1>10
  <2>. HIDE DEF l, p
  <2>2. filer'.pos = IF Len(l) = 0 THEN 0 ELSE IF p.pos < Len(l) THEN p.pos ELSE Len(l) - 1
    BY <1>3, <1>6, <1>10, <2>1, Clamps
  <2>. QED
    BY <1>9, <1>10, <2>1, <2>2
<1>12. Entry(filer') = l[p.pos + 1]
  BY <1>6, <1>11 DEF Entry
<1>. QED
  BY <1>5, <1>9, <1>12

(* The browser of the menu shows its cursor inside the list and on the        *)
(* screen, and CIRCLE leads to the parent directory with the cursor on the    *)
(* directory that was left, whatever the stick holds (filer.c).               *)
THEOREM PlaceKnown == Spec => PlaceRight
<1>1. Init => Kept(filer)
  BY InitKept
<1>2. Kept(filer) /\ [Next]_vars => Kept(filer)'
  BY NextKept
<1>3. Kept(filer) => CursorShown
  BY KeptShown
<1>4. Kept(filer) /\ [Next]_vars =>
          [filer.open /\ filer'.depth = filer.depth - 1 /\ ~filer.over /\ filer'.list # <<>> =>
               filer'.path = Front(filer.path) /\ Entry(filer') = Last(filer.path)]_filer
  BY ReturnedStep
<1>. QED
  BY <1>1, <1>2, <1>3, <1>4, PTL DEF Spec, PlaceRight, Returned

------------------------------------------------------------------------------
(* The settings: which folders read_config finds, for all folders.            *)

(* What holds of 0 and goes from each number to the next holds up to n.       *)
LEMMA Climbs ==
    ASSUME NEW n \in Nat, NEW S \in SUBSET (0 .. n), 0 \in S, \A i \in 0 .. n - 1 : i \in S => i + 1 \in S
    PROVE  S = 0 .. n
<1>. DEFINE T == {i \in 0 .. n : 0 .. i \subseteq S}
            m == Max(T)
<1>1. 0 \in T
  OBVIOUS
<1>2. m \in T /\ \A x \in T : x <= m
  <2>1. T \in SUBSET (0 .. n) /\ T # {}
    BY <1>1
  <2>. HIDE DEF T
  <2>. QED
    BY <2>1, Greatest
<1>. HIDE DEF m
<1>3. m \in 0 .. n /\ 0 .. m \subseteq S
  BY <1>2
<1>4. CASE m # n
  <2>1. m \in 0 .. n - 1 /\ m + 1 \in 0 .. n /\ ~(m + 1 <= m)
    BY <1>3, <1>4
  <2>2. m \in S
    BY <1>3
  <2>3. m + 1 \in S
    BY <2>1, <2>2
  <2>4. 0 .. m + 1 \subseteq S
    BY <1>3, <2>3
  <2>5. m + 1 \in T
    BY <2>1, <2>4
  <2>. QED
    BY <1>2, <2>1, <2>5
<1>. QED
  BY <1>3, <1>4

(* A function on 0 .. n can be defined step by step.                          *)
Upto(X, b, m, g, f) == f \in [0 .. m -> X] /\ f[0] = b /\ \A i \in 1 .. m : f[i] = g[f[i - 1]][i]

LEMMA OneMore ==
    ASSUME NEW X, NEW b \in X, NEW n \in Nat, NEW g \in [X -> [1 .. n -> X]],
           NEW m \in 0 .. n - 1, NEW f, Upto(X, b, m, g, f)
    PROVE  \E h : Upto(X, b, m + 1, g, h)
<1>. DEFINE v == g[f[m]][m + 1]
            h == [i \in 0 .. m + 1 |-> IF i <= m THEN f[i] ELSE v]
<1>1. m \in 0 .. m /\ m + 1 \in 1 .. n /\ f \in [0 .. m -> X]
  BY DEF Upto
<1>2. v \in X
  BY <1>1
<1>. HIDE DEF v
<1>3. h \in [0 .. m + 1 -> X] /\ h[0] = b
  BY <1>1, <1>2 DEF Upto
<1>4. ASSUME NEW i \in 1 .. m + 1 PROVE h[i] = g[h[i - 1]][i]
  <2>1. i - 1 \in 0 .. m + 1 /\ i - 1 <= m /\ i \in 0 .. m + 1
    OBVIOUS
  <2>2. h[i - 1] = f[i - 1]
    BY <2>1
  <2>3. CASE i <= m
    <3>1. h[i] = f[i] /\ i \in 1 .. m
      BY <2>1, <2>3
    <3>. QED
      BY <2>2, <3>1 DEF Upto
  <2>4. CASE ~(i <= m)
    <3>1. i = m + 1 /\ i - 1 = m
      BY <2>4
    <3>2. h[i] = v
      BY <2>1, <2>4
    <3>. QED
      BY <2>2, <3>1, <3>2 DEF v
  <2>. QED
    BY <2>3, <2>4
<1>. HIDE DEF h
<1>. QED
  BY <1>3, <1>4 DEF Upto

LEMMA StepByStep ==
    ASSUME NEW X, NEW b \in X, NEW n \in Nat, NEW g \in [X -> [1 .. n -> X]]
    PROVE  \E f : Upto(X, b, n, g, f)
<1>. DEFINE S == {m \in 0 .. n : \E f : Upto(X, b, m, g, f)}
<1>1. 0 \in S
  <2>1. Upto(X, b, 0, g, [i \in 0 .. 0 |-> b])
    BY DEF Upto
  <2>. QED
    BY <2>1
<1>2. \A m \in 0 .. n - 1 : m \in S => m + 1 \in S
  BY OneMore
<1>. HIDE DEF S
<1>3. S \in SUBSET (0 .. n)
  BY DEF S
<1>4. S = 0 .. n
  BY <1>1, <1>2, <1>3, Climbs
<1>5. n \in S
  BY <1>4
<1>. QED
  BY <1>5 DEF S

(* The scan of a line: get_tokens character by character.                     *)
Scanned ==
    [tokens : Seq(Seq(Character)), token : Seq(Character), in : BOOLEAN, string : BOOLEAN, stop : BOOLEAN,
     bad : BOOLEAN]
Next1(line, i) == IF i < Len(line) THEN line[i + 1] ELSE "end"

LEMMA CharType ==
    ASSUME NEW k \in Scanned, NEW ch \in Character, NEW next
    PROVE  Char(k, ch, next) \in Scanned
<1>1. /\ Append(k.tokens, k.token) \in Seq(Seq(Character)) /\ <<>> \in Seq(Character)
      /\ Append(k.token, ch) \in Seq(Character)
  BY DEF Scanned
<1>2. Ended(k) \in Scanned /\ [Ended(k) EXCEPT !.stop = TRUE] \in Scanned
      /\ [k EXCEPT !.stop = TRUE] \in Scanned
  BY <1>1 DEF Ended, Scanned
<1>3. Put(k, ch) \in Scanned
  BY <1>1 DEF Put, Scanned
<1>4. CASE ch = "q"
  <2>1. [k EXCEPT !.bad = TRUE] \in Scanned
    BY DEF Scanned
  <2>2. [Put(k, "q") EXCEPT !.string = ~k.string] \in Scanned
    <3>1. Put(k, "q") \in Scanned /\ (~k.string) \in BOOLEAN
      BY <1>3, <1>4
    <3>. QED
      BY <3>1 DEF Scanned
  <2>3. Quote(k, next) \in Scanned
    BY <2>1, <2>2 DEF Quote
  <2>. QED
    BY <1>2, <1>4, <2>3 DEF Char, Word
<1>5. CASE ch # "q"
  BY <1>2, <1>3, <1>5 DEF Char
<1>. QED
  BY <1>4, <1>5

LEMMA ScanDefined ==
    ASSUME NEW line \in Seq(Character)
    PROVE  LET k == Scan(line)
           IN  /\ k[0] = Start /\ \A i \in 0 .. Len(line) : k[i] \in Scanned
               /\ \A i \in 1 .. Len(line) : k[i] = Char(k[i - 1], line[i], Next1(line, i))
<1>. DEFINE n == Len(line)
            X == Scanned
            F(x, i) == Char(x, line[i], Next1(line, i))
            g == [x \in X |-> [i \in 1 .. n |-> F(x, i)]]
            Rec(h) == h = [i \in 0 .. n |-> IF i = 0 THEN Start ELSE F(h[i - 1], i)]
<1>1. n \in Nat /\ Start \in X
  BY DEF Start, Scanned
<1>2. \A x \in X, i \in 1 .. n : F(x, i) \in X
  BY CharType
<1>3. Scan(line) = CHOOSE h : Rec(h)
  BY DEF Scan, Next1
<1>. HIDE DEF X, n, F
<1>4. g \in [X -> [1 .. n -> X]]
  BY <1>2
<1>5. \A x \in X, i \in 1 .. n : g[x][i] = F(x, i)
  OBVIOUS
<1>. HIDE DEF g
<1>6. PICK f : Upto(X, Start, n, g, f)
  BY <1>1, <1>4, StepByStep
<1>7. f \in [0 .. n -> X] /\ f[0] = Start /\ \A i \in 1 .. n : f[i] = g[f[i - 1]][i]
  BY <1>6 DEF Upto
<1>8. ASSUME NEW i \in 0 .. n PROVE f[i] = IF i = 0 THEN Start ELSE F(f[i - 1], i)
  <2>1. CASE i = 0
    BY <1>7, <2>1
  <2>2. CASE i # 0
    <3>1. i \in 1 .. n /\ i - 1 \in 0 .. n
      BY <1>1, <2>2
    <3>. QED
      BY <1>5, <1>7, <2>2, <3>1
  <2>. QED
    BY <2>1, <2>2
<1>9. Rec(f)
  BY <1>7, <1>8
<1>. DEFINE k == Scan(line)
<1>10. Rec(k)
  BY <1>3, <1>9
<1>. HIDE DEF k
<1>11. k[0] = Start /\ \A i \in 1 .. n : k[i] = F(k[i - 1], i)
  BY <1>1, <1>10
<1>. DEFINE S == {i \in 0 .. n : k[i] \in X}
<1>12. 0 \in S
  BY <1>1, <1>11
<1>13. \A i \in 0 .. n - 1 : i \in S => i + 1 \in S
  <2>1. SUFFICES ASSUME NEW i \in 0 .. n - 1, i \in S PROVE i + 1 \in S
    OBVIOUS
  <2>2. i + 1 \in 1 .. n /\ i + 1 \in 0 .. n /\ (i + 1) - 1 = i
    BY <1>1
  <2>. QED
    BY <1>2, <1>11, <2>1, <2>2
<1>14. S = 0 .. n
  <2>1. S \in SUBSET (0 .. n)
    OBVIOUS
  <2>. HIDE DEF S
  <2>. QED
    BY <1>1, <1>12, <1>13, <2>1, Climbs
<1>15. \A i \in 0 .. n : k[i] \in X
  BY <1>14
<1>. QED
  BY <1>11, <1>15 DEF k, n, F, X

(* The line of a folder, character by character.                              *)
FolderCharacter == Character \ {"q"}
KeyWord == {"c", "m"}
FolderKey(key) == <<key>>

Joins(V, a, b, n, m) ==
    /\ a \o b \in Seq(V) /\ Len(a \o b) = n + m
    /\ \A i \in 1 .. n : (a \o b)[i] = a[i]
    /\ \A i \in 1 .. m : (a \o b)[n + i] = b[i]

LEMMA Joined ==
    ASSUME NEW V, NEW a \in Seq(V), NEW b \in Seq(V), NEW n \in Nat, NEW m \in Nat, Len(a) = n, Len(b) = m
    PROVE  Joins(V, a, b, n, m)
BY DEF Joins

LEMMA Tuples ==
    ASSUME NEW V, NEW a \in V, NEW b \in V, NEW c \in V, NEW d \in V, NEW e \in V
    PROVE  <<a, b>> \in Seq(V) /\ <<a, b, c, d, e>> \in Seq(V)
OBVIOUS

LEMMA LineFacts ==
    ASSUME NEW key \in KeyWord, NEW f \in Seq(Character)
    PROVE  LET l == FolderLine(key, f)
           IN  /\ l \in Seq(Character) /\ Len(l) = Len(f) + 7
               /\ l[1] = key /\ l[2] = " " /\ l[3] = "=" /\ l[4] = " " /\ l[5] = "q"
               /\ \A i \in 1 .. Len(f) : l[i + 5] = f[i]
               /\ l[Len(f) + 6] = "q" /\ l[Len(f) + 7] = ";"
<1>. DEFINE n == Len(f)
            a == <<key, " ", "=", " ", "q">>
            z == <<"q", ";">>
            af == a \o f
            l == af \o z
<1>1. n \in Nat /\ Len(f) = n /\ f \in Seq(Character)
  OBVIOUS
<1>2. a \in Seq(Character) /\ z \in Seq(Character)
  <2>1. key \in Character
    BY DEF Character, KeyWord, Word
  <2>2. " " \in Character /\ "=" \in Character /\ "q" \in Character /\ ";" \in Character
    BY DEF Character
  <2>3. <<key, " ", "=", " ", "q">> \in Seq(Character)
    BY <2>1, <2>2, Tuples, Zenon
  <2>4. <<"q", ";">> \in Seq(Character)
    BY <2>2, Tuples, Zenon
  <2>. QED
    BY <2>3, <2>4
<1>5. Len(z) = 2 /\ z[1] = "q" /\ z[2] = ";"
  OBVIOUS
<1>6. FolderLine(key, f) = l
  BY DEF FolderLine
<1>. HIDE DEF z, n
<1>8. a \in Seq(Character) /\ Len(a) = 5 /\ a[1] = key /\ a[2] = " " /\ a[3] = "=" /\ a[4] = " " /\ a[5] = "q"
  BY <1>2
<1>. HIDE DEF a
<1>9. Joins(Character, a, f, 5, n)
  BY <1>1, <1>8, Joined
<1>10. /\ af \in Seq(Character) /\ Len(af) = 5 + n /\ (\A i \in 1 .. 5 : af[i] = a[i])
       /\ \A i \in 1 .. n : af[5 + i] = f[i]
  BY <1>9 DEF Joins
<1>. HIDE DEF af
<1>. DEFINE p == 5 + n
<1>11. p \in Nat /\ Len(af) = p
  BY <1>1, <1>10
<1>. HIDE DEF p
<1>12. Joins(Character, af, z, p, 2)
  BY <1>2, <1>5, <1>10, <1>11, Joined
<1>13. /\ l \in Seq(Character) /\ Len(l) = p + 2 /\ (\A i \in 1 .. p : l[i] = af[i])
      /\ \A i \in 1 .. 2 : l[p + i] = z[i]
  BY <1>12 DEF Joins
<1>14. /\ l \in Seq(Character) /\ Len(l) = 5 + n + 2 /\ (\A i \in 1 .. 5 + n : l[i] = af[i])
       /\ l[5 + n + 1] = z[1] /\ l[5 + n + 2] = z[2]
  <2>1. 1 \in 1 .. 2 /\ 2 \in 1 .. 2
    OBVIOUS
  <2>2. l[p + 1] = z[1] /\ l[p + 2] = z[2]
    BY <1>13, <2>1
  <2>. QED
    BY <1>13, <2>2 DEF p
<1>. HIDE DEF l
<1>15. Len(l) = n + 7 /\ l[n + 6] = "q" /\ l[n + 7] = ";"
  <2>1. 5 + n + 1 = n + 6 /\ 5 + n + 2 = n + 7
    BY <1>1
  <2>. QED
    BY <1>5, <1>14, <2>1
<1>16. \A i \in 1 .. 5 : l[i] = a[i]
  BY <1>1, <1>10, <1>14
<1>17. \A i \in 1 .. n : l[i + 5] = f[i]
  <2>1. SUFFICES ASSUME NEW i \in 1 .. n PROVE l[i + 5] = f[i]
    OBVIOUS
  <2>2. i + 5 \in 1 .. 5 + n /\ i + 5 = 5 + i
    BY <1>1
  <2>. QED
    BY <1>10, <1>14, <2>2
<1>18. l[1] = key /\ l[2] = " " /\ l[3] = "=" /\ l[4] = " " /\ l[5] = "q"
  <2>1. 1 \in 1 .. 5 /\ 2 \in 1 .. 5 /\ 3 \in 1 .. 5 /\ 4 \in 1 .. 5 /\ 5 \in 1 .. 5
    OBVIOUS
  <2>2. l[1] = a[1] /\ l[2] = a[2] /\ l[3] = a[3] /\ l[4] = a[4] /\ l[5] = a[5]
    BY <1>16, <2>1
  <2>. QED
    BY <1>8, <2>2
<1>. QED
  BY <1>6, <1>14, <1>15, <1>17, <1>18 DEF n

(* The first line read_line makes of it.                                      *)
LEMMA ReadFacts ==
    ASSUME NEW key \in KeyWord, NEW f \in Seq(Character)
    PROVE  LET r == read_line(FolderLine(key, f), 1)
           IN  /\ r \in Seq(Character) /\ Len(r) \in 6 .. Len(f) + 7
               /\ LineFits(f) => Len(r) >= Len(f) + 6
               /\ \A i \in 1 .. Len(r) : r[i] = FolderLine(key, f)[i]
<1>. DEFINE l == FolderLine(key, f)
            n == Len(f)
            k == IF LineMax < Len(l) THEN LineMax ELSE Len(l)
<1>0. n \in Nat
  OBVIOUS
<1>1. l \in Seq(Character) /\ Len(l) = n + 7 /\ n \in Nat
  BY <1>0, LineFacts
<1>2. LineMax \in Nat /\ LineMax >= 6
  BY ConfAssumption
<1>. HIDE DEF l, n
<1>3. read_line(l, 1) = SubSeq(l, 1, k)
  <2>1. (1 - 1) * LineMax + 1 = 1 /\ 1 * LineMax = LineMax
    BY <1>2
  <2>. QED
    BY <2>1 DEF read_line, Least
<1>4. k \in Nat /\ k <= Len(l) /\ 6 <= k /\ k <= n + 7 /\ (n + 6 <= LineMax => k >= n + 6)
  BY <1>1, <1>2
<1>. HIDE DEF k
<1>5. SubSeq(l, 1, k) \in Seq(Character) /\ Len(SubSeq(l, 1, k)) = k
      /\ \A i \in 1 .. k : SubSeq(l, 1, k)[i] = l[i]
  BY <1>1, <1>4
<1>. QED
  BY <1>1, <1>3, <1>4, <1>5 DEF l, n, LineFits

(* A state of the scan by what it has found.                                  *)
Is(k, tokens, token, in, string) ==
    /\ k \in Scanned /\ k.tokens = tokens /\ k.token = token /\ k.in = in /\ k.string = string
    /\ k.stop = FALSE /\ k.bad = FALSE

LEMMA PutIs ==
    ASSUME NEW t, NEW x, NEW i, NEW s, NEW k, Is(k, t, x, i, s), NEW ch \in Character
    PROVE  Is(Put(k, ch), t, Append(x, ch), TRUE, s)
<1>1. k \in Scanned /\ Append(k.token, ch) \in Seq(Character)
  BY DEF Is, Scanned
<1>2. Put(k, ch) \in Scanned
  BY <1>1 DEF Put, Scanned
<1>. QED
  BY <1>1, <1>2 DEF Is, Put, Scanned

LEMMA EndedIs ==
    ASSUME NEW t, NEW x, NEW i, NEW s, NEW k, Is(k, t, x, i, s)
    PROVE  Is(Ended(k), Append(t, x), <<>>, FALSE, s)
<1>1. k \in Scanned /\ Append(k.tokens, k.token) \in Seq(Seq(Character)) /\ <<>> \in Seq(Character)
  BY DEF Is, Scanned
<1>2. Ended(k) \in Scanned
  BY <1>1 DEF Ended, Scanned
<1>. QED
  BY <1>1, <1>2 DEF Is, Ended, Scanned

LEMMA TurnedIs ==
    ASSUME NEW t, NEW x, NEW i, NEW s, NEW k, Is(k, t, x, i, s), NEW b \in BOOLEAN
    PROVE  Is([k EXCEPT !.string = b], t, x, i, b)
<1>1. [k EXCEPT !.string = b] \in Scanned
  BY DEF Is, Scanned
<1>2. k \in Scanned
  BY DEF Is
<1>. QED
  BY <1>1, <1>2 DEF Is, Scanned

(* Inside the quotes, after i characters of the folder.                       *)
Quoted(f, i) == <<"q">> \o SubSeq(f, 1, i)
Inside(k, key, f, i) == Is(k, <<FolderKey(key)>>, Quoted(f, i), TRUE, TRUE)

LEMMA OneToken == ASSUME NEW x PROVE Len(<<x>>) # 2
OBVIOUS

LEMMA QuotedNext ==
    ASSUME NEW f \in Seq(FolderCharacter), NEW i \in 0 .. Len(f) - 1
    PROVE  Append(Quoted(f, i), f[i + 1]) = Quoted(f, i + 1)
<1>. DEFINE a == SubSeq(f, 1, i)
            b == SubSeq(f, 1, i + 1)
            x == f[i + 1]
<1>1. Len(f) \in Nat /\ i \in Nat /\ i + 1 <= Len(f) /\ i + 1 \in 1 .. Len(f)
  OBVIOUS
<1>2. x \in FolderCharacter
  BY <1>1
<1>3. a \in Seq(FolderCharacter) /\ Len(a) = i /\ \A j \in 1 .. i : a[j] = f[j]
  BY <1>1
<1>4. b \in Seq(FolderCharacter) /\ Len(b) = i + 1 /\ \A j \in 1 .. i + 1 : b[j] = f[j]
  BY <1>1
<1>5. Append(a, x) = b
  BY <1>1, <1>2, <1>3, <1>4
<1>. HIDE DEF a, b, x
<1>6. Append(<<"q">> \o a, x) = <<"q">> \o Append(a, x)
  BY <1>2, <1>3
<1>. QED
  BY <1>5, <1>6 DEF Quoted, a, b, x

LEMMA InsideNext ==
    ASSUME NEW key \in KeyWord, NEW f \in Seq(FolderCharacter), NEW i \in 0 .. Len(f) - 1, NEW next, NEW k,
           Inside(k, key, f, i)
    PROVE  Inside(Char(k, f[i + 1], next), key, f, i + 1)
<1>. DEFINE x == f[i + 1]
<1>1. x \in {"w", "c", "m", "=", " ", "#", ";", "."} /\ x \in Character
  <2>1. i + 1 \in 1 .. Len(f)
    OBVIOUS
  <2>2. x \in FolderCharacter
    BY <2>1
  <2>. HIDE DEF x
  <2>. QED
    BY <2>2 DEF FolderCharacter, Character, Word
<1>2. k.string = TRUE /\ k.in = TRUE /\ k.stop = FALSE /\ k.bad = FALSE /\ Len(k.tokens) # 2
  BY OneToken DEF Inside, Is
<1>3. Char(k, x, next) = Put(k, x)
  <2>1. ~Comment(k, x) /\ ~(k.stop \/ k.bad \/ Len(k.tokens) = 2) /\ x # "q"
    BY <1>1, <1>2 DEF Comment
  <2>. HIDE DEF x
  <2>. QED
    BY <1>1, <1>2, <2>1 DEF Char, Word
<1>4. Is(Put(k, x), <<FolderKey(key)>>, Append(Quoted(f, i), x), TRUE, TRUE)
  <2>. HIDE DEF x
  <2>. QED
    BY <1>1, PutIs DEF Inside
<1>. QED
  BY <1>3, <1>4, QuotedNext DEF Inside

(* The scan of the key.                                                       *)
Key1(key) == <<FolderKey(key)>>

LEMMA KeyScanned ==
    ASSUME NEW key \in KeyWord, NEW next, NEW k
    PROVE  /\ k = Start => Is(Char(k, key, next), <<>>, FolderKey(key), TRUE, FALSE)
           /\ Is(k, <<>>, FolderKey(key), TRUE, FALSE) => Is(Char(k, " ", next), Key1(key), <<>>, FALSE, FALSE)
           /\ Is(k, Key1(key), <<>>, FALSE, FALSE) =>
                  /\ Is(Char(k, " ", next), Key1(key), <<>>, FALSE, FALSE)
                  /\ Is(Char(k, "=", next), Key1(key), <<>>, FALSE, FALSE)
                  /\ Is(Char(k, "q", next), Key1(key), <<"q">>, TRUE, TRUE)
<1>1. Append(<<>>, key) = FolderKey(key) /\ Append(<<>>, FolderKey(key)) = Key1(key)
      /\ Append(<<>>, "q") = <<"q">> /\ Len(<<>>) # 2
  BY DEF FolderKey, Key1
<1>2. key \in Character /\ key \in Word /\ key \notin {"#", ";", " ", "=", "q"} /\ "q" \in Character
  BY DEF Character, Word, KeyWord
<1>3. ASSUME k = Start PROVE Is(Char(k, key, next), <<>>, FolderKey(key), TRUE, FALSE)
  <2>1. Is(Start, <<>>, <<>>, FALSE, FALSE)
    BY DEF Is, Start, Scanned
  <2>2. Char(k, key, next) = Put(k, key)
    BY <1>1, <1>2, <1>3, <2>1 DEF Char, Comment, Is
  <2>. QED
    BY <1>1, <1>2, <1>3, <2>1, <2>2, PutIs
<1>4. ASSUME Is(k, <<>>, FolderKey(key), TRUE, FALSE) PROVE Is(Char(k, " ", next), Key1(key), <<>>, FALSE, FALSE)
  <2>1. Char(k, " ", next) = Ended(k)
    BY <1>1, <1>4 DEF Char, Comment, Is, Word
  <2>. QED
    BY <1>1, <1>4, <2>1, EndedIs
<1>5. ASSUME Is(k, Key1(key), <<>>, FALSE, FALSE)
      PROVE  /\ Is(Char(k, " ", next), Key1(key), <<>>, FALSE, FALSE)
             /\ Is(Char(k, "=", next), Key1(key), <<>>, FALSE, FALSE)
             /\ Is(Char(k, "q", next), Key1(key), <<"q">>, TRUE, TRUE)
  <2>1. Len(k.tokens) # 2
    BY <1>5, OneToken DEF Is, Key1
  <2>2. Char(k, " ", next) = k /\ Char(k, "=", next) = k
    BY <1>5, <2>1 DEF Char, Comment, Is, Word
  <2>3. Char(k, "q", next) = [Put(k, "q") EXCEPT !.string = TRUE]
    <3>1. Char(k, "q", next) = Quote(k, next)
      BY <1>5, <2>1 DEF Char, Comment, Is, Word
    <3>. QED
      BY <1>5, <3>1 DEF Quote, Is
  <2>4. Is(Put(k, "q"), Key1(key), <<"q">>, TRUE, FALSE)
    BY <1>1, <1>2, <1>5, PutIs
  <2>. DEFINE p == Put(k, "q")
  <2>. HIDE DEF p
  <2>5. Is([p EXCEPT !.string = TRUE], Key1(key), <<"q">>, TRUE, TRUE)
    BY <2>4, TurnedIs DEF p
  <2>. QED
    BY <1>5, <2>2, <2>3, <2>5 DEF p
<1>. QED
  BY <1>3, <1>4, <1>5

LEMMA ScanBegins ==
    ASSUME NEW key \in KeyWord, NEW f \in Seq(Character)
    PROVE  Is(Scan(read_line(FolderLine(key, f), 1))[5], Key1(key), <<"q">>, TRUE, TRUE)
<1>. DEFINE l == FolderLine(key, f)
            r == read_line(l, 1)
            k == Scan(r)
<1>1. r \in Seq(Character) /\ Len(r) \in Nat /\ Len(r) >= 6 /\ \A i \in 1 .. Len(r) : r[i] = l[i]
  <2>1. Len(f) \in Nat
    OBVIOUS
  <2>. QED
    BY <2>1, ReadFacts
<1>2. l[1] = key /\ l[2] = " " /\ l[3] = "=" /\ l[4] = " " /\ l[5] = "q"
  BY LineFacts
<1>3. k[0] = Start /\ \A i \in 1 .. Len(r) : k[i] = Char(k[i - 1], r[i], Next1(r, i))
  BY <1>1, ScanDefined
<1>. HIDE DEF l, r, k
<1>4. /\ 1 \in 1 .. Len(r) /\ 2 \in 1 .. Len(r) /\ 3 \in 1 .. Len(r) /\ 4 \in 1 .. Len(r) /\ 5 \in 1 .. Len(r)
      /\ 1 - 1 = 0 /\ 2 - 1 = 1 /\ 3 - 1 = 2 /\ 4 - 1 = 3 /\ 5 - 1 = 4
  BY <1>1
<1>5. /\ k[1] = Char(k[0], key, Next1(r, 1)) /\ k[2] = Char(k[1], " ", Next1(r, 2))
      /\ k[3] = Char(k[2], "=", Next1(r, 3)) /\ k[4] = Char(k[3], " ", Next1(r, 4))
      /\ k[5] = Char(k[4], "q", Next1(r, 5))
  BY <1>1, <1>2, <1>3, <1>4
<1>7. Is(k[1], <<>>, FolderKey(key), TRUE, FALSE)
  BY <1>3, <1>5, KeyScanned
<1>8. Is(k[2], Key1(key), <<>>, FALSE, FALSE)
  BY <1>5, <1>7, KeyScanned
<1>9. Is(k[3], Key1(key), <<>>, FALSE, FALSE)
  BY <1>5, <1>8, KeyScanned
<1>10. Is(k[4], Key1(key), <<>>, FALSE, FALSE)
  BY <1>5, <1>9, KeyScanned
<1>11. Is(k[5], Key1(key), <<"q">>, TRUE, TRUE)
  BY <1>5, <1>10, KeyScanned
<1>. QED
  BY <1>11 DEF k, r, l

LEMMA ScanInside ==
    ASSUME NEW key \in KeyWord, NEW f \in Seq(FolderCharacter), NEW m \in 0 .. Len(f),
           m + 5 <= Len(read_line(FolderLine(key, f), 1))
    PROVE  Inside(Scan(read_line(FolderLine(key, f), 1))[m + 5], key, f, m)
<1>. DEFINE l == FolderLine(key, f)
            r == read_line(l, 1)
            k == Scan(r)
            S == {i \in 0 .. m : Inside(k[i + 5], key, f, i)}
<1>1. Len(f) \in Nat /\ m \in Nat /\ f \in Seq(Character)
  BY DEF FolderCharacter
<1>2. r \in Seq(Character) /\ Len(r) \in Nat /\ m + 5 <= Len(r) /\ \A i \in 1 .. Len(r) : r[i] = l[i]
  BY <1>1, ReadFacts
<1>3. \A i \in 1 .. Len(f) : l[i + 5] = f[i]
  BY <1>1, LineFacts
<1>4. \A i \in 1 .. Len(r) : k[i] = Char(k[i - 1], r[i], Next1(r, i))
  BY <1>2, ScanDefined
<1>5. Inside(k[0 + 5], key, f, 0)
  <2>1. Is(k[5], Key1(key), <<"q">>, TRUE, TRUE)
    BY <1>1, ScanBegins
  <2>2. SubSeq(f, 1, 0) = <<>>
    OBVIOUS
  <2>3. <<"q">> \o <<>> = <<"q">>
    OBVIOUS
  <2>. HIDE DEF l, r, k
  <2>4. Quoted(f, 0) = <<"q">>
    BY <2>2, <2>3 DEF Quoted
  <2>5. 0 + 5 = 5
    OBVIOUS
  <2>. QED
    BY <2>1, <2>4, <2>5 DEF Inside, Key1
<1>. HIDE DEF l, r, k
<1>6. 0 \in S
  BY <1>1, <1>5
<1>7. ASSUME NEW i \in 0 .. m - 1, i \in S PROVE i + 1 \in S
  <2>1. /\ i + 6 \in 1 .. Len(r) /\ i + 1 \in 1 .. Len(f) /\ i \in 0 .. Len(f) - 1
        /\ i + 1 \in 0 .. m /\ (i + 6) - 1 = i + 5 /\ (i + 1) + 5 = i + 6
    BY <1>1, <1>2
  <2>2. r[i + 6] = f[i + 1]
    BY <1>2, <1>3, <2>1
  <2>3. k[i + 6] = Char(k[i + 5], f[i + 1], Next1(r, i + 6))
    BY <1>4, <2>1, <2>2
  <2>4. Inside(k[i + 5], key, f, i)
    BY <1>7
  <2>5. Inside(k[i + 6], key, f, i + 1)
    BY <2>1, <2>3, <2>4, InsideNext
  <2>. QED
    BY <2>1, <2>5
<1>8. S = 0 .. m
  <2>1. S \in SUBSET (0 .. m)
    OBVIOUS
  <2>. HIDE DEF S
  <2>. QED
    BY <1>1, <1>6, <1>7, <2>1, Climbs
<1>9. m \in S
  <2>1. m \in 0 .. m
    BY <1>1
  <2>. HIDE DEF S
  <2>. QED
    BY <1>8, <2>1
<1>. QED
  BY <1>9 DEF k, r, l

(* The folder as a token, its quotes included.                                *)
FolderToken(f) == Append(Quoted(f, Len(f)), "q")

LEMMA QuoteEnds ==
    ASSUME NEW key \in KeyWord, NEW f \in Seq(FolderCharacter), NEW next, next \in {";", "end"}, NEW k,
           Inside(k, key, f, Len(f))
    PROVE  Is(Char(k, "q", next), <<FolderKey(key)>>, FolderToken(f), TRUE, FALSE)
<1>1. k.string = TRUE /\ k.in = TRUE /\ k.stop = FALSE /\ k.bad = FALSE /\ Len(k.tokens) # 2
  BY OneToken DEF Inside, Is
<1>2. Char(k, "q", next) = Quote(k, next)
  BY <1>1 DEF Char, Comment, Word
<1>3. Quote(k, next) = [Put(k, "q") EXCEPT !.string = FALSE]
  BY <1>1 DEF Quote, Word
<1>4. Is(Put(k, "q"), <<FolderKey(key)>>, FolderToken(f), TRUE, TRUE)
  <2>1. "q" \in Character
    BY DEF Character
  <2>. QED
    BY <2>1, PutIs DEF Inside, FolderToken
<1>. DEFINE p == Put(k, "q")
<1>. HIDE DEF p
<1>5. Is([p EXCEPT !.string = FALSE], <<FolderKey(key)>>, FolderToken(f), TRUE, FALSE)
  BY <1>4, TurnedIs DEF p
<1>. QED
  BY <1>2, <1>3, <1>5 DEF p

LEMMA LessThanTwo == ASSUME NEW x PROVE Len(<<x>>) < 2
OBVIOUS

LEMMA FolderTokens ==
    ASSUME NEW key \in KeyWord, NEW f \in Seq(FolderCharacter), LineFits(f)
    PROVE  get_tokens(read_line(FolderLine(key, f), 1)) = Append(<<FolderKey(key)>>, FolderToken(f))
<1>. DEFINE n == Len(f)
            l == FolderLine(key, f)
            r == read_line(l, 1)
            k == Scan(r)
            m == Len(r)
<1>1. n \in Nat /\ n \in 0 .. n /\ f \in Seq(Character)
  BY DEF FolderCharacter
<1>2. /\ r \in Seq(Character) /\ m \in Nat /\ m >= 6 /\ m <= n + 7 /\ m >= n + 6
      /\ \A i \in 1 .. m : r[i] = l[i]
  BY <1>1, ReadFacts
<1>3. l[n + 6] = "q" /\ l[n + 7] = ";"
  BY <1>1, LineFacts
<1>4. \A i \in 1 .. m : k[i] = Char(k[i - 1], r[i], Next1(r, i))
  BY <1>2, ScanDefined
<1>5. get_tokens(r) =
          IF k[m].bad \/ ((~k[m].stop /\ Len(k[m].tokens) < 2) /\ k[m].string) THEN <<>>
          ELSE IF (~k[m].stop /\ Len(k[m].tokens) < 2) /\ k[m].in THEN Ended(k[m]).tokens ELSE k[m].tokens
  BY DEF get_tokens
<1>6. m \in {n + 6, n + 7} /\ n + 6 \in 1 .. m /\ (n + 6) - 1 = n + 5 /\ n + 5 <= m
  BY <1>1, <1>2
<1>7. Inside(k[n + 5], key, f, n)
  BY <1>1, <1>6, ScanInside
<1>8. Next1(r, n + 6) \in {";", "end"}
  <2>1. CASE m = n + 6
    <3>1. ~(n + 6 < m)
      BY <1>1, <2>1
    <3>. QED
      BY <3>1 DEF Next1
  <2>2. CASE m = n + 7
    <3>1. n + 7 \in 1 .. m /\ n + 6 < m /\ (n + 6) + 1 = n + 7
      BY <1>1, <2>2
    <3>2. r[n + 7] = ";"
      BY <1>2, <1>3, <3>1
    <3>. QED
      BY <3>1, <3>2 DEF Next1
  <2>. QED
    BY <1>6, <2>1, <2>2
<1>9. k[n + 6] = Char(k[n + 5], "q", Next1(r, n + 6))
  BY <1>2, <1>3, <1>4, <1>6
<1>10. Is(k[n + 6], <<FolderKey(key)>>, FolderToken(f), TRUE, FALSE)
  BY <1>7, <1>8, <1>9, QuoteEnds
<1>11. Is(Ended(k[n + 6]), Append(<<FolderKey(key)>>, FolderToken(f)), <<>>, FALSE, FALSE)
  BY <1>10, EndedIs
<1>. HIDE DEF l, r, k, m, n
<1>12. CASE m = n + 6
  <2>1. Is(k[m], <<FolderKey(key)>>, FolderToken(f), TRUE, FALSE)
        /\ Ended(k[m]).tokens = Append(<<FolderKey(key)>>, FolderToken(f))
    BY <1>10, <1>11, <1>12 DEF Is
  <2>2. k[m].bad = FALSE /\ k[m].stop = FALSE /\ k[m].string = FALSE /\ k[m].in = TRUE
        /\ Len(k[m].tokens) < 2
    BY <2>1, LessThanTwo DEF Is
  <2>. QED
    BY <1>5, <2>1, <2>2 DEF r, l, n
<1>13. CASE m = n + 7
  <2>1. m \in 1 .. m /\ m - 1 = n + 6
    BY <1>1, <1>13
  <2>2. k[m] = Char(k[n + 6], ";", Next1(r, m))
    BY <1>2, <1>3, <1>4, <1>13, <2>1
  <2>3. k[n + 6].string = FALSE /\ k[n + 6].stop = FALSE /\ k[n + 6].bad = FALSE /\ k[n + 6].in = TRUE
        /\ Len(k[n + 6].tokens) # 2
    BY <1>10, OneToken DEF Is
  <2>4. k[m] = [Ended(k[n + 6]) EXCEPT !.stop = TRUE]
    BY <2>2, <2>3 DEF Char, Comment, Word
  <2>5. k[m].bad = FALSE /\ k[m].stop = TRUE /\ k[m].tokens = Append(<<FolderKey(key)>>, FolderToken(f))
    BY <1>11, <2>4 DEF Is, Scanned
  <2>. QED
    BY <1>5, <2>5 DEF r, l, n
<1>. QED
  BY <1>6, <1>12, <1>13

(* get_string of that token.                                                  *)
LEMMA TokenFacts ==
    ASSUME NEW f \in Seq(Character)
    PROVE  LET t == FolderToken(f)
           IN  /\ t \in Seq(Character) /\ Len(t) = Len(f) + 2
               /\ t[1] = "q" /\ t[Len(f) + 2] = "q"
               /\ \A i \in 1 .. Len(f) : t[i + 1] = f[i]
<1>. DEFINE n == Len(f)
            a == <<"q">>
            b == a \o f
            t == Append(b, "q")
<1>1. n \in Nat /\ Len(f) = n /\ f \in Seq(Character)
  BY DEF FolderCharacter
<1>2. SubSeq(f, 1, n) = f
  OBVIOUS
<1>3. FolderToken(f) = t
  BY <1>2 DEF FolderToken, Quoted
<1>4. a \in Seq(Character) /\ Len(a) = 1 /\ a[1] = "q" /\ "q" \in Character
  <2>1. "q" \in Character
    BY DEF Character
  <2>. QED
    BY <2>1
<1>. HIDE DEF a, n
<1>5. Joins(Character, a, f, 1, n)
  BY <1>1, <1>4, Joined
<1>6. /\ b \in Seq(Character) /\ Len(b) = 1 + n /\ b[1] = a[1]
      /\ \A i \in 1 .. n : b[1 + i] = f[i]
  <2>1. 1 \in 1 .. 1
    OBVIOUS
  <2>2. /\ b \in Seq(Character) /\ Len(b) = 1 + n /\ \A i \in 1 .. 1 : b[i] = a[i]
        /\ \A i \in 1 .. n : b[1 + i] = f[i]
    BY <1>5 DEF Joins
  <2>. QED
    BY <2>1, <2>2
<1>. HIDE DEF b
<1>7. /\ t \in Seq(Character) /\ Len(t) = Len(b) + 1 /\ t[Len(b) + 1] = "q"
      /\ \A i \in 1 .. Len(b) : t[i] = b[i]
  BY <1>4, <1>6
<1>. HIDE DEF t
<1>8. Len(b) + 1 = n + 2 /\ 1 \in 1 .. Len(b)
  BY <1>1, <1>6
<1>9. \A i \in 1 .. n : t[i + 1] = f[i]
  <2>1. SUFFICES ASSUME NEW i \in 1 .. n PROVE t[i + 1] = f[i]
    OBVIOUS
  <2>2. i + 1 \in 1 .. Len(b) /\ i + 1 = 1 + i
    BY <1>1, <1>6
  <2>. QED
    BY <1>6, <1>7, <2>2
<1>10. t[1] = "q" /\ t[n + 2] = "q" /\ Len(t) = n + 2
  BY <1>4, <1>6, <1>7, <1>8
<1>. QED
  BY <1>3, <1>7, <1>9, <1>10 DEF n

LEMMA FolderString ==
    ASSUME NEW f \in Seq(FolderCharacter), NEW max \in Nat, Len(f) <= max
    PROVE  get_string(FolderToken(f), max) = f
<1>. DEFINE n == Len(f)
            t == FolderToken(f)
            ends == {i \in 2 .. Len(t) : t[i] = "q"}
            end == CHOOSE i \in ends : \A j \in ends : i <= j
            last == IF n > max THEN max + 1 ELSE n + 1
<1>1. n \in Nat /\ n <= max /\ f \in Seq(Character)
  BY DEF FolderCharacter
<1>2. /\ t \in Seq(Character) /\ Len(t) = n + 2 /\ t[1] = "q" /\ t[n + 2] = "q"
      /\ \A i \in 1 .. n : t[i + 1] = f[i]
  BY <1>1, TokenFacts
<1>3. \A i \in 1 .. n : f[i] # "q"
  <2>1. \A i \in 1 .. n : f[i] \in FolderCharacter
    OBVIOUS
  <2>. QED
    BY <2>1 DEF FolderCharacter
<1>4. get_string(t, max) =
          IF t = <<>> \/ t[1] # "q" \/ ends = {} THEN <<>>
          ELSE SubSeq(t, 2, IF end - 2 > max THEN max + 1 ELSE end - 1)
  BY DEF get_string
<1>. HIDE DEF t, n
<1>5. ends = {n + 2}
  <2>1. n + 2 \in ends
    BY <1>1, <1>2
  <2>2. ASSUME NEW i \in ends PROVE i = n + 2
    <3>1. i \in 2 .. n + 2 /\ t[i] = "q"
      BY <1>2
    <3>2. CASE i # n + 2
      <4>1. i - 1 \in 1 .. n /\ (i - 1) + 1 = i
        BY <1>1, <3>1, <3>2
      <4>. QED
        BY <1>2, <1>3, <3>1, <4>1
    <3>. QED
      BY <3>2
  <2>. HIDE DEF ends
  <2>. QED
    BY <2>1, <2>2
<1>6. end = n + 2
  <2>1. \E i \in ends : \A j \in ends : i <= j
    <3>. HIDE DEF ends
    <3>1. n + 2 \in ends /\ \A j \in ends : n + 2 <= j
      BY <1>1, <1>5
    <3>. QED
      BY <3>1
  <2>2. end \in ends
    BY <2>1
  <2>. HIDE DEF end, ends
  <2>. QED
    BY <1>5, <2>2
<1>. HIDE DEF end, ends
<1>7. get_string(t, max) = SubSeq(t, 2, last)
  <2>1. t # <<>> /\ ends # {}
    BY <1>1, <1>2, <1>5
  <2>2. end - 2 = n /\ end - 1 = n + 1
    BY <1>1, <1>6
  <2>. QED
    BY <1>2, <1>4, <2>1, <2>2
<1>8. last \in Nat /\ last >= 1 /\ last <= n + 1 /\ last = n + 1
  BY <1>1
<1>. HIDE DEF last
<1>9. /\ SubSeq(t, 2, last) \in Seq(Character) /\ Len(SubSeq(t, 2, last)) = last - 1
      /\ \A i \in 1 .. last - 1 : SubSeq(t, 2, last)[i] = t[i + 1]
  BY <1>1, <1>2, <1>8
<1>. DEFINE g == SubSeq(t, 2, last)
<1>. HIDE DEF g
<1>10. Len(f) = n /\ f \in Seq(Character)
  BY DEF n, FolderCharacter
<1>11. last - 1 = n
  BY <1>1, <1>8
<1>12. g \in Seq(Character) /\ Len(g) = n /\ \A i \in 1 .. n : g[i] = f[i]
  BY <1>2, <1>9, <1>11 DEF g
<1>13. g = f
  BY <1>10, <1>12
<1>. QED
  BY <1>7, <1>13 DEF g, t

(* What is read of a text is made of such characters too.                     *)
Settings == [capture : Seq(Character), music : Seq(Character)]

LEMMA Smallest ==
    ASSUME NEW n \in Nat, NEW S \in SUBSET (0 .. n), S # {}
    PROVE  \E m \in S : \A x \in S : m <= x
<1>. DEFINE T == {n - i : i \in S}
<1>1. T \in SUBSET (0 .. n) /\ T # {}
  <2>1. \A i \in S : n - i \in 0 .. n
    OBVIOUS
  <2>2. T \subseteq 0 .. n
    BY <2>1
  <2>3. PICK i \in S : TRUE
    OBVIOUS
  <2>4. n - i \in T
    BY <2>3
  <2>. QED
    BY <2>2, <2>4
<1>2. Max(T) \in T /\ \A x \in T : x <= Max(T)
  <2>. HIDE DEF T
  <2>. QED
    BY <1>1, Greatest
<1>3. PICK m \in S : Max(T) = n - m
  BY <1>2
<1>4. \A x \in S : n - x <= n - m
  BY <1>2, <1>3
<1>5. \A x \in S : m <= x
  BY <1>4
<1>. QED
  BY <1>5

LEMMA StringType ==
    ASSUME NEW token \in Seq(Character), NEW max \in Nat
    PROVE  get_string(token, max) \in Seq(Character)
<1>. DEFINE ends == {i \in 2 .. Len(token) : token[i] = "q"}
            end == CHOOSE i \in ends : \A j \in ends : i <= j
            last == IF end - 2 > max THEN max + 1 ELSE end - 1
<1>1. Len(token) \in Nat
  OBVIOUS
<1>2. CASE ends = {}
  <2>1. get_string(token, max) = <<>>
    BY <1>2 DEF get_string
  <2>. QED
    BY <2>1
<1>3. CASE ends # {}
  <2>1. end \in ends
    <3>1. ends \in SUBSET (0 .. Len(token))
      OBVIOUS
    <3>. HIDE DEF ends
    <3>2. \E m \in ends : \A x \in ends : m <= x
      BY <1>1, <1>3, <3>1, Smallest
    <3>. QED
      BY <3>2
  <2>2. end \in 2 .. Len(token)
    BY <2>1
  <2>. HIDE DEF end
  <2>3. last \in Nat /\ last <= Len(token)
    BY <1>1, <2>2
  <2>. HIDE DEF last
  <2>4. SubSeq(token, 2, last) \in Seq(Character)
    BY <2>3
  <2>5. get_string(token, max) \in {<<>>, SubSeq(token, 2, last)}
    BY DEF get_string, last, end
  <2>6. <<>> \in Seq(Character)
    OBVIOUS
  <2>. QED
    BY <2>4, <2>5, <2>6
<1>. QED
  BY <1>2, <1>3

LEMMA TokensType ==
    ASSUME NEW line \in Seq(Character)
    PROVE  get_tokens(line) \in Seq(Seq(Character))
<1>. DEFINE k == Scan(line)[Len(line)]
<1>1. k \in Scanned
  <2>1. Len(line) \in 0 .. Len(line)
    OBVIOUS
  <2>. QED
    BY <2>1, ScanDefined
<1>2. get_tokens(line) \in {<<>>, Ended(k).tokens, k.tokens}
  BY DEF get_tokens
<1>. HIDE DEF k
<1>3. k.tokens \in Seq(Seq(Character)) /\ k.token \in Seq(Character)
  BY <1>1 DEF Scanned
<1>4. Ended(k).tokens = Append(k.tokens, k.token)
  BY <1>1 DEF Ended, Scanned
<1>5. Append(k.tokens, k.token) \in Seq(Seq(Character)) /\ <<>> \in Seq(Seq(Character))
  BY <1>3
<1>. QED
  BY <1>2, <1>3, <1>4, <1>5

LEMMA LineType ==
    ASSUME NEW c \in Settings, NEW line \in Seq(Character)
    PROVE  ReadLine(c, line) \in Settings
<1>. DEFINE t == get_tokens(line)
<1>1. t \in Seq(Seq(Character))
  BY TokensType
<1>2. CaptureMax \in Nat /\ CfgLine \in Nat
  BY ConfAssumption
<1>. HIDE DEF t
<1>3. CASE Len(t) = 2
  <2>1. t[2] \in Seq(Character)
    <3>. DEFINE V == Seq(Character)
    <3>. HIDE DEF V
    <3>1. t \in Seq(V) /\ 2 \in 1 .. Len(t)
      BY <1>1, <1>3 DEF V
    <3>2. t[2] \in V
      BY <3>1
    <3>. QED
      BY <3>2 DEF V
  <2>2. get_string(t[2], CaptureMax) \in Seq(Character) /\ get_string(t[2], CfgLine) \in Seq(Character)
    BY <1>2, <2>1, StringType
  <2>. QED
    BY <1>3, <2>2 DEF ReadLine, Settings, t
<1>4. CASE Len(t) # 2
  BY <1>4 DEF ReadLine, t
<1>. QED
  BY <1>3, <1>4

LEMMA PieceType ==
    ASSUME NEW text \in Seq(Character), NEW i \in Nat, i >= 1
    PROVE  read_line(text, i) \in Seq(Character)
<1>. DEFINE a == (i - 1) * LineMax
            b == i * LineMax
            m == IF b < Len(text) THEN b ELSE Len(text)
<1>1. i - 1 \in Nat /\ LineMax \in Nat /\ Len(text) \in Nat
  BY ConfAssumption
<1>2. a \in Nat /\ b \in Nat
  BY <1>1
<1>3. read_line(text, i) = SubSeq(text, a + 1, m)
  BY DEF read_line, Least
<1>. HIDE DEF a, b
<1>4. m \in Nat /\ m <= Len(text)
  BY <1>1, <1>2
<1>. HIDE DEF m
<1>5. SubSeq(text, a + 1, m) \in Seq(Character)
  BY <1>1, <1>2, <1>4
<1>. QED
  BY <1>3, <1>5

LEMMA LineCount ==
    ASSUME NEW l \in Nat
    PROVE  (l + LineMax - 1) \div LineMax \in Nat
<1>1. LineMax \in Nat /\ LineMax >= 6
  BY ConfAssumption
<1>2. l + LineMax - 1 \in Nat
  BY <1>1
<1>. QED
  BY <1>1, <1>2

LEMMA OneLine ==
    ASSUME NEW l \in Nat, 6 <= l, l <= LineMax + 1
    PROVE  (l + LineMax - 1) \div LineMax = IF l <= LineMax THEN 1 ELSE 2
<1>1. LineMax \in Nat /\ LineMax >= 6
  BY ConfAssumption
<1>2. CASE l <= LineMax
  BY <1>1, <1>2
<1>3. CASE ~(l <= LineMax)
  BY <1>1, <1>3
<1>. QED
  BY <1>2, <1>3

(* The pieces of a text are read one after the other.                         *)
Pieces(c, text, n, r) ==
    /\ r[0] = c
    /\ \A i \in 1 .. n : r[i] = ReadLine(r[i - 1], read_line(text, i))
    /\ \A i \in 0 .. n : r[i] \in Settings

LEMMA TextDefined ==
    ASSUME NEW c \in Settings, NEW text \in Seq(Character), NEW n \in Nat, n = (Len(text) + LineMax - 1) \div LineMax
    PROVE  \E r : Pieces(c, text, n, r) /\ ReadText(c, text) = r[n]
<1>. DEFINE X == Settings
            F(x, i) == ReadLine(x, read_line(text, i))
            g == [x \in X |-> [i \in 1 .. n |-> F(x, i)]]
            Rec(h) == h = [i \in 0 .. n |-> IF i = 0 THEN c ELSE F(h[i - 1], i)]
            k == CHOOSE h : Rec(h)
<1>1. c \in X
  OBVIOUS
<1>2. \A x \in X, i \in 1 .. n : F(x, i) \in X
  BY LineType, PieceType
<1>3. ReadText(c, text) = k[n]
  BY DEF ReadText
<1>. HIDE DEF X, F
<1>4. g \in [X -> [1 .. n -> X]]
  BY <1>2
<1>5. \A x \in X, i \in 1 .. n : g[x][i] = F(x, i)
  OBVIOUS
<1>. HIDE DEF g
<1>6. PICK f : Upto(X, c, n, g, f)
  BY <1>1, <1>4, StepByStep
<1>7. f \in [0 .. n -> X] /\ f[0] = c /\ \A i \in 1 .. n : f[i] = g[f[i - 1]][i]
  BY <1>6 DEF Upto
<1>8. ASSUME NEW i \in 0 .. n PROVE f[i] = IF i = 0 THEN c ELSE F(f[i - 1], i)
  <2>1. CASE i = 0
    BY <1>7, <2>1
  <2>2. CASE i # 0
    <3>1. i \in 1 .. n /\ i - 1 \in 0 .. n
      BY <2>2
    <3>. QED
      BY <1>5, <1>7, <2>2, <3>1
  <2>. QED
    BY <2>1, <2>2
<1>9. Rec(f)
  BY <1>7, <1>8
<1>10. Rec(k)
  BY <1>9
<1>. HIDE DEF k
<1>11. k[0] = c /\ \A i \in 1 .. n : k[i] = F(k[i - 1], i)
  BY <1>10
<1>. DEFINE S == {i \in 0 .. n : k[i] \in X}
<1>12. 0 \in S
  BY <1>1, <1>11
<1>13. \A i \in 0 .. n - 1 : i \in S => i + 1 \in S
  <2>1. SUFFICES ASSUME NEW i \in 0 .. n - 1, i \in S PROVE i + 1 \in S
    OBVIOUS
  <2>2. i + 1 \in 1 .. n /\ i + 1 \in 0 .. n /\ (i + 1) - 1 = i
    OBVIOUS
  <2>. QED
    BY <1>2, <1>11, <2>1, <2>2
<1>14. S = 0 .. n
  <2>1. S \in SUBSET (0 .. n)
    OBVIOUS
  <2>. HIDE DEF S
  <2>. QED
    BY <1>12, <1>13, <2>1, Climbs
<1>15. \A i \in 0 .. n : k[i] \in X
  BY <1>14
<1>16. Pieces(c, text, n, k)
  BY <1>11, <1>15 DEF Pieces, F, X
<1>. QED
  BY <1>3, <1>16

LEMMA TextType ==
    ASSUME NEW c \in Settings, NEW text \in Seq(Character)
    PROVE  ReadText(c, text) \in Settings
<1>. DEFINE n == (Len(text) + LineMax - 1) \div LineMax
<1>1. n \in Nat
  <2>1. Len(text) \in Nat
    OBVIOUS
  <2>. QED
    BY <2>1, LineCount
<1>2. \E r : Pieces(c, text, n, r) /\ ReadText(c, text) = r[n]
  BY <1>1, TextDefined
<1>. HIDE DEF n
<1>3. n \in 0 .. n
  BY <1>1
<1>. QED
  BY <1>2, <1>3 DEF Pieces

LEMMA NothingRead ==
    ASSUME NEW c \in Settings
    PROVE  ReadText(c, <<>>) = c
<1>1. LineMax \in Nat /\ LineMax >= 6
  BY ConfAssumption
<1>2. 0 = (Len(<<>>) + LineMax - 1) \div LineMax /\ <<>> \in Seq(Character)
  BY <1>1
<1>3. PICK r : Pieces(c, <<>>, 0, r) /\ ReadText(c, <<>>) = r[0]
  BY <1>2, TextDefined
<1>. QED
  BY <1>3 DEF Pieces

(* A line that fits is read as one: what may be left is its last character,   *)
(* the beginning of a comment.                                                *)
LEMMA RestRead ==
    ASSUME NEW c
    PROVE  ReadLine(c, <<";">>) = c
<1>. DEFINE l == <<";">>
            k == Scan(l)
<1>1. l \in Seq(Character) /\ Len(l) = 1 /\ l[1] = ";"
  <2>1. \A V : \A x \in V : <<x>> \in Seq(V)
    OBVIOUS
  <2>2. ";" \in Character
    BY DEF Character
  <2>3. l \in Seq(Character)
    BY <2>1, <2>2, Zenon
  <2>. QED
    BY <2>3
<1>. HIDE DEF l
<1>2. k[0] = Start /\ \A i \in 1 .. Len(l) : k[i] = Char(k[i - 1], l[i], Next1(l, i))
  BY <1>1, ScanDefined
<1>3. k[1] = Char(Start, ";", Next1(l, 1))
  <2>0. Len(l) = 1
    BY <1>1
  <2>1. 1 \in 1 .. Len(l) /\ 1 - 1 = 0
    BY <2>0
  <2>. HIDE DEF k
  <2>. QED
    BY <1>1, <1>2, <2>1
<1>. HIDE DEF k
<1>4. Char(Start, ";", Next1(l, 1)) = [Start EXCEPT !.stop = TRUE]
  <2>1. Len(<<>>) # 2
    OBVIOUS
  <2>2. Start.stop = FALSE /\ Start.bad = FALSE /\ Start.tokens = <<>> /\ Start.in = FALSE /\ Start.string = FALSE
    BY DEF Start
  <2>. QED
    BY <2>1, <2>2 DEF Char, Comment, Word
<1>5. k[1].bad = FALSE /\ k[1].stop = TRUE /\ k[1].tokens = <<>>
  BY <1>3, <1>4 DEF Start
<1>6. get_tokens(l) = <<>>
  BY <1>1, <1>5 DEF get_tokens, k
<1>7. Len(<<>>) # 2
  OBVIOUS
<1>8. ReadLine(c, l) = c
  BY <1>6, <1>7 DEF ReadLine
<1>. QED
  BY <1>8 DEF l

LEMMA OneOfMany ==
    ASSUME NEW V, NEW s \in Seq(V), NEW i \in 1 .. Len(s)
    PROVE  SubSeq(s, i, i) = <<s[i]>>
<1>. DEFINE q == SubSeq(s, i, i)
<1>1. q \in Seq(V) /\ Len(q) = 1
  OBVIOUS
<1>2. q[1] = s[i]
  OBVIOUS
<1>. HIDE DEF q
<1>3. q = <<q[1]>>
  BY <1>1
<1>. QED
  BY <1>2, <1>3 DEF q

LEMMA FittingRead ==
    ASSUME NEW key \in KeyWord, NEW f \in Seq(Character), LineFits(f), NEW c \in Settings
    PROVE  ReadText(c, FolderLine(key, f)) = ReadLine(c, read_line(FolderLine(key, f), 1))
<1>. DEFINE l == FolderLine(key, f)
            n == (Len(l) + LineMax - 1) \div LineMax
<1>1. LineMax \in Nat /\ LineMax >= 6 /\ Len(f) \in Nat
  BY ConfAssumption
<1>2. l \in Seq(Character) /\ Len(l) = Len(f) + 7 /\ l[Len(f) + 7] = ";"
  BY LineFacts
<1>9. l \in Seq(Character)
  BY <1>2
<1>. HIDE DEF l
<1>3. 6 <= Len(l) /\ Len(l) <= LineMax + 1 /\ Len(l) \in Nat
  <2>1. Len(f) + 6 <= LineMax
    BY DEF LineFits
  <2>2. Len(l) = Len(f) + 7
    BY <1>2
  <2>. QED
    BY <1>1, <2>1, <2>2
<1>4. n = IF Len(l) <= LineMax THEN 1 ELSE 2
  BY <1>3, OneLine
<1>. HIDE DEF n
<1>5. PICK r : Pieces(c, l, n, r) /\ ReadText(c, l) = r[n]
  <2>1. n \in Nat
    BY <1>4
  <2>2. n = (Len(l) + LineMax - 1) \div LineMax
    BY DEF n
  <2>. QED
    BY <1>2, <2>1, <2>2, TextDefined
<1>6. r[1] = ReadLine(c, read_line(l, 1)) /\ n \in 1 .. 2
  BY <1>4, <1>5 DEF Pieces
<1>7. CASE n = 1
  BY <1>5, <1>6, <1>7 DEF l
<1>8. CASE n = 2
  <2>1. Len(l) = LineMax + 1
    BY <1>1, <1>3, <1>4, <1>8
  <2>2. read_line(l, 2) = SubSeq(l, LineMax + 1, LineMax + 1)
    <3>1. (2 - 1) * LineMax + 1 = LineMax + 1 /\ ~(2 * LineMax < LineMax + 1)
      BY <1>1
    <3>. QED
      BY <2>1, <3>1 DEF read_line, Least
  <2>3. read_line(l, 2) = <<";">>
    <3>1. l[LineMax + 1] = ";"
      BY <1>2, <2>1
    <3>2. SubSeq(l, LineMax + 1, LineMax + 1) = <<l[LineMax + 1]>>
      <4>1. l \in Seq(Character) /\ LineMax + 1 \in 1 .. Len(l)
        BY <1>1, <1>3, <2>1, <1>9
      <4>. QED
        BY <4>1, OneOfMany
    <3>. QED
      BY <2>2, <3>1, <3>2
  <2>4. r[2] = ReadLine(r[1], read_line(l, 2))
    BY <1>5, <1>8 DEF Pieces
  <2>5. r[2] = r[1]
    BY <2>3, <2>4, RestRead
  <2>. QED
    BY <1>5, <1>6, <1>8, <2>5 DEF l
<1>. QED
  BY <1>6, <1>7, <1>8

(* What comes after the key does not change which folder the line is of.      *)
Begun(k, key) == k \in Scanned /\ Len(k.tokens) \in Nat \ {0} /\ k.tokens[1] = FolderKey(key)

LEMMA TokenKept ==
    ASSUME NEW key, NEW k, Begun(k, key), NEW ch \in Character, NEW next
    PROVE  Begun(Char(k, ch, next), key) /\ Begun(Ended(k), key)
<1>1. k \in Scanned /\ k.tokens \in Seq(Seq(Character)) /\ k.token \in Seq(Character)
      /\ Len(k.tokens) \in Nat \ {0} /\ k.tokens[1] = FolderKey(key)
  BY DEF Begun, Scanned
<1>2. Char(k, ch, next) \in Scanned
  BY <1>1, CharType
<1>3. Ended(k) \in Scanned /\ Ended(k).tokens = Append(k.tokens, k.token)
  <2>1. Append(k.tokens, k.token) \in Seq(Seq(Character)) /\ <<>> \in Seq(Character)
    BY <1>1
  <2>. QED
    BY <1>1, <2>1 DEF Ended, Scanned
<1>4. Len(Append(k.tokens, k.token)) \in Nat \ {0} /\ Append(k.tokens, k.token)[1] = FolderKey(key)
  BY <1>1
<1>5. Char(k, ch, next).tokens \in {k.tokens, Append(k.tokens, k.token)}
  <2>. DEFINE e == Ended(k)
  <2>. HIDE DEF e
  <2>0. e \in Scanned
    BY <1>3 DEF e
  <2>1. [k EXCEPT !.stop = TRUE].tokens = k.tokens /\ [e EXCEPT !.stop = TRUE].tokens = e.tokens
    BY <1>1, <2>0 DEF Scanned
  <2>2. Put(k, ch).tokens = k.tokens /\ Put(k, ch) \in Scanned
    <3>1. Append(k.token, ch) \in Seq(Character)
      BY <1>1
    <3>. QED
      BY <1>1, <3>1 DEF Put, Scanned
  <2>3. Quote(k, next).tokens = k.tokens
    BY <1>1 DEF Quote, Put, Scanned
  <2>. QED
    BY <1>3, <2>1, <2>2, <2>3 DEF Char, e
<1>. QED
  BY <1>2, <1>3, <1>4, <1>5 DEF Begun

LEMMA OwnKey ==
    ASSUME NEW key \in KeyWord, NEW f \in Seq(Character)
    PROVE  LET t == get_tokens(read_line(FolderLine(key, f), 1)) IN t = <<>> \/ t[1] = FolderKey(key)
<1>. DEFINE r == read_line(FolderLine(key, f), 1)
            k == Scan(r)
            m == Len(r)
            S == {i \in 0 .. m - 5 : Begun(k[i + 5], key)}
<1>1. r \in Seq(Character) /\ m \in Nat /\ m >= 6 /\ m - 5 \in Nat
  <2>1. Len(f) \in Nat
    OBVIOUS
  <2>. QED
    BY <2>1, ReadFacts
<1>2. \A i \in 1 .. m : k[i] = Char(k[i - 1], r[i], Next1(r, i))
  BY <1>1, ScanDefined
<1>3. Begun(k[5], key)
  <2>1. Is(k[5], Key1(key), <<"q">>, TRUE, TRUE)
    BY ScanBegins
  <2>. HIDE DEF k
  <2>2. Len(Key1(key)) = 1 /\ Key1(key)[1] = FolderKey(key)
    BY DEF Key1
  <2>. QED
    BY <2>1, <2>2 DEF Is, Begun
<1>4. get_tokens(r) \in {<<>>, Ended(k[m]).tokens, k[m].tokens}
  BY DEF get_tokens
<1>. HIDE DEF r, k, m
<1>5. 0 \in S
  BY <1>1, <1>3
<1>6. ASSUME NEW i \in 0 .. (m - 5) - 1, i \in S PROVE i + 1 \in S
  <2>1. i + 6 \in 1 .. m /\ (i + 6) - 1 = i + 5 /\ (i + 1) + 5 = i + 6 /\ i + 1 \in 0 .. m - 5
    BY <1>1
  <2>2. r[i + 6] \in Character
    BY <1>1, <2>1 DEF m
  <2>3. Begun(k[i + 5], key)
    BY <1>6
  <2>4. k[i + 6] = Char(k[i + 5], r[i + 6], Next1(r, i + 6))
    BY <1>2, <2>1
  <2>5. Begun(k[i + 6], key)
    BY <2>2, <2>3, <2>4, TokenKept
  <2>. QED
    BY <2>1, <2>5
<1>7. S = 0 .. m - 5
  <2>1. S \in SUBSET (0 .. m - 5)
    OBVIOUS
  <2>. HIDE DEF S
  <2>. QED
    BY <1>1, <1>5, <1>6, <2>1, Climbs
<1>8. Begun(k[m], key)
  <2>1. m - 5 \in 0 .. m - 5 /\ (m - 5) + 5 = m
    BY <1>1
  <2>2. m - 5 \in S
    BY <1>7, <2>1
  <2>. QED
    BY <2>1, <2>2
<1>9. Begun(Ended(k[m]), key)
  <2>1. "w" \in Character
    BY DEF Character, Word
  <2>. QED
    BY <1>8, <2>1, TokenKept
<1>10. get_tokens(r) = <<>> \/ get_tokens(r)[1] = FolderKey(key)
  BY <1>4, <1>8, <1>9 DEF Begun
<1>. QED
  BY <1>10 DEF r

LEMMA KeysDiffer == FolderKey("c") # FolderKey("m")
<1>1. <<"c">>[1] = "c" /\ <<"m">>[1] = "m"
  OBVIOUS
<1>. QED
  BY <1>1 DEF FolderKey

LEMMA FolderFound ==
    ASSUME NEW f \in Seq(FolderCharacter), LineFits(f), NEW c \in Settings
    PROVE  /\ Len(f) <= CaptureMax => ReadText(c, FolderLine("c", f)) = [c EXCEPT !.capture = f]
           /\ Len(f) <= CfgLine => ReadText(c, FolderLine("m", f)) = [c EXCEPT !.music = f]
<1>1. f \in Seq(Character) /\ "c" \in KeyWord /\ "m" \in KeyWord /\ CaptureMax \in Nat /\ CfgLine \in Nat
  BY ConfAssumption DEF FolderCharacter, KeyWord
<1>2. ASSUME NEW key \in KeyWord
      PROVE  LET t == get_tokens(read_line(FolderLine(key, f), 1))
             IN  Len(t) = 2 /\ t[1] = FolderKey(key) /\ t[2] = FolderToken(f)
  <2>. DEFINE t == get_tokens(read_line(FolderLine(key, f), 1))
              a == FolderKey(key)
              b == FolderToken(f)
  <2>1. t = Append(<<a>>, b)
    BY FolderTokens
  <2>. HIDE DEF t, a, b
  <2>2. Len(t) = 2 /\ t[1] = a /\ t[2] = b
    BY <2>1
  <2>. QED
    BY <2>2 DEF t, a, b
<1>3. ASSUME Len(f) <= CaptureMax PROVE ReadText(c, FolderLine("c", f)) = [c EXCEPT !.capture = f]
  <2>1. get_string(FolderToken(f), CaptureMax) = f
    BY <1>1, <1>3, FolderString
  <2>2. ReadText(c, FolderLine("c", f)) = ReadLine(c, read_line(FolderLine("c", f), 1))
    BY <1>1, FittingRead
  <2>. DEFINE l == read_line(FolderLine("c", f), 1)
              t == get_tokens(l)
  <2>3. Len(t) = 2 /\ t[1] = <<"c">> /\ t[2] = FolderToken(f)
    BY <1>1, <1>2 DEF FolderKey
  <2>. HIDE DEF l
  <2>4. ReadLine(c, l) = [c EXCEPT !.capture = get_string(t[2], CaptureMax)]
    BY <2>3 DEF ReadLine
  <2>. QED
    BY <2>1, <2>2, <2>3, <2>4 DEF l
<1>4. ASSUME Len(f) <= CfgLine PROVE ReadText(c, FolderLine("m", f)) = [c EXCEPT !.music = f]
  <2>1. get_string(FolderToken(f), CfgLine) = f
    BY <1>1, <1>4, FolderString
  <2>2. ReadText(c, FolderLine("m", f)) = ReadLine(c, read_line(FolderLine("m", f), 1))
    BY <1>1, FittingRead
  <2>. DEFINE l == read_line(FolderLine("m", f), 1)
              t == get_tokens(l)
  <2>3. Len(t) = 2 /\ t[1] = <<"m">> /\ t[2] = FolderToken(f)
    BY <1>1, <1>2 DEF FolderKey
  <2>. HIDE DEF l
  <2>4. ReadLine(c, l) = [c EXCEPT !.music = get_string(t[2], CfgLine)]
    BY <2>3, KeysDiffer DEF ReadLine, FolderKey
  <2>. QED
    BY <2>1, <2>2, <2>3, <2>4 DEF l
<1>. QED
  BY <1>3, <1>4

LEMMA OtherKept ==
    ASSUME NEW f \in Seq(Character), LineFits(f), NEW c \in Settings
    PROVE  /\ ReadText(c, FolderLine("c", f)).music = c.music
           /\ ReadText(c, FolderLine("m", f)).capture = c.capture
<1>1. "c" \in KeyWord /\ "m" \in KeyWord
  BY DEF KeyWord
<1>2. ReadText(c, FolderLine("c", f)).music = c.music
  <2>. DEFINE l == read_line(FolderLine("c", f), 1)
              t == get_tokens(l)
  <2>1. ReadText(c, FolderLine("c", f)) = ReadLine(c, l)
    BY <1>1, FittingRead
  <2>2. t = <<>> \/ t[1] = FolderKey("c")
    BY <1>1, OwnKey
  <2>. HIDE DEF l
  <2>3. Len(t) = 2 => t[1] # <<"m">>
    BY <2>2, KeysDiffer DEF FolderKey
  <2>4. ReadLine(c, l) \in {[c EXCEPT !.capture = get_string(t[2], CaptureMax)], c}
    BY <2>3 DEF ReadLine
  <2>. QED
    BY <2>1, <2>4 DEF Settings
<1>3. ReadText(c, FolderLine("m", f)).capture = c.capture
  <2>. DEFINE l == read_line(FolderLine("m", f), 1)
              t == get_tokens(l)
  <2>1. ReadText(c, FolderLine("m", f)) = ReadLine(c, l)
    BY <1>1, FittingRead
  <2>2. t = <<>> \/ t[1] = FolderKey("m")
    BY <1>1, OwnKey
  <2>. HIDE DEF l
  <2>3. Len(t) = 2 => t[1] # <<"c">>
    BY <2>2, KeysDiffer DEF FolderKey
  <2>4. ReadLine(c, l) \in {[c EXCEPT !.music = get_string(t[2], CfgLine)], c}
    BY <2>3 DEF ReadLine
  <2>. QED
    BY <2>1, <2>4 DEF Settings
<1>. QED
  BY <1>2, <1>3

(* What the settings and the file say of the folders of h.                    *)
Known == Folders \cup {<<>>, Lost}

Agree(h, c) ==
    /\ h.capture # Lost => c.capture = h.capture /\ Len(h.capture) < CaptureMax
    /\ h.music # Lost => c.music = h.music

History == [capture : Known, music : Known]

SInv ==
    /\ config \in Settings /\ file \in Settings /\ chosen \in History /\ saved \in History
    /\ at \in {"menu", "capture", "music"}
    /\ Agree(chosen, config)
    /\ Agree(saved, read_config(file))
    /\ at = "capture" => file = Empty /\ saved = Empty
    /\ at = "music" => file.music = <<>>

LEMMA KnownFacts ==
    ASSUME NEW f \in Known, f # Lost
    PROVE  f \in Seq(FolderCharacter) /\ f \in Seq(Character) /\ Len(f) <= CfgLine
<1>1. CaptureMax \in Nat /\ CfgLine \in Nat
  BY ConfAssumption
<1>2. CASE f = <<>>
  BY <1>1, <1>2
<1>3. CASE f \in Folders
  <2>1. f \in Seq(FolderCharacter) /\ CaptureMax + Len(f) + 7 < CfgLine
    BY <1>3, ConfAssumption DEF FolderCharacter
  <2>2. f \in Seq(Character) /\ Len(f) \in Nat
    BY <2>1 DEF FolderCharacter
  <2>. QED
    BY <1>1, <2>1, <2>2
<1>. QED
  BY <1>2, <1>3 DEF Known

LEMMA EmptyFacts ==
    /\ Empty \in Settings /\ Empty \in History /\ read_config(Empty) = Empty
    /\ Empty.capture = <<>> /\ Empty.music = <<>>
    /\ Agree(Empty, Empty)
<1>1. Empty \in Settings /\ Empty.capture = <<>> /\ Empty.music = <<>>
  <2>1. <<>> \in Seq(Character)
    OBVIOUS
  <2>. QED
    BY <2>1 DEF Empty, Settings
<1>2. Empty \in History
  BY DEF Empty, History, Known
<1>3. read_config(Empty) = Empty
  BY <1>1, NothingRead DEF read_config
<1>4. Agree(Empty, Empty)
  <2>1. Len(<<>>) < CaptureMax
    BY ConfAssumption
  <2>. QED
    BY <1>1, <2>1 DEF Agree
<1>. QED
  BY <1>1, <1>2, <1>3, <1>4

LEMMA SettingsInit == ConfInit => SInv
BY EmptyFacts DEF ConfInit, SInv

LEMMA ConfigRead ==
    ASSUME NEW f \in Settings
    PROVE  /\ read_config(f) \in Settings
           /\ ReadText(Empty, f.capture) \in Settings
           /\ f.music = <<>> => read_config(f) = ReadText(Empty, f.capture)
<1>1. f.capture \in Seq(Character) /\ f.music \in Seq(Character)
  BY DEF Settings
<1>2. ReadText(Empty, f.capture) \in Settings
  BY <1>1, TextType, EmptyFacts
<1>3. read_config(f) = ReadText(ReadText(Empty, f.capture), f.music)
  BY DEF read_config
<1>4. read_config(f) \in Settings
  BY <1>1, <1>2, <1>3, TextType
<1>5. f.music = <<>> => read_config(f) = ReadText(Empty, f.capture)
  BY <1>2, <1>3, NothingRead
<1>. QED
  BY <1>2, <1>4, <1>5

LEMMA LostRecord ==
    ASSUME NEW c
    PROVE  Agree([capture |-> Lost, music |-> Lost], c) /\ [capture |-> Lost, music |-> Lost] \in History
BY DEF Agree, History, Known

LEMMA FolderFacts ==
    ASSUME NEW f \in Folders
    PROVE  f \in Known /\ f \in Seq(Character) /\ Len(f) \in Nat
<1>1. f \in Seq(Character)
  BY ConfAssumption
<1>. QED
  BY <1>1 DEF Known

LEMMA Chose ==
    ASSUME SInv, NEW f \in Folders, ChooseMusic(f) \/ ChooseCapture(f)
    PROVE  SInv'
<1>1. f \in Known /\ f \in Seq(Character) /\ Len(f) \in Nat /\ CaptureMax \in Nat
  BY FolderFacts, ConfAssumption
<1>2. UNCHANGED <<file, at, saved>>
  BY DEF ChooseMusic, ChooseCapture
<1>3. config \in Settings /\ chosen \in History /\ Agree(chosen, config)
  BY DEF SInv
<1>4. config' \in Settings /\ chosen' \in History /\ Agree(chosen', config')
  <2>1. CASE ChooseMusic(f)
    <3>1. config' = [config EXCEPT !.music = f] /\ chosen' = [chosen EXCEPT !.music = f]
      BY <2>1 DEF ChooseMusic
    <3>2. config' \in Settings /\ chosen' \in History
      BY <1>1, <1>3, <3>1 DEF Settings, History
    <3>3. /\ config'.capture = config.capture /\ chosen'.capture = chosen.capture
          /\ config'.music = f /\ chosen'.music = f
      BY <1>3, <3>1 DEF Settings, History
    <3>. QED
      BY <1>3, <3>2, <3>3 DEF Agree
  <2>2. CASE ChooseCapture(f)
    <3>1. config' = CaptureCopied(config, f)
      BY <2>2 DEF ChooseCapture
    <3>2. CASE Len(f) < CaptureMax
      <4>1. Least(Len(f), CaptureMax) = Len(f)
        BY <3>2 DEF Least
      <4>2. SubSeq(f, 1, Len(f)) = f
        BY <1>1
      <4>3. config' = [capture |-> f, music |-> config.music]
        BY <3>1, <3>2, <4>1, <4>2 DEF CaptureCopied
      <4>4. chosen' = [chosen EXCEPT !.capture = f]
        BY <2>2, <3>2 DEF ChooseCapture
      <4>5. config' \in Settings /\ chosen' \in History
        BY <1>1, <1>3, <4>3, <4>4 DEF Settings, History
      <4>6. /\ config'.music = config.music /\ chosen'.music = chosen.music
            /\ config'.capture = f /\ chosen'.capture = f
        BY <1>3, <4>3, <4>4 DEF Settings, History
      <4>. QED
        BY <1>3, <3>2, <4>5, <4>6 DEF Agree
    <3>3. CASE ~(Len(f) < CaptureMax)
      <4>1. chosen' = [capture |-> Lost, music |-> Lost]
        BY <2>2, <3>3 DEF ChooseCapture
      <4>2. Least(Len(f), CaptureMax) = CaptureMax
        BY <3>3 DEF Least
      <4>3. SubSeq(f, 1, CaptureMax) \in Seq(Character) /\ SubSeq(f, CaptureMax + 1, Len(f)) \in Seq(Character)
        BY <1>1, <3>3
      <4>4. config' = [capture |-> SubSeq(f, 1, CaptureMax), music |-> SubSeq(f, CaptureMax + 1, Len(f))]
        BY <3>1, <3>3, <4>2 DEF CaptureCopied
      <4>5. config' \in Settings
        BY <4>3, <4>4 DEF Settings
      <4>. QED
        BY <4>1, <4>5, LostRecord
    <3>. QED
      BY <3>2, <3>3
  <2>. QED
    BY <2>1, <2>2
<1>. QED
  BY <1>2, <1>4 DEF SInv

LEMMA Removed ==
    ASSUME SInv, RemoveFile
    PROVE  SInv'
<1>1. UNCHANGED <<config, chosen>> /\ file' = Empty /\ saved' = Empty /\ at' = "capture"
  BY DEF RemoveFile
<1>. QED
  BY <1>1, EmptyFacts DEF SInv

LEMMA WrittenType ==
    ASSUME NEW key \in KeyWord, NEW f \in Seq(Character)
    PROVE  FolderLine(key, f) \in Seq(Character)
BY LineFacts

LEMMA WroteCapture ==
    ASSUME SInv, WriteCapture
    PROVE  SInv'
<1>. DEFINE g == capture_folder(config)
            l == FolderLine("c", g)
<1>1. /\ config \in Settings /\ chosen \in History /\ saved \in History /\ Agree(chosen, config)
      /\ file = Empty /\ saved = Empty /\ UNCHANGED <<config, chosen>> /\ at' = "music"
      /\ file' = [file EXCEPT !.capture = l]
  BY DEF SInv, WriteCapture
<1>2. config.capture \in Seq(Character) /\ config.music \in Seq(Character)
  BY <1>1 DEF Settings
<1>3. g \in Seq(Character)
  BY <1>2 DEF capture_folder
<1>4. l \in Seq(Character)
  <2>1. "c" \in KeyWord
    BY DEF KeyWord
  <2>. QED
    BY <1>3, <2>1, WrittenType
<1>5. chosen.capture # Lost => g = chosen.capture /\ Len(chosen.capture) < CaptureMax
  <2>1. SUFFICES ASSUME chosen.capture # Lost PROVE g = config.capture /\ Len(config.capture) < CaptureMax
    BY <1>1 DEF Agree
  <2>2. Len(config.capture) < CaptureMax
    BY <1>1, <2>1 DEF Agree
  <2>3. config.capture \o <<>> = config.capture
    BY <1>2
  <2>. QED
    BY <2>2, <2>3 DEF capture_folder
<1>6. saved' = IF LineFits(g) THEN [saved EXCEPT !.capture = chosen.capture]
               ELSE [capture |-> Lost, music |-> Lost]
  BY DEF WriteCapture
<1>. HIDE DEF g, l
<1>7. file' \in Settings /\ file'.music = <<>> /\ file'.capture = l
  BY <1>1, <1>4, EmptyFacts DEF Settings
<1>8. read_config(file') = ReadText(Empty, l)
  BY <1>7, ConfigRead
<1>9. saved' \in History /\ Agree(saved', read_config(file'))
  <2>1. CASE ~LineFits(g)
    BY <1>6, <2>1, LostRecord
  <2>2. CASE LineFits(g)
    <3>1. saved' = [Empty EXCEPT !.capture = chosen.capture]
      BY <1>1, <1>6, <2>2
    <3>2. chosen.capture \in Known
      BY <1>1 DEF History
    <3>3. saved' \in History /\ saved'.capture = chosen.capture /\ saved'.music = <<>>
      BY <3>1, <3>2, EmptyFacts DEF History
    <3>4. ReadText(Empty, l).music = <<>>
      BY <1>3, <2>2, OtherKept, EmptyFacts DEF l
    <3>5. ASSUME chosen.capture # Lost
          PROVE  ReadText(Empty, l).capture = chosen.capture /\ Len(chosen.capture) < CaptureMax
      <4>1. g = chosen.capture /\ Len(g) < CaptureMax
        BY <1>5, <3>5
      <4>2. g \in Seq(FolderCharacter)
        BY <3>2, <3>5, <4>1, KnownFacts
      <4>3. Len(g) <= CaptureMax
        BY <1>3, <4>1, ConfAssumption
      <4>4. ReadText(Empty, l) = [Empty EXCEPT !.capture = g]
        BY <2>2, <4>2, <4>3, FolderFound, EmptyFacts DEF l
      <4>5. ReadText(Empty, l).capture = g
        BY <4>4, EmptyFacts DEF Settings
      <4>. QED
        BY <4>1, <4>5
    <3>. QED
      BY <1>8, <3>3, <3>4, <3>5 DEF Agree
  <2>. QED
    BY <2>1, <2>2
<1>. QED
  BY <1>1, <1>7, <1>9 DEF SInv

LEMMA WroteMusic ==
    ASSUME SInv, WriteMusic
    PROVE  SInv'
<1>. DEFINE g == config.music
            l == FolderLine("m", g)
            c == ReadText(Empty, file.capture)
<1>1. /\ config \in Settings /\ file \in Settings /\ chosen \in History /\ saved \in History
      /\ Agree(chosen, config) /\ Agree(saved, read_config(file))
      /\ file.music = <<>> /\ UNCHANGED <<config, chosen>> /\ at' = "menu"
      /\ file' = [file EXCEPT !.music = l]
  BY DEF SInv, WriteMusic
<1>2. g \in Seq(Character)
  BY <1>1 DEF Settings
<1>3. l \in Seq(Character)
  <2>1. "m" \in KeyWord
    BY DEF KeyWord
  <2>. QED
    BY <1>2, <2>1, WrittenType
<1>4. saved' = IF LineFits(g) THEN [saved EXCEPT !.music = chosen.music]
               ELSE [capture |-> Lost, music |-> Lost]
  BY DEF WriteMusic
<1>5. chosen.music # Lost => g = chosen.music
  BY <1>1 DEF Agree
<1>. HIDE DEF g, l
<1>6. file' \in Settings /\ file'.music = l /\ file'.capture = file.capture
  BY <1>1, <1>3 DEF Settings
<1>7. c \in Settings /\ Agree(saved, c)
  BY <1>1, ConfigRead
<1>8. read_config(file') = ReadText(c, l)
  BY <1>6 DEF read_config
<1>. HIDE DEF c
<1>9. saved' \in History /\ Agree(saved', read_config(file'))
  <2>1. CASE ~LineFits(g)
    BY <1>4, <2>1, LostRecord
  <2>2. CASE LineFits(g)
    <3>1. saved' = [saved EXCEPT !.music = chosen.music] /\ chosen.music \in Known
      BY <1>1, <1>4, <2>2 DEF History
    <3>2. saved' \in History /\ saved'.capture = saved.capture /\ saved'.music = chosen.music
      BY <1>1, <3>1 DEF History
    <3>3. ReadText(c, l).capture = c.capture
      BY <1>2, <1>7, <2>2, OtherKept DEF l
    <3>4. ASSUME chosen.music # Lost PROVE ReadText(c, l).music = chosen.music
      <4>1. g \in Seq(FolderCharacter) /\ Len(g) <= CfgLine /\ g = chosen.music
        BY <1>5, <3>1, <3>4, KnownFacts
      <4>2. ReadText(c, l) = [c EXCEPT !.music = g]
        BY <1>7, <2>2, <4>1, FolderFound DEF l
      <4>. QED
        BY <1>7, <4>1, <4>2 DEF Settings
    <3>. QED
      BY <1>7, <1>8, <3>2, <3>3, <3>4 DEF Agree
  <2>. QED
    BY <2>1, <2>2
<1>. QED
  BY <1>1, <1>6, <1>9 DEF SInv

LEMMA Rebooted ==
    ASSUME SInv, Reboot
    PROVE  SInv'
<1>1. /\ file \in Settings /\ saved \in History /\ Agree(saved, read_config(file))
      /\ UNCHANGED <<file, saved>> /\ config' = read_config(file) /\ at' = "menu" /\ chosen' = saved
  BY DEF SInv, Reboot
<1>2. config' \in Settings
  BY <1>1, ConfigRead
<1>. QED
  BY <1>1, <1>2 DEF SInv

LEMMA SettingsNext == SInv /\ [ConfNext]_confVars => SInv'
<1>. SUFFICES ASSUME SInv, [ConfNext]_confVars PROVE SInv'
  OBVIOUS
<1>1. CASE UNCHANGED confVars
  BY <1>1 DEF confVars, SInv
<1>2. CASE ConfNext
  BY <1>2, Chose, Removed, WroteCapture, WroteMusic, Rebooted DEF ConfNext
<1>. QED
  BY <1>1, <1>2

(* Whatever the user chooses and saves, and whenever the power is lost, the    *)
(* two folders are those he chose last or, after a reboot, those the file was  *)
(* written with, unless one was too long for its line or its buffer (conf.c).  *)
THEOREM FoldersSurvive == ConfSpec => []FoldersKept
<1>1. SInv => FoldersKept
  <2>1. SUFFICES ASSUME SInv PROVE FoldersKept
    OBVIOUS
  <2>2. Agree(chosen, config) /\ config.capture \in Seq(Character)
    BY <2>1 DEF SInv, Settings
  <2>3. config.capture \o <<>> = config.capture
    BY <2>2
  <2>. QED
    BY <2>2, <2>3 DEF Agree, FoldersKept, capture_folder
<1>. QED
  BY SettingsInit, SettingsNext, <1>1, PTL DEF ConfSpec

==============================================================================
