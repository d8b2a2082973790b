----------------------------- MODULE HostStart -----------------------------
(* Starting and stopping the host over USB (src/cfe_redirect/usbhost.c) and   *)
(* over WiFi (startWifiHost and stopWifiHost of src/cfe_redirect/wifihost.c), *)
(* with the thread of the wifiuser module that connects and disconnects the   *)
(* network (src/cfe_redirect/wifiuser/main.c).  A component of RedirectMode,  *)
(* which says when the host is started and stopped.                           *)
EXTENDS Integers, Sequences, SequencesExt

VARIABLES
    init_key,     \* VSH or GAME: what the PSP runs
    hs,           \* what the starting or stopping thread is at
    up,           \* modules loaded, drivers started and added
    inited,       \* ctrl_opts.inited: 0 not yet, 1 connected, negative failed or ended
    user,         \* what wifiuser's thread is at
    terms         \* sceNetTerm and its like: as loaded, disabled or overwritten

host_vars == <<hs, up, inited, user, terms>>

(* In the order in which they are started; "host" is the driver of that name  *)
(* in the list of the I/O manager.                                            *)
UsbParts == <<"USBHostFS", "bus", "host", "active">>
WifiParts == <<"ifhandle", "pspnet", "inet", "apctl", "resolver", "wifiuser">>

HostTypeOK ==
    /\ init_key \in {"VSH", "GAME"}
    /\ hs \in {"idle", "usb", "wifi", "connecting", "add", "started", "failed",
               "undo", "undo_wait", "stop_usb", "stop_wifi", "stop_wait", "stopped"}
    /\ up \subseteq ToSet(UsbParts) \cup ToSet(WifiParts)
    /\ inited \in {0, 1, -1, -2}
    /\ user \in {"none", "init", "connect", "asleep", "term", "ended", "killed"}
    /\ terms \in {"loaded", "disabled", "overwritten"}

HostInit ==
    /\ hs = "idle"
    /\ up = {}
    /\ inited = 0
    /\ user = "none"
    /\ terms = "loaded"

(* The parts that are not up yet, and the start of the first of them; when it *)
(* cannot be started, what is up already stays.                               *)
Missing(parts) == {i \in DOMAIN parts : parts[i] \notin up}
StartPart(parts) ==
    \E i \in Missing(parts) :
        /\ \A j \in Missing(parts) : i <= j
        /\ \/ up' = up \cup {parts[i]} /\ UNCHANGED hs
           \/ hs' = "failed" /\ UNCHANGED up

startUsbHost ==
    /\ hs = "usb"
    /\ \/ StartPart(UsbParts)
       \/ Missing(UsbParts) = {} /\ hs' = "started" /\ UNCHANGED up
    /\ UNCHANGED <<inited, user, terms>>

(* startWifiHost loads the modules; wifiuser's thread runs from then on.      *)
WifiLoad ==
    /\ hs = "wifi"
    /\ \/ StartPart(WifiParts) /\ UNCHANGED <<inited, user>>
       \/ /\ Missing(WifiParts) = {}
          /\ hs' = "connecting"
          /\ inited' = 0
          /\ user' = "init"
          /\ UNCHANGED up
    /\ UNCHANGED terms

(* It waits until inited is set.  Connected, it makes sceNetTerm and its like *)
(* return at once; on a failure it calls stopWifiHost.                        *)
WifiConnected ==
    /\ hs = "connecting"
    /\ inited # 0
    /\ \/ inited > 0 /\ terms' = "disabled" /\ hs' = "add"
       \/ inited < 0 /\ hs' = "undo" /\ UNCHANGED terms
    /\ UNCHANGED <<up, inited, user>>

AddDrv ==
    /\ hs = "add"
    /\ \/ up' = up \cup {"host"} /\ hs' = "started"
       \/ hs' = "failed" /\ UNCHANGED up
    /\ UNCHANGED <<inited, user, terms>>

(* stopWifiHost writes back what disableFunc saved, zeros when nothing was    *)
(* saved, removes the driver and wakes wifiuser's thread ...                  *)
WifiStop ==
    /\ hs \in {"undo", "stop_wifi"}
    /\ terms' = IF terms = "disabled" THEN "loaded" ELSE "overwritten"
    /\ up' = up \ {"host"}
    /\ user' = IF user = "asleep" THEN "term" ELSE user
    /\ hs' = IF hs = "undo" THEN "undo_wait" ELSE "stop_wait"
    /\ UNCHANGED inited

(* ... waits until inited is -1 and kills the modules.                        *)
WifiKill ==
    /\ hs \in {"undo_wait", "stop_wait"}
    /\ inited = -1
    /\ user' = IF user = "ended" THEN "none" ELSE "killed"
    /\ up' = up \ ToSet(WifiParts)
    /\ hs' = IF hs = "undo_wait" THEN "failed" ELSE "stopped"
    /\ UNCHANGED <<inited, terms>>

(* stopUsbHost: every step is tried whatever the one before it returned; the  *)
(* bus driver is stopped in a game (and by firmwares before 5.00).            *)
stopUsbHost ==
    /\ hs = "stop_usb"
    /\ \E kept \in IF init_key = "GAME" THEN {{}} ELSE {{}, {"bus"}} :
           up' = up \cap kept
    /\ hs' = "stopped"
    /\ UNCHANGED <<inited, user, terms>>

(* main_thread of wifiuser: the network is initialized ...                    *)
UserInit ==
    /\ user = "init"
    /\ \/ user' = "connect" /\ UNCHANGED inited
       \/ user' = "term" /\ inited' = -2
    /\ UNCHANGED <<hs, up, terms>>

(* ... the access point (its error, or -1) and the four sockets (-1) ...      *)
UserConnect ==
    /\ user = "connect"
    /\ \/ user' = "asleep" /\ inited' = 1
       \/ user' = "term" /\ inited' \in {-1, -2}
    /\ UNCHANGED <<hs, up, terms>>

(* ... and, once woken or after a failure, closed and terminated again.       *)
UserTerm ==
    /\ user = "term"
    /\ user' = "ended"
    /\ inited' = -1
    /\ UNCHANGED <<hs, up, terms>>

HostStep ==
    \/ startUsbHost \/ WifiLoad \/ WifiConnected \/ AddDrv
    \/ WifiStop \/ WifiKill \/ stopUsbHost
UserStep == UserInit \/ UserConnect \/ UserTerm

------------------------------------------------------------------------------
(* wifiuser is unloaded only after its thread has ended.                      *)
UserEnded == user # "killed"

(* The functions a started host disabled are written back as they were.       *)
TermsRestored == terms # "overwritten"

==============================================================================
