------------------------------- MODULE UsbBus -------------------------------
(* The USB bus of the HostFS driver (src/cfe_redirect/usbhostfs/main.c): the  *)
(* semaphore g_mainsema every exchange with the PC takes, the bulk-in and     *)
(* bulk-out requests with their event flag g_transevent, and usb_thread, which *)
(* follows the cable through g_mainevent.  Clients are the threads that       *)
(* exchange commands (host_driver.c) or write to the PC (usbasync.h).         *)
(*                                                                            *)
(* Data is counted in units: a command, a header, a response, the attach      *)
(* magic are one unit each, a payload is DataLen units.                       *)
EXTENDS Integers, Sequences, FiniteSets

CONSTANTS
    Clients,      \* threads that call the driver
    UsbThread,    \* the thread running usb_thread
    Ops,          \* the calls clients make: a subset of AllOps
    DataLen,      \* units of a payload
    TxMax,        \* units of tx_buf, the most one write_data request sends
    MaxFaults,    \* bound: transfers that fail while the cable is in
    MaxAttach,    \* bound: times the cable is plugged in
    ShortIn,      \* may the controller complete a bulk-in request short?
    Rejects       \* may the driver refuse requests while the cable is out?

AllOps == {"xchg", "async", "bulk", "lock"}

ASSUME BusAssumption ==
    /\ UsbThread \notin Clients
    /\ Ops \subseteq AllOps
    /\ {DataLen, TxMax} \subseteq Nat \ {0}
    /\ {MaxFaults, MaxAttach} \subseteq Nat
    /\ {ShortIn, Rejects} \subseteq BOOLEAN

Threads == Clients \cup {UsbThread}

VARIABLES
    attached,     \* is the cable in?
    attaches,     \* times it was plugged in
    faults,       \* transfers that failed so far
    mainevent,    \* bits of g_mainevent
    pending,      \* result of usb_thread's last wait
    connected,    \* g_connected
    sema,         \* count of g_mainsema
    transevent,   \* bits of g_transevent
    inreq,        \* g_bulkin_req: units for the PC
    outreq,       \* g_bulkout_req: units from the PC
    asyncreq,     \* g_async_req
    th,           \* th[p]: the call thread p is inside
    pc,           \* the frame the PC is assembling: its sender, units so far
    fromhost,     \* units the PC has written and the PSP not read
    insync        \* has the PC always seen the frames the threads meant?

host == <<attached, attaches, faults, pc, fromhost, insync>>
vars == <<attached, attaches, faults, mainevent, pending, connected, sema, transevent,
          inreq, outreq, asyncreq, th, pc, fromhost, insync>>

Unit == [kind : {"magic", "resp", "extra"}, to : Threads, extra : 0 .. DataLen]
At == {"idle", "lock", "put", "putwait", "get", "getwait", "getcheck", "unlock", "held",
       "loop", "async", "detach", "attach", "arm", "connect"}
Stage == {"magic", "cmd", "data", "header", "large", "frame", "resp", "extra"}

(* One call: where it is, the transfer it is in, units of outgoing data (of   *)
(* an async write: frames left), units of incoming data, units of the current *)
(* transfer done, its success so far.                                         *)
Call == [at : At, op : AllOps \cup {"usb"}, stage : Stage, out : Nat,
         in : 0 .. DataLen, done : Nat, ok : BOOLEAN]
Idle == [at |-> "idle", op |-> "xchg", stage |-> "cmd", out |-> 0, in |-> 0,
         done |-> 0, ok |-> FALSE]
Loop == [Idle EXCEPT !.at = "loop", !.op = "usb"]

Min2(a, b) == IF a < b THEN a ELSE b

(* Units of the transfer a call is in, and where it starts in its frame.      *)
Size(r) ==
    CASE r.stage = "data" -> r.out
      [] r.stage = "large" -> DataLen
      [] r.stage = "frame" -> 2
      [] r.stage = "extra" -> r.in
      [] OTHER -> 1
Offset(r) == IF r.stage \in {"data", "large"} THEN 1 ELSE 0

(* Units of the whole frame the PC expects from a call.                       *)
FrameSize(r) ==
    CASE r.op = "async" -> 2
      [] r.op = "bulk" -> 1 + DataLen
      [] OTHER -> 1 + r.out

NoIn == [state |-> "none", from |-> UsbThread, off |-> 0, size |-> 0, recv |-> 0, fail |-> FALSE]
NoOut == [state |-> "none", size |-> 0, data |-> <<>>, fail |-> FALSE]
Silent == [from |-> UsbThread, got |-> 0]

TypeOK ==
    /\ attached \in BOOLEAN
    /\ attaches \in Nat
    /\ faults \in Nat
    /\ mainevent \subseteq {"attach", "detach", "async", "connect"}
    /\ pending \subseteq {"attach", "detach", "async"}
    /\ connected \in BOOLEAN
    /\ sema \in {0, 1}
    /\ transevent \subseteq {"in", "out"}
    /\ inreq \in [state : {"none", "sent", "done"}, from : Threads, off : Nat,
                  size : Nat, recv : Nat, fail : BOOLEAN]
    /\ outreq \in [state : {"none", "sent", "done"}, size : Nat, data : Seq(Unit),
                   fail : BOOLEAN]
    /\ asyncreq \in {"none", "sent", "filled", "failed"}
    /\ th \in [Threads -> Call]
    /\ pc \in [from : Threads, got : Nat]
    /\ fromhost \in Seq(Unit)
    /\ insync \in BOOLEAN

Init ==
    /\ attached = FALSE
    /\ attaches = 0
    /\ faults = 0
    /\ mainevent = {}
    /\ pending = {}
    /\ connected = FALSE
    /\ sema = 1
    /\ transevent = {}
    /\ inreq = NoIn
    /\ outreq = NoOut
    /\ asyncreq = "none"
    /\ th = [p \in Threads |-> IF p = UsbThread THEN Loop ELSE Idle]
    /\ pc = Silent
    /\ fromhost = <<>>
    /\ insync = TRUE

------------------------------------------------------------------------------
(* What a call may be asked to move, and its first transfer.                  *)
Outs(op) ==
    CASE op = "xchg" -> 0 .. DataLen
      [] op = "async" -> 1 .. DataLen
      [] OTHER -> {0}
Ins(op) == IF op = "xchg" THEN {0, DataLen} ELSE {0}
FirstStage(op) ==
    CASE op = "async" -> "frame"
      [] op = "bulk" -> "header"
      [] OTHER -> "cmd"

(* Entry of the calls.  io_* (host_driver.c), usbAsyncWrite and               *)
(* usbWriteBulkData look at g_connected before they wait for the semaphore;   *)
(* usbLockBus does not.                                                       *)
Begin(p) ==
    /\ th[p].at = "idle"
    /\ \E op \in Ops :
         /\ op = "lock" \/ connected
         /\ \E out \in Outs(op), in \in Ins(op) :
              th' = [th EXCEPT ![p] =
                       [at |-> "lock", op |-> op, stage |-> FirstStage(op),
                        out |-> out, in |-> in, done |-> 0, ok |-> FALSE]]
    /\ UNCHANGED <<mainevent, pending, connected, sema, transevent, inreq, outreq,
                   asyncreq, host>>

(* sceKernelWaitSema.  A bus locked by usbLockBus is held until the caller    *)
(* calls usbUnlockBus.                                                        *)
WaitSema(p) ==
    /\ th[p].at = "lock"
    /\ sema = 1
    /\ sema' = 0
    /\ th' = [th EXCEPT ![p].at = IF th[p].op = "lock" THEN "held" ELSE "put"]
    /\ UNCHANGED <<mainevent, pending, connected, transevent, inreq, outreq, asyncreq, host>>

(* sceKernelSignalSema, and what follows it: usbAsyncWrite sends its next     *)
(* frame or returns, usb_thread arms the async request after a hello that was *)
(* answered.                                                                  *)
SignalSema(p) ==
    /\ th[p].at \in {"unlock", "held"}
    /\ sema' = 1
    /\ th' = [th EXCEPT ![p] =
                CASE p = UsbThread -> IF th[p].ok THEN [Loop EXCEPT !.at = "arm"] ELSE Loop
                  [] p # UsbThread /\ th[p].op = "async" /\ th[p].ok /\ th[p].out > 1 ->
                       [th[p] EXCEPT !.at = "lock", !.out = @ - 1, !.done = 0, !.ok = FALSE]
                  [] OTHER -> Idle]
    /\ UNCHANGED <<mainevent, pending, connected, transevent, inreq, outreq, asyncreq, host>>

(* Mutant: an error returns without the signal.                               *)
FailedKeepsSema(r) == IF r.op = "usb" THEN Loop ELSE Idle

(* An error inside an exchange breaks out to the signal; usb_thread reads the *)
(* attach magic outside the semaphore and goes back to its loop.              *)
Failed(r) == IF r.stage = "magic" THEN Loop ELSE [r EXCEPT !.at = "unlock", !.ok = FALSE]
Succeeded(r) == [r EXCEPT !.at = "unlock", !.ok = TRUE]
Stages(r, at, stage) == [r EXCEPT !.at = at, !.stage = stage, !.done = 0]

------------------------------------------------------------------------------
(* set_bulkin_req: reset the request, clear the bit, send.  write_data sends  *)
(* at most TxMax units at a time, write_data_large everything.  Both ignore   *)
(* what set_bulkin_req returns.                                               *)
Put(p) ==
    LET r == th[p]
        left == Size(r) - r.done
    IN  /\ r.at = "put"
        /\ inreq' = [NoIn EXCEPT !.state = IF attached \/ ~Rejects THEN "sent" ELSE "none",
                                 !.from = p,
                                 !.off = Offset(r) + r.done,
                                 !.size = IF r.stage = "large" THEN left ELSE Min2(left, TxMax)]
        /\ transevent' = transevent \ {"in"}
        /\ th' = [th EXCEPT ![p].at = "putwait"]
        /\ UNCHANGED <<mainevent, pending, connected, sema, outreq, asyncreq, host>>

(* What command_xchg, send_async and usbWriteBulkData do after a write.       *)
Written(r) ==
    CASE r.stage = "header" -> Stages(r, "put", "large")
      [] r.stage = "cmd" /\ r.out > 0 -> Stages(r, "put", "data")
      [] r.stage = "data" \/ (r.stage = "cmd" /\ r.out = 0) -> Stages(r, "get", "resp")
      [] OTHER -> Succeeded(r)

(* Mutants: a short write counts as a complete one; the wait for the bit has a *)
(* timeout after which the request is abandoned.                              *)
PutDoneIgnoresShort(p) ==
    /\ th[p].at = "putwait"
    /\ "in" \in transevent
    /\ transevent' = transevent \ {"in"}
    /\ th' = [th EXCEPT ![p] = IF inreq.fail \/ inreq.recv = 0
                               THEN Failed(th[p]) ELSE Written(th[p])]
    /\ UNCHANGED <<mainevent, pending, connected, sema, inreq, outreq, asyncreq, host>>

PutDoneOrTimeout(p) ==
    /\ th[p].at = "putwait"
    /\ transevent' = transevent \ {"in"}
    /\ th' = [th EXCEPT ![p] = IF inreq.fail \/ inreq.recv = 0
                               THEN Failed(th[p]) ELSE Written(th[p])]
    /\ UNCHANGED <<mainevent, pending, connected, sema, inreq, outreq, asyncreq, host>>

(* The wait for the bulk-in bit ends and the request is looked at.  A thread  *)
(* at "putwait" is before or inside the wait.                                 *)
PutDone(p) ==
    LET r == th[p]
        done == r.done + inreq.recv
    IN  /\ r.at = "putwait"
        /\ "in" \in transevent
        /\ transevent' = transevent \ {"in"}
        /\ th' = [th EXCEPT ![p] =
                    IF inreq.fail \/ inreq.recv = 0 THEN Failed(r)
                    ELSE CASE r.stage = "large" \/ done = Size(r) -> Written(r)
                           [] r.stage # "large" /\ done < Size(r) ->
                                [r EXCEPT !.at = "put", !.done = done]
                           [] OTHER -> Failed(r)]
        /\ UNCHANGED <<mainevent, pending, connected, sema, inreq, outreq, asyncreq, host>>

(* set_bulkout_req, whose failure read_data does look at.                     *)
Get(p) ==
    LET r == th[p]
        accepted == attached \/ ~Rejects
    IN  /\ r.at = "get"
        /\ outreq' = [NoOut EXCEPT !.state = IF accepted THEN "sent" ELSE "none",
                                   !.size = Size(r) - r.done]
        /\ transevent' = transevent \ {"out"}
        /\ th' = [th EXCEPT ![p] = IF accepted THEN [r EXCEPT !.at = "getwait"] ELSE Failed(r)]
        /\ UNCHANGED <<mainevent, pending, connected, sema, inreq, asyncreq, host>>

GetDone(p) ==
    /\ th[p].at = "getwait"
    /\ "out" \in transevent
    /\ transevent' = transevent \ {"out"}
    /\ th' = [th EXCEPT ![p].at = "getcheck"]
    /\ UNCHANGED <<mainevent, pending, connected, sema, inreq, outreq, asyncreq, host>>

(* What follows a read: a response is accepted when its magic or its command  *)
(* is right, extra data is read when the caller has room for any, the attach  *)
(* magic leads to the hello exchange.                                         *)
Received(r, u, accepted) ==
    IF ~accepted THEN Failed(r)
    ELSE CASE r.stage = "magic" -> Stages(r, "lock", "cmd")
           [] r.stage = "resp" /\ u.extra > 0 /\ r.in > 0 ->
                [Stages(r, "get", "extra") EXCEPT !.in = u.extra]
           [] OTHER -> Succeeded(r)

(* The request is looked at after the wait.  Units meant for something else   *)
(* may pass for a response or for the magic, or not.                          *)
GetCheck(p) ==
    LET r == th[p]
        done == r.done + Len(outreq.data)
    IN  /\ r.at = "getcheck"
        /\ \/ /\ outreq.fail \/ outreq.data = <<>> \/ done > Size(r)
              /\ th' = [th EXCEPT ![p] = Failed(r)]
           \/ /\ ~outreq.fail /\ outreq.data # <<>> /\ done < Size(r)
              /\ th' = [th EXCEPT ![p].at = "get", ![p].done = done]
           \/ /\ ~outreq.fail /\ outreq.data # <<>> /\ done = Size(r)
              /\ \E accepted \in IF r.stage \in {"extra", outreq.data[1].kind}
                                 THEN {TRUE} ELSE BOOLEAN :
                   th' = [th EXCEPT ![p] = Received(r, outreq.data[1], accepted)]
        /\ UNCHANGED <<mainevent, pending, connected, sema, transevent, inreq, outreq,
                       asyncreq, host>>

------------------------------------------------------------------------------
(* usb_thread: the wait with WAITCLEAR takes every bit that is set ...        *)
UsbWake ==
    /\ th[UsbThread].at = "loop"
    /\ mainevent \ {"connect"} # {}
    /\ pending' = mainevent \ {"connect"}
    /\ mainevent' = mainevent \cap {"connect"}
    /\ th' = [th EXCEPT ![UsbThread].at = "async"]
    /\ UNCHANGED <<connected, sema, transevent, inreq, outreq, asyncreq, host>>

(* set_ayncreq: reset the request, clear the bit, send.                       *)
ArmAsync ==
    /\ asyncreq' = IF attached \/ ~Rejects THEN "sent" ELSE "none"
    /\ mainevent' = mainevent \ {"async"}

(* Mutant: the async request is not re-armed.                                 *)
UsbAsyncNotArmed ==
    /\ th[UsbThread].at = "async"
    /\ th' = [th EXCEPT ![UsbThread].at = "detach"]
    /\ UNCHANGED <<mainevent, pending, connected, sema, transevent, inreq, outreq,
                   asyncreq, host>>

(* ... a filled async request is delivered (AsyncChan!fill_async) and re-armed, *)
UsbAsync ==
    /\ th[UsbThread].at = "async"
    /\ IF "async" \in pending /\ asyncreq = "filled"
       THEN ArmAsync
       ELSE UNCHANGED <<asyncreq, mainevent>>
    /\ th' = [th EXCEPT ![UsbThread].at = "detach"]
    /\ UNCHANGED <<pending, connected, sema, transevent, inreq, outreq, host>>

(* Mutant: the flag outlives the connection.                                  *)
DisconnectKeepsFlag(event, next) ==
    /\ mainevent' = IF event \in pending THEN mainevent \ {"connect"} ELSE mainevent
    /\ th' = [th EXCEPT ![UsbThread] = next]
    /\ UNCHANGED <<pending, connected, sema, transevent, inreq, outreq, asyncreq, host>>

(* ... a detach, then an attach, end the connection,                          *)
Disconnect(event, next) ==
    /\ IF event \in pending
       THEN connected' = FALSE /\ mainevent' = mainevent \ {"connect"}
       ELSE UNCHANGED <<connected, mainevent>>
    /\ th' = [th EXCEPT ![UsbThread] = next]
    /\ UNCHANGED <<pending, sema, transevent, inreq, outreq, asyncreq, host>>

UsbDetach ==
    /\ th[UsbThread].at = "detach"
    /\ Disconnect("detach", [Loop EXCEPT !.at = "attach"])

(* ... and an attach reads the PC's magic and says hello.                     *)
UsbAttach ==
    /\ th[UsbThread].at = "attach"
    /\ Disconnect("attach", IF "attach" \in pending THEN Stages(Loop, "get", "magic") ELSE Loop)

UsbArm ==
    /\ th[UsbThread].at = "arm"
    /\ ArmAsync
    /\ th' = [th EXCEPT ![UsbThread].at = "connect"]
    /\ UNCHANGED <<pending, connected, sema, transevent, inreq, outreq, host>>

UsbConnect ==
    /\ th[UsbThread].at = "connect"
    /\ connected' = TRUE
    /\ mainevent' = mainevent \cup {"connect"}
    /\ th' = [th EXCEPT ![UsbThread] = Loop]
    /\ UNCHANGED <<pending, sema, transevent, inreq, outreq, asyncreq, host>>

------------------------------------------------------------------------------
(* The controller and the PC.  A completed request runs its callback, which   *)
(* sets the event bit.                                                        *)

(* The PC takes n units of a bulk-in request, once its own last write has     *)
(* been read.  It sees the frame the thread meant if they continue the frame  *)
(* it is assembling; a complete command is answered, with extra data if the   *)
(* caller has room for some.                                                  *)
PcReceive(n) ==
    LET p == inreq.from
        got == inreq.off + n
        reply == [kind |-> "resp", to |-> p, extra |-> 0]
    IN  /\ attached
        /\ inreq.state = "sent"
        /\ fromhost = <<>>
        /\ inreq' = [inreq EXCEPT !.state = "done", !.recv = n]
        /\ transevent' = transevent \cup {"in"}
        /\ insync' = (insync /\ pc.got = inreq.off /\ (pc.got > 0 => pc.from = p))
        /\ pc' = IF got = FrameSize(th[p]) THEN Silent ELSE [from |-> p, got |-> got]
        /\ IF got = FrameSize(th[p]) /\ th[p].op \in {"xchg", "usb"}
           THEN \E k \in 0 .. th[p].in :
                  fromhost' = <<[reply EXCEPT !.extra = k]>> \o
                              [i \in 1 .. k |-> [reply EXCEPT !.kind = "extra"]]
           ELSE UNCHANGED fromhost
        /\ UNCHANGED <<attached, attaches, faults, mainevent, pending, connected, sema,
                       outreq, asyncreq, th>>

PcReceives == \E n \in IF ShortIn THEN 1 .. inreq.size ELSE {inreq.size} : PcReceive(n)

(* The PC's next n units fill the bulk-out request.                           *)
PcSends ==
    /\ attached
    /\ outreq.state = "sent"
    /\ \E n \in 1 .. Min2(outreq.size, Len(fromhost)) :
         /\ outreq' = [outreq EXCEPT !.state = "done", !.data = SubSeq(fromhost, 1, n)]
         /\ fromhost' = SubSeq(fromhost, n + 1, Len(fromhost))
    /\ transevent' = transevent \cup {"out"}
    /\ UNCHANGED <<attached, attaches, faults, mainevent, pending, connected, sema, inreq,
                   asyncreq, th, pc, insync>>

(* The PC writes an async packet.                                             *)
PcSendsAsync ==
    /\ attached
    /\ asyncreq = "sent"
    /\ asyncreq' = "filled"
    /\ mainevent' = mainevent \cup {"async"}
    /\ UNCHANGED <<pending, connected, sema, transevent, inreq, outreq, th, host>>

(* A request completes with an error: by a fault while the cable is in,       *)
(* always once it is out.                                                     *)
FailIn ==
    /\ inreq.state = "sent"
    /\ inreq' = [inreq EXCEPT !.state = "done", !.fail = TRUE]
    /\ transevent' = transevent \cup {"in"}
    /\ UNCHANGED <<mainevent, pending, connected, sema, outreq, asyncreq, th>>

FailOut ==
    /\ outreq.state = "sent"
    /\ outreq' = [outreq EXCEPT !.state = "done", !.fail = TRUE]
    /\ transevent' = transevent \cup {"out"}
    /\ UNCHANGED <<mainevent, pending, connected, sema, inreq, asyncreq, th>>

FailAsync ==
    /\ asyncreq = "sent"
    /\ asyncreq' = "failed"
    /\ mainevent' = mainevent \cup {"async"}
    /\ UNCHANGED <<pending, connected, sema, transevent, inreq, outreq, th>>

Cancel == ~attached /\ (FailIn \/ FailOut \/ FailAsync) /\ UNCHANGED host

Fault ==
    /\ attached
    /\ faults < MaxFaults
    /\ faults' = faults + 1
    /\ FailIn \/ FailOut \/ FailAsync
    /\ UNCHANGED <<attached, attaches, pc, fromhost, insync>>

(* The cable is plugged in: usb_attach sets its bit, the PC starts afresh and *)
(* sends its magic.  The requests of an earlier connection are cancelled by   *)
(* then.                                                                      *)
usb_attach ==
    /\ ~attached
    /\ attaches < MaxAttach
    /\ "sent" \notin {inreq.state, outreq.state, asyncreq}
    /\ attached' = TRUE
    /\ attaches' = attaches + 1
    /\ pc' = Silent
    /\ fromhost' = <<[kind |-> "magic", to |-> UsbThread, extra |-> 0]>>
    /\ mainevent' = mainevent \cup {"attach"}
    /\ UNCHANGED <<faults, pending, connected, sema, transevent, inreq, outreq, asyncreq,
                   th, insync>>

usb_detach ==
    /\ attached
    /\ attached' = FALSE
    /\ fromhost' = <<>>
    /\ mainevent' = mainevent \cup {"detach"}
    /\ UNCHANGED <<attaches, faults, pending, connected, sema, transevent, inreq, outreq,
                   asyncreq, th, pc, insync>>

------------------------------------------------------------------------------
Exchange(p) ==
    \/ WaitSema(p) \/ SignalSema(p)
    \/ Put(p) \/ PutDone(p)
    \/ Get(p) \/ GetDone(p) \/ GetCheck(p)

UsbStep == UsbWake \/ UsbAsync \/ UsbDetach \/ UsbAttach \/ UsbArm \/ UsbConnect

Next ==
    \/ \E p \in Clients : Begin(p)
    \/ \E p \in Threads : Exchange(p)
    \/ UsbStep
    \/ PcReceives \/ PcSends \/ PcSendsAsync
    \/ Cancel \/ Fault
    \/ usb_attach \/ usb_detach

Spec == Init /\ [][Next]_vars

(* The kernel runs every ready thread and its semaphores serve waiters first  *)
(* come first served (g_mainsema is created with attribute 0); the PC and the *)
(* controller complete what was asked of them.  Plugging, faults and async    *)
(* packets are nobody's duty.                                                 *)
Fairness ==
    /\ \A p \in Threads :
         /\ SF_vars(WaitSema(p))
         /\ WF_vars(SignalSema(p) \/ Put(p) \/ PutDone(p) \/ Get(p) \/ GetDone(p) \/ GetCheck(p))
    /\ WF_vars(UsbStep)
    /\ WF_vars(PcReceives)
    /\ WF_vars(PcSends)
    /\ WF_vars(Cancel)

FairSpec == Spec /\ Fairness

------------------------------------------------------------------------------
Holding(p) ==
    \/ th[p].at \in {"put", "putwait", "unlock", "held"}
    \/ th[p].at \in {"get", "getwait", "getcheck"} /\ th[p].stage # "magic"

(* One thread at most is between the wait and the signal of g_mainsema, and   *)
(* the semaphore is down exactly while one is: no error path of an exchange   *)
(* keeps it or gives it back twice.                                           *)
BusOK ==
    /\ \A p, q \in Threads : Holding(p) /\ Holding(q) => p = q
    /\ sema = 0 <=> \E p \in Threads : Holding(p)

(* g_bulkin_req is reset and sent again only when the controller is done with *)
(* it: nobody writes outside the semaphore or gives up a write early.         *)
InKept == inreq.state = "sent" => inreq'.state # "sent" \/ inreq' = inreq
InIntact == [][InKept]_vars

(* g_connected and the CONNECT bit change together: when usb_thread waits for *)
(* an event they agree.                                                       *)
ConnectFlag == th[UsbThread].at = "loop" => (connected <=> "connect" \in mainevent)

(* A connection that nothing disturbed listens: the async request is out, or  *)
(* its completion has not been handled yet.  set_ayncreq clears that bit.     *)
NeverDeaf ==
    connected /\ attached /\ faults = 0 /\ th[UsbThread].at = "loop"
              /\ mainevent \cap {"attach", "detach"} = {}
        => asyncreq = "sent" \/ "async" \in mainevent

(* usb_thread's picture of the connection is right whenever it waits.         *)
FollowsCable == ConnectFlag /\ NeverDeaf

(* The PC always sees the frames the threads meant, however the writes are    *)
(* cut into requests and whoever writes next.                                 *)
HostInSync == insync

(* The response and the extra data a thread reads are its own.                *)
ResponseMatches ==
    \A p \in Threads :
        th[p].at = "getcheck" =>
            \A i \in 1 .. Len(outreq.data) :
                /\ outreq.data[i].to = p
                /\ outreq.data[i].kind = th[p].stage

(* Neither end of the bus ever takes a unit for what it is not.               *)
BothInSync == HostInSync /\ ResponseMatches

(* The cable is plugged in once and no transfer fails while it is in: a       *)
(* response nobody reads would keep the PC from serving the next call, a new  *)
(* connection shares g_bulkout_req with the calls the old one left.           *)
Undisturbed == [](attaches <= 1 /\ faults = 0)

(* Every call that began returns, also when the cable is pulled under it.     *)
CallReturns == Undisturbed => \A p \in Clients : th[p].at # "idle" ~> th[p].at = "idle"

(* usb_thread follows the cable: it connects when the cable is in for good    *)
(* and takes the connection down when it stays out, whatever happened before. *)
PlugSeen == Undisturbed /\ <>[]attached => <>[]connected
UnplugSeen == <>[]~attached => <>[]~connected

(* The connection follows the cable, in and out.                              *)
CableFollowed == PlugSeen /\ UnplugSeen

==============================================================================
