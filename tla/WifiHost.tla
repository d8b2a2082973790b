------------------------------ MODULE WifiHost ------------------------------
(* The wifi side of cfe_redirect: the driver functions of wifihost.c, the     *)
(* socket threads of wifiuser/main.c that do their sends and receives, and a  *)
(* session of the PC server (extras/nethostfs_pc/main.c) at the other end of  *)
(* every connection.  A call takes an idle socket of the pool, exchanges one  *)
(* request and one reply over it and gives it back; what is sent or received  *)
(* is a sequence of units that say whose they are.                            *)
EXTENDS Integers, Sequences, SequencesExt

CONSTANTS
    Clients,      \* threads that do I/O on the driver
    Ctl,          \* the thread of stopWifiHost
    NumSock,      \* sockets getIdleSock looks at (3); one more is never taken
    MaxLen,       \* length of a read or a write, in units
    ConfEntry,    \* "Connection" of conf.txt, 0 when it is not there
    ConfBlock,    \* "Block Size" of conf.txt in units, 0 when it is not there
    DefaultBlock, \* 2048
    MaxFaults,    \* bound on failing socket calls
    Preemptive,   \* the clients have different priorities
    Ops           \* the calls explored

ASSUME WifiHostAssumption ==
    /\ NumSock \in Nat \ {0}
    /\ {MaxLen, ConfEntry, ConfBlock, DefaultBlock, MaxFaults} \subseteq Nat
    /\ Preemptive \in BOOLEAN
    /\ Ctl \notin Clients
    /\ Ops \subseteq {"open", "stat", "cmd", "read", "write", "exit"}

VARIABLES
    sock,         \* ctrl_opts->sock
    client,       \* the wifiIo* call each client is inside
    ctl,          \* where stopWifiHost's wifiIoExit is
    to_pc,        \* what the PC has still to receive on a connection
    to_psp,       \* what the PSP has still to receive on a connection
    session,      \* process_thread of a connection
    faults,       \* failing socket calls so far
    met           \* history: two threads have met at a socket that was not busy

vars == <<sock, client, ctl, to_pc, to_psp, session, faults, met>>

Socks == 0 .. NumSock

(* readConf: the default of the block size is guarded by the entry, which has *)
(* got its own default on the line before.                                    *)
readConf ==
    LET entry == IF ConfEntry = 0 THEN 1 ELSE ConfEntry
    IN  [entry |-> entry, blocksize |-> IF entry = 0 THEN DefaultBlock ELSE ConfBlock]

max_block_size == readConf.blocksize

Least(a, b) == IF a < b THEN a ELSE b

Unit == [who : Clients \cup {Ctl}, what : Ops \cup {"res", "data"}, n : 0 .. MaxLen]
Params(c, what, n) == [who |-> c, what |-> what, n |-> n]
Data(c, from, to) == [i \in 1 .. to - from |-> Params(c, "data", from + i)]

(* own: buf is the buffer of the socket's thread; wake: pending wake-ups.     *)
Sock == [busy : BOOLEAN, operation : {"none", "S_SEND", "S_RECV"}, length : 0 .. MaxLen + 1,
         res : -1 .. MaxLen + 1, buf : Seq(Unit), own : BOOLEAN, wake : 0 .. 2, sema : 0 .. 1,
         at : {"asleep", "io"}]

Blocked == {"sent", "received", "block", "replied"}
Running == {"find", "take", "return"}
Client == [at : {"idle"} \cup Running \cup Blocked, op : Ops \cup {"cmd"}, s : Socks, len : 0 .. MaxLen,
           done : 0 .. MaxLen, data : Seq(Unit), ret : {"none", "ok", "end", "error"}, reply : Clients \cup {Ctl}]

Session == [at : {"cmd", "data", "closed"}, who : Clients \cup {Ctl}, len : 0 .. MaxLen, data : Seq(Unit)]

TypeOK ==
    /\ sock \in [Socks -> Sock]
    /\ client \in [Clients -> Client]
    /\ ctl \in [at : {"none", "poll", "sent", "done"}, i : Socks]
    /\ to_pc \in [Socks -> Seq(Unit)]
    /\ to_psp \in [Socks -> Seq(Unit)]
    /\ session \in [Socks -> Session]
    /\ faults \in 0 .. MaxFaults
    /\ met \in BOOLEAN

(* connectSocket has connected the sockets, every sock_thread has made its    *)
(* semaphore and sleeps, wifiIoInit has logged in.                            *)
Init ==
    /\ sock = [s \in Socks |-> [busy |-> FALSE, operation |-> "none", length |-> 0, res |-> 0,
                                buf |-> <<>>, own |-> TRUE, wake |-> 0, sema |-> 0, at |-> "asleep"]]
    /\ client = [c \in Clients |-> [at |-> "idle", op |-> "cmd", s |-> 0, len |-> 0, done |-> 0,
                                    data |-> <<>>, ret |-> "none", reply |-> c]]
    /\ ctl = [at |-> "none", i |-> 0]
    /\ to_pc = [s \in Socks |-> <<>>]
    /\ to_psp = [s \in Socks |-> <<>>]
    /\ session = [s \in Socks |-> [at |-> "cmd", who |-> Ctl, len |-> 0, data |-> <<>>]]
    /\ faults = 0
    /\ met = FALSE

(* Threads of one priority are not preempted: a client goes on only while the *)
(* others are blocked or have no call to make.                                *)
MayRun(c) == Preemptive \/ \A d \in Clients \ {c} : client[d].at \notin Running

(* wifiSend and wifiRecv up to WaitSema.                                      *)
wifiSend(so, units, own) ==
    [so EXCEPT !.operation = "S_SEND", !.length = Len(units), !.buf = units, !.own = own,
               !.wake = @ + 1]
wifiRecv(so, len) == [so EXCEPT !.operation = "S_RECV", !.length = len, !.wake = @ + 1]

------------------------------------------------------------------------------
(* A client calls the driver.                                                 *)
Begin(c) ==
    /\ client[c].at = "idle" /\ ctl.at = "none" /\ MayRun(c)
    /\ \E op \in Ops \ {"exit"}, len \in 1 .. MaxLen :
         /\ op \in {"open", "stat", "cmd"} => len = 1
         /\ client' = [client EXCEPT ![c] =
                [at |-> "find", op |-> op, s |-> 0, len |-> len, done |-> 0, data |-> <<>>,
                 ret |-> "none", reply |-> c]]
    /\ UNCHANGED <<sock, ctl, to_pc, to_psp, session, faults, met>>

(* A call has found socket s and not marked it yet, or has cleared busy and   *)
(* not read the reply yet; wifiIoExit never marks the sockets it comes to.    *)
Unmarked(c, s) == client[c].at \in {"take", "return"} /\ client[c].s = s
ExitedBy(s) == ctl.at # "none" /\ (s < ctl.i \/ (s = ctl.i /\ ctl.at # "poll"))

(* getIdleSock: one look at a socket.                                         *)
getIdleSock(c) ==
    LET s == client[c].s
    IN  /\ client[c].at = "find" /\ MayRun(c)
        /\ client' = IF ~sock[s].busy
                     THEN [client EXCEPT ![c].at = "take"]
                     ELSE [client EXCEPT ![c].s = (s + 1) % NumSock]
        /\ met' = (met \/ (~sock[s].busy /\ (ExitedBy(s) \/ \E d \in Clients : Unmarked(d, s))))
        /\ UNCHANGED <<sock, ctl, to_pc, to_psp, session, faults>>

TakeNotBusy(c) ==                                                  \* mutant
    LET s == client[c].s
        request == <<Params(c, client[c].op, client[c].len)>>
    IN  /\ client[c].at = "take" /\ MayRun(c)
        /\ sock' = [sock EXCEPT ![s] = wifiSend(@, request, @.own)]
        /\ client' = [client EXCEPT ![c].at = "sent"]
        /\ UNCHANGED <<ctl, to_pc, to_psp, session, faults, met>>

(* sock_opts->busy = 1, the request, and wifiSend of it.                      *)
Take(c) ==
    LET s == client[c].s
        request == <<Params(c, client[c].op, client[c].len)>>
    IN  /\ client[c].at = "take" /\ MayRun(c)
        /\ sock' = [sock EXCEPT ![s] = wifiSend([@ EXCEPT !.busy = TRUE], request, @.own)]
        /\ client' = [client EXCEPT ![c].at = "sent"]
        /\ UNCHANGED <<ctl, to_pc, to_psp, session, faults, met>>

(* WaitSema has the semaphore and the client runs on.                         *)
Woken(c, at) ==
    /\ client[c].at = at /\ MayRun(c)
    /\ sock[client[c].s].sema = 1

(* The call returns; a read has copied data.                                  *)
Finish(c, ret, reply, len, data) ==
    client' = [client EXCEPT ![c] = [at |-> "idle", op |-> @.op, s |-> 0, len |-> len,
                                     done |-> 0, data |-> data, ret |-> ret, reply |-> reply]]

FailFrees(c) ==                                                    \* mutant
    /\ Finish(c, "error", c, 0, <<>>)
    /\ sock' = [sock EXCEPT ![client[c].s].sema = 0, ![client[c].s].busy = FALSE]

(* The error return of the SEND and RECV macros.                              *)
Fail(c) ==
    /\ Finish(c, "error", c, 0, <<>>)
    /\ sock' = [sock EXCEPT ![client[c].s].sema = 0]

(* One round of the loop of wifiIoWrite or wifiIoRead, from what is done.     *)
Block(c, done) == Least(client[c].len - done, max_block_size)

(* wifiIoGetstat and wifiIoDread wait for more than a number, and do not wait *)
(* for the rest of it when sceNetInetRecv gives them a part.                  *)
ReplyLen(op) == IF op = "stat" THEN 2 ELSE 1

(* The request is sent: wait for the reply, or send the data to write.        *)
Sent(c) ==
    LET s == client[c].s
        so == [sock[s] EXCEPT !.sema = 0]
    IN  /\ Woken(c, "sent")
        /\ \/ so.res # so.length /\ Fail(c)
           \/ /\ so.res = so.length /\ client[c].op # "write"
              /\ sock' = [sock EXCEPT ![s] = wifiRecv(so, ReplyLen(client[c].op))]
              /\ client' = [client EXCEPT ![c].at = "replied"]
           \/ /\ so.res = so.length /\ client[c].op = "write"
              /\ sock' = [sock EXCEPT ![s] = wifiSend(so, Data(c, 0, Block(c, 0)), FALSE)]
              /\ client' = [client EXCEPT ![c].at = "block"]
        /\ UNCHANGED <<ctl, to_pc, to_psp, session, faults, met>>

(* wifiIoWrite: a block is sent, perhaps in part.                             *)
BlockSent(c) ==
    LET s == client[c].s
        so == [sock[s] EXCEPT !.sema = 0]
        done == client[c].done + so.res
    IN  /\ Woken(c, "block") /\ client[c].op = "write"
        /\ \/ so.res <= 0 /\ Fail(c)
           \/ /\ so.res > 0 /\ done < client[c].len
              /\ sock' = [sock EXCEPT ![s] = wifiSend(so, Data(c, done, done + Block(c, done)), FALSE)]
              /\ client' = [client EXCEPT ![c].done = done]
           \/ /\ so.res > 0 /\ done = client[c].len
              /\ sock' = [sock EXCEPT ![s] = wifiRecv([so EXCEPT !.own = TRUE], 1)]
              /\ client' = [client EXCEPT ![c].at = "replied", ![c].done = done]
        /\ UNCHANGED <<ctl, to_pc, to_psp, session, faults, met>>

RepliedKeepsEmpty(c) ==                                            \* mutant
    LET s == client[c].s
        so == [sock[s] EXCEPT !.sema = 0]
        op == client[c].op
        size == so.buf[1].n
        free == sock' = [sock EXCEPT ![s] = [so EXCEPT !.busy = FALSE]]
    IN  /\ Woken(c, "replied")
        /\ \/ so.res # ReplyLen(op) /\ Fail(c)
           \/ /\ so.res = 1 /\ op \in {"cmd", "write"}
              /\ free
              /\ client' = [client EXCEPT ![c].at = "return"]
           \/ /\ so.res = ReplyLen(op) /\ op \in {"open", "stat"}
              /\ free
              /\ Finish(c, "ok", so.buf[1].who, 0, <<>>)
           \/ /\ so.res = 1 /\ op = "read"
              /\ IF size > client[c].len \/ size <= 0
                 THEN /\ sock' = [sock EXCEPT ![s] = so]
                      /\ Finish(c, "end", so.buf[1].who, 0, <<>>)
                 ELSE /\ sock' = [sock EXCEPT ![s] = wifiRecv(so, Least(size, max_block_size))]
                      /\ client' = [client EXCEPT ![c].at = "received", ![c].len = size,
                                                  ![c].reply = so.buf[1].who]
        /\ UNCHANGED <<ctl, to_pc, to_psp, session, faults, met>>

(* The reply is there.  wifiIoOpen, wifiIoDopen, wifiIoGetstat and wifiIoDread *)
(* read it and give the socket back, the other calls give it back first;      *)
(* wifiIoRead has the length of what follows, and fails when there is nothing *)
(* to follow.                                                                 *)
Replied(c) ==
    LET s == client[c].s
        so == [sock[s] EXCEPT !.sema = 0]
        op == client[c].op
        size == so.buf[1].n
        free == sock' = [sock EXCEPT ![s] = [so EXCEPT !.busy = FALSE]]
    IN  /\ Woken(c, "replied")
        /\ \/ so.res # ReplyLen(op) /\ Fail(c)
           \/ /\ so.res = 1 /\ op \in {"cmd", "write"}
              /\ free
              /\ client' = [client EXCEPT ![c].at = "return"]
           \/ /\ so.res = ReplyLen(op) /\ op \in {"open", "stat"}
              /\ free
              /\ Finish(c, "ok", so.buf[1].who, 0, <<>>)
           \/ /\ so.res = 1 /\ op = "read"
              /\ IF size > client[c].len \/ size <= 0
                 THEN /\ free
                      /\ Finish(c, "end", so.buf[1].who, 0, <<>>)
                 ELSE /\ sock' = [sock EXCEPT ![s] = wifiRecv(so, Least(size, max_block_size))]
                      /\ client' = [client EXCEPT ![c].at = "received", ![c].len = size,
                                                  ![c].reply = so.buf[1].who]
        /\ UNCHANGED <<ctl, to_pc, to_psp, session, faults, met>>

BlockReceivedWhole(c) ==                                           \* mutant
    LET s == client[c].s
        so == [sock[s] EXCEPT !.sema = 0]
        done == client[c].done + so.length
    IN  /\ Woken(c, "received")
        /\ \/ so.res <= 0 /\ Fail(c)
           \/ /\ so.res > 0 /\ done < client[c].len
              /\ sock' = [sock EXCEPT ![s] = wifiRecv(so, Block(c, done))]
              /\ client' = [client EXCEPT ![c].done = done, ![c].data = @ \o so.buf]
           \/ /\ so.res > 0 /\ done = client[c].len
              /\ sock' = [sock EXCEPT ![s] = [so EXCEPT !.busy = FALSE]]
              /\ Finish(c, "ok", client[c].reply, client[c].len, client[c].data \o so.buf)
        /\ UNCHANGED <<ctl, to_pc, to_psp, session, faults, met>>

(* wifiIoRead: a block is received, perhaps in part, and copied.              *)
BlockReceived(c) ==
    LET s == client[c].s
        so == [sock[s] EXCEPT !.sema = 0]
        done == client[c].done + so.res
    IN  /\ Woken(c, "received")
        /\ \/ so.res <= 0 /\ Fail(c)
           \/ /\ so.res > 0 /\ done < client[c].len
              /\ sock' = [sock EXCEPT ![s] = wifiRecv(so, Block(c, done))]
              /\ client' = [client EXCEPT ![c].done = done, ![c].data = @ \o so.buf]
           \/ /\ so.res > 0 /\ done = client[c].len
              /\ sock' = [sock EXCEPT ![s] = [so EXCEPT !.busy = FALSE]]
              /\ Finish(c, "ok", client[c].reply, client[c].len, client[c].data \o so.buf)
        /\ UNCHANGED <<ctl, to_pc, to_psp, session, faults, met>>

(* return *( sock_opts->buf ), after the socket was given back.               *)
Return(c) ==
    LET so == sock[client[c].s]
    IN  /\ client[c].at = "return" /\ MayRun(c)
        /\ Finish(c, "ok", so.buf[1].who, 0, <<>>)
        /\ UNCHANGED <<sock, ctl, to_pc, to_psp, session, faults, met>>

------------------------------------------------------------------------------
(* sceIoDelDrv ends in wifiIoExit, which looks at the sockets in turn, waits  *)
(* for each to be idle and sends it IOEXIT.                                   *)
DelDrv ==
    /\ "exit" \in Ops /\ ctl.at = "none"
    /\ ctl' = [at |-> "poll", i |-> 0]
    /\ UNCHANGED <<sock, client, to_pc, to_psp, session, faults, met>>

SendExit ==
    /\ ctl.at = "poll" /\ ~sock[ctl.i].busy
    /\ MayRun(Ctl)
    /\ sock' = [sock EXCEPT ![ctl.i] = wifiSend(@, <<Params(Ctl, "exit", 0)>>, @.own)]
    /\ ctl' = [ctl EXCEPT !.at = "sent"]
    /\ met' = (met \/ \E c \in Clients : Unmarked(c, ctl.i))
    /\ UNCHANGED <<client, to_pc, to_psp, session, faults>>

ExitSent ==
    LET so == sock[ctl.i]
    IN  /\ ctl.at = "sent" /\ so.sema = 1 /\ MayRun(Ctl)
        /\ sock' = [sock EXCEPT ![ctl.i].sema = 0]
        /\ ctl' = IF so.res # so.length \/ ctl.i = NumSock
                  THEN [ctl EXCEPT !.at = "done"]
                  ELSE [at |-> "poll", i |-> ctl.i + 1]
        /\ UNCHANGED <<client, to_pc, to_psp, session, faults, met>>

------------------------------------------------------------------------------
(* sock_thread.                                                               *)
SockWakes(s) ==
    /\ sock[s].at = "asleep" /\ sock[s].wake > 0
    /\ sock' = [sock EXCEPT ![s].at = "io", ![s].wake = @ - 1]
    /\ UNCHANGED <<client, ctl, to_pc, to_psp, session, faults, met>>

Signalled(s, so, res) ==
    sock' = [sock EXCEPT ![s] = [so EXCEPT !.res = res, !.sema = 1, !.at = "asleep"]]

(* sceNetInetSend takes at least one unit of what it is given.                *)
SockSends(s) ==
    LET so == sock[s]
    IN  /\ so.at = "io" /\ so.operation = "S_SEND"
        /\ \E n \in Least(1, so.length) .. so.length :
             /\ to_pc' = [to_pc EXCEPT ![s] = @ \o SubSeq(so.buf, 1, n)]
             /\ Signalled(s, so, n)
        /\ UNCHANGED <<client, ctl, to_psp, session, faults, met>>

(* sceNetInetRecv waits for a unit and takes what there is, up to length; it  *)
(* gives 0 at the end of a closed connection.                                 *)
SockReceives(s) ==
    LET so == sock[s]
    IN  /\ so.at = "io" /\ so.operation = "S_RECV"
        /\ \/ \E n \in 1 .. Least(so.length, Len(to_psp[s])) :
                /\ to_psp' = [to_psp EXCEPT ![s] = SubSeq(@, n + 1, Len(@))]
                /\ Signalled(s, [so EXCEPT !.buf = SubSeq(to_psp[s], 1, n)], n)
           \/ /\ so.length = 0 \/ (to_psp[s] = <<>> /\ session[s].at = "closed")
              /\ Signalled(s, so, 0)
              /\ UNCHANGED to_psp
        /\ UNCHANGED <<client, ctl, to_pc, session, faults, met>>

(* The call fails: the wifi is out of reach.                                  *)
SockFails(s) ==
    /\ sock[s].at = "io" /\ faults < MaxFaults
    /\ faults' = faults + 1
    /\ Signalled(s, sock[s], -1)
    /\ UNCHANGED <<client, ctl, to_pc, to_psp, session, met>>

------------------------------------------------------------------------------
(* process_cmd: the request and its reply; process_ioread sends the data      *)
(* after its length.                                                          *)
process_cmd(s) ==
    LET m == Head(to_pc[s])
        reply(n) == <<Params(m.who, "res", n)>>
    IN  /\ session[s].at = "cmd" /\ to_pc[s] # <<>>
        /\ to_pc' = [to_pc EXCEPT ![s] = Tail(@)]
        /\ \/ /\ m.what \in {"open", "stat", "cmd"}
              /\ to_psp' = [to_psp EXCEPT ![s] =
                                @ \o [i \in 1 .. ReplyLen(m.what) |-> Params(m.who, "res", 0)]]
              /\ UNCHANGED session
           \/ /\ m.what = "read"
              /\ \E n \in 0 .. m.n :
                   to_psp' = [to_psp EXCEPT ![s] = @ \o reply(n) \o Data(m.who, 0, n)]
              /\ UNCHANGED session
           \/ /\ m.what = "write"
              /\ session' = [session EXCEPT ![s] =
                                [at |-> "data", who |-> m.who, len |-> m.n, data |-> <<>>]]
              /\ UNCHANGED to_psp
           \/ /\ m.what = "exit"
              /\ session' = [session EXCEPT ![s].at = "closed"]
              /\ UNCHANGED to_psp
        /\ UNCHANGED <<sock, client, ctl, faults, met>>

(* process_iowrite receives until it has the length it was told.              *)
process_iowrite(s) ==
    LET w == session[s]
        got == Append(w.data, Head(to_pc[s]))
    IN  /\ w.at = "data" /\ to_pc[s] # <<>>
        /\ to_pc' = [to_pc EXCEPT ![s] = Tail(@)]
        /\ IF Len(got) < w.len
           THEN session' = [session EXCEPT ![s].data = got] /\ UNCHANGED to_psp
           ELSE /\ session' = [session EXCEPT ![s].at = "cmd", ![s].data = got]
                /\ to_psp' = [to_psp EXCEPT ![s] = Append(@, Params(w.who, "res", w.len))]
        /\ UNCHANGED <<sock, client, ctl, faults, met>>

------------------------------------------------------------------------------
ClientStep(c) ==
    \/ getIdleSock(c) \/ Take(c) \/ Sent(c) \/ BlockSent(c) \/ Replied(c) \/ BlockReceived(c)
    \/ Return(c)
SockStep(s) == SockWakes(s) \/ SockSends(s) \/ SockReceives(s)
PcStep(s) == process_cmd(s) \/ process_iowrite(s)

Next ==
    \/ \E c \in Clients : Begin(c) \/ ClientStep(c)
    \/ DelDrv \/ SendExit \/ ExitSent
    \/ \E s \in Socks : SockStep(s) \/ SockFails(s) \/ PcStep(s)

Spec == Init /\ [][Next]_vars

(* The ready threads of one priority run in the order they became ready, so a *)
(* client that is ready again and again runs: strong fairness for the clients. *)
Fairness ==
    /\ \A c \in Clients : SF_vars(ClientStep(c))
    /\ WF_vars(SendExit) /\ WF_vars(ExitSent)
    /\ \A s \in Socks : WF_vars(SockStep(s)) /\ WF_vars(PcStep(s))

FairSpec == Spec /\ Fairness

------------------------------------------------------------------------------
(* c works on socket s: from the moment getIdleSock gave it to the last time  *)
(* it reads the reply there.                                                  *)
Uses(c, s) == client[c].at \in {"take", "return"} \cup Blocked /\ client[c].s = s
Exits(s) == ctl = [at |-> "sent", i |-> s]

(* A socket is never used by two calls, until two threads have met between a   *)
(* look at busy and the store of it, or between the clearing of busy and the  *)
(* reading of the reply: however long the calls and whatever fails.           *)
OneUser == ~met =>
    \A s \in Socks :
        /\ \A c, d \in Clients : Uses(c, s) /\ Uses(d, s) => c = d
        /\ \A c \in Clients : Uses(c, s) => ~Exits(s)

(* A socket in the pool has nothing left of the call that gave it back: no    *)
(* unit on the way, no signal or wake-up pending, its own buffer again.       *)
IdleClean ==
    \A s \in Socks :
        ~sock[s].busy /\ ~ExitedBy(s) =>
            /\ to_pc[s] = <<>> /\ to_psp[s] = <<>>
            /\ session[s].at = "cmd"
            /\ sock[s].own /\ sock[s].wake = 0 /\ sock[s].sema = 0

(* What a call returns is the server's reply to its own request.              *)
OwnReply == \A c \in Clients : client[c].reply = c

(* Until two threads have met a call finds the pool as clean as connectSocket *)
(* left it, and so returns nothing of another call.                           *)
PoolClean == ~met => TypeOK /\ IdleClean /\ OwnReply

(* A read that returns a length has copied that much, in order, and the       *)
(* server has received all of a write before it replies, likewise.            *)
DataIntact == ~met =>
    /\ \A c \in Clients :
           client[c].at = "idle" /\ client[c].op = "read" /\ client[c].ret = "ok" =>
               client[c].data = Data(c, 0, client[c].len)
    /\ \A s \in Socks :
           session[s].at # "data" => session[s].data = Data(session[s].who, 0, session[s].len)

(* conf.c gives every setting that conf.txt leaves out a default: with the    *)
(* connection up, no call fails for want of one.                              *)
NoError == \A c \in Clients : client[c].ret # "error"

(* Every call returns while there is a socket for each caller besides those   *)
(* that failed calls keep, and wifiIoExit ends while none has failed.         *)
CallReturns == \A c \in Clients : client[c].at # "idle" ~> client[c].at = "idle"
ExitEnds == [](faults = 0) => (ctl.at # "none" ~> ctl.at = "done")

==============================================================================
