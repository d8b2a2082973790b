----------------------------- MODULE HostDriver -----------------------------
(* host_driver.c, the driver of host0: and of a redirected ms0:.  Every call  *)
(* builds one command and exchanges it with the PC (command_xchg, module      *)
(* UsbBus), reads and writes one for each block: g_mainsema is held for one   *)
(* exchange only, so calls of other threads and a change of the connection    *)
(* come between the blocks.  The PC program is external; it closes what is    *)
(* open when a connection begins, as nethostfs_pc does.                       *)
EXTENDS Integers, Sequences, FiniteSets, FiniteSetsExt, SequencesExt

CONSTANTS
    Thread,
    Descriptor,  \* descriptors of the kernel: PspIoDrvFileArg
    Lengths,     \* lengths of reads and writes, in units
    MaxBlock,    \* HOSTFS_MAX_BLOCK, in units
    FileSize,    \* bound: units of a file
    MaxCalls,    \* bound: calls
    MaxMishaps   \* bound: connections lost

ASSUME HostDriverAssumption ==
    /\ Lengths \subseteq Nat
    /\ {MaxBlock, FileSize, MaxCalls} \subseteq Nat \ {0}
    /\ MaxMishaps \in Nat

VARIABLES
    host,  \* the PC: the position of what is open, by handle
    desc,  \* arg->arg of a descriptor, and whether it was opened on this connection
    call,  \* the call of a thread; moved, from, sole: history of a transfer
    link   \* usb_connected(); lost: an exchange has failed on this connection

vars == <<host, desc, call, link>>

Kinds == {"file", "dir"}
NoHandle == [kind |-> "file", n |-> -1]
Closed == [open |-> FALSE, handle |-> NoHandle, current |-> FALSE]

(* moved: offset in the caller's memory and place in the file of every unit   *)
(* the PC has read or written for the call.                                   *)
Idle ==
    [at |-> "idle", handle |-> NoHandle, blocks |-> 0, residual |-> 0, data |-> 0, ret |-> 0,
     moved |-> <<>>, from |-> 0, sole |-> FALSE]

Init ==
    /\ host = [open |-> [h \in {} |-> 0]]
    /\ desc = [d \in Descriptor |-> Closed]
    /\ call = [t \in Thread |-> Idle]
    /\ link = [up |-> TRUE, lost |-> FALSE, mishaps |-> 0, calls |-> 0]

Error == -2  \* a result of the PC below 0; -1 is the driver's own

TypeOK ==
    /\ host.open \in [DOMAIN host.open -> 0 .. FileSize]
    /\ \A h \in DOMAIN host.open : h.kind \in Kinds /\ h.n \in Nat
    /\ \A d \in Descriptor : desc[d].open <=> desc[d].handle # NoHandle
    /\ \A t \in Thread : call[t].at \in {"idle", "move", "done"} /\ call[t].ret \in {Error, -1} \cup Nat
    /\ link.calls \in 0 .. MaxCalls /\ link.mishaps \in 0 .. MaxMishaps

Live(h) == h \in DOMAIN host.open
MayCall(t) == call[t].at = "idle" /\ link.calls < MaxCalls
Counted == [link EXCEPT !.calls = @ + 1]
CanFail == link.up /\ link.mishaps < MaxMishaps
Failed(l) == [l EXCEPT !.up = FALSE, !.lost = TRUE, !.mishaps = @ + 1]

(* Another thread's command on the same handle ends the history of a transfer.*)
Touched(c, t, h) == [u \in Thread |-> IF u # t /\ c[u].handle = h THEN [c[u] EXCEPT !.sole = FALSE] ELSE c[u]]

------------------------------------------------------------------------------
(* io_open and io_dopen                                                       *)

NewHandle(kind) ==
    [kind |-> kind, n |-> Min({i \in 0 .. Cardinality(DOMAIN host.open) : ~Live([kind |-> kind, n |-> i])})]

Opened(h) == [host EXCEPT !.open = [k \in DOMAIN @ \cup {h} |-> IF k = h THEN 0 ELSE @[k]]]

(* Mutant: handle 0 is taken for a failure.                                   *)
GoodHandleZero(n) == n > 0

GoodHandle(n) == n >= 0

io_open(t, d, kind) ==
    LET h == NewHandle(kind)
    IN  /\ MayCall(t) /\ ~desc[d].open
        /\ link.up
        /\ \/ /\ host' = Opened(h)
              /\ desc' = IF GoodHandle(h.n) THEN [desc EXCEPT ![d] = [open |-> TRUE, handle |-> h, current |-> TRUE]]
                         ELSE desc
              /\ link' = Counted
           \/ /\ UNCHANGED <<host, desc>>       \* the PC refuses
              /\ link' = Counted
           \/ /\ CanFail                        \* the exchange fails
              /\ host' \in {host, Opened(h)}
              /\ link' = Failed(Counted)
              /\ UNCHANGED desc
        /\ UNCHANGED call

(* io_close and io_dclose: the kernel lets the descriptor go in any case.     *)
ClosedOn(h) == [host EXCEPT !.open = [k \in DOMAIN @ \ {h} |-> @[k]]]

io_close(t, d) ==
    /\ MayCall(t) /\ desc[d].open
    /\ desc' = [desc EXCEPT ![d] = Closed]
    /\ \/ /\ link.up
          /\ host' = ClosedOn(desc[d].handle)
          /\ link' = Counted
       \/ /\ CanFail
          /\ host' \in {host, ClosedOn(desc[d].handle)}
          /\ link' = Failed(Counted)
       \/ /\ ~link.up
          /\ link' = Counted
          /\ UNCHANGED host
    /\ call' = Touched(call, t, desc[d].handle)

(* One exchange that opens, closes and moves nothing: what the PC does to its *)
(* names and attributes is its own, a lost connection may lose the answer.    *)
Command(t) ==
    /\ MayCall(t)
    /\ link.up
    /\ \/ link' = Counted
       \/ CanFail /\ link' = Failed(Counted)
    /\ UNCHANGED <<host, desc, call>>

io_remove(t) == Command(t)
io_mkdir(t) == Command(t)
io_rmdir(t) == Command(t)
io_rename(t) == Command(t)
io_getstat(t) == Command(t)
io_chstat(t) == Command(t)
io_chdir(t) == Command(t)
io_devctl(t) == Command(t)
io_ioctl(t, d) == desc[d].open /\ Command(t)

(* io_lseek; io_dread moves a directory on.                                   *)
Positioned(h, p) == IF Live(h) THEN [host EXCEPT !.open[h] = p] ELSE host

io_lseek(t, d) ==
    /\ MayCall(t) /\ desc[d].open /\ desc[d].handle.kind = "file"
    /\ link.up
    /\ \E p \in 0 .. FileSize :
          \/ host' = Positioned(desc[d].handle, p) /\ link' = Counted
          \/ CanFail /\ host' \in {host, Positioned(desc[d].handle, p)} /\ link' = Failed(Counted)
    /\ call' = Touched(call, t, desc[d].handle)
    /\ UNCHANGED desc

io_dread(t, d) ==
    LET h == desc[d].handle
        next == IF Live(h) THEN Positioned(h, Min({FileSize, host.open[h] + 1})) ELSE host
    IN  /\ MayCall(t) /\ desc[d].open /\ h.kind = "dir"
        /\ link.up
        /\ \/ host' = next /\ link' = Counted
           \/ CanFail /\ host' \in {host, next} /\ link' = Failed(Counted)
        /\ UNCHANGED <<desc, call>>

------------------------------------------------------------------------------
(* usb_read_data and usb_write_data, which differ in the direction only       *)

Transfer(t, d) ==
    /\ MayCall(t) /\ desc[d].open /\ desc[d].handle.kind = "file"
    /\ \E len \in Lengths :
          LET h == desc[d].handle
              c == Touched(call, t, h)
          IN  call' = [c EXCEPT ![t] =
                 [Idle EXCEPT !.at = IF len = 0 THEN "done" ELSE "move", !.handle = h,
                              !.blocks = len \div MaxBlock, !.residual = len % MaxBlock,
                              !.from = IF Live(h) THEN host.open[h] ELSE 0,
                              !.sole = Live(h) /\ \A u \in Thread \ {t} : call[u].handle # h]]
    /\ link' = Counted
    /\ UNCHANGED <<host, desc>>

BlockLength(c) == IF c.blocks > 0 THEN MaxBlock ELSE c.residual

(* What the PC can move for one command, at its own position.                 *)
Movable(c) == IF Live(c.handle) THEN 0 .. Min({BlockLength(c), FileSize - host.open[c.handle]}) ELSE {0}

Moved(c, n) == c.moved \o [i \in 1 .. n |-> [mem |-> c.data + i - 1, pos |-> host.open[c.handle] + i - 1]]

HostMoves(c, n) == IF n = 0 THEN host ELSE Positioned(c.handle, host.open[c.handle] + n)

(* Mutant: a short block is counted as a whole one.                           *)
AdvancedWhole(c, n) == [c EXCEPT !.data = @ + BlockLength(c), !.ret = @ + n]

Advanced(c, n) == [c EXCEPT !.data = @ + n, !.ret = @ + n]

(* The block is done: the next one, the residual, or the end.                 *)
NextBlock(c) ==
    LET b == IF c.blocks > 0 THEN [c EXCEPT !.blocks = @ - 1] ELSE [c EXCEPT !.residual = 0]
    IN  [b EXCEPT !.at = IF b.blocks = 0 /\ b.residual = 0 THEN "done" ELSE "move"]

(* An error or the end of the file: what was moved so far is the result.      *)
Stopped(c, res) == [c EXCEPT !.at = "done", !.ret = IF res < 0 /\ @ = 0 THEN res ELSE @]

MoveBlock(t) ==
    LET c == call[t]
        others == Touched(call, t, c.handle)
    IN  /\ c.at = "move"
        /\ \/ /\ link.up
              /\ \E n \in Movable(c) \ {0} :
                    /\ host' = HostMoves(c, n)
                    /\ call' = [others EXCEPT ![t] = NextBlock(Advanced([c EXCEPT !.moved = Moved(c, n)], n))]
              /\ UNCHANGED link
           \/ /\ link.up
              /\ \E res \in {0, Error} : call' = [call EXCEPT ![t] = Stopped(c, res)]
              /\ UNCHANGED <<host, link>>
           \/ /\ CanFail
              /\ \E n \in Movable(c) :
                    /\ host' = HostMoves(c, n)
                    /\ call' = [others EXCEPT ![t].at = "done", ![t].ret = -1, ![t].moved = Moved(c, n)]
              /\ link' = Failed(link)
           \/ /\ ~link.up
              /\ call' = [call EXCEPT ![t].at = "done", ![t].ret = -1]
              /\ UNCHANGED <<host, link>>
        /\ UNCHANGED desc

Return(t) ==
    /\ call[t].at = "done"
    /\ call' = [call EXCEPT ![t] = Idle]
    /\ UNCHANGED <<host, desc, link>>

------------------------------------------------------------------------------
(* The cable, or the program on the PC, comes and goes.                       *)
Disconnect ==
    /\ CanFail
    /\ link' = Failed(link)
    /\ UNCHANGED <<host, desc, call>>

Reconnect ==
    /\ ~link.up
    /\ link' = [link EXCEPT !.up = TRUE, !.lost = FALSE]
    /\ host' = [host EXCEPT !.open = [h \in {} |-> 0]]
    /\ desc' = [d \in Descriptor |-> [desc[d] EXCEPT !.current = FALSE]]
    /\ call' = [t \in Thread |-> [call[t] EXCEPT !.sole = FALSE]]

Next ==
    \/ Disconnect \/ Reconnect
    \/ \E t \in Thread :
          \/ MoveBlock(t) \/ Return(t) \/ io_remove(t) \/ io_mkdir(t) \/ io_rmdir(t) \/ io_rename(t)
          \/ io_getstat(t) \/ io_chstat(t) \/ io_chdir(t) \/ io_devctl(t)
          \/ \E d \in Descriptor :
                \/ io_close(t, d) \/ io_lseek(t, d) \/ io_ioctl(t, d) \/ io_dread(t, d) \/ Transfer(t, d)
                \/ \E kind \in Kinds : io_open(t, d, kind)

Spec == Init /\ [][Next]_vars

------------------------------------------------------------------------------
(* The units a transfer has moved are its caller's units in order, at places  *)
(* that follow one another in the file, whether the blocks were whole or not  *)
(* and however the call ends, as long as no other thread used the handle in   *)
(* between and the connection stayed (lines 117 to 383 of host_driver.c).     *)
Contiguous ==
    \A t \in Thread : call[t].sole =>
        \A i \in DOMAIN call[t].moved : call[t].moved[i] = [mem |-> i - 1, pos |-> call[t].from + i - 1]

(* A transfer that returns a count has moved just that many units, one that   *)
(* returns the PC's error none at all, and the file is positioned after what  *)
(* was moved.  -1 says nothing: blocks before the one that failed, and even   *)
(* that one, may have been moved.                                             *)
CountTold ==
    \A t \in Thread :
        LET c == call[t]
        IN  c.at = "done" /\ c.sole =>
                /\ c.ret >= 0 => c.ret = Len(c.moved)
                /\ c.ret = Error => c.moved = <<>>
                /\ Live(c.handle) => host.open[c.handle] = c.from + Len(c.moved)

(* A transfer moves what it says, in order and in place.                      *)
Transferred == TypeOK /\ Contiguous /\ CountTold

(* Until an exchange fails, whatever is open on the PC has a descriptor that  *)
(* can close it: no handle is forgotten (lines 33 to 115 and 597 to 677).     *)
Current == {d \in Descriptor : desc[d].open /\ desc[d].current}
HandlesKnown == link.up /\ ~link.lost => DOMAIN host.open \subseteq {desc[d].handle : d \in Current}

==============================================================================
