------------------------------ MODULE AsyncChan ------------------------------
(* The asynchronous input channels of the USB HostFS driver                   *)
(* (src/cfe_redirect/usbhostfs/main.c): g_async_chan, the AsyncEndpoint ring  *)
(* buffers and the event flag g_asyncevent.  The USB thread fills a ring, any *)
(* thread registers, unregisters, flushes and reads channels.  A section the  *)
(* code runs with interrupts disabled is one action; everything outside such  *)
(* a section is a step of its own.                                            *)
EXTENDS Integers, Sequences, FiniteSets

CONSTANTS
    Threads,      \* threads calling the usbAsync* functions
    Endpoints,    \* AsyncEndpoint structures owned by the callers
    NoEndp,       \* the NULL pointer in g_async_chan
    Byte,         \* values of a byte
    Packets,      \* payloads of packets the PC sends (sequences of bytes)
    BufSize,      \* MAX_ASYNC_BUFFER
    NumChan,      \* MAX_ASYNC_CHANNELS
    UserChan      \* ASYNC_USER, the first channel ASYNC_ALLOC_CHAN may give

ASSUME SizeAssumption ==
    /\ BufSize \in Nat \ {0}
    /\ NumChan \in Nat \ {0}
    /\ UserChan \in 0 .. NumChan

ASSUME DataAssumption ==
    /\ 0 \in Byte
    /\ Packets \subseteq Seq(Byte)
    /\ NoEndp \notin Endpoints

Chan == 0 .. NumChan - 1
Slot == 0 .. BufSize - 1

VARIABLES
    chan,         \* g_async_chan
    ring,         \* ring[e]: the AsyncEndpoint e
    asyncevent,   \* channels whose bit is set in g_asyncevent
    call,         \* call[t]: the driver call thread t is inside
    last          \* last[t]: the bytes its latest read returned

vars == <<chan, ring, asyncevent, call, last>>

AsyncEndpoint ==
    [buffer : [Slot -> Byte], read_pos : Slot, write_pos : Slot, size : 0 .. BufSize]

(* Where a thread is, the channel it was called with and the length it asked  *)
(* for.                                                                       *)
Call ==
    [at : {"idle", "waiting", "woken", "flushing", "read_fault", "flush_fault"},
     chan : Chan, len : Nat]
Idle == [at |-> "idle", chan |-> 0, len |-> 0]

TypeOK ==
    /\ chan \in [Chan -> Endpoints \cup {NoEndp}]
    /\ ring \in [Endpoints -> AsyncEndpoint]
    /\ asyncevent \subseteq Chan
    /\ call \in [Threads -> Call]
    /\ last \in [Threads -> Seq(Byte)]

Init ==
    /\ chan = [c \in Chan |-> NoEndp]
    /\ ring = [e \in Endpoints |->
                 [buffer |-> [i \in Slot |-> 0], read_pos |-> 0, write_pos |-> 0, size |-> 0]]
    /\ asyncevent = {}
    /\ call = [t \in Threads |-> Idle]
    /\ last = [t \in Threads |-> <<>>]

------------------------------------------------------------------------------
(* The kernel's event flag.  sceKernelSetEventFlag releases one thread whose  *)
(* wait the bit satisfies, and that thread's WAITCLEAR takes the bit with it; *)
(* only when nobody waits does the bit stay set.  s is where the threads are  *)
(* before the call.                                                           *)
SetEvent(c, s) ==
    LET waiters == {t \in Threads : s[t].at = "waiting" /\ s[t].chan = c}
    IN  \/ /\ waiters = {}
           /\ asyncevent' = asyncevent \cup {c}
           /\ call' = s
        \/ \E t \in waiters :
             /\ call' = [s EXCEPT ![t].at = "woken"]
             /\ asyncevent' = asyncevent \ {c}

(* fill_async's copy loop: n bytes of d from write_pos on, wrapping.          *)
Pushed(r, d, n) ==
    [buffer    |-> [i \in Slot |->
                      LET k == (i - r.write_pos) % BufSize
                      IN  IF k < n THEN d[k + 1] ELSE r.buffer[i]],
     read_pos  |-> r.read_pos,
     write_pos |-> (r.write_pos + n) % BufSize,
     size      |-> r.size + n]

(* usbAsyncReadWithTimeout's copy loop: the n bytes from read_pos on, and the *)
(* ring that is left.                                                         *)
Front(r, n) == [i \in 1 .. n |-> r.buffer[(r.read_pos + i - 1) % BufSize]]
Popped(r, n) ==
    [r EXCEPT !.read_pos = (@ + n) % BufSize, !.size = @ - n]

(* usbAsyncFlush's three assignments.                                         *)
EmptiedKeepsWrite(r) == [r EXCEPT !.size = 0, !.read_pos = 0]          \* mutant
Emptied(r) == [r EXCEPT !.size = 0, !.read_pos = 0, !.write_pos = 0]

FitsUnchecked(d, r) == Len(d)                                          \* mutant
Fits(d, r) == IF Len(d) < BufSize - r.size THEN Len(d) ELSE BufSize - r.size

------------------------------------------------------------------------------
(* fill_async, on the USB thread: a packet d for channel c.  A short packet,  *)
(* a wrong magic, a channel out of range or not registered changes nothing.   *)
fill_async(c, d) ==
    /\ chan[c] # NoEndp
    /\ ring' = [ring EXCEPT ![chan[c]] = Pushed(@, d, Fits(d, @))]
    /\ SetEvent(c, call)
    /\ UNCHANGED <<chan, last>>

(* usbAsyncRegister stores the endpoint and flushes it, interrupts disabled.  *)
(* An endpoint belongs to one caller, who registers it on one channel.        *)
Install(c, e) ==
    /\ chan[c] = NoEndp
    /\ \A b \in Chan : chan[b] # e
    /\ chan' = [chan EXCEPT ![c] = e]
    /\ ring' = [ring EXCEPT ![e] = Emptied(@)]
    /\ asyncevent' = asyncevent \ {c}
    /\ UNCHANGED <<call, last>>

usbAsyncRegister(t, c, e) ==
    /\ call[t].at = "idle"
    /\ Install(c, e)

(* ASYNC_ALLOC_CHAN: the first free channel from ASYNC_USER on.               *)
usbAsyncRegisterAlloc(t, e) ==
    /\ call[t].at = "idle"
    /\ \E c \in UserChan .. NumChan - 1 :
         /\ \A b \in UserChan .. c - 1 : chan[b] # NoEndp
         /\ Install(c, e)

usbAsyncUnregister(t, c) ==
    /\ call[t].at = "idle"
    /\ chan[c] # NoEndp
    /\ chan' = [chan EXCEPT ![c] = NoEndp]
    /\ UNCHANGED <<ring, asyncevent, call, last>>

------------------------------------------------------------------------------
(* usbAsyncReadWithTimeout up to sceKernelWaitEventFlag: the channel must be  *)
(* registered, and a bit already set is taken at once.                        *)
ReadEnter(t, c, n) ==
    /\ call[t].at = "idle"
    /\ chan[c] # NoEndp
    /\ call' = [call EXCEPT ![t] =
                   [at   |-> IF c \in asyncevent THEN "woken" ELSE "waiting",
                    chan |-> c,
                    len  |-> n]]
    /\ asyncevent' = asyncevent \ {c}
    /\ UNCHANGED <<chan, ring, last>>

(* The wait times out: the call returns -1.                                   *)
ReadTimeout(t) ==
    /\ call[t].at = "waiting"
    /\ call' = [call EXCEPT ![t] = Idle]
    /\ UNCHANGED <<chan, ring, asyncevent, last>>

(* Mutant: a read that leaves bytes behind does not set the bit again.        *)
ReadCopyNoSignal(t) ==
    LET e == chan[call[t].chan]
        n == IF call[t].len < ring[e].size THEN call[t].len ELSE ring[e].size
    IN  /\ call[t].at = "woken"
        /\ e # NoEndp
        /\ last' = [last EXCEPT ![t] = Front(ring[e], n)]
        /\ ring' = [ring EXCEPT ![e] = Popped(@, n)]
        /\ call' = [call EXCEPT ![t] = Idle]
        /\ UNCHANGED <<chan, asyncevent>>

(* The section after the wait, interrupts disabled.  The pointer is used      *)
(* without the check made before the wait: see NullDereference.               *)
ReadCopy(t) ==
    LET c == call[t].chan
        e == chan[c]
        n == IF call[t].len < ring[e].size THEN call[t].len ELSE ring[e].size
        s == [call EXCEPT ![t] = Idle]
    IN  /\ call[t].at = "woken"
        /\ e # NoEndp
        /\ last' = [last EXCEPT ![t] = Front(ring[e], n)]
        /\ ring' = [ring EXCEPT ![e] = Popped(@, n)]
        /\ IF ring[e].size # n
           THEN SetEvent(c, s)
           ELSE call' = s /\ UNCHANGED asyncevent
        /\ UNCHANGED chan

(* usbAsyncFlush checks the channel before it disables interrupts.            *)
FlushEnter(t, c) ==
    /\ call[t].at = "idle"
    /\ chan[c] # NoEndp
    /\ call' = [call EXCEPT ![t] = [at |-> "flushing", chan |-> c, len |-> 0]]
    /\ UNCHANGED <<chan, ring, asyncevent, last>>

FlushClear(t) ==
    LET c == call[t].chan
    IN  /\ call[t].at = "flushing"
        /\ chan[c] # NoEndp
        /\ ring' = [ring EXCEPT ![chan[c]] = Emptied(@)]
        /\ asyncevent' = asyncevent \ {c}
        /\ call' = [call EXCEPT ![t] = Idle]
        /\ UNCHANGED <<chan, last>>

(* ReadCopy or FlushClear on a channel that was unregistered meanwhile.       *)
NullDereference(t) ==
    /\ call[t].at \in {"woken", "flushing"}
    /\ chan[call[t].chan] = NoEndp
    /\ call' = [call EXCEPT ![t].at = IF @ = "woken" THEN "read_fault" ELSE "flush_fault"]
    /\ UNCHANGED <<chan, ring, asyncevent, last>>

------------------------------------------------------------------------------
(* Lengths a caller may ask for: len is capped by the bound BufSize.          *)
Lens == 1 .. BufSize

ThreadStep(t) ==
    \/ \E c \in Chan, e \in Endpoints : usbAsyncRegister(t, c, e)
    \/ \E e \in Endpoints : usbAsyncRegisterAlloc(t, e)
    \/ \E c \in Chan : usbAsyncUnregister(t, c)
    \/ \E c \in Chan, n \in Lens : ReadEnter(t, c, n)
    \/ ReadTimeout(t)
    \/ ReadCopy(t)
    \/ \E c \in Chan : FlushEnter(t, c)
    \/ FlushClear(t)
    \/ NullDereference(t)

Next ==
    \/ \E c \in Chan, d \in Packets : fill_async(c, d)
    \/ \E t \in Threads : ThreadStep(t)

Spec == Init /\ [][Next]_vars

------------------------------------------------------------------------------
(* The positions and the size always describe the same ring: write_pos is     *)
(* size bytes after read_pos.  Every function updates them separately.        *)
RingOK ==
    \A e \in Endpoints :
        ring[e].write_pos = (ring[e].read_pos + ring[e].size) % BufSize

Woken(c) == \E t \in Threads : call[t].at = "woken" /\ call[t].chan = c

(* Bytes in a registered ring are never forgotten: the channel's bit is set,  *)
(* or a reader that consumed the bit is on its way to the bytes.  A read that *)
(* leaves bytes behind, a fill of a full ring, a timeout and a flush all have *)
(* to keep this; without it a reader would sleep beside its data.             *)
NoLostData ==
    \A c \in Chan :
        chan[c] # NoEndp /\ ring[chan[c]].size > 0 => c \in asyncevent \/ Woken(c)

(* usbasync.h promises that a read returns a byte count or a negative error:  *)
(* it never faults because the channel went away while it waited.             *)
ReadReturns == \A t \in Threads : call[t].at # "read_fault"

(* The ring buffers implement the byte queues of AsyncPipe.                   *)
Contents(r) == Front(r, r.size)
Pipe == INSTANCE AsyncPipe WITH
            Capacity <- BufSize,
            queue <- [e \in Endpoints |-> Contents(ring[e])]
PipeSpec == Pipe!Spec

==============================================================================
