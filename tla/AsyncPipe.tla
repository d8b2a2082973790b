------------------------------ MODULE AsyncPipe ------------------------------
(* What the asynchronous channels of usbhostfs promise their users: every     *)
(* endpoint is a bounded first-in first-out queue of bytes.  A packet that    *)
(* does not fit loses its tail and nothing else; a read takes the oldest      *)
(* bytes; a flush (or a registration) empties the queue.                      *)
(* AsyncChan, the ring buffer of the code, is shown to implement this.        *)
EXTENDS Integers, Sequences

CONSTANTS
    Threads,      \* threads that read
    Endpoints,    \* the AsyncEndpoint structures
    Packets,      \* the payloads the PC may send, as sequences of bytes
    Capacity      \* MAX_ASYNC_BUFFER

VARIABLES
    queue,        \* queue[e]: the bytes waiting in endpoint e, oldest first
    last          \* last[t]: the bytes the latest read of thread t returned

vars == <<queue, last>>

Init ==
    /\ queue = [e \in Endpoints |-> <<>>]
    /\ last = [t \in Threads |-> <<>>]

(* The bytes of packet d that a queue holding n bytes still accepts.          *)
Accepted(d, n) ==
    SubSeq(d, 1, IF Len(d) < Capacity - n THEN Len(d) ELSE Capacity - n)

Deliver(e, d) ==
    /\ queue' = [queue EXCEPT ![e] = @ \o Accepted(d, Len(@))]
    /\ UNCHANGED last

Take(t, e, n) ==
    /\ n \in 0 .. Len(queue[e])
    /\ last' = [last EXCEPT ![t] = SubSeq(queue[e], 1, n)]
    /\ queue' = [queue EXCEPT ![e] = SubSeq(@, n + 1, Len(@))]

Clear(e) ==
    /\ queue' = [queue EXCEPT ![e] = <<>>]
    /\ UNCHANGED last

Next ==
    \E e \in Endpoints :
        \/ \E d \in Packets : Deliver(e, d)
        \/ \E t \in Threads, n \in 0 .. Capacity : Take(t, e, n)
        \/ Clear(e)

Spec == Init /\ [][Next]_vars

==============================================================================
