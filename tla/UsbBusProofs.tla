---------------------------- MODULE UsbBusProofs ----------------------------
(* Proofs about UsbBus for any number of clients, any payload and tx_buf      *)
(* size, any number of faults and of times the cable is plugged: its state is *)
(* well typed, g_mainsema is held by one thread at most and never lost, no    *)
(* bulk-in request is overwritten, usb_thread's picture of the connection is  *)
(* right, and both ends of the bus keep to the frames.                        *)
EXTENDS UsbBus, SequenceTheorems, TLAPS

(* What an exchange keeps true of its own record: a transfer it has not       *)
(* finished has units left, an async write is always in its frame, and the    *)
(* semaphore is not taken to read the attach magic.                           *)
Active(r) == r.at \in {"lock", "put", "putwait", "get", "getwait", "getcheck"}

CallOK(r) ==
    /\ Active(r) => r.done < Size(r)
    /\ r.op = "async" => r.stage = "frame"
    /\ r.at \in {"lock", "put", "putwait"} => r.stage # "magic"

CallsOK == \A p \in Threads : CallOK(th[p])

Holds(r) ==
    \/ r.at \in {"put", "putwait", "unlock", "held"}
    \/ r.at \in {"get", "getwait", "getcheck"} /\ r.stage # "magic"

IInv == TypeOK /\ BusOK /\ CallsOK

------------------------------------------------------------------------------
(* The helpers keep a call well formed and say whether it still holds the bus. *)

LEMMA SizeType ==
  ASSUME NEW r \in Call
  PROVE  Size(r) \in Nat
BY BusAssumption DEF Size, Call

LEMMA IdleOK ==
  /\ Idle \in Call /\ CallOK(Idle) /\ ~Holds(Idle)
  /\ Loop \in Call /\ CallOK(Loop) /\ ~Holds(Loop)
<1>1. Idle \in Call
  <2>1. 0 \in 0 .. DataLen
    BY BusAssumption
  <2> QED
    BY <2>1 DEF Idle, Call, At, Stage, AllOps
<1>2. Loop.at = "loop" /\ Loop.op = "usb"
  BY <1>1 DEF Loop, Call
<1>3. Loop \in Call
  BY <1>1 DEF Loop, Call, At
<1>4. CallOK(Idle) /\ ~Holds(Idle)
  BY DEF Idle, CallOK, Active, Holds
<1>5. CallOK(Loop) /\ ~Holds(Loop)
  BY <1>2 DEF CallOK, Active, Holds
<1> QED
  BY <1>1, <1>3, <1>4, <1>5

LEMMA FailedOK ==
  ASSUME NEW r \in Call, CallOK(r)
  PROVE  /\ Failed(r) \in Call
         /\ CallOK(Failed(r))
         /\ Holds(Failed(r)) <=> r.stage # "magic"
<1>1. CASE r.stage = "magic"
  BY <1>1, IdleOK DEF Failed
<1>2. CASE r.stage # "magic"
  BY <1>2 DEF Failed, Call, CallOK, Active, Holds, At
<1> QED
  BY <1>1, <1>2

LEMMA SucceededOK ==
  ASSUME NEW r \in Call, CallOK(r)
  PROVE  Succeeded(r) \in Call /\ CallOK(Succeeded(r)) /\ Holds(Succeeded(r))
BY DEF Succeeded, Call, CallOK, Active, Holds, At

LEMMA StagesOK ==
  ASSUME NEW r \in Call, CallOK(r), r.op # "async",
         NEW at \in At, NEW stage \in Stage \ {"magic"},
         stage = "data" => r.out > 0,
         stage = "extra" => r.in > 0
  PROVE  /\ Stages(r, at, stage) \in Call
         /\ CallOK(Stages(r, at, stage))
         /\ Holds(Stages(r, at, stage)) <=> at \in {"put", "putwait", "unlock", "held",
                                                   "get", "getwait", "getcheck"}
<1>1. Stages(r, at, stage) \in Call
  BY DEF Stages, Call
<1>2. /\ Stages(r, at, stage).at = at
      /\ Stages(r, at, stage).stage = stage
      /\ Stages(r, at, stage).done = 0
      /\ Stages(r, at, stage).op = r.op
      /\ Stages(r, at, stage).out = r.out
      /\ Stages(r, at, stage).in = r.in
  BY DEF Stages, Call
<1>3. 0 < Size(Stages(r, at, stage))
  BY <1>2, BusAssumption DEF Size, Stage, Call
<1> QED
  BY <1>1, <1>2, <1>3 DEF CallOK, Active, Holds

LEMMA WrittenOK ==
  ASSUME NEW r \in Call, CallOK(r)
  PROVE  Written(r) \in Call /\ CallOK(Written(r)) /\ Holds(Written(r))
<1>1. CASE r.stage = "header"
  <2>1. Written(r) = Stages(r, "put", "large")
    BY <1>1 DEF Written
  <2> QED
    BY <1>1, <2>1, StagesOK DEF CallOK, At, Stage
<1>2. CASE r.stage = "cmd" /\ r.out > 0
  <2>1. Written(r) = Stages(r, "put", "data")
    BY <1>2 DEF Written, Call
  <2> QED
    BY <1>2, <2>1, StagesOK DEF CallOK, At, Stage
<1>3. CASE r.stage = "data" \/ (r.stage = "cmd" /\ r.out = 0)
  <2>1. Written(r) = Stages(r, "get", "resp")
    BY <1>3 DEF Written, Call
  <2> QED
    BY <1>3, <2>1, StagesOK DEF CallOK, At, Stage
<1>4. CASE r.stage \notin {"header", "cmd", "data"}
  <2>1. Written(r) = Succeeded(r)
    BY <1>4 DEF Written
  <2> QED
    BY <2>1, SucceededOK
<1> QED
  BY <1>1, <1>2, <1>3, <1>4 DEF Call

LEMMA ReceivedOK ==
  ASSUME NEW r \in Call, CallOK(r), NEW u \in Unit, NEW accepted \in BOOLEAN
  PROVE  /\ Received(r, u, accepted) \in Call
         /\ CallOK(Received(r, u, accepted))
         /\ Holds(Received(r, u, accepted)) <=> r.stage # "magic"
<1>1. CASE ~accepted
  <2>1. Received(r, u, accepted) = Failed(r)
    BY <1>1 DEF Received
  <2> QED
    BY <2>1, FailedOK
<1>2. CASE accepted /\ r.stage = "magic"
  <2>1. Received(r, u, accepted) = Stages(r, "lock", "cmd")
    BY <1>2 DEF Received
  <2>2. r.op # "async"
    BY <1>2 DEF CallOK
  <2>3. "lock" \in At /\ "cmd" \in Stage \ {"magic"}
    BY DEF At, Stage
  <2>4. /\ Stages(r, "lock", "cmd") \in Call
        /\ CallOK(Stages(r, "lock", "cmd"))
        /\ ~Holds(Stages(r, "lock", "cmd"))
    BY <2>2, <2>3, StagesOK
  <2> QED
    BY <1>2, <2>1, <2>4
<1>3. CASE accepted /\ r.stage = "resp" /\ u.extra > 0 /\ r.in > 0
  <2>1. Received(r, u, accepted) = [Stages(r, "get", "extra") EXCEPT !.in = u.extra]
    BY <1>3 DEF Received
  <2>2. Stages(r, "get", "extra") \in Call
    BY <1>3, StagesOK DEF CallOK, At, Stage
  <2>3. u.extra \in 0 .. DataLen
    BY DEF Unit
  <2>4. Received(r, u, accepted) \in Call
    BY <2>1, <2>2, <2>3 DEF Call
  <2>5. /\ Received(r, u, accepted).at = "get"
        /\ Received(r, u, accepted).stage = "extra"
        /\ Received(r, u, accepted).done = 0
        /\ Received(r, u, accepted).op = r.op
        /\ Received(r, u, accepted).in = u.extra
    <3>1. PICK s \in Call : s = Stages(r, "get", "extra")
      BY <2>2
    <3>2. s.at = "get" /\ s.stage = "extra" /\ s.done = 0 /\ s.op = r.op
      BY <3>1 DEF Stages, Call
    <3> QED
      BY <2>1, <3>1, <3>2 DEF Call
  <2>6. CallOK(Received(r, u, accepted)) /\ Holds(Received(r, u, accepted))
    BY <1>3, <2>3, <2>5 DEF CallOK, Active, Size, Holds
  <2> QED
    BY <1>3, <2>4, <2>6
<1>4. CASE accepted /\ r.stage # "magic" /\ ~(r.stage = "resp" /\ u.extra > 0 /\ r.in > 0)
  <2>1. Received(r, u, accepted) = Succeeded(r)
    BY <1>4 DEF Received
  <2> QED
    BY <1>4, <2>1, SucceededOK
<1> QED
  BY <1>1, <1>2, <1>3, <1>4

------------------------------------------------------------------------------
(* A step of one thread that neither takes nor gives back the bus.            *)
LEMMA CallStep ==
  ASSUME IInv, NEW p \in Threads, NEW r \in Call, CallOK(r),
         th' = [th EXCEPT ![p] = r]
  PROVE  th' \in [Threads -> Call] /\ CallsOK'
BY DEF IInv, TypeOK, CallsOK

LEMMA BusKept ==
  ASSUME IInv, NEW p \in Threads, NEW r \in Call,
         th' = [th EXCEPT ![p] = r], sema' = sema, Holds(r) <=> Holds(th[p])
  PROVE  BusOK'
<1>1. \A q \in Threads : Holding(q)' <=> Holding(q)
  BY DEF IInv, TypeOK, Holding, Holds
<1> QED
  BY <1>1 DEF IInv, BusOK

(* A record changed only in where it is.                                      *)
LEMMA AtOK ==
  ASSUME NEW r \in Call, CallOK(r), NEW at \in At,
         at \in {"lock", "put", "putwait", "get", "getwait", "getcheck"} => Active(r),
         at \in {"lock", "put", "putwait"} => r.stage # "magic"
  PROVE  [r EXCEPT !.at = at] \in Call /\ CallOK([r EXCEPT !.at = at])
<1>1. [r EXCEPT !.at = at] \in Call
  BY DEF Call
<1>2. PICK s \in Call : s = [r EXCEPT !.at = at]
  BY <1>1
<1>3. /\ s.at = at /\ s.stage = r.stage /\ s.done = r.done /\ s.op = r.op
      /\ s.out = r.out /\ s.in = r.in
  BY <1>2 DEF Call
<1>4. Size(s) = Size(r)
  BY <1>3 DEF Size
<1> QED
  BY <1>1, <1>2, <1>3, <1>4 DEF CallOK, Active

(* A record whose transfer goes on.                                           *)
LEMMA DoneOK ==
  ASSUME NEW r \in Call, CallOK(r), Active(r), NEW at \in {"put", "get"},
         at = "put" => r.stage # "magic",
         NEW done \in Nat, done < Size(r)
  PROVE  /\ [r EXCEPT !.at = at, !.done = done] \in Call
         /\ CallOK([r EXCEPT !.at = at, !.done = done])
<1>1. [r EXCEPT !.at = at, !.done = done] \in Call
  BY DEF Call, At
<1>2. PICK s \in Call : s = [r EXCEPT !.at = at, !.done = done]
  BY <1>1
<1>3. /\ s.at = at /\ s.stage = r.stage /\ s.done = done /\ s.op = r.op
      /\ s.out = r.out /\ s.in = r.in
  BY <1>2 DEF Call
<1>4. Size(s) = Size(r)
  BY <1>3 DEF Size
<1> QED
  BY <1>1, <1>2, <1>3, <1>4 DEF CallOK, Active

(* Rest of the state: all but th, sema and the call records.                  *)
Shared ==
    /\ attached \in BOOLEAN
    /\ attaches \in Nat
    /\ faults \in Nat
    /\ mainevent \subseteq {"attach", "detach", "async", "connect"}
    /\ pending \subseteq {"attach", "detach", "async"}
    /\ connected \in BOOLEAN
    /\ transevent \subseteq {"in", "out"}
    /\ inreq \in [state : {"none", "sent", "done"}, from : Threads, off : Nat,
                  size : Nat, recv : Nat, fail : BOOLEAN]
    /\ outreq \in [state : {"none", "sent", "done"}, size : Nat, data : Seq(Unit),
                   fail : BOOLEAN]
    /\ asyncreq \in {"none", "sent", "filled", "failed"}
    /\ pc \in [from : Threads, got : Nat]
    /\ fromhost \in Seq(Unit)
    /\ insync \in BOOLEAN

LEMMA Split == TypeOK <=> Shared /\ sema \in {0, 1} /\ th \in [Threads -> Call]
BY DEF TypeOK, Shared

(* The shape of most steps: one thread moves on and keeps what it holds.      *)
LEMMA Moves ==
  ASSUME IInv, NEW p \in Threads, NEW r \in Call, CallOK(r),
         th' = [th EXCEPT ![p] = r], sema' = sema, Holds(r) <=> Holds(th[p]), Shared'
  PROVE  IInv'
<1>1. BusOK'
  BY BusKept
<1>2. th' \in [Threads -> Call] /\ CallsOK'
  BY CallStep
<1>3. sema' \in {0, 1}
  BY DEF IInv, TypeOK
<1>4. TypeOK'
  BY <1>2, <1>3 DEF TypeOK, Shared
<1> QED
  BY <1>1, <1>2, <1>4 DEF IInv

(* Steps of the PC and the controller leave the threads where they are.       *)
LEMMA Stays ==
  ASSUME IInv, th' = th, sema' = sema, Shared'
  PROVE  IInv'
<1>1. BusOK' /\ CallsOK'
  BY DEF IInv, BusOK, CallsOK, Holding
<1>2. TypeOK'
  BY DEF IInv, TypeOK, Shared
<1> QED
  BY <1>1, <1>2 DEF IInv

LEMMA InitOK == Init => IInv
<1> SUFFICES ASSUME Init PROVE IInv
  OBVIOUS
<1>1. NoIn \in [state : {"none", "sent", "done"}, from : Threads, off : Nat,
                size : Nat, recv : Nat, fail : BOOLEAN]
  BY DEF NoIn, Threads
<1>2. NoOut \in [state : {"none", "sent", "done"}, size : Nat, data : Seq(Unit),
                 fail : BOOLEAN]
  BY DEF NoOut
<1>3. Silent \in [from : Threads, got : Nat]
  BY DEF Silent, Threads
<1>4. th \in [Threads -> Call] /\ CallsOK /\ \A p \in Threads : ~Holds(th[p])
  BY IdleOK DEF Init, CallsOK
<1>5. TypeOK
  <2>1. Shared
    <3>1. attached \in BOOLEAN /\ connected \in BOOLEAN /\ insync \in BOOLEAN
      BY DEF Init
    <3>2. attaches \in Nat /\ faults \in Nat /\ fromhost \in Seq(Unit)
      BY DEF Init
    <3>3. mainevent = {} /\ pending = {} /\ transevent = {} /\ asyncreq = "none"
          /\ inreq = NoIn /\ outreq = NoOut /\ pc = Silent
      BY DEF Init
    <3> QED
      BY <1>1, <1>2, <1>3, <3>1, <3>2, <3>3 DEF Shared
  <2> QED
    BY <1>4, <2>1, Split DEF Init
<1>6. BusOK
  BY <1>4 DEF Init, BusOK, Holding, Holds
<1> QED
  BY <1>4, <1>5, <1>6 DEF IInv

------------------------------------------------------------------------------
(* Each action keeps the invariant.                                           *)

LEMMA BeginOK ==
  ASSUME IInv, NEW p \in Clients, Begin(p)
  PROVE  IInv'
<1> PICK op \in Ops : \E out \in Outs(op), in \in Ins(op) :
       th' = [th EXCEPT ![p] =
                [at |-> "lock", op |-> op, stage |-> FirstStage(op),
                 out |-> out, in |-> in, done |-> 0, ok |-> FALSE]]
  BY DEF Begin
<1>1. PICK out \in Outs(op), in \in Ins(op) :
        th' = [th EXCEPT ![p] =
                 [at |-> "lock", op |-> op, stage |-> FirstStage(op),
                  out |-> out, in |-> in, done |-> 0, ok |-> FALSE]]
  OBVIOUS
<1>2. PICK r : r = [at |-> "lock", op |-> op, stage |-> FirstStage(op),
                    out |-> out, in |-> in, done |-> 0, ok |-> FALSE]
  OBVIOUS
<1>3. op \in AllOps /\ FirstStage(op) \in {"frame", "header", "cmd"}
      /\ (op = "async" => FirstStage(op) = "frame")
  BY BusAssumption DEF FirstStage
<1>4. out \in Nat /\ in \in 0 .. DataLen
  BY <1>3, BusAssumption DEF Outs, Ins, AllOps
<1>5. r \in Call
  BY <1>2, <1>3, <1>4 DEF Call, At, Stage
<1>6. CallOK(r) /\ ~Holds(r)
  BY <1>2, <1>3 DEF CallOK, Active, Size, Holds
<1>7. p \in Threads /\ ~Holds(th[p])
  BY DEF Begin, Holds, Threads
<1>8. Shared'
  BY DEF Begin, IInv, TypeOK, Shared, host
<1> QED
  BY <1>1, <1>2, <1>5, <1>6, <1>7, <1>8, Moves DEF Begin

LEMMA WaitSemaOK ==
  ASSUME IInv, NEW p \in Threads, WaitSema(p)
  PROVE  IInv'
<1>1. PICK at \in {"held", "put"} : at = IF th[p].op = "lock" THEN "held" ELSE "put"
  OBVIOUS
<1>2. PICK r : r = [th[p] EXCEPT !.at = at]
  OBVIOUS
<1>3. th[p] \in Call /\ CallOK(th[p]) /\ th[p].stage # "magic" /\ Active(th[p])
  BY DEF IInv, TypeOK, CallsOK, CallOK, Active, WaitSema
<1>4. r \in Call /\ CallOK(r)
  BY <1>2, <1>3, AtOK DEF At
<1>5. th' = [th EXCEPT ![p] = r]
  BY <1>1, <1>2 DEF WaitSema, IInv, TypeOK
<1>6. th' \in [Threads -> Call] /\ CallsOK'
  BY <1>4, <1>5, CallStep
<1>7. TypeOK'
  BY <1>6 DEF WaitSema, IInv, TypeOK, host
<1>8. \A q \in Threads : ~Holding(q)
  BY DEF WaitSema, IInv, BusOK
<1>9. \A q \in Threads : Holding(q)' <=> q = p
  BY <1>1, <1>2, <1>3, <1>5, <1>8 DEF Holding, IInv, TypeOK, Call
<1>10. BusOK'
  BY <1>9 DEF BusOK, WaitSema
<1> QED
  BY <1>6, <1>7, <1>10 DEF IInv

LEMMA SignalSemaOK ==
  ASSUME IInv, NEW p \in Threads, SignalSema(p)
  PROVE  IInv'
<1>1. PICK r \in Call : /\ th' = [th EXCEPT ![p] = r]
                        /\ CallOK(r)
                        /\ ~Holds(r)
  <2>1. CASE p = UsbThread /\ th[p].ok
    <3>1. th' = [th EXCEPT ![p] = [Loop EXCEPT !.at = "arm"]]
      BY <2>1 DEF SignalSema
    <3>2. [Loop EXCEPT !.at = "arm"] \in Call /\ CallOK([Loop EXCEPT !.at = "arm"])
      BY IdleOK, AtOK DEF At
    <3>3. ~Holds([Loop EXCEPT !.at = "arm"])
      BY IdleOK DEF Holds, Call
    <3> QED
      BY <3>1, <3>2, <3>3
  <2>2. CASE p = UsbThread /\ ~th[p].ok
    <3>1. th' = [th EXCEPT ![p] = Loop]
      BY <2>2 DEF SignalSema
    <3> QED
      BY <3>1, IdleOK
  <2>3. CASE p # UsbThread /\ th[p].op = "async" /\ th[p].ok /\ th[p].out > 1
    <3>1. PICK s : s = [th[p] EXCEPT !.at = "lock", !.out = @ - 1, !.done = 0, !.ok = FALSE]
      OBVIOUS
    <3>2. th[p] \in Call /\ th[p].stage = "frame"
      BY <2>3 DEF IInv, TypeOK, CallsOK, CallOK
    <3>3. s \in Call
      <4>1. "lock" \in At /\ th[p].out - 1 \in Nat
        BY <2>3, <3>2 DEF At, Call
      <4> QED
        BY <3>1, <3>2, <4>1 DEF Call
    <3>4. s.at = "lock" /\ s.stage = "frame" /\ s.done = 0
      BY <3>1, <3>2 DEF Call
    <3>5. CallOK(s) /\ ~Holds(s)
      BY <3>4 DEF CallOK, Active, Holds, Size
    <3>6. th' = [th EXCEPT ![p] = s]
      BY <2>3, <3>1 DEF SignalSema
    <3> QED
      BY <3>3, <3>5, <3>6
  <2>4. CASE p # UsbThread /\ ~(th[p].op = "async" /\ th[p].ok /\ th[p].out > 1)
    <3>1. th' = [th EXCEPT ![p] = Idle]
      BY <2>4 DEF SignalSema
    <3> QED
      BY <3>1, IdleOK
  <2> QED
    BY <2>1, <2>2, <2>3, <2>4
<1>2. th' \in [Threads -> Call] /\ CallsOK'
  BY <1>1, CallStep
<1>3. TypeOK'
  BY <1>2 DEF SignalSema, IInv, TypeOK, host
<1>4. \A q \in Threads : Holding(q) <=> q = p
  BY DEF SignalSema, Holding, IInv, BusOK
<1>5. \A q \in Threads : ~Holding(q)'
  BY <1>1, <1>4 DEF Holding, Holds, IInv, TypeOK
<1>6. BusOK'
  BY <1>5 DEF BusOK, SignalSema
<1> QED
  BY <1>2, <1>3, <1>6 DEF IInv

LEMMA PutOK ==
  ASSUME IInv, NEW p \in Threads, Put(p)
  PROVE  IInv'
<1>1. th[p] \in Call /\ CallOK(th[p]) /\ th[p].at = "put"
  BY DEF IInv, TypeOK, CallsOK, Put
<1>2. th[p].stage # "magic" /\ th[p].done < Size(th[p]) /\ Active(th[p])
  BY <1>1 DEF CallOK, Active
<1>3. PICK r : r = [th[p] EXCEPT !.at = "putwait"]
  OBVIOUS
<1>4. r \in Call /\ CallOK(r)
  BY <1>1, <1>2, <1>3, AtOK DEF At
<1>5. Holds(r) /\ Holds(th[p])
  BY <1>1, <1>3 DEF Holds, Call
<1>6. th' = [th EXCEPT ![p] = r]
  BY <1>3 DEF Put, IInv, TypeOK
<1>7. PICK left \in Nat, off \in Nat : /\ left = Size(th[p]) - th[p].done
                                     /\ off = Offset(th[p]) + th[p].done
  <2>1. Size(th[p]) \in Nat /\ th[p].done \in Nat /\ Offset(th[p]) \in Nat
    BY <1>1, SizeType DEF Call, Offset
  <2> QED
    BY <1>2, <2>1
<1>8. PICK n \in Nat : n = IF th[p].stage = "large" THEN left ELSE Min2(left, TxMax)
  BY BusAssumption DEF Min2
<1>9. PICK state \in {"none", "sent", "done"} :
         state = IF attached \/ ~Rejects THEN "sent" ELSE "none"
  OBVIOUS
<1>10. inreq' = [state |-> state, from |-> p, off |-> off, size |-> n,
                 recv |-> 0, fail |-> FALSE]
  BY <1>7, <1>8, <1>9 DEF Put, NoIn
<1>11. inreq' \in [state : {"none", "sent", "done"}, from : Threads, off : Nat,
                   size : Nat, recv : Nat, fail : BOOLEAN]
  BY <1>10
<1>12. Shared'
  BY <1>11 DEF Put, IInv, TypeOK, Shared, host
<1> QED
  BY <1>4, <1>5, <1>6, <1>12, Moves DEF Put

LEMMA PutDoneOK ==
  ASSUME IInv, NEW p \in Threads, PutDone(p)
  PROVE  IInv'
<1>1. th[p] \in Call /\ CallOK(th[p]) /\ th[p].at = "putwait"
  BY DEF IInv, TypeOK, CallsOK, PutDone
<1>2. th[p].stage # "magic" /\ Active(th[p]) /\ Holds(th[p])
  BY <1>1 DEF CallOK, Active, Holds
<1>3. PICK done \in Nat : done = th[p].done + inreq.recv
  BY <1>1 DEF IInv, TypeOK, Call
<1>4. PICK r \in Call : th' = [th EXCEPT ![p] = r] /\ CallOK(r) /\ Holds(r)
  <2>1. CASE th' = [th EXCEPT ![p] = Failed(th[p])]
    BY <1>1, <1>2, <2>1, FailedOK
  <2>2. CASE th' = [th EXCEPT ![p] = Written(th[p])]
    BY <1>1, <2>2, WrittenOK
  <2>3. CASE /\ th' = [th EXCEPT ![p] = [th[p] EXCEPT !.at = "put", !.done = done]]
             /\ done < Size(th[p])
    <3>1. [th[p] EXCEPT !.at = "put", !.done = done] \in Call
          /\ CallOK([th[p] EXCEPT !.at = "put", !.done = done])
      BY <1>1, <1>2, <1>3, <2>3, DoneOK
    <3>2. Holds([th[p] EXCEPT !.at = "put", !.done = done])
      BY <1>1 DEF Holds, Call
    <3> QED
      BY <2>3, <3>1, <3>2
  <2>4. th' = [th EXCEPT ![p] =
                  IF inreq.fail \/ inreq.recv = 0 THEN Failed(th[p])
                  ELSE CASE th[p].stage = "large" \/ done = Size(th[p]) -> Written(th[p])
                         [] th[p].stage # "large" /\ done < Size(th[p]) ->
                              [th[p] EXCEPT !.at = "put", !.done = done]
                         [] OTHER -> Failed(th[p])]
    BY <1>3 DEF PutDone
  <2>5. CASE inreq.fail \/ inreq.recv = 0
    BY <2>1, <2>4, <2>5
  <2>6. CASE ~(inreq.fail \/ inreq.recv = 0) /\ (th[p].stage = "large" \/ done = Size(th[p]))
    <3>1. ~(th[p].stage # "large" /\ done < Size(th[p]))
      BY <1>1, <1>3, <2>6, SizeType
    <3> QED
      BY <2>2, <2>4, <2>6, <3>1
  <2>7. CASE /\ ~(inreq.fail \/ inreq.recv = 0)
             /\ th[p].stage # "large" /\ done < Size(th[p])
    <3>1. ~(th[p].stage = "large" \/ done = Size(th[p]))
      BY <1>1, <1>3, <2>7, SizeType
    <3> QED
      BY <2>3, <2>4, <2>7, <3>1
  <2>8. CASE /\ ~(inreq.fail \/ inreq.recv = 0)
             /\ ~(th[p].stage = "large" \/ done = Size(th[p]))
             /\ ~(th[p].stage # "large" /\ done < Size(th[p]))
    BY <2>1, <2>4, <2>8
  <2> QED
    BY <2>5, <2>6, <2>7, <2>8
<1>5. Shared'
  BY DEF PutDone, IInv, TypeOK, Shared, host
<1> QED
  BY <1>2, <1>4, <1>5, Moves DEF PutDone

LEMMA GetOK ==
  ASSUME IInv, NEW p \in Threads, Get(p)
  PROVE  IInv'
<1>1. th[p] \in Call /\ CallOK(th[p]) /\ th[p].at = "get"
  BY DEF IInv, TypeOK, CallsOK, Get
<1>2. th[p].done < Size(th[p]) /\ Active(th[p])
  BY <1>1 DEF CallOK, Active
<1>3. Holds(th[p]) <=> th[p].stage # "magic"
  BY <1>1 DEF Holds
<1>4. PICK r \in Call : /\ th' = [th EXCEPT ![p] = r] /\ CallOK(r)
                        /\ Holds(r) <=> th[p].stage # "magic"
  <2>1. CASE attached \/ ~Rejects
    <3>1. th' = [th EXCEPT ![p] = [th[p] EXCEPT !.at = "getwait"]]
      BY <2>1 DEF Get
    <3>2. [th[p] EXCEPT !.at = "getwait"] \in Call /\ CallOK([th[p] EXCEPT !.at = "getwait"])
      BY <1>1, <1>2, AtOK DEF At
    <3>3. Holds([th[p] EXCEPT !.at = "getwait"]) <=> th[p].stage # "magic"
      BY <1>1 DEF Holds, Call
    <3> QED
      BY <3>1, <3>2, <3>3
  <2>2. CASE ~(attached \/ ~Rejects)
    <3>1. th' = [th EXCEPT ![p] = Failed(th[p])]
      BY <2>2 DEF Get
    <3> QED
      BY <1>1, <3>1, FailedOK
  <2> QED
    BY <2>1, <2>2
<1>5. PICK n \in Nat : n = Size(th[p]) - th[p].done
  <2>1. Size(th[p]) \in Nat /\ th[p].done \in Nat
    BY <1>1, SizeType DEF Call
  <2> QED
    BY <1>2, <2>1
<1>6. PICK state \in {"none", "sent", "done"} :
         state = IF attached \/ ~Rejects THEN "sent" ELSE "none"
  OBVIOUS
<1>7. outreq' = [state |-> state, size |-> n, data |-> <<>>, fail |-> FALSE]
  BY <1>5, <1>6 DEF Get, NoOut
<1>8. outreq' \in [state : {"none", "sent", "done"}, size : Nat, data : Seq(Unit),
                   fail : BOOLEAN]
  BY <1>7
<1>9. Shared'
  BY <1>8 DEF Get, IInv, TypeOK, Shared, host
<1> QED
  BY <1>3, <1>4, <1>9, Moves DEF Get

LEMMA GetDoneOK ==
  ASSUME IInv, NEW p \in Threads, GetDone(p)
  PROVE  IInv'
<1>1. th[p] \in Call /\ CallOK(th[p]) /\ th[p].at = "getwait" /\ Active(th[p])
  BY DEF IInv, TypeOK, CallsOK, GetDone, Active
<1>2. PICK r : r = [th[p] EXCEPT !.at = "getcheck"]
  OBVIOUS
<1>3. r \in Call /\ CallOK(r)
  BY <1>1, <1>2, AtOK DEF At
<1>4. Holds(r) <=> Holds(th[p])
  BY <1>1, <1>2 DEF Holds, Call
<1>5. th' = [th EXCEPT ![p] = r]
  BY <1>2 DEF GetDone, IInv, TypeOK
<1>6. Shared'
  BY DEF GetDone, IInv, TypeOK, Shared, host
<1> QED
  BY <1>3, <1>4, <1>5, <1>6, Moves DEF GetDone

LEMMA GetCheckOK ==
  ASSUME IInv, NEW p \in Threads, GetCheck(p)
  PROVE  IInv'
<1>1. th[p] \in Call /\ CallOK(th[p]) /\ th[p].at = "getcheck" /\ Active(th[p])
  BY DEF IInv, TypeOK, CallsOK, GetCheck, Active
<1>2. Holds(th[p]) <=> th[p].stage # "magic"
  BY <1>1 DEF Holds
<1>3. outreq.data \in Seq(Unit)
  BY DEF IInv, TypeOK
<1>4. PICK done \in Nat : done = th[p].done + Len(outreq.data)
  BY <1>1, <1>3, LenProperties DEF Call
<1>5. PICK r \in Call : /\ th' = [th EXCEPT ![p] = r] /\ CallOK(r)
                        /\ Holds(r) <=> th[p].stage # "magic"
  <2>1. CASE th' = [th EXCEPT ![p] = Failed(th[p])]
    BY <1>1, <2>1, FailedOK
  <2>2. CASE done < Size(th[p]) /\ th' = [th EXCEPT ![p].at = "get", ![p].done = done]
    <3>1. th' = [th EXCEPT ![p] = [th[p] EXCEPT !.at = "get", !.done = done]]
      BY <1>1, <2>2 DEF IInv, TypeOK
    <3>2. [th[p] EXCEPT !.at = "get", !.done = done] \in Call
          /\ CallOK([th[p] EXCEPT !.at = "get", !.done = done])
      BY <1>1, <1>4, <2>2, DoneOK
    <3>3. Holds([th[p] EXCEPT !.at = "get", !.done = done]) <=> th[p].stage # "magic"
      BY <1>1 DEF Holds, Call
    <3> QED
      BY <3>1, <3>2, <3>3
  <2>3. ASSUME outreq.data # <<>>, NEW accepted \in BOOLEAN,
               th' = [th EXCEPT ![p] = Received(th[p], outreq.data[1], accepted)]
        PROVE  \E r \in Call : /\ th' = [th EXCEPT ![p] = r] /\ CallOK(r)
                               /\ Holds(r) <=> th[p].stage # "magic"
    <3>1. outreq.data[1] \in Unit
      BY <1>3, <2>3
    <3> QED
      BY <1>1, <2>3, <3>1, ReceivedOK
  <2> QED
    BY <1>4, <2>1, <2>2, <2>3 DEF GetCheck
<1>6. Shared'
  BY DEF GetCheck, IInv, TypeOK, Shared, host
<1> QED
  BY <1>2, <1>5, <1>6, Moves DEF GetCheck

------------------------------------------------------------------------------
(* usb_thread's own steps: it neither holds the bus before nor after them.    *)
LEMMA UsbMoves ==
  ASSUME IInv, NEW r \in Call, CallOK(r), ~Holds(r), ~Holds(th[UsbThread]),
         th' = [th EXCEPT ![UsbThread] = r], sema' = sema, Shared'
  PROVE  IInv'
BY Moves DEF Threads

LEMMA UsbStepOK ==
  ASSUME IInv, UsbStep
  PROVE  IInv'
<1>1. PICK u \in Call : u = th[UsbThread] /\ CallOK(u)
  BY DEF IInv, TypeOK, CallsOK, Threads
<1>2. /\ u.at \in {"loop", "async", "detach", "attach", "arm", "connect"}
      /\ ~Holds(u)
  BY <1>1 DEF UsbStep, UsbWake, UsbAsync, UsbDetach, UsbAttach, UsbArm, UsbConnect, Holds
<1>3. ASSUME NEW at \in {"async", "detach", "connect"}
      PROVE  /\ [u EXCEPT !.at = at] \in Call
             /\ CallOK([u EXCEPT !.at = at])
             /\ ~Holds([u EXCEPT !.at = at])
  <2>1. at \in At
    BY DEF At
  <2>2. [u EXCEPT !.at = at] \in Call /\ CallOK([u EXCEPT !.at = at])
    BY <1>1, <2>1, AtOK
  <2>3. [u EXCEPT !.at = at].at = at
    BY DEF Call
  <2> QED
    BY <2>2, <2>3 DEF Holds
<1>4. Loop \in Call /\ CallOK(Loop) /\ ~Holds(Loop)
  BY IdleOK
<1>5. Shared
  BY DEF IInv, TypeOK, Shared
<1>6. CASE UsbWake
  <2>1. th' = [th EXCEPT ![UsbThread] = [u EXCEPT !.at = "async"]]
    BY <1>1, <1>6 DEF UsbWake, IInv, TypeOK
  <2>2. Shared'
    BY <1>5, <1>6 DEF UsbWake, Shared, host
  <2> QED
    BY <1>1, <1>2, <1>3, <1>6, <2>1, <2>2, UsbMoves DEF UsbWake
<1>7. CASE UsbAsync
  <2>1. th' = [th EXCEPT ![UsbThread] = [u EXCEPT !.at = "detach"]]
    BY <1>1, <1>7 DEF UsbAsync, IInv, TypeOK
  <2>2. Shared'
    BY <1>5, <1>7 DEF UsbAsync, ArmAsync, Shared, host
  <2> QED
    BY <1>1, <1>2, <1>3, <1>7, <2>1, <2>2, UsbMoves DEF UsbAsync
<1>8. ASSUME NEW event, NEW r \in Call, CallOK(r), ~Holds(r), Disconnect(event, r)
      PROVE  IInv'
  <2>1. Shared'
    BY <1>5, <1>8 DEF Disconnect, Shared, host
  <2> QED
    BY <1>1, <1>2, <1>8, <2>1, UsbMoves DEF Disconnect
<1>9. CASE UsbDetach
  <2>1. /\ [Loop EXCEPT !.at = "attach"] \in Call
        /\ CallOK([Loop EXCEPT !.at = "attach"])
        /\ ~Holds([Loop EXCEPT !.at = "attach"])
    <3>1. "attach" \in At
      BY DEF At
    <3>2. [Loop EXCEPT !.at = "attach"].at = "attach"
      BY <1>4 DEF Call
    <3> QED
      BY <1>4, <3>1, <3>2, AtOK DEF Holds
  <2> QED
    BY <1>8, <1>9, <2>1 DEF UsbDetach
<1>10. CASE UsbAttach
  <2>1. PICK s : s = Stages(Loop, "get", "magic")
    OBVIOUS
  <2>2. s \in Call
    BY <1>4, <2>1 DEF Stages, Call, At, Stage
  <2>3. s.at = "get" /\ s.stage = "magic" /\ s.done = 0 /\ s.op = "usb"
    <3>1. Loop.op = "usb"
      BY IdleOK DEF Loop, Call
    <3> QED
      BY <1>4, <2>1, <3>1 DEF Stages, Call
  <2>4. CallOK(s) /\ ~Holds(s)
    BY <2>3 DEF CallOK, Active, Holds, Size
  <2>5. Disconnect("attach", s) \/ Disconnect("attach", Loop)
    BY <1>10, <2>1 DEF UsbAttach
  <2> QED
    BY <1>4, <1>8, <2>2, <2>4, <2>5
<1>11. CASE UsbArm
  <2>1. th' = [th EXCEPT ![UsbThread] = [u EXCEPT !.at = "connect"]]
    BY <1>1, <1>11 DEF UsbArm, IInv, TypeOK
  <2>2. Shared'
    BY <1>5, <1>11 DEF UsbArm, ArmAsync, Shared, host
  <2> QED
    BY <1>1, <1>2, <1>3, <1>11, <2>1, <2>2, UsbMoves DEF UsbArm
<1>12. CASE UsbConnect
  <2>1. Shared'
    BY <1>5, <1>12 DEF UsbConnect, Shared, host
  <2> QED
    BY <1>1, <1>2, <1>4, <1>12, <2>1, UsbMoves DEF UsbConnect
<1> QED
  BY <1>6, <1>7, <1>9, <1>10, <1>11, <1>12 DEF UsbStep

------------------------------------------------------------------------------
(* The PC, the controller and the cable.                                      *)

LEMMA PcReceivesOK ==
  ASSUME IInv, PcReceives
  PROVE  IInv'
<1>1. PICK n \in Nat : PcReceive(n)
  BY DEF PcReceives, IInv, TypeOK
<1>2. Shared
  BY DEF IInv, TypeOK, Shared
<1>3. /\ inreq.from \in Threads /\ inreq.off + n \in Nat
      /\ inreq' = [inreq EXCEPT !.state = "done", !.recv = n]
  BY <1>1, <1>2 DEF PcReceive, Shared
<1>4. inreq' \in [state : {"none", "sent", "done"}, from : Threads, off : Nat,
                  size : Nat, recv : Nat, fail : BOOLEAN]
  BY <1>2, <1>3 DEF Shared
<1>5. pc' \in [from : Threads, got : Nat]
  BY <1>1, <1>3 DEF PcReceive, Silent, Threads
<1>6. fromhost' \in Seq(Unit)
  <2>1. CASE UNCHANGED fromhost
    BY <1>2, <2>1 DEF Shared
  <2>2. ASSUME NEW k \in 0 .. th[inreq.from].in,
               fromhost' = <<[[kind |-> "resp", to |-> inreq.from, extra |-> 0]
                              EXCEPT !.extra = k]>> \o
                           [i \in 1 .. k |->
                              [[kind |-> "resp", to |-> inreq.from, extra |-> 0]
                               EXCEPT !.kind = "extra"]]
        PROVE  fromhost' \in Seq(Unit)
    <3>1. th[inreq.from] \in Call
      BY <1>3 DEF IInv, TypeOK
    <3>2. k \in 0 .. DataLen /\ k \in Nat /\ 0 \in 0 .. DataLen
      BY <3>1, <2>2, BusAssumption DEF Call
    <3>3. [kind |-> "resp", to |-> inreq.from, extra |-> 0] \in Unit
      BY <1>3, <3>2 DEF Unit
    <3>4. [[kind |-> "resp", to |-> inreq.from, extra |-> 0] EXCEPT !.extra = k] \in Unit
      BY <3>2, <3>3 DEF Unit
    <3>5. [[kind |-> "resp", to |-> inreq.from, extra |-> 0] EXCEPT !.kind = "extra"] \in Unit
      BY <3>3 DEF Unit
    <3>6. PICK e \in Unit : e = [[kind |-> "resp", to |-> inreq.from, extra |-> 0]
                                EXCEPT !.kind = "extra"]
      BY <3>5
    <3>7. PICK b : b = [i \in 1 .. k |-> e]
      OBVIOUS
    <3>8. b \in Seq(Unit)
      BY <3>2, <3>7
    <3>9. PICK v \in Unit : v = [[kind |-> "resp", to |-> inreq.from, extra |-> 0]
                                EXCEPT !.extra = k]
      BY <3>4
    <3>10. fromhost' = <<v>> \o b
      BY ONLY <2>2, <3>6, <3>7, <3>9
    <3>11. <<v>> \in Seq(Unit)
      OBVIOUS
    <3> QED
      BY <3>8, <3>10, <3>11, ConcatProperties
  <2> QED
    BY <1>1, <2>1, <2>2 DEF PcReceive
<1>7. insync' \in BOOLEAN
  BY <1>1 DEF PcReceive
<1>8. Shared'
  BY <1>1, <1>2, <1>4, <1>5, <1>6, <1>7 DEF PcReceive, Shared
<1> QED
  BY <1>1, <1>8, Stays DEF PcReceive

LEMMA PcSendsOK ==
  ASSUME IInv, PcSends
  PROVE  IInv'
<1>1. Shared
  BY DEF IInv, TypeOK, Shared
<1>2. fromhost \in Seq(Unit) /\ Len(fromhost) \in Nat /\ outreq.size \in Nat
  BY <1>1, LenProperties DEF Shared
<1>3. PICK n \in 1 .. Min2(outreq.size, Len(fromhost)) :
        /\ outreq' = [outreq EXCEPT !.state = "done", !.data = SubSeq(fromhost, 1, n)]
        /\ fromhost' = SubSeq(fromhost, n + 1, Len(fromhost))
  BY DEF PcSends
<1>4. n \in 1 .. Len(fromhost)
  BY <1>2, <1>3 DEF Min2
<1>5. SubSeq(fromhost, 1, n) \in Seq(Unit)
  BY <1>2, <1>4, SubSeqProperties
<1>6. SubSeq(fromhost, n + 1, Len(fromhost)) \in Seq(Unit)
  <2>1. n + 1 \in 1 .. Len(fromhost) + 1 /\ Len(fromhost) \in n + 1 - 1 .. Len(fromhost)
    BY <1>2, <1>4
  <2> QED
    BY <1>2, <2>1, SubSeqProperties
<1>7. outreq' \in [state : {"none", "sent", "done"}, size : Nat, data : Seq(Unit),
                   fail : BOOLEAN]
  BY <1>1, <1>3, <1>5 DEF Shared
<1>8. Shared'
  BY <1>1, <1>3, <1>6, <1>7 DEF PcSends, Shared
<1> QED
  BY <1>8, Stays DEF PcSends

LEMMA PcSendsAsyncOK ==
  ASSUME IInv, PcSendsAsync
  PROVE  IInv'
<1>1. Shared'
  BY DEF PcSendsAsync, host, IInv, TypeOK, Shared
<1> QED
  BY <1>1, Stays DEF PcSendsAsync

LEMMA FailsOK ==
  ASSUME IInv, FailIn \/ FailOut \/ FailAsync,
         attached' = attached, attaches' = attaches, faults' \in Nat, pc' = pc,
         fromhost' = fromhost, insync' = insync
  PROVE  IInv'
<1>1. Shared
  BY DEF IInv, TypeOK, Shared
<1>2. inreq' \in [state : {"none", "sent", "done"}, from : Threads, off : Nat,
                  size : Nat, recv : Nat, fail : BOOLEAN]
  BY <1>1 DEF FailIn, FailOut, FailAsync, Shared
<1>3. outreq' \in [state : {"none", "sent", "done"}, size : Nat, data : Seq(Unit),
                   fail : BOOLEAN]
  BY <1>1 DEF FailIn, FailOut, FailAsync, Shared
<1>4. Shared'
  BY <1>1, <1>2, <1>3 DEF FailIn, FailOut, FailAsync, Shared
<1> QED
  BY <1>4, Stays DEF FailIn, FailOut, FailAsync

LEMMA CableOK ==
  ASSUME IInv, usb_attach \/ usb_detach
  PROVE  IInv'
<1>1. Shared
  BY DEF IInv, TypeOK, Shared
<1>2. CASE usb_attach
  <2>1. [kind |-> "magic", to |-> UsbThread, extra |-> 0] \in Unit
    <3>1. 0 \in 0 .. DataLen
      BY BusAssumption
    <3> QED
      BY <3>1 DEF Unit, Threads
  <2>2. fromhost' \in Seq(Unit)
    BY <1>2, <2>1 DEF usb_attach
  <2>3. pc' \in [from : Threads, got : Nat]
    BY <1>2 DEF usb_attach, Silent, Threads
  <2>4. attached' \in BOOLEAN
    BY <1>2 DEF usb_attach
  <2>5. Shared'
    BY <1>1, <1>2, <2>2, <2>3, <2>4 DEF usb_attach, Shared
  <2> QED
    BY <1>2, <2>5, Stays DEF usb_attach
<1>3. CASE usb_detach
  <2>1. attached' \in BOOLEAN
    BY <1>3 DEF usb_detach
  <2>2. fromhost' \in Seq(Unit)
    BY <1>3 DEF usb_detach
  <2>3. Shared'
    BY <1>1, <1>3, <2>1, <2>2 DEF usb_detach, Shared
  <2> QED
    BY <1>3, <2>3, Stays DEF usb_detach
<1> QED
  BY <1>2, <1>3

LEMMA NextOK == IInv /\ [Next]_vars => IInv'
<1> SUFFICES ASSUME IInv, [Next]_vars PROVE IInv'
  OBVIOUS
<1>1. CASE UNCHANGED vars
  <2>1. Shared'
    BY <1>1 DEF IInv, TypeOK, Shared, vars
  <2> QED
    BY <1>1, <2>1, Stays DEF vars
<1>2. CASE \E p \in Clients : Begin(p)
  BY <1>2, BeginOK
<1>3. CASE \E p \in Threads : Exchange(p)
  BY <1>3, WaitSemaOK, SignalSemaOK, PutOK, PutDoneOK, GetOK, GetDoneOK, GetCheckOK
     DEF Exchange
<1>4. CASE UsbStep
  BY <1>4, UsbStepOK
<1>5. CASE PcReceives \/ PcSends \/ PcSendsAsync
  BY <1>5, PcReceivesOK, PcSendsOK, PcSendsAsyncOK
<1>6. CASE Cancel
  BY <1>6, FailsOK DEF Cancel, host, IInv, TypeOK
<1>7. CASE Fault
  BY <1>7, FailsOK DEF Fault, IInv, TypeOK
<1>8. CASE usb_attach \/ usb_detach
  BY <1>8, CableOK
<1> QED
  BY <1>1, <1>2, <1>3, <1>4, <1>5, <1>6, <1>7, <1>8 DEF Next

LEMMA Invariance == Spec => []IInv
BY InitOK, NextOK, PTL DEF Spec

(* The state of the bus is always well typed.                                 *)
THEOREM TypeCorrect == Spec => []TypeOK
BY Invariance, PTL DEF IInv

(* One thread at most is inside an exchange and g_mainsema is down exactly    *)
(* while one is, for any number of clients and whatever goes wrong on the     *)
(* cable: no path of command_xchg, send_async or usbWriteBulkData loses the   *)
(* semaphore or signals it twice.                                             *)
THEOREM BusCorrect == Spec => []BusOK
BY Invariance, PTL DEF IInv

------------------------------------------------------------------------------
(* While the bulk-in request is with the controller its completion bit is     *)
(* clear, and the thread that sent it has not gone on.                        *)
InSafe ==
    inreq.state = "sent" =>
        "in" \notin transevent /\ \E p \in Threads : th[p].at = "putwait"

LEMMA InSafeKept ==
  ASSUME InSafe, inreq' = inreq, "in" \in transevent' => "in" \in transevent,
         \A q \in Threads : th[q].at = "putwait" => th[q]'.at = "putwait"
  PROVE  InSafe' /\ InKept
BY DEF InSafe, InKept

LEMMA InSafeExchange ==
  ASSUME IInv, InSafe, NEW p \in Threads, Exchange(p)
  PROVE  InSafe' /\ InKept
<1>1. ASSUME inreq' = inreq, "in" \in transevent' => "in" \in transevent,
             th[p].at # "putwait", \A q \in Threads : q # p => th[q]' = th[q]
      PROVE  InSafe' /\ InKept
  BY <1>1, InSafeKept
<1>2. CASE WaitSema(p)
  BY <1>1, <1>2 DEF WaitSema, IInv, TypeOK
<1>3. CASE SignalSema(p)
  BY <1>1, <1>3 DEF SignalSema, IInv, TypeOK
<1>4. CASE Put(p)
  <2>1. inreq.state # "sent"
    BY <1>4 DEF Put, InSafe, IInv, BusOK, Holding
  <2>2. "in" \notin transevent' /\ th[p]'.at = "putwait"
    BY <1>4 DEF Put, IInv, TypeOK, Call
  <2> QED
    BY <2>1, <2>2 DEF InSafe, InKept
<1>5. CASE PutDone(p)
  <2>1. inreq.state # "sent" /\ inreq' = inreq
    BY <1>5 DEF PutDone, InSafe
  <2> QED
    BY <2>1 DEF InSafe, InKept
<1>6. CASE Get(p)
  BY <1>1, <1>6 DEF Get, IInv, TypeOK
<1>7. CASE GetDone(p)
  BY <1>1, <1>7 DEF GetDone, IInv, TypeOK
<1>8. CASE GetCheck(p)
  <2>1. \A q \in Threads : q # p => th[q]' = th[q]
    BY <1>8 DEF GetCheck, IInv, TypeOK
  <2> QED
    BY <1>1, <1>8, <2>1 DEF GetCheck
<1> QED
  BY <1>2, <1>3, <1>4, <1>5, <1>6, <1>7, <1>8 DEF Exchange

LEMMA InSafeUsb ==
  ASSUME IInv, InSafe, UsbStep
  PROVE  InSafe' /\ InKept
<1>1. inreq' = inreq /\ transevent' = transevent
  BY DEF UsbStep, UsbWake, UsbAsync, UsbDetach, UsbAttach, UsbArm, UsbConnect, Disconnect
<1>2. th[UsbThread].at # "putwait"
  BY DEF UsbStep, UsbWake, UsbAsync, UsbDetach, UsbAttach, UsbArm, UsbConnect
<1>3. \A q \in Threads : q # UsbThread => th[q]' = th[q]
  BY DEF UsbStep, UsbWake, UsbAsync, UsbDetach, UsbAttach, UsbArm, UsbConnect, Disconnect,
         IInv, TypeOK
<1> QED
  BY <1>1, <1>2, <1>3, InSafeKept

LEMMA InSafeNext == IInv /\ InSafe /\ [Next]_vars => InSafe' /\ [InKept]_vars
<1> SUFFICES ASSUME IInv, InSafe, [Next]_vars PROVE InSafe' /\ InKept
  OBVIOUS
<1>1. ASSUME inreq' = inreq, "in" \in transevent' => "in" \in transevent, th' = th
      PROVE  InSafe' /\ InKept
  BY <1>1, InSafeKept
<1>2. ASSUME inreq'.state # "sent"
      PROVE  InSafe' /\ InKept
  BY <1>2 DEF InSafe, InKept
<1>3. CASE UNCHANGED vars
  BY <1>1, <1>3 DEF vars
<1>4. ASSUME NEW p \in Clients, Begin(p) PROVE InSafe' /\ InKept
  <2>1. \A q \in Threads : th[q].at = "putwait" => th[q]' = th[q]
    BY <1>4 DEF Begin, IInv, TypeOK
  <2> QED
    BY <1>4, <2>1, InSafeKept DEF Begin
<1>5. CASE \E p \in Threads : Exchange(p)
  BY <1>5, InSafeExchange
<1>6. CASE UsbStep
  BY <1>6, InSafeUsb
<1>7. CASE PcReceives
  BY <1>2, <1>7 DEF PcReceives, PcReceive, IInv, TypeOK
<1>8. CASE PcSends \/ PcSendsAsync
  BY <1>1, <1>8 DEF PcSends, PcSendsAsync
<1>9. CASE FailIn
  BY <1>2, <1>9 DEF FailIn, IInv, TypeOK
<1>10. CASE FailOut \/ FailAsync
  BY <1>1, <1>10 DEF FailOut, FailAsync
<1>11. CASE Cancel \/ Fault
  BY <1>9, <1>10, <1>11 DEF Cancel, Fault
<1>12. CASE usb_attach \/ usb_detach
  BY <1>1, <1>12 DEF usb_attach, usb_detach
<1> QED
  BY <1>3, <1>4, <1>5, <1>6, <1>7, <1>8, <1>11, <1>12 DEF Next

(* A bulk-in request is never reset while the controller still owns it: the   *)
(* single static g_bulkin_req is safe to share because every sender waits for *)
(* its completion inside the semaphore.                                       *)
THEOREM InCorrect == Spec => InIntact
<1>1. Init => InSafe
  BY DEF Init, InSafe, NoIn
<1> QED
  BY <1>1, InSafeNext, Invariance, PTL DEF Spec, InIntact

------------------------------------------------------------------------------
(* usb_thread and the cable.  The two flags of the connection change together, *)
(* and only between the hello and the next plug or unplug it handles are they *)
(* up.                                                                        *)
Handling == {"loop", "async", "detach", "attach"}
FlagsAgree ==
    /\ connected <=> "connect" \in mainevent
    /\ connected => th[UsbThread].at \in Handling

(* The async request is with the PC, or its completion will be seen.          *)
Heard(events) == asyncreq = "sent" \/ (asyncreq = "filled" /\ "async" \in events)

(* On a cable that is in, and was not touched since usb_thread last looked,   *)
(* with the events it has already taken in "pending".                         *)
Listens ==
    attached /\ faults = 0 /\ mainevent \cap {"attach", "detach"} = {} =>
        /\ connected /\ th[UsbThread].at = "loop" => Heard(mainevent)
        /\ connected /\ th[UsbThread].at = "async" /\ pending \cap {"attach", "detach"} = {} =>
               Heard(mainevent \cup pending)
        /\ connected /\ th[UsbThread].at = "detach" /\ pending \cap {"attach", "detach"} = {} =>
               Heard(mainevent)
        /\ connected /\ th[UsbThread].at = "attach" /\ "attach" \notin pending => Heard(mainevent)
        /\ th[UsbThread].at = "connect" => Heard(mainevent)

CableInv == FlagsAgree /\ Listens

LEMMA CableStays ==
  ASSUME CableInv, th[UsbThread]'.at = th[UsbThread].at,
         UNCHANGED <<attached, faults, mainevent, pending, connected, asyncreq>>
  PROVE  CableInv'
BY DEF CableInv, FlagsAgree, Listens, Heard

(* Inside an exchange, and back from one, usb_thread is not connected.        *)
LEMMA CableAway ==
  ASSUME CableInv, ~connected, th[UsbThread]'.at # "connect",
         UNCHANGED <<mainevent, connected>>
  PROVE  CableInv'
BY DEF CableInv, FlagsAgree, Listens

LEMMA CableExchange ==
  ASSUME IInv, CableInv, NEW p \in Threads, Exchange(p)
  PROVE  CableInv'
<1>1. UNCHANGED <<attached, faults, mainevent, pending, connected, asyncreq>>
  BY DEF Exchange, WaitSema, SignalSema, Put, PutDone, Get, GetDone, GetCheck, host
<1>2. CASE p # UsbThread
  <2>1. th[UsbThread]' = th[UsbThread]
    BY <1>2 DEF Exchange, WaitSema, SignalSema, Put, PutDone, Get, GetDone, GetCheck,
                IInv, TypeOK, Threads
  <2> QED
    BY <1>1, <2>1, CableStays
<1>3. CASE p = UsbThread
  <2>1. th[p].at \notin Handling
    BY DEF Exchange, WaitSema, SignalSema, Put, PutDone, Get, GetDone, GetCheck, Handling
  <2>2. ~connected
    BY <1>3, <2>1 DEF CableInv, FlagsAgree
  <2>3. th[p] \in Call /\ th \in [Threads -> Call]
    BY DEF IInv, TypeOK
  <2>4. \A r \in Call : Failed(r).at # "connect" /\ Succeeded(r).at # "connect"
    <3>1. Loop.at # "connect"
      BY IdleOK DEF Loop, Call
    <3> QED
      BY <3>1 DEF Failed, Succeeded, Call
  <2>5. \A r \in Call, at \in At : \A stage : at # "connect" => Stages(r, at, stage).at # "connect"
    BY DEF Stages, Call
  <2>6. \A r \in Call : Written(r).at # "connect"
    BY <2>4, <2>5 DEF Written, At
  <2>7. ASSUME NEW u, NEW b PROVE Received(th[p], u, b).at # "connect"
    <3>1. PICK s \in Call : s = Stages(th[p], "get", "extra")
      BY <2>3 DEF Stages, Call, At, Stage
    <3>2. [s EXCEPT !.in = u.extra].at = s.at /\ s.at = "get"
      BY <2>3, <3>1 DEF Stages, Call
    <3> QED
      BY <2>3, <2>4, <2>5, <3>1, <3>2 DEF Received, At
  <2>8. CASE SignalSema(p)
    <3>1. Loop \in Call /\ Loop.at = "loop"
      BY IdleOK DEF Loop, Call
    <3>2. [Loop EXCEPT !.at = "arm"].at = "arm"
      BY <3>1 DEF Call
    <3> QED
      BY <1>1, <1>3, <2>2, <2>3, <2>8, <3>1, <3>2, CableAway DEF SignalSema
  <2>9. CASE WaitSema(p) \/ Put(p) \/ GetDone(p)
    <3>1. th'[p].at # "connect"
      BY <2>3, <2>9 DEF WaitSema, Put, GetDone, Call
    <3> QED
      BY <1>1, <1>3, <2>2, <3>1, CableAway
  <2>10. CASE PutDone(p) \/ Get(p)
    <3>1. \A n : [th[p] EXCEPT !.at = "put", !.done = n].at = "put"
      BY <2>3 DEF Call
    <3>2. [th[p] EXCEPT !.at = "getwait"].at = "getwait"
      BY <2>3 DEF Call
    <3>3. th'[p].at # "connect"
      BY <2>3, <2>4, <2>6, <2>10, <3>1, <3>2 DEF PutDone, Get
    <3> QED
      BY <1>1, <1>3, <2>2, <3>3, CableAway
  <2>11. CASE GetCheck(p)
    <3> SUFFICES th'[p].at # "connect"
      BY <1>1, <1>3, <2>2, <2>11, CableAway
    <3>1. CASE th' = [th EXCEPT ![p] = Failed(th[p])]
      BY <2>3, <2>4, <3>1
    <3>2. CASE th' = [th EXCEPT ![p].at = "get", ![p].done = th[p].done + Len(outreq.data)]
      BY <2>3, <3>2 DEF Call
    <3>3. ASSUME NEW b, th' = [th EXCEPT ![p] = Received(th[p], outreq.data[1], b)]
          PROVE  th'[p].at # "connect"
      BY <2>3, <2>7, <3>3
    <3> QED
      BY <2>11, <3>1, <3>2, <3>3 DEF GetCheck
  <2> QED
    BY <2>8, <2>9, <2>10, <2>11 DEF Exchange
<1> QED
  BY <1>2, <1>3

LEMMA CableUsb ==
  ASSUME IInv, CableInv, UsbStep
  PROVE  CableInv'
<1>1. UsbThread \in Threads /\ th \in [Threads -> Call] /\ th[UsbThread] \in Call
  BY DEF Threads, IInv, TypeOK
<1>2. Loop \in Call /\ Loop.at = "loop" /\ [Loop EXCEPT !.at = "attach"].at = "attach"
  BY IdleOK DEF Loop, Call
<1>3. Stages(Loop, "get", "magic").at = "get"
  BY <1>2 DEF Stages, Call
<1>4. /\ mainevent \subseteq {"attach", "detach", "async", "connect"}
      /\ pending \subseteq {"attach", "detach", "async"}
  BY DEF IInv, TypeOK
<1>. USE DEF CableInv, FlagsAgree, Listens, Heard, Handling
<1>5. CASE UsbWake
  <2>1. th'[UsbThread].at = "async"
    BY <1>1, <1>5 DEF UsbWake, Call
  <2> QED
    BY <1>4, <1>5, <2>1 DEF UsbWake, host
<1>6. CASE UsbAsync
  <2>1. th'[UsbThread].at = "detach"
    BY <1>1, <1>6 DEF UsbAsync, Call
  <2> QED
    BY <1>4, <1>6, <2>1 DEF UsbAsync, ArmAsync, host
<1>7. CASE UsbDetach
  <2>1. th'[UsbThread].at = "attach"
    BY <1>1, <1>2, <1>7 DEF UsbDetach, Disconnect
  <2> QED
    BY <1>4, <1>7, <2>1 DEF UsbDetach, Disconnect, host
<1>8. CASE UsbAttach
  <2>1. th'[UsbThread].at = IF "attach" \in pending THEN "get" ELSE "loop"
    BY <1>1, <1>2, <1>3, <1>8 DEF UsbAttach, Disconnect
  <2> QED
    BY <1>4, <1>8, <2>1 DEF UsbAttach, Disconnect, host
<1>9. CASE UsbArm
  <2>1. th'[UsbThread].at = "connect" /\ ~connected
    BY <1>1, <1>9 DEF UsbArm, Call
  <2> QED
    BY <1>4, <1>9, <2>1 DEF UsbArm, ArmAsync, host
<1>10. CASE UsbConnect
  <2>1. th'[UsbThread].at = "loop"
    BY <1>1, <1>2, <1>10 DEF UsbConnect
  <2> QED
    BY <1>4, <1>10, <2>1 DEF UsbConnect, host
<1> QED
  BY <1>5, <1>6, <1>7, <1>8, <1>9, <1>10 DEF UsbStep

LEMMA CableNext == IInv /\ CableInv /\ [Next]_vars => CableInv'
<1> SUFFICES ASSUME IInv, CableInv, [Next]_vars PROVE CableInv'
  OBVIOUS
<1>1. CASE UNCHANGED vars
  BY <1>1, CableStays DEF vars
<1>2. ASSUME NEW p \in Clients, Begin(p) PROVE CableInv'
  <2>1. th'[UsbThread] = th[UsbThread]
    BY <1>2, BusAssumption DEF Begin, IInv, TypeOK, Threads
  <2> QED
    BY <1>2, <2>1, CableStays DEF Begin, host
<1>3. CASE \E p \in Threads : Exchange(p)
  BY <1>3, CableExchange
<1>4. CASE UsbStep
  BY <1>4, CableUsb
<1>5. CASE PcReceives \/ PcSends
  BY <1>5, CableStays DEF PcReceives, PcReceive, PcSends
<1>6. CASE PcSendsAsync
  BY <1>6 DEF PcSendsAsync, host, CableInv, FlagsAgree, Listens, Heard
<1>7. CASE Cancel
  <2>1. ~attached' /\ UNCHANGED <<connected, th>> /\ ("connect" \in mainevent' <=> "connect" \in mainevent)
    BY <1>7 DEF Cancel, FailIn, FailOut, FailAsync, host
  <2> QED
    BY <2>1 DEF CableInv, FlagsAgree, Listens
<1>8. CASE Fault
  <2>1. faults' # 0 /\ UNCHANGED <<connected, th>> /\ ("connect" \in mainevent' <=> "connect" \in mainevent)
    BY <1>8 DEF Fault, FailIn, FailOut, FailAsync, IInv, TypeOK
  <2> QED
    BY <2>1 DEF CableInv, FlagsAgree, Listens
<1>9. CASE usb_attach \/ usb_detach
  BY <1>9 DEF usb_attach, usb_detach, CableInv, FlagsAgree, Listens, Heard
<1> QED
  BY <1>1, <1>2, <1>3, <1>4, <1>5, <1>6, <1>7, <1>8, <1>9 DEF Next

(* Whenever usb_thread waits for an event, g_connected and the CONNECT bit    *)
(* agree, and a connection on an undisturbed cable has its async request out  *)
(* or its completion before it: set_ayncreq, which clears that bit, cannot    *)
(* lose a packet that came before or during it.                               *)
THEOREM CableTracked == Spec => []FollowsCable
<1>1. Init => CableInv
  <2>1. Init => th[UsbThread].at = "loop"
    BY IdleOK DEF Init, Loop, Call, Threads
  <2> QED
    BY <2>1 DEF Init, CableInv, FlagsAgree, Listens, Handling
<1>2. CableInv => FollowsCable
  BY DEF CableInv, FlagsAgree, Listens, Heard, FollowsCable, ConnectFlag, NeverDeaf
<1> QED
  BY <1>1, <1>2, CableNext, Invariance, PTL DEF Spec

------------------------------------------------------------------------------
(* The framing on an undisturbed connection: the first one, no transfer       *)
(* having failed while the cable is in.                                       *)
Calm == attaches <= 1 /\ faults = 0

(* Which transfers a call makes, and what usb_thread's own call is.           *)
Sends(r) ==
    \/ r.op \in {"xchg", "usb"} /\ r.stage \in {"cmd", "data"}
    \/ r.op = "async" /\ r.stage = "frame"
    \/ r.op = "bulk" /\ r.stage \in {"header", "large"}

Writing == {"put", "putwait"}
Reading == {"get", "getwait", "getcheck"}

(* "first": the next transfer is the first of a frame.                        *)
Shaped(p, r) ==
    /\ r.at = "lock" => r.op = "lock" \/ (Sends(r) /\ r.stage \notin {"data", "large"} /\ r.done = 0)
    /\ r.at \in Writing => Sends(r)
    /\ r.at \in Reading => r.op \in {"xchg", "usb"} /\ r.stage \in {"magic", "resp", "extra"}
    /\ r.op = "lock" => r.at \in {"lock", "held"}
    /\ IF p = UsbThread THEN r.op = "usb" /\ r.out = 0 /\ r.in = 0
       ELSE r.op # "usb" /\ r.stage # "magic" /\ (r.at # "idle" => r.op \in Ops)

AllShaped == \A p \in Threads : Shaped(p, th[p])

(* The magic of the PC is still to be read.                                   *)
Due ==
    /\ th[UsbThread].at \in Handling
    /\ "attach" \in mainevent \/ (th[UsbThread].at # "loop" /\ "attach" \in pending)

(* Only usb_thread may be in a transfer.                                      *)
Alone == ~connected /\ \A p \in Clients : th[p].at = "idle" \/ th[p].op = "lock"

Phase ==
    Calm =>
        /\ attaches = 0 => /\ Alone /\ ~attached /\ th[UsbThread].at = "loop"
                           /\ mainevent = {} /\ asyncreq = "none"
        /\ "attach" \in mainevent =>
               th[UsbThread].at = "loop" \/ (th[UsbThread].at \in Handling /\ "attach" \notin pending)
        /\ Alone \/ (th[UsbThread].at \in Handling /\ ~Due)

(* The PC has n units of a frame of p.                                        *)
Assembled(p, n) == pc.got = n /\ (n > 0 => pc.from = p)

(* The units s are what p has still to read.                                  *)
Extras(p, s, n) == Len(s) = n /\ \A i \in 1 .. Len(s) : s[i].to = p /\ s[i].kind = "extra"

Response(p, s, n) ==
    /\ Len(s) > 0 /\ s[1].to = p /\ s[1].kind = "resp"
    /\ s[1].extra \in 0 .. n
    /\ Len(s) = 1 + s[1].extra
    /\ \A i \in 2 .. Len(s) : s[i].to = p /\ s[i].kind = "extra"

Magic == [kind |-> "magic", to |-> UsbThread, extra |-> 0]

Expects(p, r, s) ==
    CASE r.stage = "magic" -> p = UsbThread /\ s = <<Magic>>
      [] r.stage = "resp" -> Response(p, s, r.in)
      [] r.stage = "extra" -> Extras(p, s, r.in - r.done)

(* A transfer of p, as the PC and the requests see it.                        *)
Requested(p, r) ==
    /\ inreq.from = p /\ ~inreq.fail
    /\ inreq.off = Offset(r) + r.done
    /\ inreq.size \in 1 .. Size(r) - r.done
    /\ r.stage = "large" => inreq.size = Size(r) - r.done

Taken(p, r, n) ==
    /\ inreq.recv \in 1 .. inreq.size
    /\ r.stage = "large" => inreq.recv = inreq.size
    /\ IF n = FrameSize(r)
       THEN pc.got = 0 /\ (IF r.op \in {"xchg", "usb"} THEN Response(p, fromhost, r.in) ELSE fromhost = <<>>)
       ELSE Assembled(p, n) /\ fromhost = <<>>

Arrived(p, r) ==
    /\ ~outreq.fail /\ outreq.data # <<>> /\ Len(outreq.data) <= Size(r) - r.done
    /\ Expects(p, r, outreq.data \o fromhost)

InFrame(p, r) ==
    /\ r.at = "put" => Assembled(p, Offset(r) + r.done) /\ fromhost = <<>>
    /\ r.at = "putwait" =>
           /\ Requested(p, r)
           /\ \/ inreq.state = "sent" /\ Assembled(p, inreq.off) /\ fromhost = <<>>
              \/ inreq.state = "done" /\ Taken(p, r, inreq.off + inreq.recv)
    /\ r.at = "get" => pc.got = 0 /\ Expects(p, r, fromhost)
    /\ r.at = "getwait" =>
           /\ pc.got = 0 /\ outreq.size = Size(r) - r.done
           /\ \/ outreq.state = "sent" /\ ~outreq.fail /\ "out" \notin transevent /\ Expects(p, r, fromhost)
              \/ outreq.state = "done" /\ Arrived(p, r)
    /\ r.at = "getcheck" => pc.got = 0 /\ Arrived(p, r)

Transfers(r) == r.at \in Writing \cup Reading

Quiet == pc.got = 0 /\ fromhost = IF Due THEN <<Magic>> ELSE <<>>

(* What was read is the reader's own, also after the cable was pulled.        *)
OwnData(p, r) ==
    r.at \in {"getwait", "getcheck"} =>
        \A i \in 1 .. Len(outreq.data) : outreq.data[i].to = p /\ outreq.data[i].kind = r.stage

Framed ==
    Calm =>
        /\ insync
        /\ \A p \in Threads : OwnData(p, th[p])
        /\ \A p \in Threads : th[p].at = "getwait" /\ outreq.state # "done" => outreq.data = <<>>
        /\ attached => /\ \A p \in Threads : InFrame(p, th[p])
                       /\ outreq.state = "sent" => \E p \in Threads : th[p].at = "getwait"
                       /\ (\A p \in Threads : ~Transfers(th[p])) => Quiet

LEMMA LoopFields ==
  /\ Loop \in Call /\ Loop.at = "loop" /\ Loop.op = "usb" /\ Loop.out = 0 /\ Loop.in = 0
  /\ Idle \in Call /\ Idle.at = "idle" /\ Idle.op = "xchg" /\ Idle.stage = "cmd"
BY IdleOK DEF Loop, Idle, Call

LEMMA StagesFields ==
  ASSUME NEW r \in Call, NEW at \in At, NEW stage \in Stage
  PROVE  \E q \in Call : /\ q = Stages(r, at, stage)
                         /\ q.at = at /\ q.stage = stage /\ q.done = 0
                         /\ q.op = r.op /\ q.out = r.out /\ q.in = r.in
<1>1. Stages(r, at, stage) \in Call
  BY DEF Stages, Call
<1>. QED
  BY <1>1 DEF Stages, Call

LEMMA UnlockFields ==
  ASSUME NEW r \in Call, NEW ok \in BOOLEAN
  PROVE  \E q \in Call : /\ q = [r EXCEPT !.at = "unlock", !.ok = ok]
                         /\ q.at = "unlock" /\ q.stage = r.stage /\ q.done = r.done
                         /\ q.op = r.op /\ q.out = r.out /\ q.in = r.in
<1>1. [r EXCEPT !.at = "unlock", !.ok = ok] \in Call
  BY DEF Call, At
<1>. QED
  BY <1>1 DEF Call

LEMMA AtFields ==
  ASSUME NEW r \in Call, NEW at \in At
  PROVE  \E q \in Call : /\ q = [r EXCEPT !.at = at] /\ q.at = at /\ q.done = r.done
                         /\ q.op = r.op /\ q.stage = r.stage /\ q.out = r.out /\ q.in = r.in
<1>1. [r EXCEPT !.at = at] \in Call
  BY DEF Call
<1>. QED
  BY <1>1 DEF Call

AtDone(r, at, n) == [r EXCEPT !.at = at, !.done = n]

LEMMA AtDoneFields ==
  ASSUME NEW r \in Call, NEW at \in At, NEW n \in Nat
  PROVE  \E q \in Call : /\ q = AtDone(r, at, n) /\ q.at = at /\ q.done = n
                         /\ q.op = r.op /\ q.stage = r.stage /\ q.out = r.out /\ q.in = r.in
<1>1. AtDone(r, at, n) \in Call
  BY DEF Call, AtDone
<1>. QED
  BY <1>1 DEF Call, AtDone

LEMMA ShapedMoves ==
  ASSUME IInv, AllShaped, NEW p \in Threads, NEW r, Shaped(p, r), th' = [th EXCEPT ![p] = r]
  PROVE  AllShaped'
BY DEF AllShaped, IInv, TypeOK, Shaped

LEMMA ShapedExchange ==
  ASSUME IInv, AllShaped, NEW p \in Threads, Exchange(p)
  PROVE  AllShaped'
<1>1. th \in [Threads -> Call] /\ th[p] \in Call /\ CallOK(th[p]) /\ Shaped(p, th[p])
  BY DEF IInv, TypeOK, CallsOK, AllShaped
<1>2. PICK r \in Call : r = th[p] /\ CallOK(r) /\ Shaped(p, r)
  BY <1>1
<1>3. Shaped(UsbThread, Loop) /\ Shaped(UsbThread, [Loop EXCEPT !.at = "arm"])
      /\ (p # UsbThread => Shaped(p, Idle))
  BY LoopFields DEF Shaped, Writing, Reading, Call
<1>4. ASSUME NEW at \in {"get", "unlock", "held", "putwait", "getwait", "getcheck", "put"},
             NEW n \in Nat, r.at # "idle",
             at = "held" \/ r.op # "lock",
             at \in {"get", "getwait", "getcheck"} => r.at \in Reading,
             at \in {"put", "putwait"} => Sends(r)
      PROVE  Shaped(p, [r EXCEPT !.at = at]) /\ Shaped(p, AtDone(r, at, n))
  <2>1. ASSUME NEW q, q.at = at, q.op = r.op, q.stage = r.stage, q.out = r.out, q.in = r.in
        PROVE  Shaped(p, q)
    BY <1>2, <1>4, <2>1 DEF Shaped, Writing, Reading, Sends
  <2>2. at \in At /\ r \in Call
    BY <1>2 DEF At
  <2>3. PICK q \in Call : /\ q = [r EXCEPT !.at = at] /\ q.at = at /\ q.done = r.done
                         /\ q.op = r.op /\ q.stage = r.stage /\ q.out = r.out /\ q.in = r.in
    BY <2>2, AtFields
  <2>4. PICK v \in Call : /\ v = AtDone(r, at, n) /\ v.at = at /\ v.done = n
                         /\ v.op = r.op /\ v.stage = r.stage /\ v.out = r.out /\ v.in = r.in
    BY <2>2, AtDoneFields
  <2>5. Shaped(p, q)
    BY <2>1, <2>3
  <2>6. Shaped(p, v)
    BY <2>1, <2>4
  <2>. QED
    BY <2>3, <2>4, <2>5, <2>6
<1>5. CASE WaitSema(p)
  <2>1. th' = [th EXCEPT ![p] = [r EXCEPT !.at = IF r.op = "lock" THEN "held" ELSE "put"]] /\ r.at = "lock"
    BY <1>1, <1>2, <1>5 DEF WaitSema
  <2>2. CASE r.op = "lock"
    BY <1>4, <2>1, <2>2, ShapedMoves
  <2>3. CASE r.op # "lock"
    <3>1. Sends(r)
      BY <1>2, <2>1, <2>3 DEF Shaped
    <3>. QED
      BY <1>4, <2>1, <2>3, <3>1, ShapedMoves
  <2>. QED
    BY <2>2, <2>3
<1>6. CASE SignalSema(p)
  <2>1. CASE p = UsbThread
    BY <1>1, <1>3, <1>6, <2>1, ShapedMoves DEF SignalSema
  <2>2. CASE p # UsbThread /\ r.op = "async" /\ r.ok /\ r.out > 1
    <3>1. PICK q : q = [r EXCEPT !.at = "lock", !.out = @ - 1, !.done = 0, !.ok = FALSE]
      OBVIOUS
    <3>2. q.at = "lock" /\ q.op = "async" /\ q.stage = "frame" /\ q.done = 0
      BY <1>2, <2>2, <3>1 DEF Call, CallOK
    <3>3. Shaped(p, q)
      BY <1>2, <1>6, <2>2, <3>2 DEF Shaped, Sends, Writing, Reading, SignalSema
    <3>. QED
      BY <1>1, <1>2, <1>6, <2>2, <3>1, <3>3, ShapedMoves DEF SignalSema
  <2>3. CASE p # UsbThread /\ ~(r.op = "async" /\ r.ok /\ r.out > 1)
    BY <1>1, <1>2, <1>3, <1>6, <2>3, ShapedMoves DEF SignalSema
  <2>. QED
    BY <2>1, <2>2, <2>3
<1>7. ASSUME r.at \in Writing \cup Reading PROVE Shaped(p, Failed(r)) /\ Shaped(p, Succeeded(r)) /\ r.op # "lock"
  <2>1. r.op # "lock"
    BY <1>2, <1>7 DEF Shaped, Writing, Reading
  <2>2. r.stage = "magic" => p = UsbThread
    BY <1>2 DEF Shaped
  <2>3. ASSUME NEW ok \in BOOLEAN, r.stage # "magic" \/ p = UsbThread
        PROVE  Shaped(p, [r EXCEPT !.at = "unlock", !.ok = ok])
    <3>1. PICK q \in Call : /\ q = [r EXCEPT !.at = "unlock", !.ok = ok]
                           /\ q.at = "unlock" /\ q.stage = r.stage /\ q.done = r.done
                           /\ q.op = r.op /\ q.out = r.out /\ q.in = r.in
      BY UnlockFields
    <3>2. Shaped(p, q)
      BY <1>2, <1>7, <2>1, <3>1 DEF Shaped, Writing, Reading
    <3>. QED
      BY <3>1, <3>2
  <2>4. Shaped(p, Failed(r))
    BY <1>3, <2>2, <2>3 DEF Failed
  <2>5. Shaped(p, Succeeded(r))
    BY <2>2, <2>3 DEF Succeeded
  <2>. QED
    BY <2>1, <2>4, <2>5
<1>8. CASE Put(p)
  <2>1. th' = [th EXCEPT ![p] = [r EXCEPT !.at = "putwait"]] /\ Sends(r) /\ r.op # "lock" /\ r.at # "idle"
    BY <1>1, <1>2, <1>7, <1>8 DEF Put, Shaped, Writing
  <2>. QED
    BY <1>4, <2>1, ShapedMoves
<1>9. CASE PutDone(p)
  <2>1. r.at = "putwait" /\ Sends(r) /\ r.op # "lock" /\ Shaped(p, Failed(r)) /\ Shaped(p, Succeeded(r))
    BY <1>2, <1>7, <1>9 DEF PutDone, Shaped, Writing
  <2>2. Shaped(p, Written(r))
    <3>1. CASE r.stage = "header"
      <4>1. Written(r) = Stages(r, "put", "large") /\ r.op = "bulk"
        BY <2>1, <3>1 DEF Written, Sends
      <4>2. PICK q : /\ q = Stages(r, "put", "large") /\ q.at = "put" /\ q.stage = "large"
                     /\ q.done = 0 /\ q.op = r.op /\ q.out = r.out /\ q.in = r.in
        BY <1>2, StagesFields DEF At, Stage
      <4>3. Shaped(p, q)
        BY <1>2, <2>1, <4>1, <4>2 DEF Shaped, Sends, Writing, Reading
      <4>. QED
        BY <4>1, <4>2, <4>3
    <3>2. CASE r.stage = "cmd" /\ r.out > 0
      <4>1. Written(r) = Stages(r, "put", "data") /\ r.op \in {"xchg", "usb"}
        BY <1>2, <2>1, <3>2 DEF Written, Sends, Call
      <4>2. PICK q : /\ q = Stages(r, "put", "data") /\ q.at = "put" /\ q.stage = "data"
                     /\ q.done = 0 /\ q.op = r.op /\ q.out = r.out /\ q.in = r.in
        BY <1>2, StagesFields DEF At, Stage
      <4>3. Shaped(p, q)
        BY <1>2, <2>1, <4>1, <4>2 DEF Shaped, Sends, Writing, Reading
      <4>. QED
        BY <4>1, <4>2, <4>3
    <3>3. CASE r.stage = "data" \/ (r.stage = "cmd" /\ r.out = 0)
      <4>1. Written(r) = Stages(r, "get", "resp") /\ r.op \in {"xchg", "usb"}
        BY <1>2, <2>1, <3>3 DEF Written, Sends, Call
      <4>2. PICK q : /\ q = Stages(r, "get", "resp") /\ q.at = "get" /\ q.stage = "resp"
                     /\ q.done = 0 /\ q.op = r.op /\ q.out = r.out /\ q.in = r.in
        BY <1>2, StagesFields DEF At, Stage
      <4>3. Shaped(p, q)
        BY <1>2, <2>1, <4>1, <4>2 DEF Shaped, Sends, Writing, Reading
      <4>. QED
        BY <4>1, <4>2, <4>3
    <3>4. CASE r.stage \notin {"header", "cmd", "data"}
      BY <2>1, <3>4 DEF Written
    <3>. QED
      BY <1>2, <3>1, <3>2, <3>3, <3>4 DEF Call
  <2>3. \E n \in Nat : th' \in {[th EXCEPT ![p] = Failed(r)], [th EXCEPT ![p] = Written(r)],
                        [th EXCEPT ![p] = AtDone(r, "put", n)]}
    <3>1. th' = [th EXCEPT ![p] =
                    IF inreq.fail \/ inreq.recv = 0 THEN Failed(r)
                    ELSE CASE r.stage = "large" \/ r.done + inreq.recv = Size(r) -> Written(r)
                           [] r.stage # "large" /\ r.done + inreq.recv < Size(r) ->
                                [r EXCEPT !.at = "put", !.done = r.done + inreq.recv]
                           [] OTHER -> Failed(r)]
      BY <1>2, <1>9 DEF PutDone
    <3>2. r.done + inreq.recv \in Nat
      BY DEF IInv, TypeOK, Call
    <3>3. CASE inreq.fail \/ inreq.recv = 0
      BY <3>1, <3>2, <3>3
    <3>4. CASE ~(inreq.fail \/ inreq.recv = 0)
      BY <3>1, <3>2, <3>4 DEF AtDone
    <3>. QED
      BY <3>3, <3>4
  <2>. QED
    BY <1>4, <2>1, <2>2, <2>3, ShapedMoves
<1>10. CASE Get(p)
  <2>1. r.at = "get" /\ r.op # "lock" /\ Shaped(p, Failed(r))
    BY <1>2, <1>7, <1>10 DEF Get, Reading
  <2>2. th' \in {[th EXCEPT ![p] = Failed(r)], [th EXCEPT ![p] = [r EXCEPT !.at = "getwait"]]}
    BY <1>2, <1>10 DEF Get
  <2>. QED
    BY <1>4, <2>1, <2>2, ShapedMoves DEF Reading
<1>11. CASE GetDone(p)
  <2>1. r.at = "getwait" /\ r.op # "lock" /\ th' = [th EXCEPT ![p] = [r EXCEPT !.at = "getcheck"]]
    BY <1>1, <1>2, <1>7, <1>11 DEF GetDone, Reading
  <2>. QED
    BY <1>4, <2>1, ShapedMoves DEF Reading
<1>12. CASE GetCheck(p)
  <2>1. r.at = "getcheck" /\ r.op # "lock" /\ r.op \in {"xchg", "usb"} /\ r.stage \in {"magic", "resp", "extra"}
        /\ Shaped(p, Failed(r)) /\ Shaped(p, Succeeded(r))
    BY <1>2, <1>7, <1>12 DEF GetCheck, Reading, Shaped
  <2>2. ASSUME NEW u, NEW b \in BOOLEAN PROVE Shaped(p, Received(r, u, b))
    <3>1. CASE ~b
      BY <2>1, <3>1 DEF Received
    <3>2. CASE b /\ r.stage = "magic"
      <4>1. Received(r, u, b) = Stages(r, "lock", "cmd")
        BY <3>2 DEF Received
      <4>2. PICK q : /\ q = Stages(r, "lock", "cmd") /\ q.at = "lock" /\ q.stage = "cmd"
                     /\ q.done = 0 /\ q.op = r.op /\ q.out = r.out /\ q.in = r.in
        BY <1>2, StagesFields DEF At, Stage
      <4>3. Shaped(p, q)
        BY <1>2, <2>1, <4>1, <4>2 DEF Shaped, Sends, Writing, Reading
      <4>. QED
        BY <4>1, <4>2, <4>3
    <3>3. CASE b /\ r.stage = "resp" /\ u.extra > 0 /\ r.in > 0
      <4>1. Received(r, u, b) = [Stages(r, "get", "extra") EXCEPT !.in = u.extra]
        BY <3>3 DEF Received
      <4>2. p # UsbThread
        BY <1>2, <3>3 DEF Shaped
      <4>3. PICK v \in Call : /\ v = Stages(r, "get", "extra") /\ v.at = "get" /\ v.stage = "extra"
                             /\ v.op = r.op /\ v.out = r.out
        BY <1>2, StagesFields DEF At, Stage
      <4>4. PICK q : q = [v EXCEPT !.in = u.extra]
        OBVIOUS
      <4>5. q.at = "get" /\ q.stage = "extra" /\ q.op = r.op /\ q.out = r.out
        BY <4>3, <4>4 DEF Call
      <4>6. Shaped(p, q)
        BY <1>2, <2>1, <4>2, <4>5 DEF Shaped, Sends, Writing, Reading
      <4>. QED
        BY <4>1, <4>3, <4>4, <4>6
    <3>4. CASE b /\ r.stage # "magic" /\ ~(r.stage = "resp" /\ u.extra > 0 /\ r.in > 0)
      BY <2>1, <3>4 DEF Received
    <3>. QED
      BY <3>1, <3>2, <3>3, <3>4
  <2>3. CASE th' = [th EXCEPT ![p] = Failed(r)]
    BY <2>1, <2>3, ShapedMoves
  <2>4. CASE th' = [th EXCEPT ![p] = AtDone(r, "get", r.done + Len(outreq.data))]
    <3>1. r.done + Len(outreq.data) \in Nat
      BY DEF IInv, TypeOK, Call
    <3>. QED
      BY <1>4, <2>1, <2>4, <3>1, ShapedMoves DEF Reading
  <2>5. CASE \E b \in BOOLEAN : th' = [th EXCEPT ![p] = Received(r, outreq.data[1], b)]
    BY <2>2, <2>5, ShapedMoves
  <2>. QED
    BY <1>1, <1>2, <1>12, <2>3, <2>4, <2>5 DEF GetCheck, AtDone
<1>. QED
  BY <1>5, <1>6, <1>8, <1>9, <1>10, <1>11, <1>12 DEF Exchange

LEMMA ShapedUsb ==
  ASSUME IInv, AllShaped, UsbStep
  PROVE  AllShaped'
<1>1. UsbThread \in Threads /\ th \in [Threads -> Call] /\ th[UsbThread] \in Call
  BY DEF Threads, IInv, TypeOK
<1>2. PICK u \in Call : u = th[UsbThread] /\ Shaped(UsbThread, u)
  BY <1>1 DEF AllShaped
<1>3. \A at \in {"async", "detach", "connect"} : Shaped(UsbThread, [u EXCEPT !.at = at])
  BY <1>2 DEF Shaped, Writing, Reading, Call
<1>4. Shaped(UsbThread, Loop) /\ Shaped(UsbThread, [Loop EXCEPT !.at = "attach"])
  BY LoopFields DEF Shaped, Writing, Reading, Call
<1>5. Shaped(UsbThread, Stages(Loop, "get", "magic"))
  <2>1. PICK q : /\ q = Stages(Loop, "get", "magic") /\ q.at = "get" /\ q.stage = "magic"
                 /\ q.op = "usb" /\ q.out = 0 /\ q.in = 0
    BY LoopFields, StagesFields DEF At, Stage
  <2>2. Shaped(UsbThread, q)
    BY <2>1 DEF Shaped, Writing, Reading
  <2>. QED
    BY <2>1, <2>2
<1>6. CASE UsbWake
  BY <1>1, <1>2, <1>3, <1>6, ShapedMoves DEF UsbWake
<1>7. CASE UsbAsync
  BY <1>1, <1>2, <1>3, <1>7, ShapedMoves DEF UsbAsync
<1>8. CASE UsbDetach \/ UsbAttach
  BY <1>1, <1>4, <1>5, <1>8, ShapedMoves DEF UsbDetach, UsbAttach, Disconnect
<1>9. CASE UsbArm
  BY <1>1, <1>2, <1>3, <1>9, ShapedMoves DEF UsbArm
<1>10. CASE UsbConnect
  BY <1>1, <1>4, <1>10, ShapedMoves DEF UsbConnect
<1>. QED
  BY <1>6, <1>7, <1>8, <1>9, <1>10 DEF UsbStep

LEMMA ShapedNext == IInv /\ AllShaped /\ [Next]_vars => AllShaped'
<1>. SUFFICES ASSUME IInv, AllShaped, [Next]_vars PROVE AllShaped'
  OBVIOUS
<1>1. ASSUME th' = th PROVE AllShaped'
  BY <1>1 DEF AllShaped, Shaped
<1>2. ASSUME NEW p \in Clients, Begin(p) PROVE AllShaped'
  <2>1. PICK op \in Ops : \E out, in :
            th' = [th EXCEPT ![p] = [at |-> "lock", op |-> op, stage |-> FirstStage(op),
                                     out |-> out, in |-> in, done |-> 0, ok |-> FALSE]]
    BY <1>2 DEF Begin
  <2>2. op \in AllOps /\ p # UsbThread /\ p \in Threads
    BY BusAssumption DEF Threads
  <2>3. PICK out, in : th' = [th EXCEPT ![p] = [at |-> "lock", op |-> op, stage |-> FirstStage(op),
                                     out |-> out, in |-> in, done |-> 0, ok |-> FALSE]]
    BY <2>1
  <2>4. Shaped(p, [at |-> "lock", op |-> op, stage |-> FirstStage(op),
                   out |-> out, in |-> in, done |-> 0, ok |-> FALSE])
    BY <2>2 DEF Shaped, Sends, Writing, Reading, FirstStage, AllOps
  <2>. QED
    BY <2>2, <2>3, <2>4, ShapedMoves
<1>3. CASE \E p \in Threads : Exchange(p)
  BY <1>3, ShapedExchange
<1>4. CASE UsbStep
  BY <1>4, ShapedUsb
<1>. QED
  BY <1>1, <1>2, <1>3, <1>4 DEF Next, vars, host, PcReceives, PcReceive, PcSends, PcSendsAsync, Cancel, Fault,
        FailIn, FailOut, FailAsync, usb_attach, usb_detach


(* The connection is undisturbed only if it was.                              *)
LEMMA CalmBefore == IInv /\ [Next]_vars /\ Calm' => Calm
<1>. SUFFICES ASSUME IInv, [Next]_vars, Calm' PROVE Calm
  OBVIOUS
<1>1. attaches \in Nat /\ faults \in Nat
  BY DEF IInv, TypeOK
<1>2. ASSUME attaches' = attaches /\ faults' = faults PROVE Calm
  BY <1>2 DEF Calm
<1>3. ASSUME UNCHANGED host PROVE Calm
  BY <1>2, <1>3 DEF host
<1>4. CASE \E p \in Clients : Begin(p)
  BY <1>3, <1>4 DEF Begin
<1>5. CASE \E p \in Threads : Exchange(p)
  BY <1>3, <1>5 DEF Exchange, WaitSema, SignalSema, Put, PutDone, Get, GetDone, GetCheck
<1>6. CASE UsbStep
  BY <1>3, <1>6 DEF UsbStep, UsbWake, UsbAsync, UsbDetach, UsbAttach, Disconnect, UsbArm, UsbConnect
<1>7. CASE PcReceives \/ PcSends \/ PcSendsAsync
  BY <1>2, <1>3, <1>7 DEF PcReceives, PcReceive, PcSends, PcSendsAsync
<1>8. CASE Cancel \/ Fault
  BY <1>1, <1>3, <1>8 DEF Cancel, Fault, Calm
<1>9. CASE usb_attach \/ usb_detach
  BY <1>1, <1>9 DEF usb_attach, usb_detach, Calm
<1>. QED
  BY <1>3, <1>4, <1>5, <1>6, <1>7, <1>8, <1>9 DEF Next, vars, host

LEMMA AloneStays ==
  ASSUME Alone, connected' = connected, \A q \in Clients : th'[q] = th[q]
  PROVE  Alone'
BY DEF Alone

(* A step that leaves usb_thread and its events where they are.               *)
LEMMA PhaseStays ==
  ASSUME Phase, Calm, Alone' \/ (~Alone /\ th[UsbThread].at \in Handling),
         attaches' = attaches, attached' = attached, faults' = faults,
         th'[UsbThread] = th[UsbThread], mainevent' = mainevent, pending' = pending,
         asyncreq' = asyncreq, attaches = 0 => Alone'
  PROVE  Phase'
BY DEF Phase, Due, Handling

LEMMA PhaseExchange ==
  ASSUME IInv, AllShaped, Phase, Calm, NEW p \in Threads, Exchange(p)
  PROVE  Phase'
<1>1. th \in [Threads -> Call] /\ Shaped(p, th[p]) /\ UsbThread \in Threads /\ Clients \subseteq Threads
  BY DEF IInv, TypeOK, AllShaped, Threads
<1>2. /\ UNCHANGED <<attached, attaches, faults, mainevent, pending, connected, asyncreq>>
      /\ \A q \in Threads : q # p => th'[q] = th[q]
      /\ th[p].at \in {"lock", "put", "putwait", "get", "getwait", "getcheck", "unlock", "held"}
  BY <1>1 DEF Exchange, host, WaitSema, SignalSema, Put, PutDone, Get, GetDone, GetCheck
<1>3. CASE p = UsbThread
  <2>1. \A q \in Clients : th'[q] = th[q]
    BY <1>1, <1>2, <1>3, BusAssumption
  <2>2. Alone /\ attaches # 0 /\ "attach" \notin mainevent
    BY <1>2, <1>3 DEF Phase, Handling
  <2>. QED
    BY <1>2, <2>1, <2>2, AloneStays DEF Phase
<1>4. CASE p # UsbThread
  <2>1. th'[UsbThread] = th[UsbThread] /\ p \in Clients
    BY <1>1, <1>2, <1>4 DEF Threads
  <2>2. ASSUME Alone PROVE Alone'
    <3>1. th[p].op = "lock" /\ th[p].at \in {"lock", "held"}
      BY <1>1, <1>2, <2>1, <2>2 DEF Alone, Shaped
    <3>2. CASE WaitSema(p)
      <4>1. th'[p] = [th[p] EXCEPT !.at = "held"]
        BY <1>1, <3>1, <3>2 DEF WaitSema
      <4>2. th'[p].op = "lock"
        BY <1>1, <3>1, <4>1 DEF Call
      <4>. QED
        BY <1>1, <1>2, <2>2, <4>2 DEF Alone
    <3>3. CASE SignalSema(p)
      <4>1. th'[p] = Idle
        BY <1>1, <1>4, <3>1, <3>3 DEF SignalSema
      <4>. QED
        BY <1>1, <1>2, <2>2, <4>1, LoopFields DEF Alone
    <3>. QED
      BY <3>1, <3>2, <3>3 DEF Exchange, Put, PutDone, Get, GetDone, GetCheck
  <2>3. ~Alone => th[UsbThread].at \in Handling
    BY DEF Phase
  <2>4. attaches = 0 => Alone'
    BY <2>2 DEF Phase
  <2>. QED
    BY <1>2, <2>1, <2>2, <2>3, <2>4, PhaseStays
<1>. QED
  BY <1>3, <1>4

LEMMA PhaseUsb ==
  ASSUME IInv, Phase, Calm, UsbStep
  PROVE  Phase'
<1>1. /\ UNCHANGED <<attached, attaches, faults>>
      /\ th \in [Threads -> Call] /\ UsbThread \in Threads /\ Clients \subseteq Threads
      /\ UsbThread \notin Clients
  BY BusAssumption DEF IInv, TypeOK, Threads, host, UsbStep, UsbWake, UsbAsync, UsbDetach, UsbAttach, UsbArm, UsbConnect,
     Disconnect
<1>2. th[UsbThread] \in Call
  BY <1>1
<1>3. CASE UsbWake
  <2>1. th'[UsbThread].at = "async" /\ \A q \in Clients : th'[q] = th[q]
    BY <1>1, <1>2, <1>3 DEF UsbWake, Call
  <2>2. /\ attaches # 0 /\ "attach" \notin mainevent' /\ (Due' <=> Due)
        /\ th[UsbThread].at = "loop" /\ connected' = connected
    BY <1>3, <2>1 DEF UsbWake, Phase, Due, Handling
  <2>. QED
    BY <1>1, <2>1, <2>2, AloneStays DEF Phase, Handling
<1>4. CASE UsbAsync
  <2>1. th'[UsbThread].at = "detach" /\ \A q \in Clients : th'[q] = th[q]
    BY <1>1, <1>2, <1>4 DEF UsbAsync, Call
  <2>2. /\ attaches # 0 /\ ("attach" \in mainevent' <=> "attach" \in mainevent) /\ (Due' <=> Due)
        /\ th[UsbThread].at = "async" /\ connected' = connected /\ pending' = pending
    BY <1>4, <2>1 DEF UsbAsync, ArmAsync, Phase, Due, Handling
  <2>. QED
    BY <1>1, <2>1, <2>2, AloneStays DEF Phase, Handling
<1>5. CASE UsbDetach
  <2>1. th'[UsbThread] = [Loop EXCEPT !.at = "attach"] /\ \A q \in Clients : th'[q] = th[q]
    BY <1>1, <1>5 DEF UsbDetach, Disconnect
  <2>2. th'[UsbThread].at = "attach"
    BY <2>1, LoopFields DEF Call
  <2>3. /\ attaches # 0 /\ ("attach" \in mainevent' <=> "attach" \in mainevent) /\ (Due' <=> Due)
        /\ th[UsbThread].at = "detach" /\ (connected' => connected) /\ pending' = pending
    BY <1>5, <2>2 DEF UsbDetach, Disconnect, Phase, Due, Handling
  <2>4. Alone => Alone'
    BY <2>1, <2>3 DEF Alone
  <2>. QED
    BY <1>1, <2>2, <2>3, <2>4 DEF Phase, Handling
<1>6. CASE UsbAttach
  <2>1. /\ \A q \in Clients : th'[q] = th[q]
        /\ attaches # 0 /\ ("attach" \in mainevent' <=> "attach" \in mainevent)
        /\ th[UsbThread].at = "attach" /\ (connected' => connected) /\ pending' = pending
    BY <1>1, <1>6 DEF UsbAttach, Disconnect, Phase
  <2>2. Alone => Alone'
    BY <2>1 DEF Alone
  <2>3. CASE "attach" \in pending
    <3>1. Due /\ Alone /\ "attach" \notin mainevent'
      BY <2>1, <2>3 DEF Phase, Due, Handling
    <3>. QED
      BY <1>1, <2>1, <2>2, <3>1 DEF Phase
  <2>4. CASE "attach" \notin pending
    <3>1. th'[UsbThread].at = "loop"
      BY <1>1, <1>6, <2>4, LoopFields DEF UsbAttach, Disconnect
    <3>2. Due' => Due
      BY <2>1, <3>1 DEF Due, Handling
    <3>. QED
      BY <1>1, <2>1, <2>2, <3>1, <3>2 DEF Phase, Handling
  <2>. QED
    BY <2>3, <2>4
<1>7. CASE UsbArm
  <2>1. /\ \A q \in Clients : th'[q] = th[q]
        /\ attaches # 0 /\ ("attach" \in mainevent' => "attach" \in mainevent)
        /\ th[UsbThread].at = "arm" /\ connected' = connected
    BY <1>1, <1>7 DEF UsbArm, ArmAsync, Phase
  <2>2. Alone /\ "attach" \notin mainevent
    BY <2>1 DEF Phase, Handling
  <2>. QED
    BY <1>1, <2>1, <2>2, AloneStays DEF Phase
<1>8. CASE UsbConnect
  <2>1. /\ th'[UsbThread].at = "loop" /\ th[UsbThread].at = "connect"
        /\ attaches # 0 /\ ("attach" \in mainevent' => "attach" \in mainevent)
    BY <1>1, <1>8, LoopFields DEF UsbConnect, Phase
  <2>2. "attach" \notin mainevent'
    BY <2>1 DEF Phase, Handling
  <2>. QED
    BY <1>1, <2>1, <2>2 DEF Phase, Due, Handling
<1>. QED
  BY <1>3, <1>4, <1>5, <1>6, <1>7, <1>8 DEF UsbStep

LEMMA PhaseNext == IInv /\ AllShaped /\ Phase /\ [Next]_vars => Phase'
<1>. SUFFICES ASSUME IInv, AllShaped, Phase, [Next]_vars, Calm' PROVE Phase'
  BY DEF Phase
<1>1. Calm
  BY CalmBefore
<1>2. ASSUME UNCHANGED <<attached, attaches, faults, mainevent, pending, connected, asyncreq, th>>
      PROVE  Phase'
  BY <1>2 DEF Phase, Calm, Alone, Due
<1>3. ASSUME UNCHANGED <<attached, attaches, faults, pending, connected, th>>, asyncreq # "none",
             mainevent' = mainevent \cup {"async"}
      PROVE  Phase'
  BY <1>1, <1>3 DEF Phase, Alone, Due
<1>4. CASE \E p \in Clients : Begin(p)
  <2>1. PICK p \in Clients : Begin(p)
    BY <1>4
  <2>0. PICK op \in Ops : \E out, in :
            /\ op = "lock" \/ connected
            /\ th' = [th EXCEPT ![p] = [at |-> "lock", op |-> op, stage |-> FirstStage(op),
                                     out |-> out, in |-> in, done |-> 0, ok |-> FALSE]]
    BY <2>1 DEF Begin
  <2>2. PICK out, in :
            /\ op = "lock" \/ connected
            /\ th' = [th EXCEPT ![p] = [at |-> "lock", op |-> op, stage |-> FirstStage(op),
                                     out |-> out, in |-> in, done |-> 0, ok |-> FALSE]]
    BY <2>0
  <2>3. /\ th'[p].op = op /\ th'[UsbThread] = th[UsbThread]
        /\ \A q \in Clients : q # p => th'[q] = th[q]
        /\ UNCHANGED <<attached, attaches, faults, mainevent, pending, connected, asyncreq>>
    BY <2>1, <2>2, BusAssumption DEF Begin, host, IInv, TypeOK, Threads
  <2>4. Alone => Alone'
    BY <2>2, <2>3 DEF Alone
  <2>5. /\ ~Alone => th[UsbThread].at \in Handling
        /\ attaches = 0 => Alone
    BY <1>1 DEF Phase
  <2>. QED
    BY <1>1, <2>3, <2>4, <2>5, PhaseStays
<1>5. CASE \E p \in Threads : Exchange(p)
  BY <1>1, <1>5, PhaseExchange
<1>6. CASE UsbStep
  BY <1>1, <1>6, PhaseUsb
<1>7. CASE PcReceives \/ PcSends
  BY <1>2, <1>7 DEF PcReceives, PcReceive, PcSends
<1>8. CASE PcSendsAsync
  BY <1>3, <1>8 DEF PcSendsAsync, host
<1>9. CASE Cancel
  BY <1>2, <1>3, <1>9 DEF Cancel, FailIn, FailOut, FailAsync, host
<1>10. CASE Fault
  <2>1. faults' = faults + 1 /\ faults \in Nat
    BY <1>10 DEF Fault, IInv, TypeOK
  <2>. QED
    BY <2>1 DEF Calm
<1>11. CASE usb_attach
  <2>1. attaches = 0 /\ attaches' = 1
    BY <1>11 DEF usb_attach, Calm, IInv, TypeOK
  <2>. QED
    BY <1>1, <1>11, <2>1 DEF usb_attach, Phase, Alone
<1>12. CASE usb_detach
  BY <1>1, <1>12 DEF usb_detach, Phase, Alone, Due
<1>. QED
  BY <1>2, <1>4, <1>5, <1>6, <1>7, <1>8, <1>9, <1>10, <1>11, <1>12 DEF Next, vars, host

------------------------------------------------------------------------------
(* One thread at most is in a transfer, and while one is the magic was read.  *)
LEMMA OneUser ==
  ASSUME IInv, AllShaped, Phase, Calm, NEW p \in Threads, Transfers(th[p])
  PROVE  ~Due /\ \A q \in Threads : q # p => ~Transfers(th[q])
<1>1. /\ \A q \in Clients : Transfers(th[q]) => ~Alone /\ Holding(q)
      /\ Clients \subseteq Threads /\ UsbThread \in Threads /\ Threads = Clients \cup {UsbThread}
  <2>1. \A q \in Clients : q \in Threads /\ q # UsbThread
    BY BusAssumption DEF Threads
  <2>. QED
    BY <2>1 DEF AllShaped, Shaped, Transfers, Writing, Reading, Alone, Holding, Threads
<1>2. Transfers(th[UsbThread]) => th[UsbThread].at \notin Handling
  BY DEF Transfers, Writing, Reading, Handling
<1>3. ~Alone => th[UsbThread].at \in Handling /\ ~Due
  BY DEF Phase
<1>4. CASE p = UsbThread
  BY <1>1, <1>2, <1>3, <1>4 DEF Due
<1>5. CASE p \in Clients
  <2>1. \A q \in Threads : Holding(q) => q = p
    BY <1>1, <1>5 DEF IInv, BusOK
  <2>. QED
    BY <1>1, <1>2, <1>3, <1>5, <2>1
<1>. QED
  BY <1>1, <1>4, <1>5

LEMMA NoUser ==
  ASSUME Alone, AllShaped, th[UsbThread].at \in Handling, NEW p \in Threads
  PROVE  ~Transfers(th[p])
<1>1. CASE p = UsbThread
  BY <1>1 DEF Transfers, Writing, Reading, Handling
<1>2. CASE p \in Clients
  BY <1>2 DEF Alone, AllShaped, Shaped, Transfers, Writing, Reading
<1>. QED
  BY <1>1, <1>2 DEF Threads

LEMMA FramedStays ==
  ASSUME Framed, Calm, Due' <=> Due,
         UNCHANGED <<attached, pc, fromhost, insync, inreq, outreq, transevent>>,
         \A q \in Threads : th'[q] = th[q] \/ (~Transfers(th[q]) /\ ~Transfers(th'[q]))
  PROVE  Framed'
<1>1. ASSUME NEW q \in Threads
      PROVE  /\ OwnData(q, th[q]) => OwnData(q, th[q])'
             /\ InFrame(q, th[q]) => InFrame(q, th[q])'
             /\ Transfers(th'[q]) <=> Transfers(th[q])
             /\ th'[q].at = "getwait" <=> th[q].at = "getwait"
  <2>1. CASE th'[q] = th[q]
    BY <2>1 DEF OwnData, InFrame, Requested, Taken, Arrived, Expects, Response, Extras, Assembled, Transfers,
       Offset, Size, FrameSize
  <2>2. CASE ~Transfers(th[q]) /\ ~Transfers(th'[q])
    BY <2>2 DEF OwnData, InFrame, Transfers, Writing, Reading
  <2>. QED
    BY <2>1, <2>2
<1>2. Quiet => Quiet'
  BY DEF Quiet
<1>. QED
  BY <1>1, <1>2 DEF Framed

(* After a step p is the thread in a transfer, or nobody is.                  *)
LEMMA FramedFocus ==
  ASSUME NEW p \in Threads, NEW q, th'[p] = q, Transfers(q),
         \A x \in Threads : x # p => ~Transfers(th'[x]),
         insync', OwnData(p, q)',
         q.at = "getwait" /\ outreq'.state # "done" => outreq'.data = <<>>,
         attached' => InFrame(p, q)' /\ (outreq'.state = "sent" => q.at = "getwait")
  PROVE  Framed'
<1>1. ASSUME NEW x \in Threads, x # p
      PROVE  OwnData(x, th[x])' /\ InFrame(x, th[x])' /\ th'[x].at # "getwait"
  BY <1>1 DEF OwnData, InFrame, Transfers, Writing, Reading
<1>. QED
  BY <1>1 DEF Framed

LEMMA FramedQuiet ==
  ASSUME \A x \in Threads : ~Transfers(th'[x]), insync',
         attached' => Quiet' /\ outreq'.state # "sent"
  PROVE  Framed'
<1>1. ASSUME NEW x \in Threads
      PROVE  OwnData(x, th[x])' /\ InFrame(x, th[x])' /\ th'[x].at # "getwait"
  BY <1>1 DEF OwnData, InFrame, Transfers, Writing, Reading
<1>. QED
  BY <1>1 DEF Framed

LEMMA FramedWaitSema ==
  ASSUME IInv, AllShaped, Phase, Calm, Framed, NEW p \in Threads, WaitSema(p)
  PROVE  Framed'
<1>1. th \in [Threads -> Call] /\ Shaped(p, th[p]) /\ UsbThread \in Threads
  BY DEF IInv, TypeOK, AllShaped, Threads
<1>2. PICK r \in Call : r = th[p] /\ Shaped(p, r) /\ r.at = "lock"
  BY <1>1 DEF WaitSema
<1>3. /\ UNCHANGED <<attached, pc, fromhost, insync, inreq, outreq, transevent, mainevent, pending, connected>>
      /\ \A q \in Threads : q # p => th'[q] = th[q]
      /\ sema = 1
  BY <1>1 DEF WaitSema, host
<1>4. CASE r.op = "lock"
  <2>1. th'[p] = [r EXCEPT !.at = "held"]
    BY <1>1, <1>2, <1>4 DEF WaitSema
  <2>2. ~Transfers(th[p]) /\ ~Transfers(th'[p]) /\ p # UsbThread
    BY <1>2, <1>4, <2>1 DEF Transfers, Writing, Reading, Call, Shaped
  <2>3. Due' <=> Due
    BY <1>1, <1>3, <2>2 DEF Due
  <2>. QED
    BY <1>3, <2>2, <2>3, FramedStays
<1>5. CASE r.op # "lock"
  <2>1. PICK q \in Call : /\ q = [r EXCEPT !.at = "put"] /\ q.at = "put" /\ q.done = r.done
                          /\ q.op = r.op /\ q.stage = r.stage /\ q.out = r.out /\ q.in = r.in
    BY AtFields DEF At
  <2>2. th'[p] = q
    BY <1>1, <1>2, <1>5, <2>1 DEF WaitSema
  <2>3. q.done = 0 /\ q.stage \notin {"data", "large"}
    BY <1>2, <1>5, <2>1 DEF Shaped
  <2>4. ~Due /\ \A x \in Threads : ~Transfers(th[x])
    <3>1. ~Transfers(th[p])
      BY <1>2 DEF Transfers, Writing, Reading
    <3>2. ASSUME NEW x \in Clients PROVE ~Transfers(th[x])
      <4>1. x \in Threads /\ x # UsbThread /\ Shaped(x, th[x])
        BY BusAssumption DEF Threads, AllShaped
      <4>2. ~Holding(x)
        BY <1>3, <4>1 DEF IInv, BusOK
      <4>. QED
        BY <4>1, <4>2 DEF Holding, Shaped, Transfers, Writing, Reading
    <3>3. CASE p = UsbThread
      BY <1>2, <3>1, <3>2, <3>3 DEF Due, Handling, Threads
    <3>4. CASE p # UsbThread
      <4>1. p \in Clients
        BY <3>4 DEF Threads
      <4>2. ~Alone
        BY <1>2, <1>5, <4>1 DEF Alone
      <4>3. ~Due /\ th[UsbThread].at \in Handling
        BY <4>2 DEF Phase
      <4>. QED
        BY <3>2, <4>3 DEF Threads, Transfers, Writing, Reading, Handling
    <3>. QED
      BY <3>3, <3>4
  <2>5. insync /\ (attached => pc.got = 0 /\ fromhost = <<>> /\ outreq.state # "sent")
    BY <2>4 DEF Framed, Quiet, Transfers, Reading
  <2>6. OwnData(p, q)' /\ Transfers(q) /\ (attached' => InFrame(p, q)')
    BY <1>3, <2>1, <2>3, <2>5 DEF OwnData, Transfers, Writing, InFrame, Assembled, Offset
  <2>7. \A x \in Threads : x # p => ~Transfers(th'[x])
    BY <1>3, <2>4
  <2>. QED
    BY <1>3, <2>1, <2>2, <2>5, <2>6, <2>7, FramedFocus
<1>. QED
  BY <1>4, <1>5

LEMMA FramedSignalSema ==
  ASSUME IInv, AllShaped, Phase, Calm, Framed, NEW p \in Threads, SignalSema(p)
  PROVE  Framed'
<1>1. th \in [Threads -> Call] /\ UsbThread \in Threads /\ th[p] \in Call
  BY DEF IInv, TypeOK, Threads
<1>2. /\ UNCHANGED <<attached, pc, fromhost, insync, inreq, outreq, transevent, mainevent, pending>>
      /\ \A q \in Threads : q # p => th'[q] = th[q]
      /\ th[p].at \in {"unlock", "held"}
  BY <1>1 DEF SignalSema, host
<1>3. th'[p].at \in {"idle", "loop", "arm", "lock"}
  <2>1. /\ [Loop EXCEPT !.at = "arm"].at = "arm"
        /\ [th[p] EXCEPT !.at = "lock", !.out = @ - 1, !.done = 0, !.ok = FALSE].at = "lock"
    BY <1>1, LoopFields DEF Call
  <2>2. th'[p] = CASE p = UsbThread -> IF th[p].ok THEN [Loop EXCEPT !.at = "arm"] ELSE Loop
                  [] p # UsbThread /\ th[p].op = "async" /\ th[p].ok /\ th[p].out > 1 ->
                       [th[p] EXCEPT !.at = "lock", !.out = @ - 1, !.done = 0, !.ok = FALSE]
                  [] OTHER -> Idle
    BY <1>1 DEF SignalSema
  <2>3. CASE p = UsbThread
    BY <2>1, <2>2, <2>3, LoopFields
  <2>4. CASE p # UsbThread /\ th[p].op = "async" /\ th[p].ok /\ th[p].out > 1
    BY <2>1, <2>2, <2>4, Zenon
  <2>5. CASE p # UsbThread /\ ~(th[p].op = "async" /\ th[p].ok /\ th[p].out > 1)
    BY <2>1, <2>2, <2>5, LoopFields
  <2>. QED
    BY <2>3, <2>4, <2>5
<1>4. ~Transfers(th[p]) /\ ~Transfers(th'[p])
  BY <1>2, <1>3 DEF Transfers, Writing, Reading
<1>5. Due' <=> Due
  <2>1. CASE p = UsbThread
    <3>1. "attach" \notin mainevent /\ ~Due
      BY <1>2, <2>1 DEF Phase, Due, Handling
    <3>2. ~Due'
      BY <1>2, <1>3, <2>1, <3>1 DEF Due, Handling
    <3>. QED
      BY <3>1, <3>2
  <2>2. CASE p # UsbThread
    BY <1>1, <1>2, <2>2 DEF Due
  <2>. QED
    BY <2>1, <2>2
<1>. QED
  BY <1>2, <1>4, <1>5, FramedStays

LEMMA FramedUsb ==
  ASSUME IInv, AllShaped, Phase, Calm, Framed, UsbStep
  PROVE  Framed'
<1>1. /\ UNCHANGED <<attached, pc, fromhost, insync, inreq, outreq, transevent>>
      /\ th \in [Threads -> Call] /\ UsbThread \in Threads /\ Clients \subseteq Threads
      /\ \A q \in Threads : q # UsbThread => th'[q] = th[q]
      /\ th[UsbThread].at \in Handling \cup {"arm", "connect"}
  <2>1. th \in [Threads -> Call] /\ UsbThread \in Threads /\ Clients \subseteq Threads
    BY DEF IInv, TypeOK, Threads
  <2>. QED
    BY <2>1 DEF host, Handling, UsbStep, UsbWake, UsbAsync, UsbDetach, UsbAttach, UsbArm, UsbConnect, Disconnect
<1>2. th[UsbThread] \in Call /\ ~Transfers(th[UsbThread])
  BY <1>1 DEF Transfers, Writing, Reading, Handling
<1>3. CASE ~(UsbAttach /\ "attach" \in pending)
  <2>1. /\ th'[UsbThread].at \in {"async", "detach", "attach", "loop", "connect"}
        /\ Due' <=> Due
    <3>1. CASE UsbWake
      <4>1. th'[UsbThread].at = "async"
        BY <1>1, <1>2, <3>1 DEF UsbWake, Call
      <4>. QED
        BY <3>1, <4>1 DEF UsbWake, Due, Handling
    <3>2. CASE UsbAsync
      <4>1. th'[UsbThread].at = "detach"
        BY <1>1, <1>2, <3>2 DEF UsbAsync, Call
      <4>. QED
        BY <3>2, <4>1 DEF UsbAsync, ArmAsync, Due, Handling
    <3>3. CASE UsbDetach
      <4>1. th'[UsbThread].at = "attach"
        BY <1>1, <3>3, LoopFields DEF UsbDetach, Disconnect, Call
      <4>. QED
        BY <3>3, <4>1 DEF UsbDetach, Disconnect, Due, Handling
    <3>4. CASE UsbAttach
      <4>1. th'[UsbThread].at = "loop"
        BY <1>1, <1>3, <3>4, LoopFields DEF UsbAttach, Disconnect
      <4>. QED
        BY <1>3, <3>4, <4>1 DEF UsbAttach, Disconnect, Due, Handling
    <3>5. CASE UsbArm
      <4>1. th'[UsbThread].at = "connect"
        BY <1>1, <1>2, <3>5 DEF UsbArm, Call
      <4>. QED
        BY <3>5, <4>1 DEF UsbArm, ArmAsync, Due, Handling
    <3>6. CASE UsbConnect
      <4>1. th'[UsbThread].at = "loop" /\ "attach" \notin mainevent
        BY <1>1, <3>6, LoopFields DEF UsbConnect, Phase, Handling
      <4>. QED
        BY <3>6, <4>1 DEF UsbConnect, Due, Handling
    <3>. QED
      BY <3>1, <3>2, <3>3, <3>4, <3>5, <3>6 DEF UsbStep
  <2>2. ~Transfers(th'[UsbThread])
    BY <2>1 DEF Transfers, Writing, Reading
  <2>. QED
    BY <1>1, <1>2, <2>1, <2>2, FramedStays
<1>4. CASE UsbAttach /\ "attach" \in pending
  <2>1. th'[UsbThread] = Stages(Loop, "get", "magic") /\ th[UsbThread].at = "attach"
    BY <1>1, <1>4 DEF UsbAttach, Disconnect
  <2>2. PICK q \in Call : /\ q = Stages(Loop, "get", "magic") /\ q.at = "get" /\ q.stage = "magic" /\ q.done = 0
    BY LoopFields, StagesFields DEF At, Stage
  <2>3. Due
    BY <1>4, <2>1 DEF Due, Handling
  <2>4. \A x \in Threads : ~Transfers(th[x])
    BY <2>1, <2>3, NoUser DEF Phase, Handling
  <2>5. insync /\ (attached => pc.got = 0 /\ fromhost = <<Magic>> /\ outreq.state # "sent")
    BY <2>3, <2>4 DEF Framed, Quiet, Transfers, Reading
  <2>6. OwnData(UsbThread, q)' /\ Transfers(q)
    BY <2>2 DEF OwnData, Transfers, Reading
  <2>7. attached' => InFrame(UsbThread, q)'
    BY <1>1, <2>2, <2>5 DEF InFrame, Expects
  <2>. QED
    BY <1>1, <2>1, <2>2, <2>4, <2>5, <2>6, <2>7, FramedFocus
<1>. QED
  BY <1>3, <1>4

LEMMA FramedBegin ==
  ASSUME IInv, AllShaped, Phase, Calm, Framed, NEW p \in Clients, Begin(p)
  PROVE  Framed'
<1>1. th \in [Threads -> Call] /\ p \in Threads /\ p # UsbThread /\ UsbThread \in Threads
  BY BusAssumption DEF IInv, TypeOK, Threads
<1>2. \E op \in Ops : \E out, in :
          th' = [th EXCEPT ![p] = [at |-> "lock", op |-> op, stage |-> FirstStage(op),
                                   out |-> out, in |-> in, done |-> 0, ok |-> FALSE]]
  BY DEF Begin
<1>3. /\ th'[p].at = "lock" /\ th[p].at = "idle" /\ \A q \in Threads : q # p => th'[q] = th[q]
      /\ UNCHANGED <<attached, pc, fromhost, insync, inreq, outreq, transevent, mainevent, pending>>
  BY <1>1, <1>2 DEF Begin, host
<1>4. ~Transfers(th[p]) /\ ~Transfers(th'[p])
  BY <1>3 DEF Transfers, Writing, Reading
<1>5. Due' <=> Due
  BY <1>1, <1>3 DEF Due
<1>. QED
  BY <1>3, <1>4, <1>5, FramedStays

LEMMA FramedPut ==
  ASSUME IInv, AllShaped, Phase, Calm, Framed, NEW p \in Threads, Put(p)
  PROVE  Framed'
<1>1. th \in [Threads -> Call] /\ th[p] \in Call /\ CallOK(th[p]) /\ th[p].at = "put"
  BY DEF IInv, TypeOK, CallsOK, Put
<1>2. PICK r \in Call : r = th[p] /\ CallOK(r) /\ r.at = "put"
  BY <1>1
<1>3. Transfers(th[p])
  BY <1>1 DEF Transfers, Writing
<1>4. \A x \in Threads : x # p => ~Transfers(th[x])
  BY <1>3, OneUser
<1>5. PICK q \in Call : /\ q = [r EXCEPT !.at = "putwait"] /\ q.at = "putwait" /\ q.done = r.done
                        /\ q.op = r.op /\ q.stage = r.stage /\ q.out = r.out /\ q.in = r.in
  BY AtFields DEF At
<1>6. /\ th'[p] = q /\ \A x \in Threads : x # p => th'[x] = th[x]
      /\ UNCHANGED <<attached, pc, fromhost, insync, outreq>>
  BY <1>1, <1>2, <1>5 DEF Put, host
<1>7. insync /\ (attached => InFrame(p, r) /\ outreq.state # "sent")
  BY <1>2, <1>4 DEF Framed, Transfers, Reading
<1>8. OwnData(p, q)' /\ Transfers(q)
  BY <1>5 DEF OwnData, Transfers, Writing
<1>9. ASSUME attached' PROVE InFrame(p, q)'
  <2>1. inreq' = [NoIn EXCEPT !.state = "sent", !.from = p, !.off = Offset(r) + r.done,
                              !.size = IF r.stage = "large" THEN Size(r) - r.done
                                       ELSE Min2(Size(r) - r.done, TxMax)]
    BY <1>2, <1>6, <1>9 DEF Put
  <2>2. /\ inreq'.state = "sent" /\ inreq'.from = p /\ inreq'.off = Offset(r) + r.done /\ ~inreq'.fail
        /\ inreq'.size = IF r.stage = "large" THEN Size(r) - r.done ELSE Min2(Size(r) - r.done, TxMax)
    BY <2>1 DEF NoIn
  <2>3. Size(r) \in Nat /\ r.done \in Nat /\ r.done < Size(r)
    BY <1>2, SizeType DEF CallOK, Active, Call
  <2>4. inreq'.size \in 1 .. Size(r) - r.done
    BY <2>2, <2>3, BusAssumption DEF Min2
  <2>5. Size(q) = Size(r) /\ Offset(q) = Offset(r)
    BY <1>5 DEF Size, Offset
  <2>6. Requested(p, q)'
    BY <1>5, <2>2, <2>4, <2>5 DEF Requested
  <2>7. Assembled(p, inreq.off)' /\ fromhost' = <<>>
    BY <1>2, <1>6, <1>7, <1>9, <2>2 DEF InFrame, Assembled
  <2>. QED
    BY <1>5, <2>2, <2>6, <2>7 DEF InFrame
<1>. QED
  BY <1>4, <1>5, <1>6, <1>7, <1>8, <1>9, FramedFocus

LEMMA FramedPutDone ==
  ASSUME IInv, AllShaped, Phase, Calm, InSafe, Framed, NEW p \in Threads, PutDone(p)
  PROVE  Framed'
<1>1. /\ th \in [Threads -> Call] /\ th[p] \in Call /\ CallOK(th[p]) /\ Shaped(p, th[p])
      /\ th[p].at = "putwait" /\ inreq.recv \in Nat
  BY DEF IInv, TypeOK, CallsOK, AllShaped, PutDone
<1>2. PICK r \in Call : r = th[p] /\ CallOK(r) /\ Shaped(p, r) /\ r.at = "putwait"
  BY <1>1
<1>3. ~Due /\ \A x \in Threads : x # p => ~Transfers(th[x])
  <2>1. Transfers(th[p])
    BY <1>1 DEF Transfers, Writing
  <2>. QED
    BY <2>1, OneUser
<1>4. /\ \A x \in Threads : x # p => th'[x] = th[x]
      /\ UNCHANGED <<attached, pc, fromhost, insync, inreq, outreq, mainevent, pending>>
      /\ "in" \in transevent /\ UsbThread \in Threads
  BY <1>1 DEF PutDone, host, Threads
<1>5. insync /\ (attached => InFrame(p, r) /\ outreq.state # "sent")
  BY <1>2, <1>3 DEF Framed, Transfers, Reading
<1>6. ASSUME NEW q, th'[p] = q, Transfers(q), q.at # "getwait", q.at # "getcheck",
             attached => InFrame(p, q)'
      PROVE  Framed'
  <2>1. OwnData(p, q)'
    BY <1>6 DEF OwnData
  <2>. QED
    BY <1>3, <1>4, <1>5, <1>6, <2>1, FramedFocus
<1>7. ASSUME th'[p].at \in {"unlock", "loop"}, attached => pc.got = 0 /\ fromhost = <<>>
      PROVE  Framed'
  <2>1. ~Transfers(th'[p])
    BY <1>7 DEF Transfers, Writing, Reading
  <2>2. ~Due'
    <3>1. CASE p = UsbThread
      <4>1. th[UsbThread].at \notin Handling /\ th[UsbThread].at # "loop"
        BY <1>1, <3>1 DEF Handling
      <4>2. "attach" \notin mainevent
        BY <4>1 DEF Phase
      <4>3. th'[UsbThread].at # "loop" => th'[UsbThread].at \notin Handling
        BY <1>7, <3>1 DEF Handling
      <4>. QED
        BY <1>4, <4>2, <4>3 DEF Due
    <3>2. CASE p # UsbThread
      BY <1>3, <1>4, <3>2 DEF Due
    <3>. QED
      BY <3>1, <3>2
  <2>. QED
    BY <1>3, <1>4, <1>5, <1>7, <2>1, <2>2, FramedQuiet DEF Quiet
<1>8. th'[p] = IF inreq.fail \/ inreq.recv = 0 THEN Failed(r)
               ELSE CASE r.stage = "large" \/ r.done + inreq.recv = Size(r) -> Written(r)
                      [] r.stage # "large" /\ r.done + inreq.recv < Size(r) ->
                           AtDone(r, "put", r.done + inreq.recv)
                      [] OTHER -> Failed(r)
  BY <1>1, <1>2 DEF PutDone, AtDone
<1>9. Size(r) \in Nat /\ r.done \in Nat /\ r.done < Size(r)
  BY <1>2, SizeType DEF CallOK, Active, Call
<1>10. /\ r.stage # "magic" /\ r.op # "lock" /\ Sends(r)
  BY <1>2 DEF Shaped, Writing, CallOK
<1>11. Failed(r).at = "unlock" /\ Succeeded(r).at = "unlock"
  BY <1>2, <1>10 DEF Failed, Succeeded, Call
<1>12. attached => /\ Requested(p, r) /\ Taken(p, r, inreq.off + inreq.recv)
                   /\ inreq.recv \in 1 .. Size(r) - r.done
                   /\ r.stage = "large" => inreq.recv = Size(r) - r.done
                   /\ inreq.off + inreq.recv = Offset(r) + r.done + inreq.recv
  <2>1. SUFFICES ASSUME attached
                 PROVE  /\ Requested(p, r) /\ Taken(p, r, inreq.off + inreq.recv)
                        /\ inreq.recv \in 1 .. Size(r) - r.done
                        /\ r.stage = "large" => inreq.recv = Size(r) - r.done
                        /\ inreq.off + inreq.recv = Offset(r) + r.done + inreq.recv
    OBVIOUS
  <2>2. inreq.state # "sent"
    BY <1>4 DEF InSafe
  <2>3. Requested(p, r) /\ Taken(p, r, inreq.off + inreq.recv)
    BY <1>2, <1>5, <2>1, <2>2 DEF InFrame
  <2>4. inreq.off \in Nat /\ inreq.size \in Nat
    BY DEF IInv, TypeOK
  <2>. QED
    BY <1>1, <1>9, <2>3, <2>4 DEF Requested, Taken
<1>13. CASE inreq.fail \/ inreq.recv = 0
  <2>1. ~attached
    BY <1>12, <1>13 DEF Requested
  <2>. QED
    BY <1>7, <1>8, <1>11, <1>13, <2>1
<1>14. CASE ~(inreq.fail \/ inreq.recv = 0) /\ (r.stage = "large" \/ r.done + inreq.recv = Size(r))
  <2>1. th'[p] = Written(r)
    BY <1>1, <1>8, <1>9, <1>14
  <2>2. attached => /\ inreq.off + inreq.recv = Offset(r) + Size(r)
                    /\ Taken(p, r, Offset(r) + Size(r))
    BY <1>9, <1>12, <1>14 DEF Offset
  <2>3. CASE r.stage \in {"large", "frame"}
    <3>1. Written(r) = Succeeded(r)
      BY <2>3 DEF Written
    <3>2. Offset(r) + Size(r) = FrameSize(r) /\ r.op \notin {"xchg", "usb"}
      BY <1>10, <2>3, BusAssumption DEF Offset, Size, FrameSize, Sends
    <3>3. attached => pc.got = 0 /\ fromhost = <<>>
      BY <2>2, <3>2 DEF Taken
    <3>. QED
      BY <1>7, <1>11, <2>1, <3>1, <3>3
  <2>4. CASE r.stage = "header"
    <3>1. Written(r) = Stages(r, "put", "large") /\ r.op = "bulk"
      BY <1>10, <2>4 DEF Written, Sends
    <3>2. PICK q \in Call : /\ q = Stages(r, "put", "large") /\ q.at = "put" /\ q.stage = "large" /\ q.done = 0
      BY StagesFields DEF At, Stage
    <3>3. Offset(r) + Size(r) = 1 /\ FrameSize(r) # 1
      BY <2>4, <3>1, BusAssumption DEF Offset, Size, FrameSize
    <3>4. attached => Assembled(p, 1) /\ fromhost = <<>>
      BY <2>2, <3>3 DEF Taken
    <3>5. attached => InFrame(p, q)'
      BY <1>4, <3>2, <3>4 DEF InFrame, Assembled, Offset
    <3>. QED
      BY <1>6, <2>1, <3>1, <3>2, <3>5 DEF Transfers, Writing
  <2>5. CASE r.stage = "cmd" /\ r.out > 0
    <3>1. Written(r) = Stages(r, "put", "data") /\ r.op \in {"xchg", "usb"}
      BY <1>10, <2>5 DEF Written, Sends
    <3>2. PICK q \in Call : /\ q = Stages(r, "put", "data") /\ q.at = "put" /\ q.stage = "data" /\ q.done = 0
      BY StagesFields DEF At, Stage
    <3>3. Offset(r) + Size(r) = 1 /\ FrameSize(r) # 1
      BY <1>2, <2>5, <3>1 DEF Offset, Size, FrameSize, Call
    <3>4. attached => Assembled(p, 1) /\ fromhost = <<>>
      BY <2>2, <3>3 DEF Taken
    <3>5. attached => InFrame(p, q)'
      BY <1>4, <3>2, <3>4 DEF InFrame, Assembled, Offset
    <3>. QED
      BY <1>6, <2>1, <3>1, <3>2, <3>5 DEF Transfers, Writing
  <2>6. CASE r.stage = "data" \/ (r.stage = "cmd" /\ r.out = 0)
    <3>1. Written(r) = Stages(r, "get", "resp") /\ r.op \in {"xchg", "usb"}
      BY <1>10, <2>6 DEF Written, Sends
    <3>2. PICK q \in Call : /\ q = Stages(r, "get", "resp") /\ q.at = "get" /\ q.stage = "resp"
                            /\ q.done = 0 /\ q.in = r.in
      BY StagesFields DEF At, Stage
    <3>3. Offset(r) + Size(r) = FrameSize(r)
      BY <1>2, <2>6, <3>1 DEF Offset, Size, FrameSize, Call
    <3>4. attached => pc.got = 0 /\ Response(p, fromhost, r.in)
      BY <2>2, <3>1, <3>3 DEF Taken
    <3>5. attached => InFrame(p, q)'
      BY <1>4, <3>2, <3>4 DEF InFrame, Expects
    <3>. QED
      BY <1>6, <2>1, <3>1, <3>2, <3>5 DEF Transfers, Reading
  <2>. QED
    BY <1>2, <1>10, <2>3, <2>4, <2>5, <2>6 DEF Sends, Call
<1>15. CASE ~(inreq.fail \/ inreq.recv = 0) /\ ~(r.stage = "large" \/ r.done + inreq.recv = Size(r))
  <2>1. CASE r.done + inreq.recv < Size(r)
    <3>1. th'[p] = AtDone(r, "put", r.done + inreq.recv) /\ r.done + inreq.recv \in Nat
      BY <1>1, <1>8, <1>9, <1>15, <2>1
    <3>7. PICK n \in Nat : n = r.done + inreq.recv
      BY <3>1
    <3>2. PICK q \in Call : /\ q = AtDone(r, "put", n) /\ q.at = "put" /\ q.done = n
                            /\ q.op = r.op /\ q.stage = r.stage /\ q.out = r.out /\ q.in = r.in
      BY AtDoneFields DEF At
    <3>3. Offset(r) + r.done + inreq.recv # FrameSize(r)
      BY <1>1, <1>2, <1>9, <1>10, <1>15, <2>1, BusAssumption DEF Offset, Size, FrameSize, Sends, Call
    <3>4. attached => Assembled(p, Offset(r) + r.done + inreq.recv) /\ fromhost = <<>>
      BY <1>12, <3>3 DEF Taken
    <3>5. Offset(q) = Offset(r) /\ Offset(r) \in Nat
      BY <3>2 DEF Offset
    <3>6. attached => InFrame(p, q)'
      BY <1>1, <1>4, <1>9, <3>7, <3>2, <3>4, <3>5 DEF InFrame, Assembled
    <3>. QED
      BY <1>6, <3>7, <3>1, <3>2, <3>6 DEF Transfers, Writing
  <2>2. CASE ~(r.done + inreq.recv < Size(r))
    <3>1. th'[p] = Failed(r)
      BY <1>8, <1>15, <2>2
    <3>2. ~attached
      BY <1>1, <1>9, <1>12, <1>15, <2>2
    <3>. QED
      BY <1>7, <1>11, <3>1, <3>2
  <2>. QED
    BY <2>1, <2>2
<1>. QED
  BY <1>13, <1>14, <1>15

LEMMA OneLeft ==
  ASSUME NEW a \in Nat \ {0}, NEW d \in Nat, a <= 1 - d
  PROVE  a = 1
OBVIOUS

(* What a reader takes is the front of what it expects; the rest is expected  *)
(* still.                                                                     *)
LEMMA ExpectsRest ==
  ASSUME NEW p \in Threads, NEW r \in Call, r.done < Size(r), r.stage \in {"magic", "resp", "extra"},
         NEW s \in Seq(Unit), NEW t \in Seq(Unit), Expects(p, r, s \o t),
         s # <<>>, Len(s) <= Size(r) - r.done
  PROVE  /\ \A i \in 1 .. Len(s) : s[i].to = p /\ s[i].kind = r.stage
         /\ r.stage = "magic" => p = UsbThread /\ Len(s) = 1 /\ t = <<>>
         /\ r.stage = "resp" => Len(s) = 1 /\ s[1].extra \in 0 .. r.in /\ Extras(p, t, s[1].extra)
         /\ r.stage = "extra" => Extras(p, t, r.in - r.done - Len(s))
<1>1. /\ Len(s) \in Nat \ {0} /\ Len(t) \in Nat /\ Len(s \o t) = Len(s) + Len(t)
      /\ \A i \in 1 .. Len(s) : (s \o t)[i] = s[i]
      /\ \A i \in 1 .. Len(t) : (s \o t)[Len(s) + i] = t[i]
  OBVIOUS
<1>2. r.done \in Nat /\ r.in \in Nat
  BY BusAssumption DEF Call
<1>3. CASE r.stage = "magic"
  <2>1. Len(s) = 1
    <3>1. Size(r) = 1
      BY <1>3 DEF Size
    <3>2. Len(s) <= 1 - r.done /\ Len(s) \in Nat \ {0} /\ r.done \in Nat
      BY <1>1, <1>2, <3>1
    <3>. QED
      BY <3>2, OneLeft
  <2>2. p = UsbThread /\ s \o t = <<Magic>>
    BY <1>3 DEF Expects
  <2>3. Len(t) = 0 /\ s[1] = Magic
    BY <1>1, <2>1, <2>2
  <2>. QED
    BY <1>3, <2>1, <2>2, <2>3 DEF Magic
<1>4. CASE r.stage = "resp"
  <2>1. Len(s) = 1
    <3>1. Size(r) = 1
      BY <1>4 DEF Size
    <3>2. Len(s) <= 1 - r.done /\ Len(s) \in Nat \ {0} /\ r.done \in Nat
      BY <1>1, <1>2, <3>1
    <3>. QED
      BY <3>2, OneLeft
  <2>2. Response(p, s \o t, r.in)
    BY <1>4 DEF Expects
  <2>3. /\ s[1].to = p /\ s[1].kind = "resp" /\ s[1].extra \in 0 .. r.in
        /\ Len(t) = s[1].extra
    BY <1>1, <2>1, <2>2 DEF Response
  <2>4. ASSUME NEW i \in 1 .. Len(t) PROVE t[i].to = p /\ t[i].kind = "extra"
    <3>1. (s \o t)[1 + i] = t[i] /\ 1 + i \in 2 .. Len(s \o t)
      BY <1>1, <2>1
    <3>. QED
      BY <2>2, <3>1 DEF Response
  <2>. QED
    BY <1>4, <2>1, <2>3, <2>4 DEF Extras
<1>5. CASE r.stage = "extra"
  <2>1. Extras(p, s \o t, r.in - r.done)
    BY <1>5 DEF Expects
  <2>2. ASSUME NEW i \in 1 .. Len(s) PROVE s[i].to = p /\ s[i].kind = "extra"
    <3>1. (s \o t)[i] = s[i] /\ i \in 1 .. Len(s \o t)
      BY <1>1
    <3>. QED
      BY <2>1, <3>1 DEF Extras
  <2>3. ASSUME NEW i \in 1 .. Len(t) PROVE t[i].to = p /\ t[i].kind = "extra"
    <3>1. (s \o t)[Len(s) + i] = t[i] /\ Len(s) + i \in 1 .. Len(s \o t)
      BY <1>1
    <3>. QED
      BY <2>1, <3>1 DEF Extras
  <2>4. Len(t) = r.in - r.done - Len(s)
    BY <1>1, <1>2, <2>1 DEF Extras
  <2>. QED
    BY <1>5, <2>2, <2>3, <2>4 DEF Extras
<1>. QED
  BY <1>3, <1>4, <1>5

LEMMA FramedGet ==
  ASSUME IInv, AllShaped, Phase, Calm, Framed, NEW p \in Threads, Get(p)
  PROVE  Framed'
<1>1. th \in [Threads -> Call] /\ th[p] \in Call /\ Shaped(p, th[p]) /\ th[p].at = "get"
  BY DEF IInv, TypeOK, AllShaped, Get
<1>2. PICK r \in Call : r = th[p] /\ Shaped(p, r) /\ r.at = "get"
  BY <1>1
<1>3. \A x \in Threads : x # p => ~Transfers(th[x])
  <2>1. Transfers(th[p])
    BY <1>1 DEF Transfers, Reading
  <2>. QED
    BY <2>1, OneUser
<1>4. /\ \A x \in Threads : x # p => th'[x] = th[x]
      /\ UNCHANGED <<attached, pc, fromhost, insync, inreq>>
  BY <1>1 DEF Get, host
<1>5. insync /\ (attached => InFrame(p, r))
  BY <1>2 DEF Framed
<1>6. CASE attached \/ ~Rejects
  <2>1. PICK q \in Call : /\ q = [r EXCEPT !.at = "getwait"] /\ q.at = "getwait" /\ q.done = r.done
                          /\ q.op = r.op /\ q.stage = r.stage /\ q.out = r.out /\ q.in = r.in
    BY AtFields DEF At
  <2>2. th'[p] = q /\ "out" \notin transevent'
    BY <1>1, <1>2, <1>6, <2>1 DEF Get
  <2>3. /\ outreq'.state = "sent" /\ outreq'.size = Size(r) - r.done
        /\ outreq'.data = <<>> /\ ~outreq'.fail
    BY <1>2, <1>6 DEF Get, NoOut
  <2>4. OwnData(p, q)' /\ Transfers(q)
    BY <2>1, <2>3 DEF OwnData, Transfers, Reading
  <2>5. Size(q) = Size(r)
    BY <2>1 DEF Size
  <2>6. attached' => InFrame(p, q)'
    BY <1>2, <1>4, <1>5, <2>1, <2>2, <2>3, <2>5 DEF InFrame, Expects
  <2>. QED
    BY <1>3, <1>4, <1>5, <2>1, <2>2, <2>3, <2>4, <2>6, FramedFocus
<1>7. CASE ~(attached \/ ~Rejects)
  <2>1. th'[p] = Failed(r) /\ ~attached'
    BY <1>1, <1>2, <1>4, <1>7 DEF Get
  <2>2. Failed(r).at \in {"loop", "unlock"}
    BY LoopFields DEF Failed, Call
  <2>3. \A x \in Threads : ~Transfers(th'[x])
    BY <1>3, <1>4, <2>1, <2>2 DEF Transfers, Writing, Reading
  <2>. QED
    BY <1>4, <1>5, <2>1, <2>3, FramedQuiet
<1>. QED
  BY <1>6, <1>7

LEMMA FramedGetDone ==
  ASSUME IInv, AllShaped, Phase, Calm, Framed, NEW p \in Threads, GetDone(p)
  PROVE  Framed'
<1>1. th \in [Threads -> Call] /\ th[p] \in Call /\ Shaped(p, th[p]) /\ th[p].at = "getwait"
  BY DEF IInv, TypeOK, AllShaped, GetDone
<1>2. PICK r \in Call : r = th[p] /\ Shaped(p, r) /\ r.at = "getwait"
  BY <1>1
<1>3. \A x \in Threads : x # p => ~Transfers(th[x])
  <2>1. Transfers(th[p])
    BY <1>1 DEF Transfers, Reading
  <2>. QED
    BY <2>1, OneUser
<1>4. /\ \A x \in Threads : x # p => th'[x] = th[x]
      /\ UNCHANGED <<attached, pc, fromhost, insync, inreq, outreq>>
      /\ "out" \in transevent
  BY <1>1 DEF GetDone, host
<1>5. insync /\ OwnData(p, r) /\ (attached => InFrame(p, r))
  BY <1>2 DEF Framed
<1>6. PICK q \in Call : /\ q = [r EXCEPT !.at = "getcheck"] /\ q.at = "getcheck" /\ q.done = r.done
                        /\ q.op = r.op /\ q.stage = r.stage /\ q.out = r.out /\ q.in = r.in
  BY AtFields DEF At
<1>7. th'[p] = q
  BY <1>1, <1>2, <1>6 DEF GetDone
<1>8. OwnData(p, q)' /\ Transfers(q)
  BY <1>2, <1>4, <1>5, <1>6 DEF OwnData, Transfers, Reading
<1>9. Size(q) = Size(r)
  BY <1>6 DEF Size
<1>10. attached => pc.got = 0 /\ outreq.state = "done" /\ Arrived(p, r)
  BY <1>2, <1>4, <1>5 DEF InFrame
<1>11. attached' => InFrame(p, q)' /\ outreq'.state # "sent"
  BY <1>4, <1>6, <1>9, <1>10 DEF InFrame, Arrived, Expects
<1>. QED
  BY <1>3, <1>4, <1>5, <1>6, <1>7, <1>8, <1>11, FramedFocus

LEMMA FramedGetCheck ==
  ASSUME IInv, AllShaped, Phase, Calm, Framed, NEW p \in Threads, GetCheck(p)
  PROVE  Framed'
<1>1. /\ th \in [Threads -> Call] /\ th[p] \in Call /\ CallOK(th[p]) /\ Shaped(p, th[p])
      /\ th[p].at = "getcheck" /\ UsbThread \in Threads
      /\ outreq.data \in Seq(Unit) /\ fromhost \in Seq(Unit)
  BY DEF IInv, TypeOK, CallsOK, AllShaped, GetCheck, Threads
<1>2. PICK r \in Call : r = th[p] /\ CallOK(r) /\ Shaped(p, r) /\ r.at = "getcheck"
  BY <1>1
<1>3. ~Due /\ \A x \in Threads : x # p => ~Transfers(th[x])
  <2>1. Transfers(th[p])
    BY <1>1 DEF Transfers, Reading
  <2>. QED
    BY <2>1, OneUser
<1>4. /\ \A x \in Threads : x # p => th'[x] = th[x]
      /\ UNCHANGED <<attached, pc, fromhost, insync, inreq, outreq, mainevent, pending>>
  BY <1>1 DEF GetCheck, host
<1>5. insync /\ (attached => InFrame(p, r) /\ outreq.state # "sent")
  BY <1>2, <1>3 DEF Framed, Transfers, Reading
<1>6. ASSUME NEW q, th'[p] = q, q.at = "get", attached => InFrame(p, q)' PROVE Framed'
  <2>1. OwnData(p, q)' /\ Transfers(q)
    BY <1>6 DEF OwnData, Transfers, Reading
  <2>. QED
    BY <1>3, <1>4, <1>5, <1>6, <2>1, FramedFocus
<1>7. ASSUME th'[p].at \in {"unlock", "loop", "lock"}, attached => pc.got = 0 /\ fromhost = <<>>
      PROVE  Framed'
  <2>1. ~Transfers(th'[p])
    BY <1>7 DEF Transfers, Writing, Reading
  <2>2. ~Due'
    <3>1. CASE p = UsbThread
      <4>1. th[UsbThread].at \notin Handling /\ th[UsbThread].at # "loop"
        BY <1>1, <3>1 DEF Handling
      <4>2. "attach" \notin mainevent
        BY <4>1 DEF Phase
      <4>3. th'[UsbThread].at # "loop" => th'[UsbThread].at \notin Handling
        BY <1>7, <3>1 DEF Handling
      <4>. QED
        BY <1>4, <4>2, <4>3 DEF Due
    <3>2. CASE p # UsbThread
      BY <1>1, <1>3, <1>4, <3>2 DEF Due
    <3>. QED
      BY <3>1, <3>2
  <2>. QED
    BY <1>3, <1>4, <1>5, <1>7, <2>1, <2>2, FramedQuiet DEF Quiet
<1>8. /\ r.done < Size(r) /\ Size(r) \in Nat /\ r.done \in Nat /\ r.in \in Nat /\ Len(outreq.data) \in Nat
      /\ r.stage \in {"magic", "resp", "extra"}
  BY <1>1, <1>2, SizeType, BusAssumption DEF CallOK, Active, Call, Shaped, Reading
<1>9. attached => pc.got = 0 /\ Arrived(p, r)
  BY <1>2, <1>5 DEF InFrame
<1>10. attached => /\ \A i \in 1 .. Len(outreq.data) : outreq.data[i].to = p /\ outreq.data[i].kind = r.stage
                   /\ r.stage = "magic" => fromhost = <<>> /\ Len(outreq.data) = 1
                   /\ r.stage = "resp" => /\ outreq.data[1].extra \in 0 .. r.in /\ Len(outreq.data) = 1
                                          /\ Extras(p, fromhost, outreq.data[1].extra)
                   /\ r.stage = "extra" => Extras(p, fromhost, r.in - r.done - Len(outreq.data))
  BY <1>1, <1>8, <1>9, ExpectsRest DEF Arrived
<1>11. Failed(r).at \in {"loop", "unlock"} /\ Succeeded(r).at = "unlock"
  BY <1>2, LoopFields DEF Failed, Succeeded, Call
<1>12. CASE th' = [th EXCEPT ![p] = Failed(r)] /\ ~attached
  BY <1>1, <1>7, <1>11, <1>12
<1>13. CASE /\ outreq.fail \/ outreq.data = <<>> \/ r.done + Len(outreq.data) > Size(r)
            /\ th' = [th EXCEPT ![p] = Failed(r)]
  <2>1. ~attached
    BY <1>8, <1>9, <1>13 DEF Arrived
  <2>. QED
    BY <1>12, <1>13, <2>1
<1>14. CASE /\ outreq.data # <<>> /\ r.done + Len(outreq.data) < Size(r)
            /\ th' = [th EXCEPT ![p] = AtDone(r, "get", r.done + Len(outreq.data))]
  <2>1. PICK n \in Nat : n = r.done + Len(outreq.data)
    BY <1>8
  <2>2. PICK q \in Call : /\ q = AtDone(r, "get", n) /\ q.at = "get" /\ q.done = n
                          /\ q.op = r.op /\ q.stage = r.stage /\ q.out = r.out /\ q.in = r.in
    BY AtDoneFields DEF At
  <2>3. attached => r.stage = "extra" /\ Extras(p, fromhost, r.in - n)
    BY <1>8, <1>10, <1>14, <2>1 DEF Size
  <2>4. attached => InFrame(p, q)'
    BY <1>4, <1>9, <2>2, <2>3 DEF InFrame, Expects, Extras
  <2>. QED
    BY <1>1, <1>6, <1>14, <2>1, <2>2, <2>4
<1>15. CASE /\ outreq.data # <<>> /\ r.done + Len(outreq.data) = Size(r)
            /\ \E accepted \in IF r.stage \in {"extra", outreq.data[1].kind} THEN {TRUE} ELSE BOOLEAN :
                   th' = [th EXCEPT ![p] = Received(r, outreq.data[1], accepted)]
  <2>1. Len(outreq.data) > 0
    BY <1>1, <1>15
  <2>2. PICK accepted \in BOOLEAN : /\ th'[p] = Received(r, outreq.data[1], accepted)
                                    /\ attached => accepted
    <3>1. attached => r.stage = outreq.data[1].kind
      BY <1>10, <2>1
    <3>. QED
      BY <1>1, <1>15, <3>1
  <2>3. CASE ~accepted
    BY <1>7, <1>11, <2>2, <2>3 DEF Received
  <2>4. CASE accepted /\ r.stage = "magic"
    <3>1. th'[p] = Stages(r, "lock", "cmd")
      BY <2>2, <2>4 DEF Received
    <3>2. th'[p].at = "lock"
      BY <3>1, StagesFields DEF At, Stage
    <3>. QED
      BY <1>7, <1>9, <1>10, <2>4, <3>2
  <2>5. CASE accepted /\ r.stage = "resp" /\ outreq.data[1].extra > 0 /\ r.in > 0
    <3>1. th'[p] = [Stages(r, "get", "extra") EXCEPT !.in = outreq.data[1].extra]
      BY <2>2, <2>5 DEF Received
    <3>2. PICK v \in Call : /\ v = Stages(r, "get", "extra") /\ v.at = "get" /\ v.stage = "extra" /\ v.done = 0
      BY StagesFields DEF At, Stage
    <3>3. PICK q : q = [v EXCEPT !.in = outreq.data[1].extra]
      OBVIOUS
    <3>4. q.at = "get" /\ q.stage = "extra" /\ q.done = 0 /\ q.in = outreq.data[1].extra
      BY <3>2, <3>3 DEF Call
    <3>5. attached => InFrame(p, q)'
      BY <1>4, <1>8, <1>9, <1>10, <2>5, <3>4 DEF InFrame, Expects, Extras
    <3>. QED
      BY <1>6, <3>1, <3>2, <3>3, <3>4, <3>5
  <2>6. CASE accepted /\ r.stage # "magic" /\ ~(r.stage = "resp" /\ outreq.data[1].extra > 0 /\ r.in > 0)
    <3>1. th'[p] = Succeeded(r)
      BY <2>2, <2>6 DEF Received
    <3>2. attached => Extras(p, fromhost, 0)
      BY <1>8, <1>10, <1>15, <2>6 DEF Size
    <3>3. attached => fromhost = <<>>
      BY <1>1, <3>2 DEF Extras
    <3>. QED
      BY <1>7, <1>9, <1>11, <3>1, <3>3
  <2>. QED
    BY <2>3, <2>4, <2>5, <2>6
<1>. QED
  BY <1>1, <1>2, <1>13, <1>14, <1>15 DEF GetCheck, AtDone

LEMMA FramedPcReceives ==
  ASSUME IInv, AllShaped, Phase, Calm, InSafe, Framed, PcReceives, "bulk" \notin Ops \/ ~ShortIn
  PROVE  Framed'
<1>1. /\ attached /\ inreq.state = "sent" /\ ("bulk" \notin Ops \/ ~ShortIn)
      /\ inreq.off \in Nat /\ inreq.size \in Nat /\ th \in [Threads -> Call]
  BY DEF PcReceives, PcReceive, IInv, TypeOK
<1>2. PICK p \in Threads : th[p].at = "putwait"
  BY <1>1 DEF InSafe
<1>3. PICK r \in Call : r = th[p] /\ CallOK(r) /\ Shaped(p, r) /\ r.at = "putwait"
  BY <1>1, <1>2 DEF IInv, CallsOK, AllShaped
<1>4. \A x \in Threads : x # p => ~Transfers(th[x])
  <2>1. Transfers(th[p])
    BY <1>2 DEF Transfers, Writing
  <2>. QED
    BY <2>1, OneUser
<1>5. insync /\ InFrame(p, r) /\ outreq.state # "sent"
  BY <1>1, <1>3, <1>4 DEF Framed, Transfers, Reading
<1>6. Requested(p, r) /\ Assembled(p, inreq.off) /\ fromhost = <<>>
  BY <1>1, <1>3, <1>5 DEF InFrame
<1>7. Size(r) \in Nat /\ r.done \in Nat /\ r.in \in Nat /\ Sends(r)
  BY <1>3, SizeType, BusAssumption DEF Call, Shaped, Writing
<1>8. PICK n \in 1 .. inreq.size : PcReceive(n) /\ (r.stage = "large" => n = inreq.size)
  <2>1. PICK n \in IF ShortIn THEN 1 .. inreq.size ELSE {inreq.size} : PcReceive(n)
    BY DEF PcReceives
  <2>2. inreq.size \in 1 .. inreq.size
    BY <1>1, <1>6, <1>7 DEF Requested
  <2>3. r.stage = "large" => ~ShortIn
    <3>1. r.stage = "large" => r.op = "bulk" /\ "bulk" \in Ops
      <4>1. p # UsbThread => r.op \in Ops
        BY <1>3 DEF Shaped
      <4>. QED
        BY <1>3, <1>7, <4>1 DEF Sends, Shaped
    <3>. QED
      BY <1>1, <3>1
  <2>. QED
    BY <2>1, <2>2, <2>3
<1>9. /\ th' = th /\ outreq' = outreq /\ attached' = attached
      /\ inreq' = [inreq EXCEPT !.state = "done", !.recv = n]
      /\ pc' = IF inreq.off + n = FrameSize(r) THEN Silent ELSE [from |-> p, got |-> inreq.off + n]
      /\ insync'
  BY <1>3, <1>5, <1>6, <1>8 DEF PcReceive, Requested, Assembled
<1>10. /\ inreq'.state = "done" /\ inreq'.recv = n /\ inreq'.from = p
       /\ inreq'.off = inreq.off /\ inreq'.size = inreq.size /\ inreq'.fail = inreq.fail
  BY <1>6, <1>9 DEF IInv, TypeOK, Requested
<1>11. IF inreq.off + n = FrameSize(r)
       THEN pc'.got = 0 /\ (IF r.op \in {"xchg", "usb"} THEN Response(p, fromhost', r.in) ELSE fromhost' = <<>>)
       ELSE Assembled(p, inreq.off + n)' /\ fromhost' = <<>>
  <2>1. CASE inreq.off + n = FrameSize(r) /\ r.op \in {"xchg", "usb"}
    <3>1. PICK k \in 0 .. r.in :
              fromhost' = <<[[kind |-> "resp", to |-> p, extra |-> 0] EXCEPT !.extra = k]>> \o
                          [i \in 1 .. k |-> [[kind |-> "resp", to |-> p, extra |-> 0] EXCEPT !.kind = "extra"]]
      BY <1>3, <1>6, <1>8, <2>1 DEF PcReceive, Requested
    <3>2. PICK u : u = [[kind |-> "resp", to |-> p, extra |-> 0] EXCEPT !.extra = k]
      OBVIOUS
    <3>3. PICK v : v = [[kind |-> "resp", to |-> p, extra |-> 0] EXCEPT !.kind = "extra"]
      OBVIOUS
    <3>4. PICK t : t = [i \in 1 .. k |-> [[kind |-> "resp", to |-> p, extra |-> 0] EXCEPT !.kind = "extra"]]
      OBVIOUS
    <3>5. fromhost' = <<u>> \o t
      BY <3>1, <3>2, <3>4, Zenon
    <3>6. t \in Seq({v}) /\ Len(t) = k /\ \A i \in 1 .. k : t[i] = v
      BY <1>7, <3>3, <3>4
    <3>7. Len(fromhost') = 1 + k /\ fromhost'[1] = u /\ \A i \in 2 .. Len(fromhost') : fromhost'[i] = v
      BY <1>7, <3>5, <3>6
    <3>8. Response(p, fromhost', r.in)
      BY <1>7, <3>2, <3>3, <3>7 DEF Response
    <3>. QED
      BY <1>9, <2>1, <3>8 DEF Silent
  <2>2. CASE ~(inreq.off + n = FrameSize(r) /\ r.op \in {"xchg", "usb"})
    <3>1. fromhost' = <<>>
      BY <1>3, <1>6, <1>8, <2>2 DEF PcReceive, Requested
    <3>. QED
      BY <1>9, <2>2, <3>1 DEF Silent, Assembled
  <2>. QED
    BY <2>1, <2>2
<1>12. Requested(p, r)'
  BY <1>6, <1>10 DEF Requested
<1>13. Taken(p, r, inreq.off + inreq.recv)'
  BY <1>8, <1>10, <1>11 DEF Taken, Assembled
<1>14. InFrame(p, r)' /\ OwnData(p, r)' /\ Transfers(r)
  BY <1>3, <1>10, <1>12, <1>13 DEF InFrame, OwnData, Transfers, Writing
<1>. QED
  BY <1>3, <1>4, <1>5, <1>9, <1>14, FramedFocus

LEMMA FramedPcSends ==
  ASSUME IInv, AllShaped, Phase, Calm, Framed, PcSends
  PROVE  Framed'
<1>1. /\ attached /\ outreq.state = "sent" /\ th \in [Threads -> Call]
      /\ fromhost \in Seq(Unit) /\ outreq.size \in Nat
  BY DEF PcSends, IInv, TypeOK
<1>2. PICK p \in Threads : th[p].at = "getwait"
  BY <1>1 DEF Framed
<1>3. PICK r \in Call : r = th[p] /\ CallOK(r) /\ Shaped(p, r) /\ r.at = "getwait"
  BY <1>1, <1>2 DEF IInv, CallsOK, AllShaped
<1>4. \A x \in Threads : x # p => ~Transfers(th[x])
  <2>1. Transfers(th[p])
    BY <1>2 DEF Transfers, Reading
  <2>. QED
    BY <2>1, OneUser
<1>5. insync /\ InFrame(p, r)
  BY <1>1, <1>3 DEF Framed
<1>6. pc.got = 0 /\ outreq.size = Size(r) - r.done /\ ~outreq.fail /\ Expects(p, r, fromhost)
  BY <1>1, <1>3, <1>5 DEF InFrame
<1>7. PICK n \in 1 .. Min2(outreq.size, Len(fromhost)) :
         /\ outreq' = [outreq EXCEPT !.state = "done", !.data = SubSeq(fromhost, 1, n)]
         /\ fromhost' = SubSeq(fromhost, n + 1, Len(fromhost))
  BY DEF PcSends
<1>8. th' = th /\ attached' = attached /\ pc' = pc /\ insync' = insync
  BY DEF PcSends
<1>9. n \in Nat \ {0} /\ n <= outreq.size /\ n <= Len(fromhost) /\ Len(fromhost) \in Nat
  BY <1>1, <1>7 DEF Min2
<1>10. PICK s \in Seq(Unit) : s = SubSeq(fromhost, 1, n) /\ Len(s) = n /\ s # <<>>
  <2>1. \A i \in 1 .. n : fromhost[i] \in Unit
    BY <1>1, <1>9
  <2>2. SubSeq(fromhost, 1, n) \in Seq(Unit) /\ Len(SubSeq(fromhost, 1, n)) = n
    BY <1>9, <2>1, SubSeqProperties
  <2>3. SubSeq(fromhost, 1, n) # <<>>
    BY <1>9, <2>2, EmptySeq
  <2>. QED
    BY <2>2, <2>3
<1>11. PICK t \in Seq(Unit) : t = SubSeq(fromhost, n + 1, Len(fromhost))
  <2>1. \A i \in n + 1 .. Len(fromhost) : fromhost[i] \in Unit
    BY <1>1, <1>9
  <2>2. n + 1 \in Int /\ Len(fromhost) \in Int
    BY <1>9
  <2>3. SubSeq(fromhost, n + 1, Len(fromhost)) \in Seq(Unit)
    BY <2>1, <2>2, SubSeqProperties
  <2>. QED
    BY <2>3
<1>12. s \o t = fromhost
  BY <1>1, <1>9, <1>10, <1>11
<1>13. outreq'.state = "done" /\ outreq'.data = s /\ outreq'.size = outreq.size /\ ~outreq'.fail
  BY <1>6, <1>7, <1>10 DEF IInv, TypeOK
<1>14. r.done < Size(r) /\ r.stage \in {"magic", "resp", "extra"}
  BY <1>3 DEF CallOK, Active, Shaped, Reading
<1>15. \A i \in 1 .. Len(s) : s[i].to = p /\ s[i].kind = r.stage
  <2>1. Expects(p, r, s \o t)
    BY <1>6, <1>12
  <2>2. s # <<>> /\ Len(s) <= Size(r) - r.done
    BY <1>6, <1>9, <1>10
  <2>. QED
    BY <1>14, <2>1, <2>2, ExpectsRest
<1>16. Arrived(p, r)'
  BY <1>6, <1>7, <1>9, <1>10, <1>11, <1>12, <1>13 DEF Arrived
<1>17. InFrame(p, r)' /\ OwnData(p, r)' /\ Transfers(r)
  BY <1>3, <1>6, <1>8, <1>13, <1>15, <1>16 DEF InFrame, OwnData, Transfers, Reading
<1>. QED
  BY <1>3, <1>4, <1>5, <1>8, <1>13, <1>17, FramedFocus

LEMMA FramedNext ==
  ASSUME "bulk" \notin Ops \/ ~ShortIn
  PROVE  IInv /\ InSafe /\ AllShaped /\ Phase /\ Framed /\ [Next]_vars => Framed'
<1>. SUFFICES ASSUME IInv, InSafe, AllShaped, Phase, Framed, [Next]_vars, Calm' PROVE Framed'
  BY DEF Framed
<1>1. Calm
  BY CalmBefore
<1>2. CASE UNCHANGED vars
  BY <1>1, <1>2, FramedStays DEF vars, Due
<1>3. CASE \E p \in Clients : Begin(p)
  BY <1>1, <1>3, FramedBegin
<1>4. CASE \E p \in Threads : Exchange(p)
  BY <1>1, <1>4, FramedWaitSema, FramedSignalSema, FramedPut, FramedPutDone, FramedGet, FramedGetDone,
     FramedGetCheck DEF Exchange
<1>5. CASE UsbStep
  BY <1>1, <1>5, FramedUsb
<1>6. CASE PcReceives
  BY <1>1, <1>6, FramedPcReceives
<1>7. CASE PcSends
  BY <1>1, <1>7, FramedPcSends
<1>8. CASE PcSendsAsync
  BY <1>1, <1>8, FramedStays DEF PcSendsAsync, host, Due
<1>9. CASE Cancel
  <2>1. ~attached /\ UNCHANGED host /\ th' = th
    BY <1>9 DEF Cancel, FailIn, FailOut, FailAsync
  <2>2. outreq' = outreq \/ (outreq'.state = "done" /\ outreq'.data = outreq.data)
    BY <1>9 DEF Cancel, FailIn, FailOut, FailAsync, IInv, TypeOK
  <2>. QED
    BY <1>1, <2>1, <2>2 DEF Framed, OwnData, host
<1>10. CASE Fault
  <2>1. faults' = faults + 1 /\ faults \in Nat
    BY <1>10 DEF Fault, IInv, TypeOK
  <2>. QED
    BY <2>1 DEF Calm
<1>11. CASE usb_attach
  <2>1. attaches = 0
    BY <1>11 DEF usb_attach, Calm, IInv, TypeOK
  <2>2. Alone /\ th[UsbThread].at = "loop"
    BY <1>1, <2>1 DEF Phase
  <2>3. \A x \in Threads : ~Transfers(th'[x])
    BY <1>11, <2>2, NoUser DEF usb_attach, Handling
  <2>4. Quiet' /\ outreq'.state # "sent"
    BY <1>11, <2>2 DEF usb_attach, Quiet, Due, Handling, Magic, Silent
  <2>5. insync'
    BY <1>1, <1>11 DEF usb_attach, Framed
  <2>. QED
    BY <2>3, <2>4, <2>5, FramedQuiet
<1>12. CASE usb_detach
  BY <1>1, <1>12 DEF usb_detach, Framed, OwnData
<1>. QED
  BY <1>2, <1>3, <1>4, <1>5, <1>6, <1>7, <1>8, <1>9, <1>10, <1>11, <1>12 DEF Next

(* Both ends of the bus keep in step, whatever the clients do and however the *)
(* transfers are cut, as long as the cable was plugged in once and no transfer *)
(* failed.  A large payload is sent in one piece, which a short transfer would *)
(* lose.                                                                      *)
THEOREM FramesInSync ==
  ASSUME "bulk" \notin Ops \/ ~ShortIn
  PROVE  Spec => [](attaches <= 1 /\ faults = 0 => BothInSync)
<1>. DEFINE FInv == IInv /\ InSafe /\ AllShaped /\ Phase /\ Framed
<1>1. Init => FInv
  <2>. SUFFICES ASSUME Init PROVE FInv
    OBVIOUS
  <2>1. IInv /\ InSafe
    BY InitOK DEF Init, InSafe, NoIn
  <2>2. \A p \in Threads : th[p] = IF p = UsbThread THEN Loop ELSE Idle
    BY DEF Init
  <2>3. AllShaped
    BY <2>2, LoopFields DEF AllShaped, Shaped, Writing, Reading
  <2>4. Alone /\ th[UsbThread].at = "loop"
    BY <2>2, LoopFields, BusAssumption DEF Init, Alone, Threads
  <2>5. Phase
    BY <2>4 DEF Init, Phase
  <2>6. Framed
    BY <2>2, LoopFields DEF Init, Framed, OwnData
  <2>. QED
    BY <2>1, <2>3, <2>5, <2>6
<1>2. FInv /\ [Next]_vars => FInv'
  BY NextOK, InSafeNext, ShapedNext, PhaseNext, FramedNext
<1>3. FInv => (attaches <= 1 /\ faults = 0 => BothInSync)
  BY DEF Framed, Calm, OwnData, BothInSync, HostInSync, ResponseMatches
<1>. QED
  BY <1>1, <1>2, <1>3, PTL DEF Spec

==============================================================================
