--------------------------- MODULE WifiHostProofs ---------------------------
(* The socket pool of WifiHost for every number of clients and sockets, of    *)
(* whatever priorities: until two threads have met between the look at busy   *)
(* and the store of it, or before the reply is read, a socket never serves    *)
(* two calls; and what goes over the sockets until then: a socket comes back  *)
(* to the pool clean, a call gets the reply to its own request, and reads and *)
(* writes are whole.                                                          *)
EXTENDS WifiHost, SequenceTheorems, TLAPS

At(c) == client[c].at
On(c) == client[c].s
Busy(s) == sock[s].busy

Bare == {"take", "return"}

(* What the argument needs of the types.                                      *)
Shape ==
    /\ DOMAIN sock = Socks
    /\ \A s \in Socks : "busy" \in DOMAIN sock[s] /\ Busy(s) \in BOOLEAN
    /\ DOMAIN client = Clients
    /\ \A c \in Clients : {"at", "s"} \subseteq DOMAIN client[c] /\ On(c) \in Socks
    /\ {"at", "i"} \subseteq DOMAIN ctl /\ ctl.i \in Socks

(* A blocked call has its socket marked, for itself alone; a call that has    *)
(* not marked its socket yet or not any more is alone with that.              *)
Pool ==
    /\ \A c \in Clients : At(c) \in Blocked => Busy(On(c))
    /\ \A c, d \in Clients : At(c) \in Blocked /\ At(d) \in Blocked /\ On(c) = On(d) => c = d
    /\ \A c, d \in Clients : At(c) \in Bare /\ At(d) \in Bare /\ On(c) = On(d) => c = d
    /\ \A c \in Clients : At(c) \in Bare => ~Busy(On(c))

(* A socket that wifiIoExit uses is not marked and no call has found it.      *)
ExitAlone ==
    ctl.at = "sent" =>
        /\ ~Busy(ctl.i)
        /\ \A c \in Clients : At(c) \in Bare => On(c) # ctl.i

IInv == Shape /\ Pool /\ ExitAlone

(* Nobody else is on c's socket without having marked it.                     *)
Alone(c) == \A d \in Clients \ {c} : At(d) \in Bare => On(d) # On(c)

(* Its mark keeps the others off.                                             *)
LEMMA MarkedAlone ==
    ASSUME IInv, NEW c \in Clients, At(c) \in Bare \cup Blocked
    PROVE  Alone(c)
BY DEF IInv, Pool, Alone

LEMMA NumSockNat == NumSock \in Nat /\ NumSock > 0 /\ Socks = 0 .. NumSock /\ 0 \in Socks
BY WifiHostAssumption DEF Socks

LEMMA InitInv == Init => IInv
<1>. SUFFICES ASSUME Init PROVE IInv
  OBVIOUS
<1>1. \A s \in Socks : Busy(s) = FALSE /\ "busy" \in DOMAIN sock[s]
  BY DEF Init, Busy
<1>2. \A c \in Clients : At(c) = "idle" /\ On(c) = 0 /\ {"at", "s"} \subseteq DOMAIN client[c]
  BY DEF Init, At, On
<1>3. ctl.at = "none" /\ ctl.i = 0 /\ {"at", "i"} \subseteq DOMAIN ctl
  BY DEF Init
<1>4. DOMAIN sock = Socks /\ DOMAIN client = Clients
  BY DEF Init
<1>. QED
  BY <1>1, <1>2, <1>3, <1>4, NumSockNat DEF IInv, Shape, Pool, ExitAlone, Blocked, Bare

(* The invariant only speaks of at and s of a client, of busy of a socket and *)
(* of ctl: a step that keeps them keeps it.                                   *)
LEMMA Quiet ==
    ASSUME IInv,
           DOMAIN sock' = Socks, \A s \in Socks : "busy" \in DOMAIN sock'[s] /\ Busy(s)' = Busy(s),
           UNCHANGED <<client, ctl>>
    PROVE  IInv'
BY DEF IInv, Shape, Pool, ExitAlone, At, On, Busy

(* A step of the client c that stays on its socket and does not change busy.  *)
LEMMA StaysBlocked ==
    ASSUME IInv, NEW c \in Clients, At(c) \in Blocked,
           DOMAIN sock' = Socks, \A s \in Socks : "busy" \in DOMAIN sock'[s] /\ Busy(s)' = Busy(s),
           DOMAIN client' = Clients, \A d \in Clients \ {c} : client'[d] = client[d],
           {"at", "s"} \subseteq DOMAIN client'[c],
           At(c)' \in Blocked \cup {"idle"}, On(c)' \in Socks,
           At(c)' \in Blocked => On(c)' = On(c),
           ctl' = ctl
    PROVE  IInv'
<1>1. Shape'
  BY DEF IInv, Shape, On, Busy
<1>2. Pool'
  BY DEF IInv, Shape, Pool, At, On, Busy, Blocked, Bare
<1>3. ExitAlone'
  BY DEF IInv, Shape, ExitAlone, At, On, Busy, Blocked, Bare
<1>. QED
  BY <1>1, <1>2, <1>3 DEF IInv

(* A step of the client c that gives its socket back.                         *)
LEMMA GivesBack ==
    ASSUME IInv, NEW c \in Clients, At(c) \in Blocked,
           Alone(c),
           DOMAIN sock' = Socks, \A s \in Socks : "busy" \in DOMAIN sock'[s],
           \A s \in Socks \ {On(c)} : Busy(s)' = Busy(s),
           sock'[On(c)].busy = FALSE,
           DOMAIN client' = Clients, \A d \in Clients \ {c} : client'[d] = client[d],
           {"at", "s"} \subseteq DOMAIN client'[c],
           At(c)' \in {"return", "idle"}, On(c)' \in Socks,
           At(c)' = "return" => On(c)' = On(c),
           ctl' = ctl
    PROVE  IInv'
<1>0. On(c) \in Socks /\ Busy(On(c)) /\ sock'[On(c)].busy = FALSE
  BY DEF IInv, Shape, Pool, Busy
<1>1. Shape'
  BY <1>0 DEF IInv, Shape, On, Busy
<1>2. \A d \in Clients \ {c} : At(d)' = At(d) /\ On(d)' = On(d)
  BY DEF At, On
<1>3. \A d \in Clients \ {c} : At(d) \in Blocked => On(d) # On(c) /\ Busy(On(d))'
  BY <1>2 DEF IInv, Shape, Pool
<1>4. Pool'
  BY <1>0, <1>2, <1>3 DEF Pool, Alone, Busy, Blocked, Bare, IInv, Shape, On
<1>5. ExitAlone'
  BY <1>0, <1>2 DEF IInv, Shape, ExitAlone, At, On, Busy, Blocked, Bare
<1>. QED
  BY <1>1, <1>4, <1>5 DEF IInv

(* A fresh call looks for a socket.                                           *)
LEMMA BeginInv == ASSUME IInv, NEW c \in Clients, Begin(c) PROVE IInv'
<1>1. PICK op \in Ops \ {"exit"}, len \in 1 .. MaxLen :
        client' = [client EXCEPT ![c] =
                [at |-> "find", op |-> op, s |-> 0, len |-> len, done |-> 0, data |-> <<>>,
                 ret |-> "none", reply |-> c]]
  BY DEF Begin
<1>2. At(c) = "idle" /\ ctl.at = "none" /\ ctl' = ctl /\ sock' = sock
  BY DEF Begin, At
<1>4. /\ DOMAIN client' = Clients
      /\ \A d \in Clients \ {c} : client'[d] = client[d]
      /\ client'[c].at = "find" /\ client'[c].s = 0 /\ {"at", "s"} \subseteq DOMAIN client'[c]
  BY <1>1 DEF IInv, Shape
<1>5. Shape'
  BY <1>2, <1>4, NumSockNat DEF IInv, Shape, On, Busy
<1>6. Pool'
  BY <1>2, <1>4 DEF IInv, Shape, Pool, At, On, Busy, Blocked, Bare
<1>7. ExitAlone'
  BY <1>2 DEF ExitAlone
<1>. QED
  BY <1>5, <1>6, <1>7 DEF IInv

LEMMA NextSock == ASSUME NEW s \in Socks PROVE (s + 1) % NumSock \in Socks
<1>1. NumSock \in Nat /\ NumSock > 0 /\ s \in Nat
  BY NumSockNat
<1>2. (s + 1) % NumSock \in 0 .. NumSock - 1
  BY <1>1
<1>. QED
  BY <1>1, <1>2, NumSockNat

LEMMA LookInv == ASSUME IInv, ~met', NEW c \in Clients, getIdleSock(c) PROVE IInv'
<1>1. At(c) = "find" /\ On(c) \in Socks /\ ctl' = ctl /\ sock' = sock
  BY DEF getIdleSock, At, IInv, Shape
<1>2. ~Busy(On(c)) => /\ \A d \in Clients : At(d) \in Bare => On(d) # On(c)
                      /\ ctl.at = "sent" => ctl.i # On(c)
  <2>1. ~Busy(On(c)) => ~ExitedBy(On(c)) /\ \A d \in Clients : ~Unmarked(d, On(c))
    BY DEF getIdleSock, On, Busy
  <2>2. ctl.at = "sent" /\ ctl.i = On(c) => ExitedBy(On(c))
    BY DEF ExitedBy
  <2>3. \A d \in Clients : At(d) \in Bare /\ On(d) = On(c) => Unmarked(d, On(c))
    BY DEF Unmarked, Bare, At, On
  <2>. QED
    BY <2>1, <2>2, <2>3
<1>4. /\ DOMAIN client' = Clients
      /\ \A d \in Clients \ {c} : client'[d] = client[d]
      /\ {"at", "s"} \subseteq DOMAIN client'[c]
      /\ \/ ~Busy(On(c)) /\ client'[c].at = "take" /\ client'[c].s = On(c)
         \/ client'[c].at = "find" /\ client'[c].s = (On(c) + 1) % NumSock
  <2>1. CASE ~Busy(On(c))
    <3>1. client' = [client EXCEPT ![c].at = "take"]
      BY <2>1 DEF getIdleSock, Busy, On
    <3>. QED
      BY <2>1, <3>1 DEF IInv, Shape, On
  <2>2. CASE Busy(On(c))
    <3>1. client' = [client EXCEPT ![c].s = (On(c) + 1) % NumSock]
      BY <2>2 DEF getIdleSock, Busy, On
    <3>. QED
      BY <1>1, <3>1 DEF IInv, Shape, At
  <2>. QED
    BY <2>1, <2>2
<1>5. client'[c].s \in Socks
  BY <1>1, <1>4, NextSock
<1>6. Shape'
  BY <1>1, <1>4, <1>5 DEF IInv, Shape, On, Busy
<1>7. /\ \A d \in Clients \ {c} : At(d)' = At(d) /\ On(d)' = On(d)
      /\ \A s \in Socks : Busy(s)' = Busy(s)
      /\ At(c)' \notin Blocked
      /\ At(c)' \in Bare => ~Busy(On(c)) /\ On(c)' = On(c)
  BY <1>1, <1>4 DEF At, On, Busy, Blocked, Bare
<1>8. Pool'
  <2>1. \A d \in Clients : At(d)' \in Blocked => Busy(On(d))'
    BY <1>1, <1>7 DEF IInv, Shape, Pool, Busy
  <2>2. \A d, e \in Clients : At(d)' \in Blocked /\ At(e)' \in Blocked /\ On(d)' = On(e)' => d = e
    BY <1>7 DEF IInv, Pool
  <2>3. \A d, e \in Clients : At(d)' \in Bare /\ At(e)' \in Bare /\ On(d)' = On(e)' => d = e
    <3>. SUFFICES ASSUME NEW d \in Clients, NEW e \in Clients, At(d)' \in Bare, At(e)' \in Bare, On(d)' = On(e)'
                  PROVE  d = e
      OBVIOUS
    <3>1. CASE d = c \/ e = c
      BY <1>2, <1>7, <3>1
    <3>2. CASE d # c /\ e # c
      BY <1>7, <3>2 DEF IInv, Pool
    <3>. QED
      BY <3>1, <3>2
  <2>4. \A d \in Clients : At(d)' \in Bare => ~Busy(On(d))'
    BY <1>1, <1>7 DEF IInv, Shape, Pool, Busy
  <2>. QED
    BY <2>1, <2>2, <2>3, <2>4 DEF Pool
<1>9. ExitAlone'
  BY <1>1, <1>2, <1>7 DEF IInv, Shape, ExitAlone, Busy
<1>. QED
  BY <1>6, <1>8, <1>9 DEF IInv

(* busy is set on a socket that no blocked call is on: it was not busy.       *)
LEMMA TakeInv == ASSUME IInv, NEW c \in Clients, Take(c) PROVE IInv'
<1>1. At(c) = "take" /\ On(c) \in Socks /\ ctl' = ctl /\ ~Busy(On(c))
  BY DEF Take, At, IInv, Shape, Pool, Bare
<1>2. Alone(c)
  BY <1>1, MarkedAlone DEF Bare
<1>3. ctl.at = "sent" => On(c) # ctl.i
  BY <1>1 DEF IInv, ExitAlone, Bare
<1>4. /\ DOMAIN client' = Clients
      /\ \A d \in Clients \ {c} : client'[d] = client[d]
      /\ {"at", "s"} \subseteq DOMAIN client'[c]
      /\ client'[c].at = "sent" /\ client'[c].s = On(c)
  <2>1. client' = [client EXCEPT ![c].at = "sent"]
    BY DEF Take
  <2>. QED
    BY <2>1 DEF IInv, Shape, On
<1>5. /\ DOMAIN sock' = Socks
      /\ \A s \in Socks \ {On(c)} : sock'[s] = sock[s]
      /\ "busy" \in DOMAIN sock'[On(c)] /\ sock'[On(c)].busy = TRUE
  <2>1. PICK units, own :
           sock' = [sock EXCEPT ![On(c)] = wifiSend([@ EXCEPT !.busy = TRUE], units, own)]
    BY DEF Take, On
  <2>. DEFINE so == wifiSend([sock[On(c)] EXCEPT !.busy = TRUE], units, own)
  <2>2. "busy" \in DOMAIN so /\ so.busy = TRUE
    BY <1>1 DEF wifiSend, IInv, Shape
  <2>3. sock' = [sock EXCEPT ![On(c)] = so]
    BY <2>1
  <2>. HIDE DEF so
  <2>. QED
    BY <1>1, <2>2, <2>3 DEF IInv, Shape
<1>6. Shape'
  BY <1>1, <1>4, <1>5 DEF IInv, Shape, On, Busy
<1>7. \A d \in Clients \ {c} : At(d) \in Blocked => On(d) # On(c)
  BY <1>1 DEF IInv, Pool
<1>8. \A d \in Clients \ {c} : At(d)' = At(d) /\ On(d)' = On(d)
  BY <1>4 DEF At, On
<1>9. At(c)' = "sent" /\ On(c)' = On(c)
  BY <1>4 DEF At, On
<1>10. Pool'
  <2>1. \A d \in Clients : At(d)' \in Blocked => Busy(On(d))'
    BY <1>1, <1>5, <1>7, <1>8, <1>9 DEF IInv, Shape, Pool, Busy, Blocked
  <2>2. \A d, e \in Clients : At(d)' \in Blocked /\ At(e)' \in Blocked /\ On(d)' = On(e)' => d = e
    BY <1>7, <1>8, <1>9 DEF IInv, Pool
  <2>3. \A d, e \in Clients : At(d)' \in Bare /\ At(e)' \in Bare /\ On(d)' = On(e)' => d = e
    BY <1>8, <1>9 DEF IInv, Pool, Bare
  <2>4. \A d \in Clients : At(d)' \in Bare => ~Busy(On(d))'
    BY <1>2, <1>5, <1>8, <1>9 DEF IInv, Shape, Pool, Alone, Busy, Bare
  <2>. QED
    BY <2>1, <2>2, <2>3, <2>4 DEF Pool
<1>11. ExitAlone'
  BY <1>1, <1>3, <1>5, <1>8, <1>9 DEF IInv, Shape, ExitAlone, Busy, Bare
<1>. QED
  BY <1>6, <1>10, <1>11 DEF IInv

(* What a step of a blocked call leaves of its socket.                        *)
LEMMA SockKept ==
    ASSUME NEW s \in Socks, NEW so, "busy" \in DOMAIN so, so.busy = Busy(s), Shape,
           sock' = [sock EXCEPT ![s] = so]
    PROVE  /\ DOMAIN sock' = Socks
           /\ \A q \in Socks : "busy" \in DOMAIN sock'[q] /\ Busy(q)' = Busy(q)
BY DEF Shape, Busy

LEMMA IoKeepsBusy ==
    ASSUME NEW so, "busy" \in DOMAIN so, NEW len, NEW units, NEW own
    PROVE  /\ "busy" \in DOMAIN wifiRecv(so, len) /\ wifiRecv(so, len).busy = so.busy
           /\ "busy" \in DOMAIN wifiSend(so, units, own) /\ wifiSend(so, units, own).busy = so.busy
<1>1. "busy" \in DOMAIN wifiRecv(so, len) /\ wifiRecv(so, len).busy = so.busy
  BY DEF wifiRecv
<1>2. "busy" \in DOMAIN wifiSend(so, units, own) /\ wifiSend(so, units, own).busy = so.busy
  BY DEF wifiSend
<1>. QED
  BY <1>1, <1>2

(* The semaphore is taken: busy stays.                                        *)
LEMMA SemaTaken ==
    ASSUME Shape, NEW s \in Socks, NEW so, so = [sock[s] EXCEPT !.sema = 0]
    PROVE  "busy" \in DOMAIN so /\ so.busy = Busy(s)
BY DEF Shape, Busy

(* A blocked client whose fields change.                                      *)
LEMMA FailInv ==
    ASSUME IInv, NEW c \in Clients, At(c) \in Blocked, Fail(c), ctl' = ctl
    PROVE  IInv'
<1>. DEFINE so == [sock[On(c)] EXCEPT !.sema = 0]
<1>1. Shape /\ On(c) \in Socks
  BY DEF IInv, Shape
<1>2. sock' = [sock EXCEPT ![On(c)] = so]
  BY DEF Fail, On
<1>3. "busy" \in DOMAIN so /\ so.busy = Busy(On(c))
  BY <1>1, SemaTaken
<1>. HIDE DEF so
<1>4. DOMAIN sock' = Socks /\ \A q \in Socks : "busy" \in DOMAIN sock'[q] /\ Busy(q)' = Busy(q)
  BY ONLY <1>1, <1>2, <1>3, SockKept
<1>5. PICK op : client' = [client EXCEPT ![c] = [at |-> "idle", op |-> op, s |-> 0, len |-> 0,
                             done |-> 0, data |-> <<>>, ret |-> "error", reply |-> c]]
  BY DEF Fail, Finish
<1>6. /\ DOMAIN client' = Clients
      /\ \A d \in Clients \ {c} : client'[d] = client[d]
      /\ {"at", "s"} \subseteq DOMAIN client'[c]
      /\ client'[c].at = "idle" /\ client'[c].s = 0
  BY <1>1, <1>5 DEF Shape
<1>7. At(c)' \in Blocked \cup {"idle"} /\ On(c)' \in Socks /\ (At(c)' \in Blocked => On(c)' = On(c))
  BY <1>6, NumSockNat DEF At, On, Blocked
<1>. QED
  BY <1>4, <1>6, <1>7, StaysBlocked

(* A call goes on to another blocked step of its own.                         *)
LEMMA GoesOn ==
    ASSUME IInv, NEW c \in Clients, At(c) \in Blocked, ctl' = ctl,
           NEW new, "busy" \in DOMAIN new, new.busy = Busy(On(c)),
           sock' = [sock EXCEPT ![On(c)] = new],
           NEW rec, {"at", "s"} \subseteq DOMAIN rec, rec.at \in Blocked, rec.s = On(c),
           client' = [client EXCEPT ![c] = rec]
    PROVE  IInv'
<1>1. Shape /\ On(c) \in Socks
  BY DEF IInv, Shape
<1>2. DOMAIN sock' = Socks /\ \A q \in Socks : "busy" \in DOMAIN sock'[q] /\ Busy(q)' = Busy(q)
  BY <1>1, SockKept
<1>3. /\ DOMAIN client' = Clients
      /\ \A d \in Clients \ {c} : client'[d] = client[d]
      /\ {"at", "s"} \subseteq DOMAIN client'[c]
      /\ client'[c] = rec
  BY <1>1 DEF Shape
<1>4. At(c)' \in Blocked \cup {"idle"} /\ On(c)' \in Socks /\ (At(c)' \in Blocked => On(c)' = On(c))
  BY <1>1, <1>3 DEF At, On
<1>. QED
  BY <1>2, <1>3, <1>4, StaysBlocked

(* A call gives its socket back and returns or is about to.                   *)
LEMMA Frees ==
    ASSUME IInv, NEW c \in Clients, At(c) \in Blocked, ctl' = ctl,
           Alone(c),
           NEW new, "busy" \in DOMAIN new, new.busy = FALSE,
           sock' = [sock EXCEPT ![On(c)] = new],
           NEW rec, {"at", "s"} \subseteq DOMAIN rec,
           (rec.at = "return" /\ rec.s = On(c)) \/ (rec.at = "idle" /\ rec.s = 0),
           client' = [client EXCEPT ![c] = rec]
    PROVE  IInv'
<1>1. Shape /\ On(c) \in Socks
  BY DEF IInv, Shape
<1>2. /\ DOMAIN sock' = Socks /\ \A s \in Socks : "busy" \in DOMAIN sock'[s]
      /\ \A s \in Socks \ {On(c)} : Busy(s)' = Busy(s)
      /\ sock'[On(c)].busy = FALSE
  BY <1>1 DEF Shape, Busy
<1>3. /\ DOMAIN client' = Clients
      /\ \A d \in Clients \ {c} : client'[d] = client[d]
      /\ {"at", "s"} \subseteq DOMAIN client'[c]
      /\ client'[c] = rec
  BY <1>1 DEF Shape
<1>4. At(c)' \in {"return", "idle"} /\ On(c)' \in Socks /\ (At(c)' = "return" => On(c)' = On(c))
  BY <1>1, <1>3, NumSockNat DEF At, On
<1>. QED
  BY <1>2, <1>3, <1>4, GivesBack

LEMMA WokenAlone ==
    ASSUME IInv, NEW c \in Clients, NEW at \in Blocked, Woken(c, at)
    PROVE  At(c) = at /\ Alone(c)
BY MarkedAlone DEF Woken, At

(* The client record with some fields changed keeps its socket.               *)
LEMMA ClientKept ==
    ASSUME Shape, NEW c \in Clients, NEW at, NEW done, NEW len, NEW reply, NEW data
    PROVE  /\ LET rec == [client[c] EXCEPT !.at = at]
              IN  {"at", "s"} \subseteq DOMAIN rec /\ rec.at = at /\ rec.s = On(c)
           /\ LET rec == [client[c] EXCEPT !.at = at, !.done = done]
              IN  {"at", "s"} \subseteq DOMAIN rec /\ rec.at = at /\ rec.s = On(c)
           /\ LET rec == [client[c] EXCEPT !.at = at, !.len = len, !.reply = reply]
              IN  {"at", "s"} \subseteq DOMAIN rec /\ rec.at = at /\ rec.s = On(c)
           /\ LET rec == [client[c] EXCEPT !.done = done]
              IN  {"at", "s"} \subseteq DOMAIN rec /\ rec.at = At(c) /\ rec.s = On(c)
           /\ LET rec == [client[c] EXCEPT !.done = done, !.data = data]
              IN  {"at", "s"} \subseteq DOMAIN rec /\ rec.at = At(c) /\ rec.s = On(c)
BY DEF Shape, At, On

LEMMA SentInv == ASSUME IInv, NEW c \in Clients, Sent(c) PROVE IInv'
<1>. DEFINE so == [sock[On(c)] EXCEPT !.sema = 0]
<1>1. At(c) \in Blocked /\ ctl' = ctl /\ Shape /\ On(c) \in Socks
  BY DEF Sent, Woken, At, Blocked, IInv, Shape
<1>2. "busy" \in DOMAIN so /\ so.busy = Busy(On(c))
  BY <1>1, SemaTaken
<1>3. \/ Fail(c)
      \/ /\ sock' = [sock EXCEPT ![On(c)] = wifiRecv(so, ReplyLen(client[c].op))]
         /\ client' = [client EXCEPT ![c].at = "replied"]
      \/ /\ sock' = [sock EXCEPT ![On(c)] = wifiSend(so, Data(c, 0, Block(c, 0)), FALSE)]
         /\ client' = [client EXCEPT ![c].at = "block"]
  BY DEF Sent, On
<1>. HIDE DEF so
<1>4. CASE Fail(c)
  BY <1>1, <1>4, FailInv
<1>5. CASE /\ sock' = [sock EXCEPT ![On(c)] = wifiRecv(so, ReplyLen(client[c].op))]
           /\ client' = [client EXCEPT ![c].at = "replied"]
  <2>. DEFINE new == wifiRecv(so, ReplyLen(client[c].op))
              rec == [client[c] EXCEPT !.at = "replied"]
  <2>1. "busy" \in DOMAIN new /\ new.busy = Busy(On(c))
    BY <1>2, IoKeepsBusy
  <2>2. {"at", "s"} \subseteq DOMAIN rec /\ rec.at \in Blocked /\ rec.s = On(c)
    BY <1>1, ClientKept DEF Blocked
  <2>3. sock' = [sock EXCEPT ![On(c)] = new] /\ client' = [client EXCEPT ![c] = rec]
    BY <1>5
  <2>. HIDE DEF new, rec
  <2>. QED
    BY <1>1, <2>1, <2>2, <2>3, GoesOn
<1>6. CASE /\ sock' = [sock EXCEPT ![On(c)] = wifiSend(so, Data(c, 0, Block(c, 0)), FALSE)]
           /\ client' = [client EXCEPT ![c].at = "block"]
  <2>. DEFINE new == wifiSend(so, Data(c, 0, Block(c, 0)), FALSE)
              rec == [client[c] EXCEPT !.at = "block"]
  <2>1. "busy" \in DOMAIN new /\ new.busy = Busy(On(c))
    BY <1>2, IoKeepsBusy
  <2>2. {"at", "s"} \subseteq DOMAIN rec /\ rec.at \in Blocked /\ rec.s = On(c)
    BY <1>1, ClientKept DEF Blocked
  <2>3. sock' = [sock EXCEPT ![On(c)] = new] /\ client' = [client EXCEPT ![c] = rec]
    BY <1>6
  <2>. HIDE DEF new, rec
  <2>. QED
    BY <1>1, <2>1, <2>2, <2>3, GoesOn
<1>. QED
  BY <1>3, <1>4, <1>5, <1>6

LEMMA BlockSentInv == ASSUME IInv, NEW c \in Clients, BlockSent(c) PROVE IInv'
<1>. DEFINE so == [sock[On(c)] EXCEPT !.sema = 0]
            done == client[c].done + so.res
<1>1. At(c) = "block" /\ At(c) \in Blocked /\ ctl' = ctl /\ Shape /\ On(c) \in Socks
  BY DEF BlockSent, Woken, At, Blocked, IInv, Shape
<1>2. "busy" \in DOMAIN so /\ so.busy = Busy(On(c))
  BY <1>1, SemaTaken
<1>3. \/ Fail(c)
      \/ /\ sock' = [sock EXCEPT ![On(c)] = wifiSend(so, Data(c, done, done + Block(c, done)), FALSE)]
         /\ client' = [client EXCEPT ![c].done = done]
      \/ /\ sock' = [sock EXCEPT ![On(c)] = wifiRecv([so EXCEPT !.own = TRUE], 1)]
         /\ client' = [client EXCEPT ![c].at = "replied", ![c].done = done]
  BY DEF BlockSent, On
<1>4. "busy" \in DOMAIN [so EXCEPT !.own = TRUE] /\ [so EXCEPT !.own = TRUE].busy = Busy(On(c))
  BY <1>2
<1>. HIDE DEF so, done
<1>5. CASE Fail(c)
  BY <1>1, <1>5, FailInv
<1>6. CASE /\ sock' = [sock EXCEPT ![On(c)] = wifiSend(so, Data(c, done, done + Block(c, done)), FALSE)]
           /\ client' = [client EXCEPT ![c].done = done]
  <2>. DEFINE new == wifiSend(so, Data(c, done, done + Block(c, done)), FALSE)
              rec == [client[c] EXCEPT !.done = done]
  <2>1. "busy" \in DOMAIN new /\ new.busy = Busy(On(c))
    BY <1>2, IoKeepsBusy
  <2>2. {"at", "s"} \subseteq DOMAIN rec /\ rec.at \in Blocked /\ rec.s = On(c)
    BY <1>1, ClientKept
  <2>3. sock' = [sock EXCEPT ![On(c)] = new] /\ client' = [client EXCEPT ![c] = rec]
    BY <1>6
  <2>. HIDE DEF new, rec
  <2>. QED
    BY <1>1, <2>1, <2>2, <2>3, GoesOn
<1>7. CASE /\ sock' = [sock EXCEPT ![On(c)] = wifiRecv([so EXCEPT !.own = TRUE], 1)]
           /\ client' = [client EXCEPT ![c].at = "replied", ![c].done = done]
  <2>. DEFINE new == wifiRecv([so EXCEPT !.own = TRUE], 1)
              rec == [client[c] EXCEPT !.at = "replied", !.done = done]
  <2>1. "busy" \in DOMAIN new /\ new.busy = Busy(On(c))
    BY <1>4, IoKeepsBusy
  <2>2. {"at", "s"} \subseteq DOMAIN rec /\ rec.at \in Blocked /\ rec.s = On(c)
    BY <1>1, ClientKept DEF Blocked
  <2>3. sock' = [sock EXCEPT ![On(c)] = new] /\ client' = [client EXCEPT ![c] = rec]
    BY <1>7 DEF IInv, Shape
  <2>. HIDE DEF new, rec
  <2>. QED
    BY <1>1, <2>1, <2>2, <2>3, GoesOn
<1>. QED
  BY <1>3, <1>5, <1>6, <1>7

(* A call that ends with its socket given back.                               *)
LEMMA FreedInv ==
    ASSUME IInv, NEW c \in Clients, At(c) \in Blocked, ctl' = ctl,
           Alone(c),
           NEW so, "busy" \in DOMAIN so,
           sock' = [sock EXCEPT ![On(c)] = [so EXCEPT !.busy = FALSE]],
           NEW ret, NEW reply, NEW len, NEW data,
           \/ client' = [client EXCEPT ![c].at = "return"]
           \/ Finish(c, ret, reply, len, data)
    PROVE  IInv'
<1>. DEFINE new == [so EXCEPT !.busy = FALSE]
<1>1. "busy" \in DOMAIN new /\ new.busy = FALSE /\ sock' = [sock EXCEPT ![On(c)] = new]
  OBVIOUS
<1>2. PICK rec : /\ {"at", "s"} \subseteq DOMAIN rec
                 /\ (rec.at = "return" /\ rec.s = On(c)) \/ (rec.at = "idle" /\ rec.s = 0)
                 /\ client' = [client EXCEPT ![c] = rec]
  <2>1. CASE client' = [client EXCEPT ![c].at = "return"]
    <3>. DEFINE r == [client[c] EXCEPT !.at = "return"]
    <3>1. {"at", "s"} \subseteq DOMAIN r /\ r.at = "return" /\ r.s = On(c)
      BY ClientKept DEF IInv
    <3>2. client' = [client EXCEPT ![c] = r]
      BY <2>1
    <3>. HIDE DEF r
    <3>. QED
      BY <3>1, <3>2
  <2>2. CASE Finish(c, ret, reply, len, data)
    <3>. DEFINE r == [at |-> "idle", op |-> client[c].op, s |-> 0, len |-> len,
                      done |-> 0, data |-> data, ret |-> ret, reply |-> reply]
    <3>1. {"at", "s"} \subseteq DOMAIN r /\ r.at = "idle" /\ r.s = 0
      OBVIOUS
    <3>2. client' = [client EXCEPT ![c] = r]
      BY <2>2 DEF Finish
    <3>. HIDE DEF r
    <3>. QED
      BY <3>1, <3>2
  <2>. QED
    BY <2>1, <2>2
<1>. HIDE DEF new
<1>. QED
  BY <1>1, <1>2, Frees

LEMMA RepliedInv == ASSUME IInv, NEW c \in Clients, Replied(c) PROVE IInv'
<1>. DEFINE so == [sock[On(c)] EXCEPT !.sema = 0]
            size == so.buf[1].n
            who == so.buf[1].who
            free == sock' = [sock EXCEPT ![On(c)] = [so EXCEPT !.busy = FALSE]]
<1>1. At(c) \in Blocked /\ ctl' = ctl /\ Shape /\ On(c) \in Socks
  BY DEF Replied, Woken, At, Blocked, IInv, Shape
<1>2. Alone(c)
  BY <1>1, MarkedAlone
<1>3. "busy" \in DOMAIN so /\ so.busy = Busy(On(c))
  BY <1>1, SemaTaken
<1>4. \/ Fail(c)
      \/ free /\ client' = [client EXCEPT ![c].at = "return"]
      \/ free /\ Finish(c, "ok", who, 0, <<>>)
      \/ free /\ Finish(c, "end", who, 0, <<>>)
      \/ /\ sock' = [sock EXCEPT ![On(c)] = wifiRecv(so, Least(size, max_block_size))]
         /\ client' = [client EXCEPT ![c].at = "received", ![c].len = size, ![c].reply = who]
  BY DEF Replied, On
<1>. HIDE DEF so, size, who
<1>5. CASE Fail(c)
  BY <1>1, <1>5, FailInv
<1>6. CASE free /\ client' = [client EXCEPT ![c].at = "return"]
  BY <1>1, <1>2, <1>3, <1>6, FreedInv
<1>7. CASE free /\ Finish(c, "ok", who, 0, <<>>)
  BY <1>1, <1>2, <1>3, <1>7, FreedInv
<1>8. CASE free /\ Finish(c, "end", who, 0, <<>>)
  BY <1>1, <1>2, <1>3, <1>8, FreedInv
<1>9. CASE /\ sock' = [sock EXCEPT ![On(c)] = wifiRecv(so, Least(size, max_block_size))]
           /\ client' = [client EXCEPT ![c].at = "received", ![c].len = size, ![c].reply = who]
  <2>. DEFINE new == wifiRecv(so, Least(size, max_block_size))
              rec == [client[c] EXCEPT !.at = "received", !.len = size, !.reply = who]
  <2>1. "busy" \in DOMAIN new /\ new.busy = Busy(On(c))
    BY <1>3, IoKeepsBusy
  <2>2. {"at", "s"} \subseteq DOMAIN rec /\ rec.at \in Blocked /\ rec.s = On(c)
    BY <1>1, ClientKept DEF Blocked
  <2>3. sock' = [sock EXCEPT ![On(c)] = new]
    BY <1>9
  <2>4. client' = [client EXCEPT ![c] = rec]
    BY <1>1, <1>9 DEF Shape
  <2>. HIDE DEF new, rec
  <2>. QED
    BY <1>1, <2>1, <2>2, <2>3, <2>4, GoesOn
<1>. QED
  BY <1>4, <1>5, <1>6, <1>7, <1>8, <1>9

LEMMA BlockReceivedInv ==
    ASSUME IInv, NEW c \in Clients, BlockReceived(c) PROVE IInv'
<1>. DEFINE so == [sock[On(c)] EXCEPT !.sema = 0]
            done == client[c].done + so.res
            data == client[c].data \o so.buf
            reply == client[c].reply
            len == client[c].len
<1>1. At(c) = "received" /\ At(c) \in Blocked /\ ctl' = ctl /\ Shape /\ On(c) \in Socks
  BY DEF BlockReceived, Woken, At, Blocked, IInv, Shape
<1>2. Alone(c)
  BY <1>1, MarkedAlone
<1>3. "busy" \in DOMAIN so /\ so.busy = Busy(On(c))
  BY <1>1, SemaTaken
<1>4. \/ Fail(c)
      \/ /\ sock' = [sock EXCEPT ![On(c)] = wifiRecv(so, Block(c, done))]
         /\ client' = [client EXCEPT ![c].done = done, ![c].data = client[c].data \o so.buf]
      \/ /\ sock' = [sock EXCEPT ![On(c)] = [so EXCEPT !.busy = FALSE]]
         /\ Finish(c, "ok", reply, len, data)
  BY <1>1 DEF BlockReceived, On, Shape
<1>. HIDE DEF so, done, reply, len
<1>5. CASE Fail(c)
  BY <1>1, <1>5, FailInv
<1>6. CASE /\ sock' = [sock EXCEPT ![On(c)] = wifiRecv(so, Block(c, done))]
           /\ client' = [client EXCEPT ![c].done = done, ![c].data = client[c].data \o so.buf]
  <2>. DEFINE new == wifiRecv(so, Block(c, done))
              rec == [client[c] EXCEPT !.done = done, !.data = data]
  <2>1. "busy" \in DOMAIN new /\ new.busy = Busy(On(c))
    BY <1>3, IoKeepsBusy
  <2>2. {"at", "s"} \subseteq DOMAIN rec /\ rec.at \in Blocked /\ rec.s = On(c)
    BY <1>1, ClientKept
  <2>3. sock' = [sock EXCEPT ![On(c)] = new]
    BY <1>6
  <2>4. client' = [client EXCEPT ![c] = rec]
    BY <1>1, <1>6 DEF Shape
  <2>. HIDE DEF new, rec
  <2>. QED
    BY <1>1, <2>1, <2>2, <2>3, <2>4, GoesOn
<1>7. CASE /\ sock' = [sock EXCEPT ![On(c)] = [so EXCEPT !.busy = FALSE]]
           /\ Finish(c, "ok", reply, len, data)
  <2>. HIDE DEF data
  <2>. QED
    BY <1>1, <1>2, <1>3, <1>7, FreedInv
<1>. QED
  BY <1>4, <1>5, <1>6, <1>7

(* The reply is read from the socket's buffer after busy was cleared.         *)
LEMMA ReturnInv == ASSUME IInv, NEW c \in Clients, Return(c) PROVE IInv'
<1>1. At(c) = "return" /\ ctl' = ctl /\ sock' = sock
  BY DEF Return, At
<1>2. PICK op, reply : client' = [client EXCEPT ![c] = [at |-> "idle", op |-> op, s |-> 0,
                             len |-> 0, done |-> 0, data |-> <<>>, ret |-> "ok", reply |-> reply]]
  BY DEF Return, Finish
<1>3. /\ DOMAIN client' = Clients
      /\ \A d \in Clients \ {c} : client'[d] = client[d]
      /\ client'[c].at = "idle" /\ client'[c].s = 0 /\ {"at", "s"} \subseteq DOMAIN client'[c]
  BY <1>2 DEF IInv, Shape
<1>4. Shape'
  BY <1>1, <1>3, NumSockNat DEF IInv, Shape, On, Busy
<1>5. Pool'
  BY <1>1, <1>3 DEF IInv, Shape, Pool, At, On, Busy, Blocked, Bare
<1>6. ExitAlone'
  BY <1>1, <1>3 DEF IInv, ExitAlone, At, On, Busy, Bare
<1>. QED
  BY <1>4, <1>5, <1>6 DEF IInv

LEMMA DelDrvInv == ASSUME IInv, DelDrv PROVE IInv'
<1>1. ctl' = [at |-> "poll", i |-> 0] /\ sock' = sock /\ client' = client
  BY DEF DelDrv
<1>. QED
  BY <1>1, NumSockNat DEF IInv, Shape, Pool, ExitAlone, At, On, Busy

(* Nobody met means no call is between getIdleSock and the store of busy, or  *)
(* about to read a reply, on the socket that wifiIoExit finds idle.           *)
LEMMA SendExitInv == ASSUME IInv, ~met', SendExit PROVE IInv'
<1>. DEFINE new == wifiSend(sock[ctl.i], <<Params(Ctl, "exit", 0)>>, sock[ctl.i].own)
<1>1. Shape /\ ctl.i \in Socks /\ "busy" \in DOMAIN sock[ctl.i] /\ ~Busy(ctl.i) /\ client' = client
  BY DEF SendExit, IInv, Shape, Busy
<1>2. \A c \in Clients : At(c) \in Bare => On(c) # ctl.i
  BY DEF SendExit, Unmarked, Bare, At, On
<1>3. "busy" \in DOMAIN new /\ new.busy = Busy(ctl.i)
  BY <1>1, IoKeepsBusy DEF Busy
<1>4. sock' = [sock EXCEPT ![ctl.i] = new]
  BY DEF SendExit
<1>. HIDE DEF new
<1>5. DOMAIN sock' = Socks /\ \A q \in Socks : "busy" \in DOMAIN sock'[q] /\ Busy(q)' = Busy(q)
  BY ONLY <1>1, <1>3, <1>4, SockKept
<1>6. {"at", "i"} \subseteq DOMAIN ctl' /\ ctl'.i = ctl.i
  BY DEF SendExit, IInv, Shape
<1>7. Shape'
  BY <1>1, <1>5, <1>6 DEF Shape, On, Busy
<1>8. Pool'
  BY <1>1, <1>5 DEF IInv, Pool, Shape, At, On, Busy
<1>9. ExitAlone'
  BY <1>1, <1>2, <1>5, <1>6 DEF ExitAlone, At, On, Busy
<1>. QED
  BY <1>7, <1>8, <1>9 DEF IInv

LEMMA ExitSentInv == ASSUME IInv, ExitSent PROVE IInv'
<1>. DEFINE new == [sock[ctl.i] EXCEPT !.sema = 0]
<1>1. Shape /\ ctl.i \in Socks /\ client' = client
  BY DEF ExitSent, IInv, Shape
<1>2. "busy" \in DOMAIN new /\ new.busy = Busy(ctl.i)
  BY <1>1, SemaTaken
<1>3. sock' = [sock EXCEPT ![ctl.i] = new]
  BY DEF ExitSent
<1>. HIDE DEF new
<1>4. DOMAIN sock' = Socks /\ \A q \in Socks : "busy" \in DOMAIN sock'[q] /\ Busy(q)' = Busy(q)
  BY ONLY <1>1, <1>2, <1>3, SockKept
<1>5. /\ {"at", "i"} \subseteq DOMAIN ctl' /\ ctl'.i \in Socks
      /\ ctl'.at # "sent"
  <2>1. CASE ctl' = [ctl EXCEPT !.at = "done"]
    BY <1>1, <2>1 DEF Shape
  <2>2. CASE ctl.i # NumSock /\ ctl' = [at |-> "poll", i |-> ctl.i + 1]
    <3>1. ctl.i + 1 \in 0 .. NumSock
      BY <1>1, <2>2, NumSockNat
    <3>. QED
      BY <2>2, <3>1, NumSockNat
  <2>. QED
    BY <2>1, <2>2 DEF ExitSent
<1>6. Shape'
  BY <1>1, <1>4, <1>5 DEF Shape, On, Busy
<1>7. Pool'
  BY <1>1, <1>4 DEF IInv, Pool, Shape, At, On, Busy
<1>8. ExitAlone'
  BY <1>5 DEF ExitAlone
<1>. QED
  BY <1>6, <1>7, <1>8 DEF IInv

(* The socket threads and the PC never touch busy.                            *)
LEMMA SignalledInv ==
    ASSUME IInv, NEW s \in Socks, NEW so, "busy" \in DOMAIN so, so.busy = Busy(s), NEW res,
           Signalled(s, so, res), UNCHANGED <<client, ctl>>
    PROVE  IInv'
<1>. DEFINE new == [so EXCEPT !.res = res, !.sema = 1, !.at = "asleep"]
<1>1. "busy" \in DOMAIN new /\ new.busy = Busy(s) /\ sock' = [sock EXCEPT ![s] = new] /\ Shape
  BY DEF Signalled, IInv
<1>. HIDE DEF new
<1>2. DOMAIN sock' = Socks /\ \A q \in Socks : "busy" \in DOMAIN sock'[q] /\ Busy(q)' = Busy(q)
  BY ONLY <1>1, s \in Socks, SockKept
<1>. QED
  BY <1>2, Quiet

LEMMA SockInv == ASSUME IInv, NEW s \in Socks, SockStep(s) \/ SockFails(s) PROVE IInv'
<1>1. "busy" \in DOMAIN sock[s] /\ sock[s].busy = Busy(s) /\ Shape /\ UNCHANGED <<client, ctl>>
  BY DEF SockStep, SockWakes, SockSends, SockReceives, SockFails, IInv, Shape, Busy
<1>2. CASE SockWakes(s)
  <2>. DEFINE new == [sock[s] EXCEPT !.at = "io", !.wake = sock[s].wake - 1]
  <2>1. "busy" \in DOMAIN new /\ new.busy = Busy(s)
    BY <1>1
  <2>2. sock' = [sock EXCEPT ![s] = new]
    BY <1>1, <1>2 DEF SockWakes, Shape
  <2>. HIDE DEF new
  <2>3. DOMAIN sock' = Socks /\ \A q \in Socks : "busy" \in DOMAIN sock'[q] /\ Busy(q)' = Busy(q)
    BY ONLY <1>1, <2>1, <2>2, s \in Socks, SockKept
  <2>. QED
    BY <1>1, <2>3, Quiet
<1>3. CASE SockSends(s)
  <2>1. PICK n : Signalled(s, sock[s], n)
    BY <1>3 DEF SockSends
  <2>. QED
    BY <1>1, <2>1, SignalledInv
<1>4. CASE SockReceives(s)
  <2>1. CASE Signalled(s, sock[s], 0)
    BY <1>1, <2>1, SignalledInv
  <2>2. CASE \E n : Signalled(s, [sock[s] EXCEPT !.buf = SubSeq(to_psp[s], 1, n)], n)
    <3>1. PICK n : Signalled(s, [sock[s] EXCEPT !.buf = SubSeq(to_psp[s], 1, n)], n)
      BY <2>2
    <3>. DEFINE so == [sock[s] EXCEPT !.buf = SubSeq(to_psp[s], 1, n)]
    <3>2. "busy" \in DOMAIN so /\ so.busy = Busy(s)
      BY <1>1
    <3>. HIDE DEF so
    <3>3. Signalled(s, so, n)
      BY <3>1 DEF so
    <3>. QED
      BY <1>1, <3>2, <3>3, SignalledInv
  <2>. QED
    BY <1>4, <2>1, <2>2 DEF SockReceives
<1>5. CASE SockFails(s)
  BY <1>1, <1>5, SignalledInv DEF SockFails
<1>. QED
  BY <1>2, <1>3, <1>4, <1>5 DEF SockStep

LEMMA StepInv == ASSUME ~met', IInv, [Next]_vars PROVE IInv'
<1>1. ASSUME NEW c \in Clients, Begin(c) \/ ClientStep(c) PROVE IInv'
  BY <1>1, BeginInv, LookInv, TakeInv, SentInv, BlockSentInv, RepliedInv, BlockReceivedInv,
     ReturnInv DEF ClientStep
<1>2. CASE DelDrv \/ SendExit \/ ExitSent
  BY <1>2, DelDrvInv, SendExitInv, ExitSentInv
<1>3. ASSUME NEW s \in Socks, SockStep(s) \/ SockFails(s) PROVE IInv'
  BY <1>3, SockInv
<1>4. ASSUME NEW s \in Socks, PcStep(s) PROVE IInv'
  <2>1. UNCHANGED <<sock, client, ctl>>
    BY <1>4 DEF PcStep, process_cmd, process_iowrite
  <2>. QED
    BY <2>1 DEF IInv, Shape, Pool, ExitAlone, At, On, Busy
<1>5. CASE UNCHANGED vars
  BY <1>5 DEF vars, IInv, Shape, Pool, ExitAlone, At, On, Busy
<1>. QED
  BY <1>1, <1>2, <1>3, <1>4, <1>5 DEF Next

LEMMA InvOneUser == ASSUME ~met => IInv PROVE OneUser
<1>. SUFFICES ASSUME IInv, NEW s \in Socks
              PROVE  /\ \A c, d \in Clients : Uses(c, s) /\ Uses(d, s) => c = d
                     /\ \A c \in Clients : Uses(c, s) => ~Exits(s)
  BY DEF OneUser
<1>1. ASSUME NEW c \in Clients, NEW d \in Clients, Uses(c, s), Uses(d, s) PROVE c = d
  <2>1. On(c) = s /\ On(d) = s
    BY <1>1 DEF Uses, On
  <2>2. At(c) \in Blocked \/ At(c) \in {"take", "return"}
    BY <1>1 DEF Uses, At
  <2>3. At(d) \in Blocked \/ At(d) \in {"take", "return"}
    BY <1>1 DEF Uses, At
  <2>. QED
    BY <2>1, <2>2, <2>3 DEF IInv, Pool, Bare
<1>2. ASSUME NEW c \in Clients, Uses(c, s), Exits(s) PROVE FALSE
  <2>1. On(c) = s /\ ctl.at = "sent" /\ ctl.i = s
    BY <1>2 DEF Uses, On, Exits
  <2>2. At(c) \in Blocked \/ At(c) \in {"take", "return"}
    BY <1>2 DEF Uses, At
  <2>. QED
    BY <2>1, <2>2 DEF IInv, Pool, ExitAlone, Bare
<1>. QED
  BY <1>1, <1>2

(* Threads that have met stay so.                                             *)
LEMMA MetStays == ASSUME met, [Next]_vars PROVE met'
<1>1. ASSUME NEW c \in Clients, Begin(c) \/ Take(c) \/ Sent(c) \/ BlockSent(c) PROVE met'
  <2>1. met' = met
    BY <1>1, Zenon DEF Begin, Take, Sent, BlockSent
  <2>. QED
    BY <2>1
<1>2. ASSUME NEW c \in Clients, Replied(c) \/ BlockReceived(c) \/ Return(c) PROVE met'
  <2>1. met' = met
    BY <1>2, Zenon DEF Replied, BlockReceived, Return
  <2>. QED
    BY <2>1
<1>3. ASSUME NEW c \in Clients, getIdleSock(c) PROVE met'
  BY <1>3 DEF getIdleSock
<1>4. CASE DelDrv \/ SendExit \/ ExitSent
  BY <1>4 DEF DelDrv, SendExit, ExitSent
<1>5. ASSUME NEW s \in Socks, SockStep(s) \/ SockFails(s) PROVE met'
  BY <1>5 DEF SockStep, SockWakes, SockSends, SockReceives, SockFails
<1>6. ASSUME NEW s \in Socks, PcStep(s) PROVE met'
  BY <1>6 DEF PcStep, process_cmd, process_iowrite
<1>7. CASE UNCHANGED vars
  BY <1>7 DEF vars
<1>. QED
  BY <1>1, <1>2, <1>3, <1>4, <1>5, <1>6, <1>7 DEF Next, ClientStep

(* Whatever the number of clients and sockets, their priorities, and whatever *)
(* calls fail on the network: getIdleSock, the store of busy and the read of  *)
(* the reply after busy is cleared never give one socket to two calls, or to  *)
(* a call and wifiIoExit, unless two threads have been together on a socket   *)
(* that neither had marked.                                                   *)
THEOREM SocketsExclusive == Spec => []OneUser
<1>. DEFINE Inv == ~met => IInv
<1>1. Init => Inv
  BY InitInv
<1>2. Inv /\ [Next]_vars => Inv'
  BY StepInv, MetStays
<1>3. Inv => OneUser
  BY InvOneUser
<1>. HIDE DEF Inv
<1>. QED
  BY <1>1, <1>2, <1>3, PTL DEF Spec

------------------------------------------------------------------------------
(* The replies of the PC to a request; what process_cmd has got when it asked *)
(* for nothing, or has answered.                                              *)
Res(c, n) == Params(c, "res", n)
Request(c) == Params(c, client[c].op, client[c].len)
Answers(c, op, n) ==
    IF op = "write" THEN {<<Res(c, n)>>}
    ELSE IF op = "read" THEN {<<Res(c, m)>> \o Data(c, 0, m) : m \in 0 .. n}
    ELSE {[i \in 1 .. ReplyLen(op) |-> Res(c, 0)]}
Caught(s) == to_pc[s] = <<>> /\ session[s].at = "cmd"

(* A request the PC has not looked at; a write of which k units are sent.     *)
Asked(s, c, op, n) == to_pc[s] = <<Params(c, op, n)>> /\ session[s].at = "cmd" /\ to_psp[s] = <<>>
Writing(s, c, n, k) ==
    /\ to_psp[s] = <<>>
    /\ \/ session[s].at = "cmd" /\ to_pc[s] = <<Params(c, "write", n)>> \o Data(c, 0, k)
       \/ /\ session[s].at = "data" /\ session[s].who = c /\ session[s].len = n
          /\ \E j \in 0 .. k : j < n /\ session[s].data = Data(c, 0, j) /\ to_pc[s] = Data(c, j, k)

(* How far the PC may be with the call of c when k units of a write are sent. *)
Served(c) == Caught(On(c)) /\ to_psp[On(c)] \in Answers(c, client[c].op, client[c].len)
Reached(c, k) ==
    LET n == client[c].len
    IN  IF client[c].op = "write" THEN Writing(On(c), c, n, k) \/ (k = n /\ Served(c))
        ELSE Asked(On(c), c, client[c].op, n) \/ Served(c)

(* The socket thread has still to do what it was asked, or has signalled it.  *)
Waits(s) == /\ sock[s].sema = 0
            /\ \/ sock[s].at = "asleep" /\ sock[s].wake = 1
               \/ sock[s].at = "io" /\ sock[s].wake = 0
Signals(s) == sock[s].sema = 1 /\ sock[s].at = "asleep" /\ sock[s].wake = 0
Still(s) == sock[s].sema = 0 /\ sock[s].at = "asleep" /\ sock[s].wake = 0

Sending(s, units) == sock[s].operation = "S_SEND" /\ sock[s].length = Len(units) /\ sock[s].buf = units
Receiving(s, len) == sock[s].operation = "S_RECV" /\ sock[s].length = len

(* Where a blocked call is with its socket and the PC.                        *)
SentOK(c, s) ==
    /\ Sending(s, <<Request(c)>>) /\ sock[s].own
    /\ \/ Waits(s) /\ Caught(s) /\ to_psp[s] = <<>>
       \/ Signals(s) /\ sock[s].res = -1 /\ Caught(s)
       \/ Signals(s) /\ sock[s].res = 1 /\ Reached(c, 0)
BlockOK(c, s) ==
    LET n == client[c].len
        k == client[c].done
    IN  /\ client[c].op = "write" /\ k < n
        /\ Sending(s, Data(c, k, k + Block(c, k)))
        /\ \/ Waits(s) /\ Writing(s, c, n, k)
           \/ Signals(s) /\ sock[s].res = -1 /\ Writing(s, c, n, k)
           \/ /\ Signals(s) /\ sock[s].res \in 0 .. sock[s].length
              /\ Reached(c, k + sock[s].res)
RepliedOK(c, s) ==
    LET n == client[c].len
        op == client[c].op
    IN  /\ Receiving(s, ReplyLen(op)) /\ sock[s].own
        /\ \/ Waits(s) /\ Reached(c, n)
           \/ Signals(s) /\ sock[s].res = -1 /\ Reached(c, n)
           \/ /\ Signals(s) /\ sock[s].res \in 1 .. ReplyLen(op)
              /\ Caught(s) /\ Len(sock[s].buf) = sock[s].res
              /\ sock[s].buf \o to_psp[s] \in Answers(c, op, n)
ReceivedOK(c, s) ==
    LET n == client[c].len
        k == client[c].done
    IN  /\ client[c].op = "read" /\ k < n /\ client[c].data = Data(c, 0, k)
        /\ Receiving(s, Block(c, k)) /\ sock[s].own /\ Caught(s)
        /\ \/ Waits(s) /\ to_psp[s] = Data(c, k, n)
           \/ Signals(s) /\ sock[s].res \in {-1, 0}
           \/ /\ Signals(s) /\ sock[s].res \in 1 .. sock[s].length
              /\ sock[s].buf = Data(c, k, k + sock[s].res) /\ to_psp[s] = Data(c, k + sock[s].res, n)
Works(c) ==
    /\ At(c) \in Blocked => client[c].len > 0 /\ client[c].op \in Ops \ {"exit"}
    /\ At(c) = "sent" => SentOK(c, On(c)) /\ client[c].done = 0 /\ client[c].data = <<>>
    /\ At(c) = "block" => BlockOK(c, On(c))
    /\ At(c) = "replied" => RepliedOK(c, On(c)) /\ (client[c].op # "write" => client[c].done = 0 /\ client[c].data = <<>>)
    /\ At(c) = "received" => ReceivedOK(c, On(c))
    /\ At(c) = "return" =>
          sock[On(c)].buf # <<>> /\ sock[On(c)].buf[1].who = c /\ client[c].op # "read" /\ ~ExitedBy(On(c))
    /\ At(c) \in {"find", "take"} => /\ client[c].len > 0 /\ client[c].op \in Ops \ {"exit"} /\ client[c].done = 0
                                     /\ client[c].data = <<>>
    /\ At(c) = "take" => ~ExitedBy(On(c))

(* A socket in the pool; one a failed call has kept; one wifiIoExit is done with. *)
Clean(s) == /\ Caught(s) /\ to_psp[s] = <<>> /\ Still(s) /\ sock[s].own
Partly(s) ==
    \/ Caught(s)
    \/ \E c \in Clients, op \in Ops \ {"write", "exit"}, n \in 1 .. MaxLen : Asked(s, c, op, n)
    \/ "write" \in Ops /\ \E c \in Clients, n \in 1 .. MaxLen : \E k \in 0 .. n : Writing(s, c, n, k)
Kept(s) == Still(s) /\ Partly(s)
Left(s) ==
    \/ session[s].at = "cmd" /\ to_pc[s] \in {<<>>, <<Params(Ctl, "exit", 0)>>}
    \/ session[s].at = "closed" /\ to_pc[s] = <<>>
Gone(s) ==
    /\ ~Busy(s)
    /\ IF ctl.at = "sent" /\ ctl.i = s
       THEN /\ Sending(s, <<Params(Ctl, "exit", 0)>>)
            /\ (Waits(s) /\ Caught(s)) \/ (Signals(s) /\ Left(s))
       ELSE Still(s) /\ Left(s)

(* A session that has finished a write has all of it.                         *)
Whole(s) == session[s].at # "data" => session[s].data = Data(session[s].who, 0, session[s].len)

Unused(s) == \A c \in Clients : At(c) \in Blocked => On(c) # s
Pooled(s) ==
    /\ ~Busy(s) /\ ~ExitedBy(s) => Clean(s)
    /\ Busy(s) /\ Unused(s) => Kept(s)
    /\ ExitedBy(s) => Gone(s)
    /\ Whole(s)

Copied(c) ==
    /\ client[c].reply = c
    /\ At(c) = "idle" /\ client[c].op = "read" /\ client[c].ret = "ok" =>
           client[c].data = Data(c, 0, client[c].len)

Types ==
    /\ sock \in [Socks -> Sock]
    /\ client \in [Clients -> Client]
    /\ ctl \in [at : {"none", "poll", "sent", "done"}, i : Socks]
    /\ to_pc \in [Socks -> Seq(Unit)]
    /\ to_psp \in [Socks -> Seq(Unit)]
    /\ session \in [Socks -> Session]
    /\ faults \in 0 .. MaxFaults

WireInv ==
    /\ Types
    /\ \A c \in Clients : Works(c) /\ Copied(c)
    /\ \A s \in Socks : Pooled(s)
    /\ ctl.at # "none" => "exit" \in Ops

------------------------------------------------------------------------------
(* The units of a message: a part of the data, one unit more, two parts.      *)
People == Clients \cup {Ctl}

LEMMA UnitType ==
  ASSUME NEW c \in People, NEW what \in Ops \cup {"res", "data"}, NEW n \in 0 .. MaxLen
  PROVE  Params(c, what, n) \in Unit /\ Params(c, what, n).who = c
         /\ Params(c, what, n).what = what /\ Params(c, what, n).n = n
BY DEF Params, Unit, People

IsData(q, c, a, b) ==
    q \in Seq(Unit) /\ Len(q) = b - a /\ \A i \in 1 .. b - a : q[i] = Params(c, "data", a + i)

LEMMA DataIs ==
  ASSUME NEW c \in People, NEW a \in Nat, NEW b \in Nat, a <= b, b <= MaxLen
  PROVE  IsData(Data(c, a, b), c, a, b)
<1>1. MaxLen \in Nat
  BY WifiHostAssumption
<1>2. PICK m \in Nat : m = b - a
  OBVIOUS
<1>3. \A i \in 1 .. m : Params(c, "data", a + i) \in Unit
  BY <1>1, <1>2, UnitType
<1>4. PICK d : d = [i \in 1 .. m |-> Params(c, "data", a + i)]
  OBVIOUS
<1>5. d \in [1 .. m -> Unit] /\ \A i \in 1 .. m : d[i] = Params(c, "data", a + i)
  BY <1>3, <1>4
<1>6. d \in Seq(Unit) /\ Len(d) = m
  BY <1>5
<1>7. Data(c, a, b) = d
  BY <1>2, <1>4 DEF Data
<1>. QED
  BY <1>2, <1>5, <1>6, <1>7 DEF IsData

LEMMA DataOne ==
  ASSUME NEW c, NEW a \in Nat, NEW b \in Nat, a <= b, NEW q, IsData(q, c, a, b), NEW r, IsData(r, c, a, b)
  PROVE  q = r
<1>1. PICK m \in Nat : m = b - a
  OBVIOUS
<1>2. q \in Seq(Unit) /\ r \in Seq(Unit) /\ Len(q) = m /\ Len(r) = m /\ \A i \in 1 .. m : q[i] = r[i]
  BY <1>1 DEF IsData
<1>. QED
  BY <1>2

LEMMA DataFacts ==
  ASSUME NEW c \in People, NEW a \in Nat, NEW b \in Nat, a <= b, b <= MaxLen
  PROVE  Data(c, a, b) \in Seq(Unit) /\ Len(Data(c, a, b)) = b - a
BY DataIs DEF IsData

LEMMA DataNone ==
  ASSUME NEW c \in People, NEW a \in Nat, a <= MaxLen
  PROVE  Data(c, a, a) = <<>>
<1>1. Data(c, a, a) \in Seq(Unit) /\ Len(Data(c, a, a)) = 0
  BY DataFacts
<1>. QED
  BY <1>1

LEMMA DataHead ==
  ASSUME NEW c \in People, NEW a \in Nat, NEW b \in Nat, a < b, b <= MaxLen
  PROVE  /\ Data(c, a, b) # <<>> /\ Head(Data(c, a, b)) = Params(c, "data", a + 1)
         /\ Tail(Data(c, a, b)) = Data(c, a + 1, b)
<1>1. PICK d : d = Data(c, a, b)
  OBVIOUS
<1>2. PICK k \in Nat : k = a + 1
  OBVIOUS
<1>3. IsData(d, c, a, b) /\ IsData(Data(c, k, b), c, k, b)
  BY <1>1, <1>2, DataIs
<1>4. d \in Seq(Unit) /\ Len(d) = b - a /\ \A i \in 1 .. b - a : d[i] = Params(c, "data", a + i)
  BY <1>3 DEF IsData
<1>5. PICK e : e = Tail(d)
  OBVIOUS
<1>6. d # <<>> /\ Head(d) = d[1] /\ e \in Seq(Unit) /\ Len(e) = b - k
      /\ \A i \in 1 .. b - k : e[i] = d[i + 1]
  BY <1>2, <1>4, <1>5
<1>7. \A i \in 1 .. b - k : e[i] = Params(c, "data", k + i)
  <2>1. SUFFICES ASSUME NEW i \in 1 .. b - k PROVE d[i + 1] = Params(c, "data", k + i)
    BY <1>6
  <2>2. i + 1 \in 1 .. b - a /\ a + (i + 1) = k + i
    BY <1>2
  <2>. QED
    BY <1>4, <2>2
<1>8. e = Data(c, k, b)
  <2>1. IsData(e, c, k, b)
    BY <1>6, <1>7 DEF IsData
  <2>. QED
    BY <1>2, <1>3, <2>1, DataOne
<1>9. 1 \in 1 .. b - a
  OBVIOUS
<1>. QED
  BY <1>1, <1>2, <1>4, <1>5, <1>6, <1>8, <1>9

LEMMA DataJoin ==
  ASSUME NEW c \in People, NEW a \in Nat, NEW b \in Nat, NEW d \in Nat, a <= b, b <= d, d <= MaxLen
  PROVE  Data(c, a, b) \o Data(c, b, d) = Data(c, a, d)
<1>1. PICK x, y, z : x = Data(c, a, b) /\ y = Data(c, b, d) /\ z = Data(c, a, d)
  OBVIOUS
<1>2. b <= MaxLen /\ a <= d
  BY WifiHostAssumption
<1>3. IsData(x, c, a, b) /\ IsData(y, c, b, d) /\ IsData(z, c, a, d)
  BY <1>1, <1>2, DataIs
<1>4. x \in Seq(Unit) /\ Len(x) = b - a /\ \A i \in 1 .. b - a : x[i] = Params(c, "data", a + i)
  BY <1>3 DEF IsData
<1>5. y \in Seq(Unit) /\ Len(y) = d - b /\ \A i \in 1 .. d - b : y[i] = Params(c, "data", b + i)
  BY <1>3 DEF IsData
<1>6. PICK w : w = x \o y
  OBVIOUS
<1>7. /\ w \in Seq(Unit) /\ Len(w) = Len(x) + Len(y)
      /\ \A i \in 1 .. Len(x) : w[i] = x[i]
      /\ \A i \in Len(x) + 1 .. Len(x) + Len(y) : w[i] = y[i - Len(x)]
  <2>1. x \in Seq(Unit) /\ y \in Seq(Unit)
    BY <1>4, <1>5
  <2>. QED
    BY <1>6, <2>1
<1>8. \A i \in 1 .. d - a : w[i] = Params(c, "data", a + i)
  <2>1. SUFFICES ASSUME NEW i \in 1 .. d - a PROVE w[i] = Params(c, "data", a + i)
    OBVIOUS
  <2>2. CASE i <= b - a
    BY <1>4, <1>7, <2>2
  <2>3. CASE ~(i <= b - a)
    <3>1. PICK j \in 1 .. d - b : j = i - (b - a)
      BY <2>3
    <3>2. b + j = a + i
      BY <3>1
    <3>3. w[i] = y[j]
      BY <1>4, <1>5, <1>7, <2>3, <3>1
    <3>. QED
      BY <1>5, <3>2, <3>3
  <2>. QED
    BY <2>2, <2>3
<1>9. IsData(w, c, a, d)
  <2>1. Len(w) = d - a
    BY <1>4, <1>5, <1>7
  <2>. QED
    BY <1>7, <1>8, <2>1 DEF IsData
<1>. QED
  BY <1>1, <1>2, <1>3, <1>6, <1>9, DataOne

LEMMA DataCut ==
  ASSUME NEW c \in People, NEW a \in Nat, NEW b \in Nat, NEW m \in Nat, a + m <= b, b <= MaxLen,
         NEW d, d = Data(c, a, b)
  PROVE  SubSeq(d, 1, m) = Data(c, a, a + m) /\ SubSeq(d, m + 1, Len(d)) = Data(c, a + m, b)
<1>1. PICK e \in Nat : e = a + m
  OBVIOUS
<1>2. a <= b /\ a <= e /\ e <= b /\ e <= MaxLen
  BY <1>1, WifiHostAssumption
<1>3. IsData(d, c, a, b) /\ IsData(Data(c, a, e), c, a, e) /\ IsData(Data(c, e, b), c, e, b)
  BY <1>1, <1>2, DataIs
<1>4. d \in Seq(Unit) /\ Len(d) = b - a /\ \A i \in 1 .. b - a : d[i] = Params(c, "data", a + i)
  BY <1>3 DEF IsData
<1>5. PICK x, y : x = SubSeq(d, 1, m) /\ y = SubSeq(d, m + 1, Len(d))
  OBVIOUS
<1>6. x \in Seq(Unit) /\ Len(x) = e - a /\ \A i \in 1 .. e - a : x[i] = d[i]
  BY <1>1, <1>4, <1>5
<1>7. y \in Seq(Unit) /\ Len(y) = b - e /\ \A i \in 1 .. b - e : y[i] = d[m + i]
  BY <1>1, <1>4, <1>5
<1>8. IsData(x, c, a, e)
  BY <1>1, <1>4, <1>6 DEF IsData
<1>9. IsData(y, c, e, b)
  <2>1. \A i \in 1 .. b - e : y[i] = Params(c, "data", e + i)
    <3>1. SUFFICES ASSUME NEW i \in 1 .. b - e PROVE d[m + i] = Params(c, "data", e + i)
      BY <1>7
    <3>2. m + i \in 1 .. b - a /\ a + (m + i) = e + i
      BY <1>1
    <3>. QED
      BY <1>4, <3>2
  <2>. QED
    BY <1>7, <2>1 DEF IsData
<1>. QED
  BY <1>1, <1>2, <1>3, <1>5, <1>8, <1>9, DataOne

(* One unit before the others.                                                *)
LEMMA Headed ==
  ASSUME NEW u \in Unit, NEW r \in Seq(Unit), NEW q \in Seq(Unit)
  PROVE  /\ <<u>> \in Seq(Unit) /\ Len(<<u>>) = 1 /\ <<u>>[1] = u /\ Head(<<u>>) = u /\ Tail(<<u>>) = <<>>
         /\ <<u>> # <<>> /\ <<u>> \o <<>> = <<u>> /\ <<>> \o <<u>> = <<u>>
         /\ <<u>> \o r \in Seq(Unit) /\ <<u>> \o r # <<>> /\ Len(<<u>> \o r) = Len(r) + 1
         /\ Head(<<u>> \o r) = u /\ (<<u>> \o r)[1] = u /\ Tail(<<u>> \o r) = r
         /\ (<<u>> \o r) \o q = <<u>> \o (r \o q)
<1>1. <<u>> \in Seq(Unit) /\ Len(<<u>>) = 1 /\ <<u>>[1] = u /\ Head(<<u>>) = u /\ Tail(<<u>>) = <<>> /\ <<u>> # <<>>
  OBVIOUS
<1>2. <<u>> \o <<>> = <<u>> /\ <<>> \o <<u>> = <<u>>
  BY <1>1
<1>3. PICK w : w = <<u>> \o r
  OBVIOUS
<1>4. w \in Seq(Unit) /\ Len(w) = Len(r) + 1 /\ w[1] = u /\ \A i \in 1 .. Len(r) : w[i + 1] = r[i]
  BY <1>3
<1>5. w # <<>> /\ Head(w) = u /\ Tail(w) \in Seq(Unit) /\ Len(Tail(w)) = Len(r)
      /\ \A i \in 1 .. Len(r) : Tail(w)[i] = r[i]
  BY <1>4
<1>6. Tail(w) = r
  BY <1>5
<1>7. (<<u>> \o r) \o q = <<u>> \o (r \o q)
  BY <1>1, ConcatAssociative
<1>. QED
  BY <1>1, <1>2, <1>3, <1>4, <1>5, <1>6, <1>7

(* What is taken from the front and what stays are the whole.                 *)
LEMMA CutJoin ==
  ASSUME NEW q \in Seq(Unit), NEW m \in 1 .. Len(q)
  PROVE  /\ SubSeq(q, 1, m) \in Seq(Unit) /\ Len(SubSeq(q, 1, m)) = m
         /\ SubSeq(q, m + 1, Len(q)) \in Seq(Unit)
         /\ SubSeq(q, 1, m) \o SubSeq(q, m + 1, Len(q)) = q
<1>1. PICK x, y : x = SubSeq(q, 1, m) /\ y = SubSeq(q, m + 1, Len(q))
  OBVIOUS
<1>2. x \in Seq(Unit) /\ Len(x) = m /\ \A i \in 1 .. m : x[i] = q[i]
  BY <1>1
<1>3. y \in Seq(Unit) /\ Len(y) = Len(q) - m /\ \A i \in 1 .. Len(q) - m : y[i] = q[m + i]
  BY <1>1
<1>4. /\ x \o y \in Seq(Unit) /\ Len(x \o y) = Len(q)
      /\ \A i \in 1 .. m : (x \o y)[i] = x[i]
      /\ \A i \in m + 1 .. Len(q) : (x \o y)[i] = y[i - m]
  BY <1>2, <1>3
<1>5. \A i \in 1 .. Len(q) : (x \o y)[i] = q[i]
  <2>1. SUFFICES ASSUME NEW i \in 1 .. Len(q) PROVE (x \o y)[i] = q[i]
    OBVIOUS
  <2>2. CASE i <= m
    BY <1>2, <1>4, <2>2
  <2>3. CASE ~(i <= m)
    <3>1. PICK j \in 1 .. Len(q) - m : j = i - m
      BY <2>3
    <3>2. m + j = i
      BY <3>1
    <3>. QED
      BY <1>3, <1>4, <2>3, <3>1, <3>2
  <2>. QED
    BY <2>2, <2>3
<1>. QED
  BY <1>1, <1>2, <1>3, <1>4, <1>5

------------------------------------------------------------------------------
(* Types, and the fields that wifiSend, wifiRecv and a signal change.         *)
LEMMA Constants ==
  /\ MaxLen \in Nat /\ max_block_size \in Nat
  /\ \A c \in Clients : c \in People
  /\ Ctl \in People /\ Ctl \notin Clients
<1>1. max_block_size \in Nat
  BY WifiHostAssumption DEF max_block_size, readConf
<1>. QED
  BY <1>1, WifiHostAssumption DEF People

LEMMA LeastFacts ==
  ASSUME NEW a \in Nat, NEW b \in Nat
  PROVE  Least(a, b) \in Nat /\ Least(a, b) <= a /\ Least(a, b) <= b
BY DEF Least

LEMMA BlockFacts ==
  ASSUME NEW c \in Clients, client[c].len \in Nat, NEW k \in Nat, k <= client[c].len
  PROVE  Block(c, k) \in Nat /\ k + Block(c, k) <= client[c].len
<1>1. PICK n \in Nat : n = client[c].len
  OBVIOUS
<1>2. PICK r \in Nat : r = n - k
  BY <1>1
<1>3. Block(c, k) = Least(r, max_block_size)
  BY <1>1, <1>2 DEF Block
<1>4. Least(r, max_block_size) \in Nat /\ Least(r, max_block_size) <= r
  BY Constants, LeastFacts
<1>. QED
  BY <1>1, <1>2, <1>3, <1>4

LEMMA SendFacts ==
  ASSUME NEW so \in Sock, so.wake = 0, NEW units \in Seq(Unit), Len(units) \in 0 .. MaxLen + 1,
         NEW own \in BOOLEAN, NEW new, new = wifiSend(so, units, own)
  PROVE  /\ new \in Sock /\ new.busy = so.busy /\ new.operation = "S_SEND" /\ new.length = Len(units)
         /\ new.buf = units /\ new.own = own /\ new.wake = 1 /\ new.sema = so.sema /\ new.at = so.at
<1>1. PICK l \in 0 .. MaxLen + 1 : l = Len(units)
  OBVIOUS
<1>2. PICK a : a = [so EXCEPT !.operation = "S_SEND"]
  OBVIOUS
<1>3. /\ a \in Sock /\ a.busy = so.busy /\ a.operation = "S_SEND" /\ a.wake = 0 /\ a.sema = so.sema /\ a.at = so.at
  BY <1>2 DEF Sock
<1>4. PICK b : b = [a EXCEPT !.length = l]
  OBVIOUS
<1>5. /\ b \in Sock /\ b.busy = so.busy /\ b.operation = "S_SEND" /\ b.wake = 0 /\ b.sema = so.sema
      /\ b.at = so.at /\ b.length = l
  BY <1>3, <1>4 DEF Sock
<1>6. PICK d : d = [b EXCEPT !.buf = units]
  OBVIOUS
<1>7. /\ d \in Sock /\ d.busy = so.busy /\ d.operation = "S_SEND" /\ d.wake = 0 /\ d.sema = so.sema
      /\ d.at = so.at /\ d.length = l /\ d.buf = units
  BY <1>5, <1>6 DEF Sock
<1>8. PICK e : e = [d EXCEPT !.own = own]
  OBVIOUS
<1>9. /\ e \in Sock /\ e.busy = so.busy /\ e.operation = "S_SEND" /\ e.wake = 0 /\ e.sema = so.sema
      /\ e.at = so.at /\ e.length = l /\ e.buf = units /\ e.own = own
  BY <1>7, <1>8 DEF Sock
<1>10. new = [e EXCEPT !.wake = 1]
  <2>1. so.wake + 1 = 1
    OBVIOUS
  <2>2. new = [e EXCEPT !.wake = so.wake + 1]
    BY <1>1, <1>2, <1>4, <1>6, <1>8, <1>3, <1>5, <1>7, <1>9 DEF wifiSend
  <2>. QED
    BY <2>1, <2>2
<1>. QED
  BY <1>1, <1>9, <1>10 DEF Sock

LEMMA RecvFacts ==
  ASSUME NEW so \in Sock, so.wake = 0, NEW len \in 0 .. MaxLen + 1, NEW new, new = wifiRecv(so, len)
  PROVE  /\ new \in Sock /\ new.busy = so.busy /\ new.operation = "S_RECV" /\ new.length = len
         /\ new.buf = so.buf /\ new.own = so.own /\ new.wake = 1 /\ new.sema = so.sema /\ new.at = so.at
<1>1. PICK a : a = [so EXCEPT !.operation = "S_RECV"]
  OBVIOUS
<1>2. /\ a \in Sock /\ a.busy = so.busy /\ a.operation = "S_RECV" /\ a.wake = 0 /\ a.sema = so.sema
      /\ a.at = so.at /\ a.buf = so.buf /\ a.own = so.own
  BY <1>1 DEF Sock
<1>3. PICK b : b = [a EXCEPT !.length = len]
  OBVIOUS
<1>4. /\ b \in Sock /\ b.busy = so.busy /\ b.operation = "S_RECV" /\ b.wake = 0 /\ b.sema = so.sema
      /\ b.at = so.at /\ b.buf = so.buf /\ b.own = so.own /\ b.length = len
  BY <1>2, <1>3 DEF Sock
<1>5. new = [b EXCEPT !.wake = 1]
  <2>1. so.wake + 1 = 1
    OBVIOUS
  <2>2. new = [b EXCEPT !.wake = so.wake + 1]
    BY <1>1, <1>2, <1>3, <1>4 DEF wifiRecv
  <2>. QED
    BY <2>1, <2>2
<1>. QED
  BY <1>4, <1>5 DEF Sock

LEMMA SignalFacts ==
  ASSUME NEW s \in Socks, sock \in [Socks -> Sock], NEW so \in Sock,
         NEW res \in -1 .. MaxLen + 1, Signalled(s, so, res)
  PROVE  /\ sock' \in [Socks -> Sock] /\ \A q \in Socks \ {s} : sock'[q] = sock[q]
         /\ sock'[s].res = res /\ sock'[s].sema = 1 /\ sock'[s].at = "asleep"
         /\ sock'[s].busy = so.busy /\ sock'[s].operation = so.operation /\ sock'[s].length = so.length
         /\ sock'[s].buf = so.buf /\ sock'[s].own = so.own /\ sock'[s].wake = so.wake
<1>1. PICK a : a = [so EXCEPT !.res = res]
  OBVIOUS
<1>2. /\ a \in Sock /\ a.res = res
      /\ a.busy = so.busy /\ a.operation = so.operation /\ a.length = so.length
      /\ a.buf = so.buf /\ a.own = so.own /\ a.wake = so.wake
  BY <1>1 DEF Sock
<1>0. PICK one \in 0 .. 1 : one = 1
  OBVIOUS
<1>3. PICK b : b = [a EXCEPT !.sema = one]
  OBVIOUS
<1>4. /\ b \in Sock /\ b.res = res /\ b.sema = one
      /\ b.busy = so.busy /\ b.operation = so.operation /\ b.length = so.length
      /\ b.buf = so.buf /\ b.own = so.own /\ b.wake = so.wake
  BY <1>2, <1>3 DEF Sock
<1>5. PICK new : new = [b EXCEPT !.at = "asleep"]
  OBVIOUS
<1>6. /\ new \in Sock /\ new.res = res /\ new.sema = one /\ new.at = "asleep"
      /\ new.busy = so.busy /\ new.operation = so.operation /\ new.length = so.length
      /\ new.buf = so.buf /\ new.own = so.own /\ new.wake = so.wake
  BY <1>4, <1>5 DEF Sock
<1>7. sock' = [sock EXCEPT ![s] = new]
  BY <1>0, <1>1, <1>3, <1>5 DEF Signalled
<1>. QED
  BY <1>0, <1>6, <1>7

(* WaitSema has the semaphore.                                                *)
LEMMA SemaFacts ==
  ASSUME NEW so \in Sock, NEW new, new = [so EXCEPT !.sema = 0]
  PROVE  /\ new \in Sock /\ new.sema = 0 /\ new.busy = so.busy /\ new.operation = so.operation
         /\ new.length = so.length /\ new.res = so.res /\ new.buf = so.buf /\ new.own = so.own
         /\ new.wake = so.wake /\ new.at = so.at
BY DEF Sock

(* The replies.                                                               *)
LEMMA ResType ==
  ASSUME NEW c \in Clients, NEW n \in 0 .. MaxLen
  PROVE  Res(c, n) \in Unit /\ Res(c, n).who = c /\ Res(c, n).n = n
BY UnitType, Constants DEF Res

LengthAndData(q, c, n) == \E m \in 0 .. n : q = <<Res(c, m)>> \o Data(c, 0, m)

LEMMA AnswerFacts ==
  ASSUME NEW c \in Clients, NEW op \in Ops \ {"exit"}, NEW n \in 1 .. MaxLen, NEW q \in Answers(c, op, n)
  PROVE  /\ q \in Seq(Unit) /\ Len(q) > 0 /\ q[1].who = c
         /\ op # "read" => Len(q) = ReplyLen(op)
         /\ op = "read" => LengthAndData(q, c, n)
<1>0. c \in People /\ MaxLen \in Nat
  BY Constants
<1>1. \A m \in 0 .. n : Res(c, m) \in Unit /\ Res(c, m).who = c /\ Res(c, m).n = m
  BY <1>0, ResType
<1>2. CASE op = "write"
  <2>1. PICK u : u = Res(c, n)
    OBVIOUS
  <2>2. u \in Unit /\ u.who = c /\ q = <<u>>
    BY <1>1, <1>2, <2>1 DEF Answers
  <2>. QED
    BY <1>2, <2>2 DEF ReplyLen
<1>3. CASE op = "read"
  <2>1. PICK m \in 0 .. n : q = <<Res(c, m)>> \o Data(c, 0, m)
    BY <1>3 DEF Answers
  <2>2. Data(c, 0, m) \in Seq(Unit)
    BY <1>0, DataFacts
  <2>3. q \in Seq(Unit) /\ Len(q) = Len(Data(c, 0, m)) + 1 /\ q[1] = Res(c, m)
    BY <1>1, <2>1, <2>2, Headed
  <2>4. Len(q) > 0
    BY <2>2, <2>3
  <2>. QED
    BY <1>1, <1>3, <2>1, <2>3, <2>4 DEF LengthAndData
<1>4. CASE op \notin {"read", "write"}
  <2>1. PICK l \in {1, 2} : l = ReplyLen(op)
    BY DEF ReplyLen
  <2>2. PICK u : u = Res(c, 0)
    OBVIOUS
  <2>3. q = [i \in 1 .. l |-> u]
    BY <1>4, <2>1, <2>2 DEF Answers
  <2>4. u \in Unit /\ u.who = c
    BY <1>1, <2>2
  <2>5. q \in [1 .. l -> Unit] /\ q[1] = u
    BY <2>1, <2>3, <2>4
  <2>6. q \in Seq(Unit) /\ Len(q) = l
    BY <2>1, <2>5
  <2>. QED
    BY <1>4, <2>1, <2>4, <2>5, <2>6
<1>. QED
  BY <1>2, <1>3, <1>4

(* A whole reply is received: what is left is the data of a read.             *)
LEMMA AnswerRead ==
  ASSUME NEW c \in Clients, NEW op \in Ops \ {"exit"}, NEW n \in 1 .. MaxLen,
         NEW b \in Seq(Unit), NEW p \in Seq(Unit), b \o p \in Answers(c, op, n), Len(b) = ReplyLen(op)
  PROVE  /\ b # <<>> /\ b[1].who = c
         /\ op # "read" => p = <<>>
         /\ op = "read" => b[1].n \in 0 .. n /\ p = Data(c, 0, b[1].n)
<1>0. c \in People /\ MaxLen \in Nat
  BY Constants
<1>1. PICK q \in Answers(c, op, n) : q = b \o p
  OBVIOUS
<1>2. /\ q \in Seq(Unit) /\ Len(q) > 0 /\ q[1].who = c
      /\ op # "read" => Len(q) = ReplyLen(op)
      /\ op = "read" => LengthAndData(q, c, n)
  BY AnswerFacts
<1>3. Len(b) \in {1, 2}
  BY DEF ReplyLen
<1>4. Len(q) = Len(b) + Len(p) /\ q[1] = b[1] /\ b # <<>>
  BY <1>1, <1>3
<1>5. op # "read" => p = <<>>
  BY <1>2, <1>4
<1>6. ASSUME op = "read" PROVE b[1].n \in 0 .. n /\ p = Data(c, 0, b[1].n)
  <2>1. PICK m \in 0 .. n : q = <<Res(c, m)>> \o Data(c, 0, m)
    BY <1>2, <1>6 DEF LengthAndData
  <2>2. Res(c, m) \in Unit /\ Res(c, m).n = m /\ Data(c, 0, m) \in Seq(Unit)
    <3>1. m \in 0 .. MaxLen /\ m \in Nat /\ m <= MaxLen
      BY <1>0
    <3>2. Res(c, m) \in Unit /\ Res(c, m).n = m
      BY <3>1, ResType
    <3>3. Data(c, 0, m) \in Seq(Unit)
      BY <1>0, <3>1, DataFacts
    <3>. QED
      BY <3>2, <3>3
  <2>3. q[1] = Res(c, m) /\ Tail(q) = Data(c, 0, m)
    BY <2>1, <2>2, Headed
  <2>4. Len(b) = 1
    BY <1>6 DEF ReplyLen
  <2>5. PICK u \in Unit : b = <<u>>
    <3>1. b[1] \in Unit
      BY <2>4
    <3>2. b = <<b[1]>>
      BY <2>4
    <3>. QED
      BY <3>1, <3>2
  <2>6. Tail(q) = p
    BY <1>1, <2>5, Headed
  <2>. QED
    BY <1>4, <2>2, <2>3, <2>6
<1>. QED
  BY <1>2, <1>4, <1>5, <1>6

------------------------------------------------------------------------------
(* The PC: the types, and what it does to a request.                          *)
LEMMA PcFrame ==
  ASSUME Types, NEW s \in Socks, PcStep(s)
  PROVE  /\ UNCHANGED <<sock, client, ctl, faults>> /\ Types'
         /\ \A q \in Socks \ {s} : to_pc'[q] = to_pc[q] /\ to_psp'[q] = to_psp[q] /\ session'[q] = session[q]
         /\ to_pc[s] # <<>> /\ to_pc'[s] = Tail(to_pc[s])
<1>0. MaxLen \in Nat
  BY Constants
<1>1. /\ to_pc \in [Socks -> Seq(Unit)] /\ to_psp \in [Socks -> Seq(Unit)] /\ session \in [Socks -> Session]
  BY DEF Types
<1>2. /\ UNCHANGED <<sock, client, ctl, faults>> /\ to_pc[s] # <<>>
      /\ to_pc' = [to_pc EXCEPT ![s] = Tail(to_pc[s])]
  BY DEF PcStep, process_cmd, process_iowrite
<1>3. PICK m : m = Head(to_pc[s])
  OBVIOUS
<1>4. /\ m \in Unit /\ Tail(to_pc[s]) \in Seq(Unit)
      /\ m.who \in People /\ m.n \in 0 .. MaxLen
  <2>1. m \in Unit /\ Tail(to_pc[s]) \in Seq(Unit)
    BY <1>1, <1>2, <1>3
  <2>. QED
    BY <2>1 DEF Unit, People
<1>5. to_pc' \in [Socks -> Seq(Unit)] /\ to_pc'[s] = Tail(to_pc[s]) /\ \A q \in Socks \ {s} : to_pc'[q] = to_pc[q]
  BY <1>1, <1>2, <1>4
<1>6. ASSUME NEW q \in Seq(Unit), to_psp' = [to_psp EXCEPT ![s] = q]
      PROVE  to_psp' \in [Socks -> Seq(Unit)] /\ \A r \in Socks \ {s} : to_psp'[r] = to_psp[r]
  BY <1>1, <1>6
<1>7. ASSUME NEW e \in Session, session' = [session EXCEPT ![s] = e]
      PROVE  session' \in [Socks -> Session] /\ \A r \in Socks \ {s} : session'[r] = session[r]
  BY <1>1, <1>7
<1>8. ASSUME UNCHANGED to_psp PROVE to_psp' \in [Socks -> Seq(Unit)] /\ \A r \in Socks \ {s} : to_psp'[r] = to_psp[r]
  BY <1>1, <1>8
<1>9. ASSUME UNCHANGED session PROVE session' \in [Socks -> Session] /\ \A r \in Socks \ {s} : session'[r] = session[r]
  BY <1>1, <1>9
<1>10. /\ to_psp' \in [Socks -> Seq(Unit)] /\ \A r \in Socks \ {s} : to_psp'[r] = to_psp[r]
       /\ session' \in [Socks -> Session] /\ \A r \in Socks \ {s} : session'[r] = session[r]
  <2>1. CASE process_cmd(s)
    <3>1. CASE /\ to_psp' = [to_psp EXCEPT ![s] = to_psp[s] \o [i \in 1 .. ReplyLen(m.what) |-> Params(m.who, "res", 0)]]
               /\ UNCHANGED session
      <4>1. PICK u : u = Params(m.who, "res", 0)
        OBVIOUS
      <4>2. PICK l \in Nat : l = ReplyLen(m.what)
        BY DEF ReplyLen
      <4>3. u \in Unit
        <5>1. PICK zero \in 0 .. MaxLen : zero = 0
          BY <1>0
        <5>. QED
          BY <1>4, <4>1, <5>1, UnitType
      <4>4. PICK a : a = [i \in 1 .. l |-> u]
        OBVIOUS
      <4>5. a \in Seq(Unit)
        BY <4>3, <4>4
      <4>6. to_psp[s] \o a \in Seq(Unit)
        BY <1>1, <4>5
      <4>7. to_psp' = [to_psp EXCEPT ![s] = to_psp[s] \o a]
        BY <3>1, <4>1, <4>2, <4>4
      <4>. QED
        BY <1>6, <1>9, <3>1, <4>6, <4>7
    <3>2. CASE /\ \E n \in 0 .. m.n :
                     to_psp' = [to_psp EXCEPT ![s] = to_psp[s] \o <<Params(m.who, "res", n)>> \o Data(m.who, 0, n)]
               /\ UNCHANGED session
      <4>1. PICK n \in 0 .. m.n :
               to_psp' = [to_psp EXCEPT ![s] = to_psp[s] \o <<Params(m.who, "res", n)>> \o Data(m.who, 0, n)]
        BY <3>2
      <4>2. n \in 0 .. MaxLen /\ n \in Nat /\ n <= MaxLen
        BY <1>0, <1>4
      <4>3. PICK u : u = Params(m.who, "res", n)
        OBVIOUS
      <4>4. u \in Unit
        BY <1>4, <4>2, <4>3, UnitType
      <4>5. PICK d : d = Data(m.who, 0, n)
        OBVIOUS
      <4>6. d \in Seq(Unit)
        BY <1>4, <4>2, <4>5, DataFacts
      <4>7. to_psp[s] \o <<u>> \o d \in Seq(Unit)
        BY <1>1, <4>4, <4>6
      <4>8. to_psp' = [to_psp EXCEPT ![s] = to_psp[s] \o <<u>> \o d]
        BY <4>1, <4>3, <4>5
      <4>. QED
        BY <1>6, <1>9, <3>2, <4>7, <4>8
    <3>3. CASE /\ session' = [session EXCEPT ![s] = [at |-> "data", who |-> m.who, len |-> m.n, data |-> <<>>]]
               /\ UNCHANGED to_psp
      <4>1. PICK e : e = [at |-> "data", who |-> m.who, len |-> m.n, data |-> <<>>]
        OBVIOUS
      <4>2. e \in Session
        <5>1. <<>> \in Seq(Unit)
          OBVIOUS
        <5>. QED
          BY <1>4, <4>1, <5>1 DEF Session, People
      <4>. QED
        BY <1>7, <1>8, <3>3, <4>1, <4>2
    <3>4. CASE session' = [session EXCEPT ![s].at = "closed"] /\ UNCHANGED to_psp
      <4>1. PICK e : e = [session[s] EXCEPT !.at = "closed"]
        OBVIOUS
      <4>2. e \in Session
        BY <1>1, <4>1 DEF Session
      <4>. QED
        BY <1>7, <1>8, <3>4, <4>1, <4>2
    <3>. QED
      BY <1>3, <2>1, <3>1, <3>2, <3>3, <3>4 DEF process_cmd
  <2>2. CASE process_iowrite(s)
    <3>1. PICK w \in Session : w = session[s]
      BY <1>1
    <3>2. PICK got : got = Append(w.data, m)
      OBVIOUS
    <3>3. got \in Seq(Unit)
      BY <1>4, <3>1, <3>2 DEF Session
    <3>4. CASE session' = [session EXCEPT ![s].data = got] /\ UNCHANGED to_psp
      <4>1. PICK e : e = [w EXCEPT !.data = got]
        OBVIOUS
      <4>2. e \in Session
        BY <3>1, <3>3, <4>1 DEF Session
      <4>. QED
        BY <1>7, <1>8, <3>1, <3>4, <4>1, <4>2
    <3>5. CASE /\ session' = [session EXCEPT ![s].at = "cmd", ![s].data = got]
               /\ to_psp' = [to_psp EXCEPT ![s] = Append(to_psp[s], Params(w.who, "res", w.len))]
      <4>1. PICK e : e = [[w EXCEPT !.at = "cmd"] EXCEPT !.data = got]
        OBVIOUS
      <4>2. e \in Session
        BY <3>1, <3>3, <4>1 DEF Session
      <4>3. session' = [session EXCEPT ![s] = e]
        BY <1>1, <3>1, <3>5, <4>1
      <4>4. PICK u : u = Params(w.who, "res", w.len)
        OBVIOUS
      <4>5. u \in Unit
        <5>1. w.who \in People /\ w.len \in 0 .. MaxLen
          BY <3>1 DEF Session, People
        <5>. QED
          BY <4>4, <5>1, UnitType
      <4>6. Append(to_psp[s], u) \in Seq(Unit)
        BY <1>1, <4>5
      <4>7. to_psp' = [to_psp EXCEPT ![s] = Append(to_psp[s], u)]
        BY <3>5, <4>4
      <4>. QED
        BY <1>6, <1>7, <4>2, <4>3, <4>6, <4>7
    <3>. QED
      BY <1>3, <2>2, <3>1, <3>2, <3>4, <3>5 DEF process_iowrite
  <2>. QED
    BY <2>1, <2>2 DEF PcStep
<1>11. Types'
  BY <1>2, <1>5, <1>10 DEF Types
<1>. QED
  BY <1>2, <1>5, <1>10, <1>11

(* A request that is not a write is answered.                                 *)
LEMMA PcAnswers ==
  ASSUME Types, NEW s \in Socks, PcStep(s), NEW c \in Clients, NEW op \in Ops \ {"write", "exit"}, NEW n \in 1 .. MaxLen,
         Asked(s, c, op, n)
  PROVE  to_pc'[s] = <<>> /\ session' = session /\ to_psp'[s] \in Answers(c, op, n)
<1>0. c \in People /\ MaxLen \in Nat
  BY Constants
<1>1. /\ to_pc \in [Socks -> Seq(Unit)] /\ to_psp \in [Socks -> Seq(Unit)]
  BY DEF Types
<1>2. PICK m : m = Params(c, op, n)
  OBVIOUS
<1>3. m \in Unit /\ m.who = c /\ m.what = op /\ m.n = n
  BY <1>0, <1>2, UnitType
<1>4. to_pc[s] = <<m>> /\ session[s].at = "cmd" /\ to_psp[s] = <<>>
  BY <1>2 DEF Asked
<1>5. Head(to_pc[s]) = m /\ Tail(to_pc[s]) = <<>>
  BY <1>3, <1>4
<1>6. to_pc'[s] = <<>>
  BY <1>5, PcFrame
<1>7. process_cmd(s)
  BY <1>4 DEF PcStep, process_iowrite
<1>8. CASE /\ op \in {"open", "stat", "cmd"} /\ UNCHANGED session
           /\ to_psp' = [to_psp EXCEPT ![s] = to_psp[s] \o [i \in 1 .. ReplyLen(op) |-> Params(c, "res", 0)]]
  <2>1. PICK u : u = Params(c, "res", 0)
    OBVIOUS
  <2>2. PICK l \in Nat : l = ReplyLen(op)
    BY DEF ReplyLen
  <2>3. u \in Unit
    BY <1>0, <2>1, UnitType
  <2>4. PICK a : a = [i \in 1 .. l |-> u]
    OBVIOUS
  <2>5. a \in Seq(Unit) /\ <<>> \o a = a
    BY <2>3, <2>4
  <2>6. to_psp' = [to_psp EXCEPT ![s] = to_psp[s] \o a]
    BY <1>8, <2>1, <2>2, <2>4
  <2>7. to_psp'[s] = a
    BY <1>1, <1>4, <2>5, <2>6
  <2>8. Answers(c, op, n) = {a}
    BY <1>8, <2>1, <2>2, <2>4 DEF Answers, Res
  <2>. QED
    BY <1>6, <1>8, <2>7, <2>8
<1>9. CASE /\ op = "read" /\ UNCHANGED session
           /\ \E k \in 0 .. n :
                 to_psp' = [to_psp EXCEPT ![s] = to_psp[s] \o <<Params(c, "res", k)>> \o Data(c, 0, k)]
  <2>1. PICK k \in 0 .. n :
               to_psp' = [to_psp EXCEPT ![s] = to_psp[s] \o <<Params(c, "res", k)>> \o Data(c, 0, k)]
    BY <1>9
  <2>2. k \in 0 .. MaxLen /\ k \in Nat /\ k <= MaxLen
    BY <1>0
  <2>3. PICK u : u = Res(c, k)
    OBVIOUS
  <2>4. u \in Unit
    BY <2>2, <2>3, ResType
  <2>5. PICK d : d = Data(c, 0, k)
    OBVIOUS
  <2>6. d \in Seq(Unit)
    BY <1>0, <2>2, <2>5, DataFacts
  <2>7. to_psp[s] \o <<u>> = <<u>>
    BY <1>4, <2>4
  <2>8. to_psp' = [to_psp EXCEPT ![s] = (to_psp[s] \o <<u>>) \o d]
    BY <2>1, <2>3, <2>5 DEF Res
  <2>9. to_psp'[s] = <<u>> \o d
    BY <1>1, <2>7, <2>8
  <2>10. <<u>> \o d \in Answers(c, op, n)
    BY <1>9, <2>3, <2>5 DEF Answers
  <2>. QED
    BY <1>6, <1>9, <2>9, <2>10
<1>. QED
  BY <1>3, <1>5, <1>7, <1>8, <1>9 DEF process_cmd

LEMMA DataNext ==
  ASSUME NEW c \in People, NEW a \in Nat, a < MaxLen
  PROVE  Append(Data(c, 0, a), Params(c, "data", a + 1)) = Data(c, 0, a + 1)
<1>0. MaxLen \in Nat
  BY Constants
<1>1. PICK b \in Nat : b = a + 1 /\ b <= MaxLen
  BY <1>0
<1>2. PICK u \in Unit : u = Params(c, "data", b)
  BY <1>1, UnitType
<1>3. PICK x, z : x = Data(c, 0, a) /\ z = Data(c, 0, b)
  OBVIOUS
<1>4. IsData(x, c, 0, a) /\ IsData(z, c, 0, b)
  BY <1>0, <1>1, <1>3, DataIs
<1>5. x \in Seq(Unit) /\ Len(x) = a /\ \A i \in 1 .. a : x[i] = Params(c, "data", i)
  <2>1. a - 0 = a /\ \A i \in 1 .. a : 0 + i = i
    OBVIOUS
  <2>. QED
    BY <1>4, <2>1 DEF IsData
<1>6. PICK w : w = Append(x, u)
  OBVIOUS
<1>7. w \in Seq(Unit) /\ Len(w) = b /\ w[b] = u /\ \A i \in 1 .. a : w[i] = x[i]
  BY <1>1, <1>2, <1>5, <1>6
<1>8. IsData(w, c, 0, b)
  <2>1. \A i \in 1 .. b : w[i] = Params(c, "data", i)
    BY <1>1, <1>2, <1>5, <1>7
  <2>2. b - 0 = b /\ \A i \in 1 .. b : 0 + i = i
    OBVIOUS
  <2>. QED
    BY <1>7, <2>1, <2>2 DEF IsData
<1>9. w = z
  BY <1>1, <1>4, <1>8, DataOne
<1>. QED
  BY <1>1, <1>2, <1>3, <1>6, <1>9

(* The PC takes a unit of a write.                                            *)
LEMMA PcWrites ==
  ASSUME Types, NEW s \in Socks, PcStep(s), NEW c \in Clients, "write" \in Ops, NEW n \in 1 .. MaxLen,
         NEW k \in Nat, k <= n, Writing(s, c, n, k)
  PROVE  /\ Writing(s, c, n, k)' \/ (k = n /\ Caught(s)' /\ to_psp'[s] \in Answers(c, "write", n))
         /\ Whole(s)'
<1>0. c \in People /\ MaxLen \in Nat /\ n \in Nat /\ n <= MaxLen /\ k <= MaxLen
  BY Constants
<1>1. /\ to_pc \in [Socks -> Seq(Unit)] /\ to_psp \in [Socks -> Seq(Unit)] /\ session \in [Socks -> Session]
  BY DEF Types
<1>2. to_psp[s] = <<>> /\ to_pc[s] # <<>> /\ to_pc'[s] = Tail(to_pc[s])
  BY PcFrame DEF Writing
<1>3. CASE session[s].at = "cmd" /\ to_pc[s] = <<Params(c, "write", n)>> \o Data(c, 0, k)
  <2>1. PICK m \in Unit : m = Params(c, "write", n) /\ m.who = c /\ m.what = "write" /\ m.n = n
    BY <1>0, UnitType
  <2>2. PICK d : d = Data(c, 0, k)
    OBVIOUS
  <2>3. d \in Seq(Unit)
    BY <1>0, <2>2, DataFacts
  <2>4. to_pc[s] = <<m>> \o d
    BY <1>3, <2>1, <2>2
  <2>5. Head(to_pc[s]) = m /\ Tail(to_pc[s]) = d
    BY <2>1, <2>3, <2>4, Headed
  <2>6. process_cmd(s)
    BY <1>3 DEF PcStep, process_iowrite
  <2>7. session' = [session EXCEPT ![s] = [at |-> "data", who |-> c, len |-> n, data |-> <<>>]] /\ UNCHANGED to_psp
    BY <2>1, <2>5, <2>6 DEF process_cmd
  <2>8. session'[s] = [at |-> "data", who |-> c, len |-> n, data |-> <<>>]
    BY <1>1, <2>7
  <2>9. session'[s].at = "data" /\ session'[s].who = c /\ session'[s].len = n /\ session'[s].data = <<>>
    BY <2>8
  <2>10. Data(c, 0, 0) = <<>>
    BY <1>0, DataNone
  <2>11. 0 \in 0 .. k /\ 0 < n
    OBVIOUS
  <2>12. to_pc'[s] = Data(c, 0, k) /\ to_psp'[s] = <<>>
    BY <1>2, <2>2, <2>5, <2>7
  <2>13. \E j \in 0 .. k : j < n /\ session'[s].data = Data(c, 0, j) /\ to_pc'[s] = Data(c, j, k)
    BY <2>9, <2>10, <2>11, <2>12
  <2>. QED
    BY <2>9, <2>12, <2>13 DEF Writing, Whole
<1>4. CASE /\ session[s].at = "data" /\ session[s].who = c /\ session[s].len = n
           /\ \E j \in 0 .. k : j < n /\ session[s].data = Data(c, 0, j) /\ to_pc[s] = Data(c, j, k)
  <2>1. PICK j \in 0 .. k : j < n /\ session[s].data = Data(c, 0, j) /\ to_pc[s] = Data(c, j, k)
    BY <1>4
  <2>2. j # k
    BY <1>0, <1>2, <2>1, DataNone
  <2>3. PICK i \in Nat : i = j + 1 /\ i <= k /\ i <= n /\ j < MaxLen /\ j \in Nat
    BY <1>0, <2>1, <2>2
  <2>4. PICK u : u = Params(c, "data", i)
    OBVIOUS
  <2>5. Head(to_pc[s]) = u /\ Tail(to_pc[s]) = Data(c, i, k)
    BY <1>0, <2>1, <2>2, <2>3, <2>4, DataHead
  <2>6. PICK got : got = Data(c, 0, i)
    OBVIOUS
  <2>7. Append(session[s].data, Head(to_pc[s])) = got
    BY <1>0, <2>1, <2>3, <2>4, <2>5, <2>6, DataNext
  <2>8. got \in Seq(Unit) /\ Len(got) = i
    BY <1>0, <2>3, <2>6, DataFacts
  <2>9. process_iowrite(s)
    BY <1>4 DEF PcStep, process_cmd
  <2>10. CASE i < n
    <3>1. session' = [session EXCEPT ![s].data = got] /\ UNCHANGED to_psp
      BY <1>4, <2>7, <2>8, <2>9, <2>10 DEF process_iowrite
    <3>2. session'[s] = [session[s] EXCEPT !.data = got]
      BY <1>1, <3>1
    <3>3. session'[s].at = "data" /\ session'[s].who = c /\ session'[s].len = n /\ session'[s].data = got
      BY <1>1, <1>4, <3>2 DEF Session
    <3>4. to_pc'[s] = Data(c, i, k) /\ to_psp'[s] = <<>>
      BY <1>2, <2>5, <3>1
    <3>5. i \in 0 .. k
      BY <2>3
    <3>. QED
      BY <2>6, <2>10, <3>3, <3>4, <3>5 DEF Writing, Whole
  <2>11. CASE ~(i < n)
    <3>0. i = n /\ k = n
      BY <2>3, <2>11
    <3>1. /\ session' = [session EXCEPT ![s].at = "cmd", ![s].data = got]
          /\ to_psp' = [to_psp EXCEPT ![s] = Append(to_psp[s], Params(c, "res", n))]
      <4>1. ~(Len(Append(session[s].data, Head(to_pc[s]))) < session[s].len)
        BY <1>4, <2>7, <2>8, <2>11
      <4>2. /\ session' = [session EXCEPT ![s].at = "cmd", ![s].data = Append(session[s].data, Head(to_pc[s]))]
            /\ to_psp' = [to_psp EXCEPT ![s] = Append(to_psp[s], Params(session[s].who, "res", session[s].len))]
        BY <2>9, <4>1, Zenon DEF process_iowrite
      <4>. QED
        BY <1>4, <2>7, <4>2, Zenon
    <3>2. PICK a : a = [session[s] EXCEPT !.at = "cmd"]
      OBVIOUS
    <3>3. PICK b : b = [a EXCEPT !.data = got]
      OBVIOUS
    <3>4. a \in Session /\ a.at = "cmd" /\ a.who = c /\ a.len = n
      BY <1>1, <1>4, <3>2 DEF Session
    <3>5. b.at = "cmd" /\ b.who = c /\ b.len = n /\ b.data = got
      BY <3>3, <3>4 DEF Session
    <3>6. session'[s] = b
      BY <1>1, <3>1, <3>2, <3>3
    <3>7. to_pc'[s] = <<>>
      BY <1>0, <1>2, <2>5, <3>0, DataNone
    <3>8. PICK r : r = Res(c, n)
      OBVIOUS
    <3>9. to_psp'[s] = <<r>>
      BY <1>1, <1>2, <3>1, <3>8 DEF Res
    <3>10. Answers(c, "write", n) = {<<r>>}
      BY <3>8 DEF Answers
    <3>. QED
      BY <2>6, <3>0, <3>5, <3>6, <3>7, <3>9, <3>10 DEF Caught, Whole
  <2>. QED
    BY <2>10, <2>11
<1>. QED
  BY <1>3, <1>4 DEF Writing

(* The next units of a write: at most to the end, and as many as a block has. *)
LEMMA BlockUnits ==
  ASSUME NEW c \in Clients, client[c].len \in 1 .. MaxLen, NEW k \in Nat, k <= client[c].len
  PROVE  /\ Block(c, k) \in Nat /\ k + Block(c, k) <= client[c].len
         /\ Data(c, k, k + Block(c, k)) \in Seq(Unit) /\ Len(Data(c, k, k + Block(c, k))) = Block(c, k)
<1>1. PICK n \in Nat : n = client[c].len /\ n <= MaxLen /\ MaxLen \in Nat
  BY Constants
<1>2. Block(c, k) \in Nat /\ k + Block(c, k) <= client[c].len
  BY <1>1, BlockFacts
<1>3. PICK b \in Nat : b = Block(c, k)
  BY <1>2
<1>4. PICK e \in Nat : e = k + b
  OBVIOUS
<1>5. k <= e /\ e <= MaxLen /\ e - k = b
  BY <1>1, <1>2, <1>3, <1>4
<1>6. Data(c, k, e) \in Seq(Unit) /\ Len(Data(c, k, e)) = b
  BY <1>5, DataFacts, Constants
<1>. QED
  BY <1>2, <1>3, <1>4, <1>6

(* wifiIoExit's request closes the session.                                   *)
LEMMA PcLeaves ==
  ASSUME Types, NEW s \in Socks, PcStep(s), Left(s), Whole(s)
  PROVE  Left(s)' /\ Whole(s)'
<1>1. session \in [Socks -> Session]
  BY DEF Types
<1>2. to_pc[s] # <<>> /\ to_pc'[s] = Tail(to_pc[s])
  BY PcFrame
<1>3. PICK m : m = Params(Ctl, "exit", 0)
  OBVIOUS
<1>4. session[s].at = "cmd" /\ to_pc[s] = <<m>> /\ m.what = "exit"
  BY <1>2, <1>3 DEF Left, Params
<1>5. Head(to_pc[s]) = m /\ to_pc'[s] = <<>>
  BY <1>2, <1>4
<1>6. session' = [session EXCEPT ![s].at = "closed"]
  BY <1>4, <1>5 DEF PcStep, process_cmd, process_iowrite
<1>7. session'[s] = [session[s] EXCEPT !.at = "closed"]
  BY <1>1, <1>6
<1>8. /\ session'[s].at = "closed" /\ session'[s].data = session[s].data
      /\ session'[s].who = session[s].who /\ session'[s].len = session[s].len
  BY <1>1, <1>7 DEF Session
<1>. QED
  BY <1>4, <1>5, <1>8 DEF Left, Whole

(* The PC goes on with the call of c.                                         *)
LEMMA PcReached ==
  ASSUME Types, NEW c \in Clients, NEW s \in Socks, s = On(c), PcStep(s), Whole(s),
         client[c].len > 0, client[c].op \in Ops \ {"exit"},
         NEW k \in Nat, k <= client[c].len, Reached(c, k)
  PROVE  Reached(c, k)' /\ Whole(s)'
<1>1. PICK n \in 1 .. MaxLen : n = client[c].len
  BY Constants DEF Types, Client
<1>2. PICK op \in Ops \ {"exit"} : op = client[c].op
  OBVIOUS
<1>3. client' = client /\ to_pc[s] # <<>>
  BY PcFrame
<1>4. client'[c].len = n /\ client'[c].op = op /\ client'[c].s = s
  BY <1>1, <1>2, <1>3 DEF On
<1>5. ~Served(c)
  BY <1>3 DEF Served, Caught, On
<1>6. CASE op = "write"
  <2>1. Writing(s, c, n, k) /\ k <= n
    BY <1>1, <1>2, <1>5, <1>6 DEF Reached
  <2>2. /\ Writing(s, c, n, k)' \/ (k = n /\ Caught(s)' /\ to_psp'[s] \in Answers(c, "write", n))
        /\ Whole(s)'
    BY <1>6, <2>1, PcWrites
  <2>. QED
    BY <1>4, <1>6, <2>2 DEF Reached, Served, On, Writing, Caught
<1>7. CASE op # "write"
  <2>1. Asked(s, c, op, n)
    BY <1>1, <1>2, <1>5, <1>7 DEF Reached
  <2>2. to_pc'[s] = <<>> /\ session' = session /\ to_psp'[s] \in Answers(c, op, n)
    BY <1>7, <2>1, PcAnswers
  <2>3. Caught(s)'
    BY <2>1, <2>2 DEF Caught, Asked
  <2>4. Whole(s)'
    BY <2>2 DEF Whole
  <2>. QED
    BY <1>4, <1>7, <2>2, <2>3, <2>4 DEF Reached, Served, On, Caught
<1>. QED
  BY <1>6, <1>7

(* Each blocked call goes on as the PC does.                                  *)
LEMMA PcBlocked ==
  ASSUME Types, NEW c \in Clients, At(c) \in Blocked, PcStep(On(c)), Works(c), Whole(On(c))
  PROVE  Works(c)' /\ Whole(On(c))'
<1>0. PICK s \in Socks : s = On(c)
  BY DEF Types, Client, On
<1>1. PICK n \in 1 .. MaxLen : n = client[c].len
  BY Constants DEF Types, Client, Works
<1>2. n \in Nat /\ n <= MaxLen /\ MaxLen \in Nat /\ client[c].len > 0 /\ client[c].op \in Ops \ {"exit"}
  BY <1>1, Constants DEF Works
<1>3. UNCHANGED <<sock, client, ctl, faults>> /\ to_pc[s] # <<>>
  BY <1>0, PcFrame
<1>4. ~Caught(s)
  BY <1>3 DEF Caught
<1>5. \A k \in Nat : k <= n /\ Reached(c, k) => Reached(c, k)' /\ Whole(s)'
  BY <1>0, <1>1, <1>2, PcReached
<1>6. CASE At(c) = "sent"
  <2>1. SentOK(c, s) /\ client[c].done = 0 /\ client[c].data = <<>>
    BY <1>0, <1>6 DEF Works
  <2>2. Reached(c, 0) /\ Signals(s) /\ sock[s].res = 1
    BY <1>4, <2>1 DEF SentOK
  <2>3. Reached(c, 0)' /\ Whole(s)'
    BY <1>2, <1>5, <2>2
  <2>4. SentOK(c, s)'
    BY <1>3, <2>1, <2>2, <2>3 DEF SentOK, Sending, Request, Signals
  <2>. QED
    BY <1>0, <1>2, <1>3, <1>6, <2>1, <2>3, <2>4 DEF Works, At, On
<1>7. CASE At(c) = "block"
  <2>1. BlockOK(c, s)
    BY <1>0, <1>7 DEF Works
  <2>2. PICK k \in Nat : k = client[c].done
    BY Constants DEF Types, Client
  <2>3. client[c].op = "write" /\ k < n /\ Sending(s, Data(c, k, k + Block(c, k)))
    BY <1>1, <2>1, <2>2 DEF BlockOK
  <2>4. Writing(s, c, n, k) => Reached(c, k)
    BY <1>0, <1>1, <2>3 DEF Reached
  <2>5. Block(c, k) \in Nat /\ k + Block(c, k) <= n
    BY <1>1, <2>3, BlockFacts
  <2>6. sock[s].length = Block(c, k)
    BY <1>1, <1>2, <2>3, BlockUnits DEF Sending
  <2>7. Block(c, k)' = Block(c, k)
    BY <1>3 DEF Block
  <2>8. Sending(s, Data(c, k, k + Block(c, k)))'
    BY <1>3, <2>3, <2>7 DEF Sending
  <2>9. CASE Writing(s, c, n, k) /\ (Waits(s) \/ (Signals(s) /\ sock[s].res = -1))
    <3>1. Reached(c, k)' /\ Whole(s)'
      BY <1>5, <2>3, <2>4, <2>9
    <3>2. Writing(s, c, n, k)'
      <4>1. client'[c].op = "write" /\ client'[c].len = n /\ On(c)' = s /\ k # n
        BY <1>0, <1>1, <1>3, <2>3 DEF On
      <4>. QED
        BY <3>1, <4>1 DEF Reached
    <3>3. BlockOK(c, s)'
      BY <1>1, <1>3, <2>2, <2>3, <2>8, <2>9, <3>2 DEF BlockOK, Waits, Signals, Block
    <3>. QED
      BY <1>0, <1>2, <1>3, <1>7, <3>1, <3>3 DEF Works, At, On
  <2>10. CASE Signals(s) /\ sock[s].res \in 0 .. sock[s].length /\ Reached(c, k + sock[s].res)
    <3>1. PICK r \in Nat : r = k + sock[s].res /\ r <= n
      BY <2>5, <2>6, <2>10
    <3>2. Reached(c, r)' /\ Whole(s)'
      BY <1>5, <2>10, <3>1
    <3>3. BlockOK(c, s)'
      BY <1>1, <1>3, <2>2, <2>3, <2>8, <2>10, <3>1, <3>2 DEF BlockOK, Waits, Signals, Block
    <3>. QED
      BY <1>0, <1>2, <1>3, <1>7, <3>2, <3>3 DEF Works, At, On
  <2>. QED
    BY <1>1, <2>1, <2>2, <2>9, <2>10 DEF BlockOK
<1>8. CASE At(c) = "replied"
  <2>1. RepliedOK(c, s) /\ (client[c].op # "write" => client[c].done = 0 /\ client[c].data = <<>>)
    BY <1>0, <1>8 DEF Works
  <2>2. Reached(c, n) /\ (Waits(s) \/ (Signals(s) /\ sock[s].res = -1))
    BY <1>1, <1>4, <2>1 DEF RepliedOK
  <2>3. Reached(c, n)' /\ Whole(s)'
    BY <1>2, <1>5, <2>2
  <2>4. RepliedOK(c, s)'
    BY <1>1, <1>3, <2>1, <2>2, <2>3 DEF RepliedOK, Receiving, Waits, Signals
  <2>. QED
    BY <1>0, <1>2, <1>3, <1>8, <2>1, <2>3, <2>4 DEF Works, At, On
<1>9. CASE At(c) = "received"
  BY <1>0, <1>4, <1>9 DEF Works, ReceivedOK
<1>. QED
  BY <1>6, <1>7, <1>8, <1>9 DEF Blocked

(* A socket nobody may take any more: a request of a failed call is answered. *)
LEMMA PcKept ==
  ASSUME Types, NEW s \in Socks, PcStep(s), Kept(s), Whole(s)
  PROVE  Kept(s)' /\ Whole(s)'
<1>1. UNCHANGED <<sock, client, ctl, faults>> /\ to_pc[s] # <<>>
  BY PcFrame
<1>2. Still(s)'
  BY <1>1 DEF Still, Kept
<1>3. CASE \E c \in Clients, op \in Ops \ {"write", "exit"}, n \in 1 .. MaxLen : Asked(s, c, op, n)
  <2>1. PICK c \in Clients, op \in Ops \ {"write", "exit"}, n \in 1 .. MaxLen : Asked(s, c, op, n)
    BY <1>3
  <2>2. to_pc'[s] = <<>> /\ session' = session
    BY <2>1, PcAnswers
  <2>. QED
    BY <1>2, <2>1, <2>2 DEF Asked, Kept, Partly, Caught, Whole
<1>4. CASE "write" \in Ops /\ \E c \in Clients, n \in 1 .. MaxLen : \E k \in 0 .. n : Writing(s, c, n, k)
  <2>1. PICK c \in Clients, n \in 1 .. MaxLen : \E k \in 0 .. n : Writing(s, c, n, k)
    BY <1>4
  <2>2. PICK k \in 0 .. n : Writing(s, c, n, k)
    BY <2>1
  <2>3. k \in Nat /\ k <= n
    OBVIOUS
  <2>4. (Writing(s, c, n, k)' \/ Caught(s)') /\ Whole(s)'
    BY <1>4, <2>2, <2>3, PcWrites
  <2>. QED
    BY <1>2, <1>4, <2>4 DEF Kept, Partly
<1>. QED
  BY <1>1, <1>3, <1>4 DEF Kept, Partly, Caught

------------------------------------------------------------------------------
(* Steps at one socket leave the calls and the pool elsewhere alone.          *)
SameAt(q) == sock'[q] = sock[q] /\ to_pc'[q] = to_pc[q] /\ to_psp'[q] = to_psp[q] /\ session'[q] = session[q]
OnlyAt(s) == \A q \in Socks \ {s} : SameAt(q)

LEMMA WorksOn ==
  ASSUME NEW d \in Clients, client'[d] = client[d], ctl' = ctl, Works(d),
         At(d) \in Blocked \cup {"return"} => SameAt(On(d))
  PROVE  Works(d)'
<1>1. At(d)' = At(d) /\ On(d)' = On(d) /\ Request(d)' = Request(d)
  BY DEF At, On, Request
<1>2. \A k : Block(d, k)' = Block(d, k)
  BY DEF Block
<1>3. ExitedBy(On(d))' = ExitedBy(On(d))
  BY <1>1 DEF ExitedBy
<1>4. PICK q : q = On(d)
  OBVIOUS
<1>5. CASE At(d) \in Blocked
  <2>1. SameAt(q)
    BY <1>4, <1>5
  <2>2. /\ Waits(q)' <=> Waits(q)
        /\ Signals(q)' <=> Signals(q)
        /\ Caught(q)' <=> Caught(q)
        /\ sock'[q] = sock[q] /\ to_psp'[q] = to_psp[q]
        /\ \A u : Sending(q, u)' <=> Sending(q, u)
        /\ \A l : Receiving(q, l)' <=> Receiving(q, l)
        /\ \A c, n, k : Writing(q, c, n, k)' <=> Writing(q, c, n, k)
        /\ \A c, op, n : Asked(q, c, op, n)' <=> Asked(q, c, op, n)
    BY <2>1 DEF SameAt, Waits, Signals, Caught, Sending, Receiving, Writing, Asked
  <2>3. Served(d)' <=> Served(d)
    BY <1>1, <1>4, <2>2 DEF Served
  <2>4. \A k : Reached(d, k)' <=> Reached(d, k)
    BY <1>1, <1>4, <2>2, <2>3 DEF Reached
  <2>5. /\ SentOK(d, q)' <=> SentOK(d, q)
        /\ RepliedOK(d, q)' <=> RepliedOK(d, q)
    BY <1>1, <2>2, <2>4 DEF SentOK, RepliedOK
  <2>6. BlockOK(d, q)' <=> BlockOK(d, q)
    BY <1>1, <1>2, <2>2, <2>4 DEF BlockOK
  <2>7. ReceivedOK(d, q)' <=> ReceivedOK(d, q)
    BY <1>1, <1>2, <2>2, <2>4 DEF ReceivedOK
  <2>. QED
    BY <1>1, <1>4, <1>5, <2>5, <2>6, <2>7 DEF Works, Blocked
<1>6. CASE At(d) \notin Blocked
  BY <1>1, <1>3, <1>6 DEF Works, SameAt, Blocked
<1>. QED
  BY <1>5, <1>6

LEMMA PooledOn ==
  ASSUME NEW q \in Socks, SameAt(q), ctl' = ctl, Unused(q)' => Unused(q), Pooled(q)
  PROVE  Pooled(q)'
<1>1. /\ Waits(q)' <=> Waits(q)
      /\ Signals(q)' <=> Signals(q)
      /\ Still(q)' <=> Still(q)
      /\ Caught(q)' <=> Caught(q)
      /\ Left(q)' <=> Left(q)
      /\ Whole(q)' <=> Whole(q)
      /\ Busy(q)' = Busy(q)
      /\ ExitedBy(q)' <=> ExitedBy(q)
      /\ sock'[q] = sock[q] /\ to_psp'[q] = to_psp[q]
      /\ \A u : Sending(q, u)' <=> Sending(q, u)
      /\ \A c, n, k : Writing(q, c, n, k)' <=> Writing(q, c, n, k)
      /\ \A c, op, n : Asked(q, c, op, n)' <=> Asked(q, c, op, n)
  BY DEF SameAt, Waits, Signals, Still, Caught, Left, Whole, Busy, ExitedBy, Sending, Writing, Asked
<1>2. (Clean(q)' <=> Clean(q)) /\ (Kept(q)' <=> Kept(q)) /\ (Gone(q)' <=> Gone(q))
  BY <1>1 DEF Clean, Kept, Partly, Gone
<1>. QED
  BY <1>1, <1>2 DEF Pooled

(* A step of the socket's thread, of the network or of the PC.                *)
LEMMA LocalStep ==
  ASSUME IInv, WireInv, NEW s \in Socks, UNCHANGED <<client, ctl>>, Types', OnlyAt(s), Busy(s)' = Busy(s),
         Busy(s) \/ ExitedBy(s),
         \A c \in Clients : At(c) \in Blocked /\ On(c) = s => Works(c)',
         Busy(s) /\ Unused(s) => Kept(s)', ExitedBy(s) => Gone(s)', Whole(s)'
  PROVE  WireInv'
<1>1. \A c \in Clients : client'[c] = client[c] /\ Copied(c)'
  BY DEF WireInv, Copied, At
<1>2. ASSUME NEW c \in Clients PROVE Works(c)'
  <2>0. On(c) \in Socks /\ Works(c)
    BY DEF WireInv, Types, Client, On
  <2>1. CASE At(c) \in Blocked /\ On(c) = s
    BY <2>1
  <2>2. CASE At(c) \in Blocked /\ On(c) # s
    BY <1>1, <2>0, <2>2, WorksOn DEF OnlyAt
  <2>3. CASE At(c) = "return"
    <3>1. ~Busy(On(c))
      BY <2>3 DEF IInv, Pool, Bare
    <3>2. ~ExitedBy(On(c))
      BY <2>0, <2>3 DEF Works
    <3>. QED
      BY <1>1, <2>0, <3>1, <3>2, WorksOn DEF OnlyAt
  <2>4. CASE At(c) \notin Blocked \cup {"return"}
    BY <1>1, <2>0, <2>4, WorksOn
  <2>. QED
    BY <2>1, <2>2, <2>3, <2>4
<1>3. ASSUME NEW q \in Socks PROVE Pooled(q)'
  <2>1. Unused(q)' <=> Unused(q)
    BY <1>1 DEF Unused, At, On
  <2>2. CASE q # s
    BY <2>1, <2>2, PooledOn DEF OnlyAt, WireInv
  <2>3. CASE q = s
    <3>1. ExitedBy(s)' <=> ExitedBy(s)
      BY DEF ExitedBy
    <3>. QED
      BY <2>1, <2>3, <3>1 DEF Pooled
  <2>. QED
    BY <2>2, <2>3
<1>. QED
  BY <1>1, <1>2, <1>3 DEF WireInv

LEMMA PcWire == ASSUME IInv, WireInv, NEW s \in Socks, PcStep(s) PROVE WireInv'
<1>1. /\ UNCHANGED <<sock, client, ctl, faults>> /\ Types' /\ to_pc[s] # <<>> /\ OnlyAt(s)
  BY PcFrame DEF WireInv, OnlyAt, SameAt
<1>2. Pooled(s) /\ Whole(s) /\ Types
  BY DEF WireInv, Pooled
<1>3. Busy(s) \/ ExitedBy(s)
  BY <1>1, <1>2 DEF Pooled, Clean, Caught
<1>4. ASSUME NEW c \in Clients, At(c) \in Blocked, On(c) = s PROVE Works(c)' /\ Whole(s)'
  <2>1. Works(c) /\ PcStep(On(c)) /\ Whole(On(c))
    BY <1>2, <1>4 DEF WireInv
  <2>2. Works(c)' /\ Whole(On(c))'
    BY <1>2, <1>4, <2>1, PcBlocked
  <2>3. On(c)' = s
    BY <1>1, <1>4 DEF On
  <2>. QED
    BY <2>2, <2>3 DEF Whole
<1>5. Busy(s) /\ Unused(s) => Kept(s)' /\ Whole(s)'
  BY <1>2, PcKept DEF Pooled
<1>6. ASSUME ExitedBy(s) PROVE Gone(s)' /\ Whole(s)'
  <2>1. Gone(s)
    BY <1>2, <1>6 DEF Pooled
  <2>2. Left(s)
    BY <1>1, <2>1 DEF Gone, Caught
  <2>3. Left(s)' /\ Whole(s)'
    BY <1>2, <2>2, PcLeaves
  <2>. QED
    BY <1>1, <2>1, <2>2, <2>3 DEF Gone, Busy, Sending, Waits, Signals, Still, Caught
<1>7. Whole(s)'
  BY <1>3, <1>4, <1>5, <1>6 DEF Unused
<1>8. Busy(s)' = Busy(s)
  BY <1>1 DEF Busy
<1>. QED
  BY <1>1, <1>3, <1>4, <1>5, <1>6, <1>7, <1>8, LocalStep

(* A socket's thread that is not at rest works for a blocked call, or for     *)
(* wifiIoExit.                                                                *)
ForExit(s) == ctl.at = "sent" /\ ctl.i = s
LEMMA AtWork ==
  ASSUME IInv, WireInv, NEW s \in Socks, ~Still(s), ~Signals(s)
  PROVE  /\ Waits(s)
         /\ (\E c \in Clients : At(c) \in Blocked /\ On(c) = s) \/ (ExitedBy(s) /\ ForExit(s))
<1>1. Pooled(s)
  BY DEF WireInv
<1>2. CASE \E c \in Clients : At(c) \in Blocked /\ On(c) = s
  <2>1. PICK c \in Clients : At(c) \in Blocked /\ On(c) = s
    BY <1>2
  <2>2. Works(c)
    BY DEF WireInv
  <2>3. Waits(s)
    BY <2>1, <2>2 DEF Works, Blocked, SentOK, BlockOK, RepliedOK, ReceivedOK
  <2>. QED
    BY <1>2, <2>3
<1>3. CASE ~(\E c \in Clients : At(c) \in Blocked /\ On(c) = s)
  <2>1. Unused(s)
    BY <1>3 DEF Unused
  <2>2. ExitedBy(s) /\ Gone(s)
    BY <1>1, <2>1 DEF Pooled, Clean, Kept
  <2>. QED
    BY <2>2 DEF Gone, ForExit
<1>. QED
  BY <1>2, <1>3

LEMMA CallStep ==
  ASSUME IInv, WireInv, NEW c \in Clients, At(c) \in Blocked, NEW s \in Socks, s = On(c),
         UNCHANGED <<client, ctl, session>>, Types', OnlyAt(s), Busy(s)' = Busy(s), Works(c)'
  PROVE  WireInv'
<1>1. Busy(s) /\ \A d \in Clients : At(d) \in Blocked /\ On(d) = s => d = c
  BY DEF IInv, Pool
<1>2. ~Unused(s) /\ ~ExitedBy(s) /\ Whole(s)
  BY <1>1 DEF Unused, WireInv, Pooled, Gone
<1>3. Whole(s)'
  BY <1>2 DEF Whole
<1>. QED
  BY <1>1, <1>2, <1>3, LocalStep

LEMMA ExitStep ==
  ASSUME IInv, WireInv, NEW s \in Socks, ExitedBy(s),
         UNCHANGED <<client, ctl, session>>, Types', OnlyAt(s), Busy(s)' = Busy(s), Gone(s)'
  PROVE  WireInv'
<1>1. ~Busy(s) /\ Whole(s)
  BY DEF WireInv, Pooled, Gone
<1>2. \A c \in Clients : At(c) \in Blocked => On(c) # s
  BY <1>1 DEF IInv, Pool
<1>3. Whole(s)'
  BY <1>1 DEF Whole
<1>. QED
  BY <1>1, <1>2, <1>3, LocalStep

(* sock_thread wakes up.                                                      *)
LEMMA WakesFacts ==
  ASSUME Types, NEW s \in Socks, Waits(s), SockWakes(s)
  PROVE  /\ Types' /\ OnlyAt(s) /\ UNCHANGED <<client, ctl, to_pc, to_psp, session>>
         /\ Waits(s)' /\ sock'[s].busy = sock[s].busy /\ sock'[s].own = sock[s].own
         /\ sock'[s].operation = sock[s].operation /\ sock'[s].length = sock[s].length /\ sock'[s].buf = sock[s].buf
<1>1. sock \in [Socks -> Sock] /\ sock[s].wake = 1 /\ sock[s].sema = 0
  BY DEF Types, SockWakes, Waits
<1>2. PICK a : a = [sock[s] EXCEPT !.at = "io"]
  OBVIOUS
<1>3. /\ a \in Sock /\ a.at = "io" /\ a.busy = sock[s].busy /\ a.own = sock[s].own /\ a.wake = 1 /\ a.sema = 0
      /\ a.operation = sock[s].operation /\ a.length = sock[s].length /\ a.buf = sock[s].buf
  <2>1. PICK so \in Sock : so = sock[s]
    BY <1>1
  <2>. QED
    BY <1>1, <1>2, <2>1 DEF Sock
<1>4. PICK zero \in 0 .. 2 : zero = 0
  OBVIOUS
<1>5. PICK b : b = [a EXCEPT !.wake = zero]
  OBVIOUS
<1>6. /\ b \in Sock /\ b.at = "io" /\ b.busy = sock[s].busy /\ b.own = sock[s].own /\ b.wake = 0 /\ b.sema = 0
      /\ b.operation = sock[s].operation /\ b.length = sock[s].length /\ b.buf = sock[s].buf
  BY <1>3, <1>4, <1>5 DEF Sock
<1>7. sock' = [sock EXCEPT ![s] = b]
  <2>1. a.wake - 1 = zero
    BY <1>3, <1>4
  <2>2. b = [a EXCEPT !.wake = a.wake - 1]
    BY <1>5, <2>1
  <2>3. sock' = [sock EXCEPT ![s] = [a EXCEPT !.wake = a.wake - 1]]
    BY <1>1, <1>2, <1>3 DEF SockWakes
  <2>. QED
    BY <2>2, <2>3
<1>8. UNCHANGED <<client, ctl, to_pc, to_psp, session, faults>>
  BY DEF SockWakes
<1>9. sock' \in [Socks -> Sock] /\ sock'[s] = b /\ \A q \in Socks \ {s} : sock'[q] = sock[q]
  BY <1>1, <1>6, <1>7
<1>10. Types'
  BY <1>8, <1>9 DEF Types
<1>. QED
  BY <1>6, <1>8, <1>9, <1>10 DEF OnlyAt, SameAt, Waits

LEMMA WakesWire == ASSUME IInv, WireInv, NEW s \in Socks, SockWakes(s) PROVE WireInv'
<1>1. Types /\ sock[s].wake > 0
  BY DEF WireInv, SockWakes
<1>2. /\ Waits(s)
      /\ (\E c \in Clients : At(c) \in Blocked /\ On(c) = s) \/ (ExitedBy(s) /\ ForExit(s))
  BY <1>1, AtWork DEF Still, Signals
<1>3. /\ Types' /\ OnlyAt(s) /\ UNCHANGED <<client, ctl, to_pc, to_psp, session>>
      /\ Waits(s)' /\ sock'[s].busy = sock[s].busy /\ sock'[s].own = sock[s].own
      /\ sock'[s].operation = sock[s].operation /\ sock'[s].length = sock[s].length /\ sock'[s].buf = sock[s].buf
  BY <1>1, <1>2, WakesFacts
<1>4. ~Signals(s) /\ Busy(s)' = Busy(s)
  BY <1>2, <1>3 DEF Waits, Signals, Busy
<1>5. ASSUME NEW c \in Clients, At(c) \in Blocked, On(c) = s PROVE Works(c)'
  <2>1. At(c)' = At(c) /\ On(c)' = s /\ Request(c)' = Request(c) /\ Works(c) /\ \A k : Block(c, k)' = Block(c, k)
    BY <1>3, <1>5 DEF At, On, Request, Block, WireInv
  <2>2. /\ Caught(s)' <=> Caught(s)
        /\ \A u : Sending(s, u)' <=> Sending(s, u)
        /\ \A l : Receiving(s, l)' <=> Receiving(s, l)
        /\ \A n, k : Writing(s, c, n, k)' <=> Writing(s, c, n, k)
        /\ \A op, n : Asked(s, c, op, n)' <=> Asked(s, c, op, n)
    BY <1>3 DEF Caught, Sending, Receiving, Writing, Asked
  <2>3. \A k : Reached(c, k)' <=> Reached(c, k)
    BY <1>3, <1>5, <2>1, <2>2 DEF Reached, Served
  <2>4. (SentOK(c, s) => SentOK(c, s)') /\ (RepliedOK(c, s) => RepliedOK(c, s)')
    BY <1>3, <1>4, <2>1, <2>2, <2>3 DEF SentOK, RepliedOK
  <2>5. (BlockOK(c, s) => BlockOK(c, s)') /\ (ReceivedOK(c, s) => ReceivedOK(c, s)')
    BY <1>3, <1>4, <2>1, <2>2, <2>3 DEF BlockOK, ReceivedOK
  <2>. QED
    BY <1>3, <1>5, <2>1, <2>4, <2>5 DEF Works, Blocked
<1>6. ASSUME ExitedBy(s), ForExit(s) PROVE Gone(s)'
  <2>1. Gone(s)
    BY <1>6 DEF WireInv, Pooled
  <2>. QED
    BY <1>3, <1>4, <1>6, <2>1 DEF Gone, ForExit, Sending, Caught
<1>. QED
  BY <1>2, <1>3, <1>4, <1>5, <1>6, CallStep, ExitStep

(* It has sent or received, or failed to, and signals the semaphore.          *)
LEMMA IoFacts ==
  ASSUME Types, NEW s \in Socks, Waits(s), sock[s].at = "io",
         NEW so \in Sock, so.busy = sock[s].busy, so.own = sock[s].own, so.wake = sock[s].wake,
         so.operation = sock[s].operation, so.length = sock[s].length,
         NEW res \in -1 .. MaxLen + 1, Signalled(s, so, res)
  PROVE  /\ sock' \in [Socks -> Sock] /\ \A q \in Socks \ {s} : sock'[q] = sock[q]
         /\ Signals(s)' /\ sock'[s].res = res /\ Busy(s)' = Busy(s) /\ sock'[s].own = sock[s].own
         /\ sock'[s].operation = sock[s].operation /\ sock'[s].length = sock[s].length
         /\ sock'[s].buf = so.buf
<1>1. sock \in [Socks -> Sock] /\ sock[s].wake = 0
  BY DEF Types, Waits
<1>. QED
  BY <1>1, SignalFacts DEF Signals, Busy

LEMMA FailsWire == ASSUME IInv, WireInv, NEW s \in Socks, SockFails(s) PROVE WireInv'
<1>0. Types /\ sock[s].at = "io" /\ sock[s] \in Sock /\ MaxLen \in Nat
  BY Constants DEF WireInv, SockFails, Types
<1>1. /\ Waits(s)
      /\ (\E c \in Clients : At(c) \in Blocked /\ On(c) = s) \/ (ExitedBy(s) /\ ForExit(s))
  BY <1>0, AtWork DEF Still, Signals
<1>2. UNCHANGED <<client, ctl, to_pc, to_psp, session>> /\ Signalled(s, sock[s], -1)
  BY DEF SockFails
<1>3. /\ sock' \in [Socks -> Sock] /\ \A q \in Socks \ {s} : sock'[q] = sock[q]
      /\ Signals(s)' /\ sock'[s].res = -1 /\ Busy(s)' = Busy(s) /\ sock'[s].own = sock[s].own
      /\ sock'[s].operation = sock[s].operation /\ sock'[s].length = sock[s].length
      /\ sock'[s].buf = sock[s].buf
  <2>1. -1 \in -1 .. MaxLen + 1
    BY <1>0
  <2>. QED
    BY <1>0, <1>1, <1>2, <2>1, IoFacts
<1>4. Types'
  <2>1. faults' \in 0 .. MaxFaults
    BY <1>0, WifiHostAssumption DEF SockFails, Types
  <2>. QED
    BY <1>0, <1>2, <1>3, <2>1 DEF Types
<1>5. OnlyAt(s) /\ ~Signals(s)
  BY <1>1, <1>2, <1>3 DEF OnlyAt, SameAt, Signals, Waits
<1>6. ASSUME NEW c \in Clients, At(c) \in Blocked, On(c) = s PROVE Works(c)'
  <2>1. At(c)' = At(c) /\ On(c)' = s /\ Request(c)' = Request(c) /\ Works(c) /\ \A k : Block(c, k)' = Block(c, k)
    BY <1>2, <1>6 DEF At, On, Request, Block, WireInv
  <2>2. /\ Caught(s)' <=> Caught(s)
        /\ \A u : Sending(s, u)' <=> Sending(s, u)
        /\ \A l : Receiving(s, l)' <=> Receiving(s, l)
        /\ \A n, k : Writing(s, c, n, k)' <=> Writing(s, c, n, k)
        /\ \A op, n : Asked(s, c, op, n)' <=> Asked(s, c, op, n)
    BY <1>2, <1>3 DEF Caught, Sending, Receiving, Writing, Asked
  <2>3. \A k : Reached(c, k)' <=> Reached(c, k)
    BY <1>2, <1>6, <2>1, <2>2 DEF Reached, Served
  <2>4. (SentOK(c, s) => SentOK(c, s)') /\ (RepliedOK(c, s) => RepliedOK(c, s)')
    BY <1>2, <1>3, <1>5, <2>1, <2>2, <2>3 DEF SentOK, RepliedOK
  <2>5. (BlockOK(c, s) => BlockOK(c, s)') /\ (ReceivedOK(c, s) => ReceivedOK(c, s)')
    BY <1>2, <1>3, <1>5, <2>1, <2>2, <2>3 DEF BlockOK, ReceivedOK
  <2>. QED
    BY <1>2, <1>6, <2>1, <2>4, <2>5 DEF Works, Blocked
<1>7. ASSUME ExitedBy(s), ForExit(s) PROVE Gone(s)'
  <2>1. Gone(s)
    BY <1>7 DEF WireInv, Pooled
  <2>2. Caught(s) /\ Left(s)'
    BY <1>2, <1>5, <1>7, <2>1 DEF Gone, ForExit, Caught, Left
  <2>. QED
    BY <1>2, <1>3, <1>7, <2>1, <2>2 DEF Gone, ForExit, Sending
<1>. QED
  BY <1>1, <1>2, <1>3, <1>4, <1>5, <1>6, <1>7, CallStep, ExitStep

(* A single unit, and the first n of some units.                              *)
LEMMA OneUnit ==
  ASSUME NEW u \in Unit, NEW units, units = <<u>>
  PROVE  units \in Seq(Unit) /\ Len(units) = 1 /\ SubSeq(units, 1, 1) = units /\ <<>> \o units = units
<1>1. units \in Seq(Unit) /\ Len(units) = 1 /\ <<>> \o units = units
  OBVIOUS
<1>2. PICK v \in Seq(Unit) : v = units /\ Len(v) = 1
  BY <1>1
<1>3. PICK w : w = SubSeq(v, 1, 1)
  OBVIOUS
<1>4. w \in Seq(Unit) /\ Len(w) = 1 /\ \A i \in 1 .. 1 : w[i] = v[i]
  BY <1>2, <1>3
<1>5. w = v
  BY <1>2, <1>4
<1>. QED
  BY <1>1, <1>2, <1>3, <1>5

LEMMA FirstUnits ==
  ASSUME NEW q \in Seq(Unit), NEW n \in 0 .. Len(q)
  PROVE  SubSeq(q, 1, n) \in Seq(Unit)
<1>1. CASE n = 0
  BY <1>1
<1>2. CASE n # 0
  BY <1>2, CutJoin
<1>. QED
  BY <1>1, <1>2

(* It has sent n of the units it was given.                                   *)
Part(s, units) ==
    \E n \in Least(1, Len(units)) .. Len(units) :
        sock[s].res' = n /\ to_pc[s]' = to_pc[s] \o SubSeq(units, 1, n)

LEMMA SendsFacts ==
  ASSUME Types, NEW s \in Socks, Waits(s), SockSends(s), NEW units \in Seq(Unit), Sending(s, units),
         Len(units) <= MaxLen + 1
  PROVE  /\ Types' /\ OnlyAt(s) /\ UNCHANGED <<client, ctl, to_psp, session>>
         /\ Signals(s)' /\ Busy(s)' = Busy(s) /\ sock'[s].own = sock[s].own /\ Sending(s, units)'
         /\ Part(s, units)
<1>0. MaxLen \in Nat
  BY Constants
<1>1. /\ sock \in [Socks -> Sock] /\ to_pc \in [Socks -> Seq(Unit)] /\ sock[s] \in Sock
  BY DEF Types
<1>2. PICK l \in Nat : l = Len(units) /\ l <= MaxLen + 1
  OBVIOUS
<1>3. sock[s].at = "io" /\ sock[s].length = l /\ sock[s].buf = units
  BY <1>2 DEF SockSends, Sending
<1>4. PICK n \in Least(1, l) .. l :
         to_pc' = [to_pc EXCEPT ![s] = @ \o SubSeq(units, 1, n)] /\ Signalled(s, sock[s], n)
  BY <1>3 DEF SockSends
<1>5. n \in 0 .. l
  <2>1. Least(1, l) \in Nat
    BY <1>2, LeastFacts
  <2>. QED
    BY <1>2, <1>4, <2>1
<1>6. n \in -1 .. MaxLen + 1
  BY <1>0, <1>2, <1>5
<1>7. /\ sock' \in [Socks -> Sock] /\ \A q \in Socks \ {s} : sock'[q] = sock[q]
      /\ Signals(s)' /\ sock'[s].res = n /\ Busy(s)' = Busy(s) /\ sock'[s].own = sock[s].own
      /\ sock'[s].operation = sock[s].operation /\ sock'[s].length = sock[s].length
      /\ sock'[s].buf = sock[s].buf
  BY <1>1, <1>3, <1>4, <1>6, IoFacts
<1>8. PICK part \in Seq(Unit) : part = SubSeq(units, 1, n)
  BY <1>2, <1>5, FirstUnits
<1>9. to_pc[s] \o part \in Seq(Unit)
  BY <1>1
<1>10. /\ to_pc' \in [Socks -> Seq(Unit)] /\ to_pc'[s] = to_pc[s] \o part
       /\ \A q \in Socks \ {s} : to_pc'[q] = to_pc[q]
  BY <1>1, <1>4, <1>8, <1>9
<1>11. UNCHANGED <<client, ctl, to_psp, session, faults>>
  BY DEF SockSends
<1>12. Types'
  BY <1>7, <1>10, <1>11 DEF Types
<1>13. OnlyAt(s) /\ Sending(s, units)'
  BY <1>7, <1>10, <1>11 DEF OnlyAt, SameAt, Sending
<1>14. Part(s, units)
  BY <1>2, <1>4, <1>7, <1>8, <1>10 DEF Part
<1>. QED
  BY <1>7, <1>11, <1>12, <1>13, <1>14

(* A block of a write follows what was sent of it before.                     *)
LEMMA WriteSent ==
  ASSUME Types, NEW s \in Socks, NEW c \in Clients, "write" \in Ops, NEW n \in 1 .. MaxLen, NEW k \in Nat,
         NEW e \in Nat, k <= e, e <= n, Writing(s, c, n, k),
         to_psp'[s] = to_psp[s], session'[s] = session[s], to_pc'[s] = to_pc[s] \o Data(c, k, e)
  PROVE  Writing(s, c, n, e)'
<1>0. c \in People /\ MaxLen \in Nat /\ n \in Nat /\ n <= MaxLen /\ k <= MaxLen /\ e <= MaxLen
  BY Constants
<1>1. PICK x, y : x = Data(c, 0, k) /\ y = Data(c, k, e)
  OBVIOUS
<1>2. x \in Seq(Unit) /\ y \in Seq(Unit)
  BY <1>0, <1>1, DataFacts
<1>3. CASE session[s].at = "cmd" /\ to_pc[s] = <<Params(c, "write", n)>> \o Data(c, 0, k)
  <2>1. PICK u \in Unit : u = Params(c, "write", n)
    BY <1>0, UnitType
  <2>2. to_pc'[s] = (<<u>> \o x) \o y
    BY <1>1, <1>3, <2>1
  <2>3. (<<u>> \o x) \o y = <<u>> \o (x \o y)
    BY <1>2, Headed
  <2>4. x \o y = Data(c, 0, e)
    <3>1. PICK zero \in Nat : zero = 0 /\ zero <= k
      OBVIOUS
    <3>. QED
      BY <1>0, <1>1, <3>1, DataJoin
  <2>. QED
    BY <1>3, <2>1, <2>2, <2>3, <2>4 DEF Writing
<1>4. CASE /\ session[s].at = "data" /\ session[s].who = c /\ session[s].len = n
           /\ \E j \in 0 .. k : j < n /\ session[s].data = Data(c, 0, j) /\ to_pc[s] = Data(c, j, k)
  <2>1. PICK j \in 0 .. k : j < n /\ session[s].data = Data(c, 0, j) /\ to_pc[s] = Data(c, j, k)
    BY <1>4
  <2>2. j \in Nat /\ j <= k /\ j \in 0 .. e
    OBVIOUS
  <2>3. to_pc'[s] = Data(c, j, e)
    BY <1>0, <2>1, <2>2, DataJoin
  <2>. QED
    BY <1>4, <2>1, <2>2, <2>3 DEF Writing
<1>. QED
  BY <1>3, <1>4 DEF Writing

LEMMA SendsCall ==
  ASSUME IInv, WireInv, NEW c \in Clients, NEW s \in Socks, At(c) \in Blocked, On(c) = s, SockSends(s), Waits(s)
  PROVE  Works(c)' /\ Types' /\ OnlyAt(s) /\ UNCHANGED <<client, ctl, session>> /\ Busy(s)' = Busy(s)
<1>0. Types /\ Works(c) /\ c \in People /\ MaxLen \in Nat
  BY Constants DEF WireInv
<1>1. PICK n \in 1 .. MaxLen : n = client[c].len
  BY <1>0 DEF Types, Client, Works
<1>2. n \in Nat /\ n <= MaxLen /\ client[c].len > 0 /\ client[c].op \in Ops \ {"exit"}
  BY <1>0, <1>1 DEF Works
<1>3. PICK op \in Ops \ {"exit"} : op = client[c].op
  BY <1>2
<1>4. sock[s].operation = "S_SEND" /\ ~Signals(s) /\ UNCHANGED <<client, ctl, to_psp, session>>
  BY DEF SockSends, Signals, Waits
<1>5. At(c)' = At(c) /\ On(c)' = s /\ Request(c)' = Request(c) /\ \A k : Block(c, k)' = Block(c, k)
  BY <1>4 DEF At, On, Request, Block
<1>6. CASE At(c) = "sent"
  <2>1. PICK u \in Unit : u = Params(c, op, n)
    BY <1>0, <1>2, <1>3, UnitType
  <2>2. Request(c) = u
    BY <1>1, <1>3, <2>1 DEF Request
  <2>3. PICK units : units = <<u>>
    OBVIOUS
  <2>4. units \in Seq(Unit) /\ Len(units) = 1 /\ SubSeq(units, 1, 1) = units /\ <<>> \o units = units
    BY <2>3, OneUnit
  <2>5. /\ Sending(s, units) /\ sock[s].own /\ Caught(s) /\ to_psp[s] = <<>>
        /\ client[c].done = 0 /\ client[c].data = <<>>
    BY <1>0, <1>4, <1>6, <2>2, <2>3 DEF Works, SentOK
  <2>6. /\ Types' /\ OnlyAt(s) /\ UNCHANGED <<client, ctl, to_psp, session>>
        /\ Signals(s)' /\ Busy(s)' = Busy(s) /\ sock'[s].own = sock[s].own /\ Sending(s, units)'
        /\ Part(s, units)
    <3>1. Len(units) <= MaxLen + 1
      BY <1>0, <2>4
    <3>. QED
      BY <1>0, <2>4, <2>5, <3>1, SendsFacts
  <2>7. Least(1, 1) = 1
    BY DEF Least
  <2>8. sock'[s].res = 1 /\ to_pc'[s] = units
    BY <2>4, <2>5, <2>6, <2>7 DEF Caught, Part
  <2>9. Reached(c, 0)'
    <3>1. CASE op = "write"
      <4>1. Data(c, 0, 0) = <<>> /\ <<u>> \o <<>> = <<u>>
        BY <1>0, DataNone
      <4>2. to_pc'[s] = <<Params(c, "write", n)>> \o Data(c, 0, 0)
        BY <2>1, <2>3, <2>8, <3>1, <4>1
      <4>3. Writing(s, c, n, 0)'
        BY <1>4, <2>5, <4>2 DEF Writing, Caught
      <4>. QED
        BY <1>1, <1>3, <1>4, <1>5, <3>1, <4>3 DEF Reached
    <3>2. CASE op # "write"
      <4>1. Asked(s, c, op, n)'
        BY <1>4, <2>1, <2>3, <2>5, <2>8 DEF Asked, Caught
      <4>. QED
        BY <1>1, <1>3, <1>4, <1>5, <3>2, <4>1 DEF Reached
    <3>. QED
      BY <3>1, <3>2
  <2>10. SentOK(c, s)'
    BY <1>5, <2>2, <2>3, <2>5, <2>6, <2>8, <2>9 DEF SentOK
  <2>. QED
    BY <1>2, <1>4, <1>5, <1>6, <2>5, <2>6, <2>10 DEF Works
<1>7. CASE At(c) = "block"
  <2>1. PICK k \in Nat : k = client[c].done
    BY <1>0 DEF Types, Client
  <2>2. /\ op = "write" /\ k < n /\ Sending(s, Data(c, k, k + Block(c, k))) /\ Writing(s, c, n, k)
    BY <1>0, <1>1, <1>3, <1>4, <1>7, <2>1 DEF Works, BlockOK
  <2>3. /\ Block(c, k) \in Nat /\ k + Block(c, k) <= n
        /\ Data(c, k, k + Block(c, k)) \in Seq(Unit) /\ Len(Data(c, k, k + Block(c, k))) = Block(c, k)
    BY <1>1, <2>2, BlockUnits
  <2>4. PICK b \in Nat : b = Block(c, k) /\ k + b <= n
    BY <2>3
  <2>5. PICK units \in Seq(Unit) : units = Data(c, k, k + b) /\ Len(units) = b
    BY <2>3, <2>4
  <2>6. Sending(s, units) /\ Len(units) <= MaxLen + 1
    BY <1>0, <1>2, <2>2, <2>4, <2>5
  <2>7. /\ Types' /\ OnlyAt(s) /\ UNCHANGED <<client, ctl, to_psp, session>>
        /\ Signals(s)' /\ Busy(s)' = Busy(s) /\ sock'[s].own = sock[s].own /\ Sending(s, units)'
        /\ Part(s, units)
    BY <1>0, <2>6, SendsFacts
  <2>8. Least(1, b) \in Nat
    BY LeastFacts
  <2>9. PICK m \in 0 .. b : sock'[s].res = m /\ to_pc'[s] = to_pc[s] \o SubSeq(units, 1, m)
    <3>1. PICK m \in Least(1, b) .. b : sock'[s].res = m /\ to_pc'[s] = to_pc[s] \o SubSeq(units, 1, m)
      BY <2>5, <2>7 DEF Part
    <3>2. m \in 0 .. b
      BY <2>8
    <3>. QED
      BY <3>1, <3>2
  <2>10. PICK e \in Nat : e = k + m /\ k <= e /\ e <= n /\ e <= k + b /\ k + b <= MaxLen
    BY <1>0, <1>2, <2>4
  <2>11. SubSeq(units, 1, m) = Data(c, k, e)
    <3>1. PICK f \in Nat : f = k + b /\ m \in Nat /\ k + m <= f /\ f <= MaxLen
      BY <2>10
    <3>2. units = Data(c, k, f)
      BY <2>5, <3>1
    <3>3. SubSeq(units, 1, m) = Data(c, k, k + m)
      BY <1>0, <3>1, <3>2, DataCut
    <3>. QED
      BY <2>10, <3>3
  <2>12. Writing(s, c, n, e)'
    BY <1>0, <2>2, <2>7, <2>9, <2>10, <2>11, WriteSent
  <2>13. Reached(c, e)'
    BY <1>1, <1>3, <1>4, <1>5, <2>2, <2>12 DEF Reached
  <2>14. sock'[s].length = b
    BY <2>5, <2>7 DEF Sending
  <2>15. BlockOK(c, s)'
    <3>1. client'[c].op = "write" /\ client'[c].len = n /\ client'[c].done = k
      BY <1>1, <1>3, <1>4, <2>1, <2>2
    <3>2. Sending(s, Data(c, k, k + Block(c, k)))'
      BY <1>5, <2>4, <2>5, <2>7 DEF Sending
    <3>. QED
      BY <1>5, <2>2, <2>7, <2>9, <2>10, <2>13, <2>14, <3>1, <3>2 DEF BlockOK
  <2>. QED
    BY <1>2, <1>4, <1>5, <1>7, <2>7, <2>15 DEF Works
<1>8. CASE At(c) \in {"replied", "received"}
  BY <1>0, <1>4, <1>8 DEF Works, RepliedOK, ReceivedOK, Receiving
<1>. QED
  BY <1>6, <1>7, <1>8 DEF Blocked

LEMMA SendsWire == ASSUME IInv, WireInv, NEW s \in Socks, SockSends(s) PROVE WireInv'
<1>0. Types /\ sock[s].at = "io" /\ MaxLen \in Nat
  BY Constants DEF WireInv, SockSends
<1>1. /\ Waits(s)
      /\ (\E c \in Clients : At(c) \in Blocked /\ On(c) = s) \/ (ExitedBy(s) /\ ForExit(s))
  BY <1>0, AtWork DEF Still, Signals
<1>2. ASSUME ExitedBy(s), ForExit(s) PROVE WireInv'
  <2>1. PICK u : u = Params(Ctl, "exit", 0)
    OBVIOUS
  <2>2. Gone(s) /\ ~Signals(s)
    BY <1>1, <1>2 DEF WireInv, Pooled, Signals, Waits
  <2>3. PICK units : units = <<u>>
    OBVIOUS
  <2>4. Sending(s, units) /\ Caught(s)
    BY <1>2, <2>1, <2>2, <2>3 DEF Gone, ForExit
  <2>5. units \in Seq(Unit) /\ Len(units) = 1 /\ SubSeq(units, 1, 1) = units /\ <<>> \o units = units
    <3>1. sock[s].buf \in Seq(Unit)
      BY <1>0 DEF Types, Sock
    <3>2. <<u>> \in Seq(Unit)
      BY <2>3, <2>4, <3>1 DEF Sending
    <3>3. u \in Unit
      BY <3>2
    <3>. QED
      BY <2>3, <3>3, OneUnit
  <2>6. /\ Types' /\ OnlyAt(s) /\ UNCHANGED <<client, ctl, to_psp, session>>
        /\ Signals(s)' /\ Busy(s)' = Busy(s) /\ sock'[s].own = sock[s].own /\ Sending(s, units)'
        /\ Part(s, units)
    <3>1. Len(units) <= MaxLen + 1
      BY <1>0, <2>5
    <3>. QED
      BY <1>0, <1>1, <2>4, <2>5, <3>1, SendsFacts
  <2>7. Least(1, 1) = 1
    BY DEF Least
  <2>8. to_pc'[s] = units
    BY <2>4, <2>5, <2>6, <2>7 DEF Caught, Part
  <2>9. Left(s)'
    BY <2>1, <2>3, <2>4, <2>6, <2>8 DEF Left, Caught
  <2>10. Gone(s)'
    BY <1>2, <2>1, <2>2, <2>3, <2>6, <2>9 DEF Gone, ForExit
  <2>. QED
    BY <1>2, <2>6, <2>10, ExitStep
<1>. QED
  BY <1>1, <1>2, SendsCall, CallStep

(* It has received what there is, or nothing.                                 *)
Arrives(s) ==
    \E m \in 1 .. Least(sock[s].length, Len(to_psp[s])) :
        /\ sock[s].res' = m /\ sock[s].buf' = SubSeq(to_psp[s], 1, m)
        /\ to_psp[s]' = SubSeq(to_psp[s], m + 1, Len(to_psp[s]))
Ends(s) ==
    /\ sock[s].length = 0 \/ (to_psp[s] = <<>> /\ session[s].at = "closed")
    /\ sock[s].res' = 0 /\ UNCHANGED to_psp

LEMMA ReceivesFacts ==
  ASSUME Types, NEW s \in Socks, Waits(s), SockReceives(s)
  PROVE  /\ Types' /\ OnlyAt(s) /\ UNCHANGED <<client, ctl, to_pc, session>>
         /\ Signals(s)' /\ Busy(s)' = Busy(s) /\ sock'[s].own = sock[s].own
         /\ sock'[s].operation = sock[s].operation /\ sock'[s].length = sock[s].length
         /\ Arrives(s) \/ Ends(s)
<1>0. MaxLen \in Nat
  BY Constants
<1>1. /\ sock \in [Socks -> Sock] /\ to_psp \in [Socks -> Seq(Unit)] /\ sock[s] \in Sock
  BY DEF Types
<1>2. PICK so \in Sock : so = sock[s]
  BY <1>1
<1>3. so.at = "io" /\ so.length \in 0 .. MaxLen + 1 /\ UNCHANGED <<client, ctl, to_pc, session, faults>>
  BY <1>2 DEF SockReceives, Sock
<1>4. PICK l \in Nat : l = so.length /\ l <= MaxLen + 1
  BY <1>0, <1>3
<1>5. PICK q \in Seq(Unit) : q = to_psp[s]
  BY <1>1
<1>6. CASE \E m \in 1 .. Least(l, Len(q)) :
              /\ to_psp' = [to_psp EXCEPT ![s] = SubSeq(@, m + 1, Len(@))]
              /\ Signalled(s, [so EXCEPT !.buf = SubSeq(q, 1, m)], m)
  <2>1. PICK m \in 1 .. Least(l, Len(q)) :
              /\ to_psp' = [to_psp EXCEPT ![s] = SubSeq(@, m + 1, Len(@))]
              /\ Signalled(s, [so EXCEPT !.buf = SubSeq(q, 1, m)], m)
    BY <1>6
  <2>2. PICK h \in Nat : h = Len(q)
    BY <1>5
  <2>3. Least(l, h) \in Nat /\ Least(l, h) <= l /\ Least(l, h) <= h
    BY LeastFacts
  <2>4. m \in 1 .. Len(q) /\ m \in -1 .. MaxLen + 1
    BY <1>0, <1>4, <2>2, <2>3
  <2>5. PICK b \in Seq(Unit) : b = SubSeq(q, 1, m)
    BY <1>5, <2>4, CutJoin
  <2>6. PICK r \in Seq(Unit) : r = SubSeq(q, m + 1, Len(q))
    BY <1>5, <2>4, CutJoin
  <2>7. PICK new : new = [so EXCEPT !.buf = b]
    OBVIOUS
  <2>8. /\ new \in Sock /\ new.buf = b /\ new.busy = so.busy /\ new.own = so.own /\ new.wake = so.wake
        /\ new.operation = so.operation /\ new.length = so.length
    BY <2>7 DEF Sock
  <2>9. Signalled(s, new, m)
    BY <2>1, <2>5, <2>7
  <2>10. /\ sock' \in [Socks -> Sock] /\ \A p \in Socks \ {s} : sock'[p] = sock[p]
         /\ Signals(s)' /\ sock'[s].res = m /\ Busy(s)' = Busy(s) /\ sock'[s].own = sock[s].own
         /\ sock'[s].operation = sock[s].operation /\ sock'[s].length = sock[s].length
         /\ sock'[s].buf = b
    BY <1>2, <1>3, <2>4, <2>8, <2>9, IoFacts
  <2>11. to_psp' = [to_psp EXCEPT ![s] = r]
    BY <1>5, <2>1, <2>6
  <2>12. to_psp' \in [Socks -> Seq(Unit)] /\ to_psp'[s] = r /\ \A p \in Socks \ {s} : to_psp'[p] = to_psp[p]
    BY <1>1, <2>11
  <2>13. Types'
    BY <1>3, <2>10, <2>12 DEF Types
  <2>14. OnlyAt(s)
    BY <1>3, <2>10, <2>12 DEF OnlyAt, SameAt
  <2>15. Arrives(s)
    BY <1>2, <1>4, <1>5, <2>1, <2>5, <2>6, <2>10, <2>12 DEF Arrives
  <2>. QED
    BY <1>3, <2>10, <2>13, <2>14, <2>15
<1>7. CASE /\ l = 0 \/ (q = <<>> /\ session[s].at = "closed")
           /\ Signalled(s, so, 0) /\ UNCHANGED to_psp
  <2>1. 0 \in -1 .. MaxLen + 1
    BY <1>0
  <2>2. /\ sock' \in [Socks -> Sock] /\ \A p \in Socks \ {s} : sock'[p] = sock[p]
        /\ Signals(s)' /\ sock'[s].res = 0 /\ Busy(s)' = Busy(s) /\ sock'[s].own = sock[s].own
        /\ sock'[s].operation = sock[s].operation /\ sock'[s].length = sock[s].length
    BY <1>2, <1>3, <1>7, <2>1, IoFacts
  <2>3. Types'
    BY <1>3, <1>7, <2>2 DEF Types
  <2>4. OnlyAt(s)
    BY <1>3, <1>7, <2>2 DEF OnlyAt, SameAt
  <2>5. Ends(s)
    BY <1>2, <1>4, <1>5, <1>7, <2>2 DEF Ends
  <2>. QED
    BY <1>3, <2>2, <2>3, <2>4, <2>5
<1>. QED
  BY <1>2, <1>4, <1>5, <1>6, <1>7 DEF SockReceives

LEMMA ReceivesCall ==
  ASSUME IInv, WireInv, NEW c \in Clients, NEW s \in Socks, At(c) \in Blocked, On(c) = s, SockReceives(s), Waits(s)
  PROVE  Works(c)' /\ Types' /\ OnlyAt(s) /\ UNCHANGED <<client, ctl, session>> /\ Busy(s)' = Busy(s)
<1>0. Types /\ Works(c) /\ c \in People /\ MaxLen \in Nat
  BY Constants DEF WireInv
<1>1. PICK n \in 1 .. MaxLen : n = client[c].len
  BY <1>0 DEF Types, Client, Works
<1>2. n \in Nat /\ n <= MaxLen /\ client[c].len > 0 /\ client[c].op \in Ops \ {"exit"}
  BY <1>0, <1>1 DEF Works
<1>3. PICK op \in Ops \ {"exit"} : op = client[c].op
  BY <1>2
<1>4. sock[s].operation = "S_RECV" /\ ~Signals(s)
  BY DEF SockReceives, Signals, Waits
<1>5. /\ Types' /\ OnlyAt(s) /\ UNCHANGED <<client, ctl, to_pc, session>>
      /\ Signals(s)' /\ Busy(s)' = Busy(s) /\ sock'[s].own = sock[s].own
      /\ sock'[s].operation = sock[s].operation /\ sock'[s].length = sock[s].length
      /\ Arrives(s) \/ Ends(s)
  BY <1>0, ReceivesFacts
<1>6. At(c)' = At(c) /\ On(c)' = s /\ \A k : Block(c, k)' = Block(c, k)
  BY <1>5 DEF At, On, Block
<1>7. PICK q \in Seq(Unit) : q = to_psp[s]
  BY <1>0 DEF Types
<1>8. PICK l \in Nat : l = sock[s].length
  BY <1>0 DEF Types, Sock
<1>9. PICK h \in Nat : h = Len(q)
  BY <1>7
<1>10. Least(l, h) \in Nat /\ Least(l, h) <= l /\ Least(l, h) <= h
  BY LeastFacts
<1>11. CASE At(c) = "replied"
  <2>1. /\ Receiving(s, ReplyLen(op)) /\ sock[s].own /\ Reached(c, n)
        /\ (op # "write" => client[c].done = 0 /\ client[c].data = <<>>)
    BY <1>0, <1>1, <1>3, <1>4, <1>11 DEF Works, RepliedOK
  <2>2. ~Ends(s)
    <3>1. sock[s].length # 0
      BY <2>1 DEF Receiving, ReplyLen
    <3>2. session[s].at # "closed"
      BY <2>1 DEF Reached, Writing, Asked, Served, Caught
    <3>. QED
      BY <3>1, <3>2 DEF Ends
  <2>3. PICK m \in 1 .. Least(l, h) : /\ sock'[s].res = m /\ sock'[s].buf = SubSeq(q, 1, m)
                                      /\ to_psp'[s] = SubSeq(q, m + 1, Len(q))
    BY <1>5, <1>7, <1>8, <1>9, <2>2 DEF Arrives
  <2>4. m \in 1 .. Len(q) /\ m \in 1 .. l
    BY <1>9, <1>10
  <2>5. q # <<>>
    BY <2>4
  <2>6. Served(c)
    BY <1>7, <2>1, <2>5 DEF Reached, Writing, Asked
  <2>7. Caught(s) /\ q \in Answers(c, op, n)
    BY <1>1, <1>3, <1>7, <2>6 DEF Served
  <2>8. SubSeq(q, 1, m) \o SubSeq(q, m + 1, Len(q)) = q /\ Len(SubSeq(q, 1, m)) = m
    BY <2>4, CutJoin
  <2>9. /\ sock'[s].buf \o to_psp'[s] \in Answers(c, op, n) /\ Len(sock'[s].buf) = m
    BY <2>3, <2>7, <2>8
  <2>10. Receiving(s, ReplyLen(op))' /\ Caught(s)' /\ l = ReplyLen(op)
    BY <1>5, <1>8, <2>1, <2>7 DEF Receiving, Caught
  <2>11. client'[c].len = n /\ client'[c].op = op
    BY <1>1, <1>3, <1>5
  <2>12. RepliedOK(c, s)'
    BY <1>5, <2>1, <2>3, <2>4, <2>9, <2>10, <2>11 DEF RepliedOK
  <2>. QED
    BY <1>2, <1>5, <1>6, <1>11, <2>1, <2>11, <2>12 DEF Works
<1>12. CASE At(c) = "received"
  <2>1. PICK k \in Nat : k = client[c].done
    BY <1>0 DEF Types, Client
  <2>2. /\ op = "read" /\ k < n /\ client[c].data = Data(c, 0, k) /\ Receiving(s, Block(c, k)) /\ sock[s].own
        /\ Caught(s) /\ q = Data(c, k, n)
    BY <1>0, <1>1, <1>3, <1>4, <1>7, <1>12, <2>1 DEF Works, ReceivedOK
  <2>3. Receiving(s, Block(c, k))' /\ Caught(s)'
    BY <1>5, <1>6, <2>2 DEF Receiving, Caught
  <2>4. client'[c].len = n /\ client'[c].op = op /\ client'[c].done = k /\ client'[c].data = Data(c, 0, k)
    BY <1>1, <1>3, <1>5, <2>1, <2>2
  <2>5. CASE Ends(s)
    <3>1. ReceivedOK(c, s)'
      BY <1>5, <1>6, <2>2, <2>3, <2>4, <2>5 DEF ReceivedOK, Ends
    <3>. QED
      BY <1>2, <1>5, <1>6, <1>12, <3>1 DEF Works
  <2>6. CASE Arrives(s)
    <3>1. PICK m \in 1 .. Least(l, h) : /\ sock'[s].res = m /\ sock'[s].buf = SubSeq(q, 1, m)
                                        /\ to_psp'[s] = SubSeq(q, m + 1, Len(q))
      BY <1>7, <1>8, <1>9, <2>6 DEF Arrives
    <3>2. m \in 1 .. h /\ m \in 1 .. l /\ m \in Nat
      BY <1>10
    <3>3. h = n - k
      BY <1>0, <1>2, <1>9, <2>2, DataFacts
    <3>4. k + m <= n
      BY <1>2, <3>2, <3>3
    <3>5. SubSeq(q, 1, m) = Data(c, k, k + m) /\ SubSeq(q, m + 1, Len(q)) = Data(c, k + m, n)
      <4>1. q = Data(c, k, n) /\ n \in Nat /\ n <= MaxLen /\ m \in Nat /\ c \in People
        BY <1>0, <1>2, <2>2, <3>2, Zenon
      <4>. QED
        BY <3>4, <4>1, DataCut
    <3>6. sock'[s].res \in 1 .. sock'[s].length
      BY <1>5, <1>8, <3>1, <3>2
    <3>7. ReceivedOK(c, s)'
      BY <1>5, <1>6, <2>2, <2>3, <2>4, <3>1, <3>5, <3>6 DEF ReceivedOK
    <3>. QED
      BY <1>2, <1>5, <1>6, <1>12, <3>7 DEF Works
  <2>. QED
    BY <1>5, <2>5, <2>6
<1>13. CASE At(c) \in {"sent", "block"}
  BY <1>0, <1>4, <1>13 DEF Works, SentOK, BlockOK, Sending
<1>. QED
  BY <1>5, <1>11, <1>12, <1>13 DEF Blocked

LEMMA ReceivesWire == ASSUME IInv, WireInv, NEW s \in Socks, SockReceives(s) PROVE WireInv'
<1>0. sock[s].at = "io" /\ sock[s].operation = "S_RECV"
  BY DEF SockReceives
<1>1. /\ Waits(s)
      /\ (\E c \in Clients : At(c) \in Blocked /\ On(c) = s) \/ (ExitedBy(s) /\ ForExit(s))
  BY <1>0, AtWork DEF Still, Signals
<1>2. ~(ExitedBy(s) /\ ForExit(s))
  BY <1>0 DEF WireInv, Pooled, Gone, ForExit, Sending
<1>. QED
  BY <1>1, <1>2, ReceivesCall, CallStep

------------------------------------------------------------------------------
(* Steps of a call c at its socket s: nobody else is there.                   *)
Others(c) == client' \in [Clients -> Client] /\ \A d \in Clients \ {c} : client'[d] = client[d]
SockOnly(s) == sock' \in [Socks -> Sock] /\ \A q \in Socks \ {s} : sock'[q] = sock[q]

LEMMA OwnStep ==
  ASSUME IInv, WireInv, NEW c \in Clients, NEW s \in Socks, s = On(c), At(c) \in Blocked \cup {"take"},
         Alone(c),
         Others(c), SockOnly(s), UNCHANGED <<ctl, to_pc, to_psp, session, faults>>,
         Works(c)', Copied(c)', ~Busy(s)' => Clean(s)', Busy(s)' /\ Unused(s)' => Kept(s)'
  PROVE  WireInv'
<1>1. Types /\ (\A d \in Clients : Works(d) /\ Copied(d)) /\ (\A q \in Socks : Pooled(q))
  BY DEF WireInv
<1>2. Types'
  BY <1>1 DEF Types, Others, SockOnly
<1>3. OnlyAt(s)
  BY DEF OnlyAt, SameAt, SockOnly
<1>4. ~ExitedBy(s)
  <2>1. CASE At(c) \in Blocked
    BY <1>1, <2>1 DEF IInv, Pool, Pooled, Gone
  <2>2. CASE At(c) = "take"
    BY <1>1, <2>2 DEF Works
  <2>. QED
    BY <2>1, <2>2
<1>5. ASSUME NEW d \in Clients \ {c} PROVE Works(d)' /\ Copied(d)' /\ (At(d) \in Blocked => On(d) # s)
  <2>1. client'[d] = client[d] /\ (At(d) \in Bare => On(d) # s) /\ On(d) \in Socks
    BY <1>1 DEF Others, Types, Client, On, Alone
  <2>2. At(d) \in Blocked => On(d) # s
    <3>1. At(c) = "take" => ~Busy(s)
      BY DEF IInv, Pool, Bare
    <3>. QED
      BY <3>1 DEF IInv, Pool
  <2>3. At(d) \in Blocked \cup {"return"} => SameAt(On(d))
    BY <1>3, <2>1, <2>2 DEF OnlyAt, Bare
  <2>. QED
    BY <1>1, <2>1, <2>2, <2>3, WorksOn DEF Copied, At
<1>6. ASSUME NEW q \in Socks PROVE Pooled(q)'
  <2>1. CASE q = s
    <3>1. ~ExitedBy(s)'
      BY <1>4 DEF ExitedBy
    <3>2. Whole(s)'
      BY <1>1 DEF Pooled, Whole
    <3>. QED
      BY <2>1, <3>1, <3>2 DEF Pooled
  <2>2. CASE q # s
    <3>1. Unused(q)' => Unused(q)
      BY <2>2 DEF Unused, Others, At, On
    <3>. QED
      BY <1>1, <1>3, <2>2, <3>1, PooledOn DEF OnlyAt
  <2>. QED
    BY <2>1, <2>2
<1>. QED
  BY <1>2, <1>5, <1>6 DEF WireInv

(* A step of a call away from its socket.                                     *)
LEMMA AwayStep ==
  ASSUME IInv, WireInv, NEW c \in Clients, At(c) \notin Blocked, At(c)' \notin Blocked,
         Others(c), UNCHANGED <<sock, ctl, to_pc, to_psp, session, faults>>, Works(c)', Copied(c)'
  PROVE  WireInv'
<1>1. Types /\ (\A d \in Clients : Works(d) /\ Copied(d)) /\ (\A q \in Socks : Pooled(q))
  BY DEF WireInv
<1>2. Types'
  BY <1>1 DEF Types, Others
<1>3. \A q : SameAt(q)
  BY DEF SameAt
<1>4. ASSUME NEW d \in Clients \ {c} PROVE Works(d)' /\ Copied(d)'
  BY <1>1, <1>3, WorksOn DEF Others, Copied, At
<1>5. ASSUME NEW q \in Socks PROVE Pooled(q)'
  <2>1. Unused(q)' => Unused(q)
    BY DEF Unused, Others, At, On
  <2>. QED
    BY <1>1, <1>3, <2>1, PooledOn
<1>. QED
  BY <1>2, <1>4, <1>5 DEF WireInv

(* The fields a step of a call changes.                                       *)
LEMMA MovesFacts ==
  ASSUME Types, NEW c \in Clients, NEW at \in {"idle"} \cup Running \cup Blocked,
         client' = [client EXCEPT ![c].at = at]
  PROVE  /\ Others(c) /\ client'[c].at = at /\ client'[c].op = client[c].op /\ client'[c].s = client[c].s
         /\ client'[c].len = client[c].len /\ client'[c].done = client[c].done
         /\ client'[c].data = client[c].data /\ client'[c].reply = client[c].reply
<1>1. client \in [Clients -> Client]
  BY DEF Types
<1>2. PICK r \in Client : r = client[c]
  BY <1>1
<1>3. PICK a : a = [r EXCEPT !.at = at]
  OBVIOUS
<1>4. /\ a \in Client /\ a.at = at /\ a.op = r.op /\ a.s = r.s
      /\ a.len = r.len /\ a.done = r.done
      /\ a.data = r.data /\ a.reply = r.reply
  BY <1>3 DEF Client
<1>5. client' = [client EXCEPT ![c] = a]
  BY <1>2, <1>3
<1>. QED
  BY <1>1, <1>2, <1>4, <1>5 DEF Others

LEMMA DoneFacts ==
  ASSUME Types, NEW c \in Clients, NEW done \in 0 .. MaxLen, NEW data \in Seq(Unit),
         client' = [client EXCEPT ![c].done = done, ![c].data = data]
  PROVE  /\ Others(c) /\ client'[c].at = client[c].at /\ client'[c].op = client[c].op /\ client'[c].s = client[c].s
         /\ client'[c].len = client[c].len /\ client'[c].done = done
         /\ client'[c].data = data /\ client'[c].reply = client[c].reply
<1>1. client \in [Clients -> Client]
  BY DEF Types
<1>2. PICK r \in Client : r = client[c]
  BY <1>1
<1>3. PICK a : a = [r EXCEPT !.done = done]
  OBVIOUS
<1>4. /\ a \in Client /\ a.at = r.at /\ a.op = r.op /\ a.s = r.s
      /\ a.len = r.len /\ a.done = done
      /\ a.data = r.data /\ a.reply = r.reply
  BY <1>3 DEF Client
<1>5. PICK b : b = [a EXCEPT !.data = data]
  OBVIOUS
<1>6. /\ b \in Client /\ b.at = r.at /\ b.op = r.op /\ b.s = r.s
      /\ b.len = r.len /\ b.done = done
      /\ b.data = data /\ b.reply = r.reply
  BY <1>4, <1>5 DEF Client
<1>7. client' = [client EXCEPT ![c] = b]
  BY <1>1, <1>2, <1>3, <1>5
<1>. QED
  BY <1>1, <1>2, <1>6, <1>7 DEF Others

LEMMA FinishFacts ==
  ASSUME Types, NEW c \in Clients, NEW ret \in {"ok", "end", "error"}, NEW reply \in Clients \cup {Ctl},
         NEW len \in 0 .. MaxLen, NEW data \in Seq(Unit), Finish(c, ret, reply, len, data)
  PROVE  /\ Others(c) /\ client'[c].at = "idle" /\ client'[c].op = client[c].op /\ client'[c].len = len
         /\ client'[c].data = data /\ client'[c].ret = ret /\ client'[c].reply = reply
<1>0. MaxLen \in Nat /\ 0 \in Socks
  BY Constants, NumSockNat
<1>1. client \in [Clients -> Client]
  BY DEF Types
<1>2. PICK op \in Ops \cup {"cmd"} : op = client[c].op
  BY <1>1 DEF Client
<1>3. PICK r : r = [at |-> "idle", op |-> op, s |-> 0, len |-> len, done |-> 0, data |-> data,
                    ret |-> ret, reply |-> reply]
  OBVIOUS
<1>4. r \in Client
  BY <1>0, <1>3 DEF Client
<1>5. client' = [client EXCEPT ![c] = r]
  BY <1>2, <1>3 DEF Finish
<1>6. client'[c] = r /\ Others(c)
  BY <1>1, <1>4, <1>5 DEF Others
<1>. QED
  BY <1>2, <1>3, <1>6

(* The steps before a call has its socket, and its return.                    *)
LEMMA BeginWire == ASSUME IInv, WireInv, NEW c \in Clients, Begin(c) PROVE WireInv'
<1>0. Types /\ MaxLen \in Nat /\ 0 \in Socks /\ client \in [Clients -> Client]
  BY Constants, NumSockNat DEF WireInv, Types
<1>1. PICK op \in Ops \ {"exit"}, len \in 1 .. MaxLen :
         client' = [client EXCEPT ![c] =
                [at |-> "find", op |-> op, s |-> 0, len |-> len, done |-> 0, data |-> <<>>,
                 ret |-> "none", reply |-> c]]
  BY DEF Begin
<1>2. PICK r : r = [at |-> "find", op |-> op, s |-> 0, len |-> len, done |-> 0, data |-> <<>>,
                    ret |-> "none", reply |-> c]
  OBVIOUS
<1>3. r \in Client
  <2>1. len \in 0 .. MaxLen /\ 0 \in 0 .. MaxLen /\ <<>> \in Seq(Unit)
    BY <1>0
  <2>. QED
    BY <1>0, <1>2, <2>1 DEF Client, Running
<1>4. client' = [client EXCEPT ![c] = r]
  BY <1>1, <1>2
<1>5. client'[c] = r /\ Others(c)
  BY <1>0, <1>3, <1>4 DEF Others
<1>6. UNCHANGED <<sock, ctl, to_pc, to_psp, session, faults>> /\ ctl.at = "none"
  BY DEF Begin
<1>7. At(c) \notin Blocked /\ At(c)' = "find" /\ "find" \notin Blocked
  BY <1>2, <1>5 DEF Begin, At, Blocked
<1>8. Works(c)'
  BY <1>2, <1>5, <1>6, <1>7 DEF Works
<1>9. Copied(c)'
  BY <1>2, <1>5, <1>7 DEF Copied
<1>. QED
  BY <1>5, <1>6, <1>7, <1>8, <1>9, AwayStep

LEMMA LookWire == ASSUME ~met', IInv, WireInv, NEW c \in Clients, getIdleSock(c) PROVE WireInv'
<1>0. Types /\ client \in [Clients -> Client] /\ Works(c) /\ Copied(c)
  BY DEF WireInv, Types
<1>1. At(c) = "find" /\ UNCHANGED <<sock, ctl, to_pc, to_psp, session, faults>>
  BY DEF getIdleSock, At
<1>2. PICK r \in Client : r = client[c]
  BY <1>0
<1>3. PICK t \in Socks : t = (r.s + 1) % NumSock
  BY NextSock DEF Client
<1>4. \/ client' = [client EXCEPT ![c].at = "take"] /\ ~ExitedBy(r.s)
      \/ client' = [client EXCEPT ![c].s = t]
  BY <1>2, <1>3 DEF getIdleSock
<1>5. PICK a : a = [r EXCEPT !.at = "take"]
  OBVIOUS
<1>6. PICK b : b = [r EXCEPT !.s = t]
  OBVIOUS
<1>7. /\ a \in Client /\ a.at = "take" /\ a.s = r.s /\ a.op = r.op /\ a.len = r.len /\ a.done = r.done /\ a.data = r.data
      /\ a.reply = r.reply
  BY <1>5 DEF Client, Running
<1>8. /\ b \in Client /\ b.at = r.at /\ b.op = r.op /\ b.len = r.len /\ b.done = r.done /\ b.data = r.data
      /\ b.reply = r.reply
  BY <1>6 DEF Client
<1>9. PICK e \in {a, b} : client' = [client EXCEPT ![c] = e] /\ (e.at = "take" => ~ExitedBy(e.s))
  <2>1. CASE client' = [client EXCEPT ![c].at = "take"] /\ ~ExitedBy(r.s)
    BY <1>2, <1>5, <1>7, <2>1
  <2>2. CASE client' = [client EXCEPT ![c].s = t]
    <3>1. b.at # "take"
      BY <1>1, <1>2, <1>8 DEF At
    <3>. QED
      BY <1>2, <1>6, <2>2, <3>1
  <2>. QED
    BY <1>4, <2>1, <2>2
<1>10. /\ e \in Client /\ e.at \in {"find", "take"} /\ (e.at = "take" => ~ExitedBy(e.s)) /\ e.op = r.op /\ e.len = r.len /\ e.done = r.done
       /\ e.data = r.data /\ e.reply = r.reply
  BY <1>1, <1>2, <1>7, <1>8, <1>9 DEF At
<1>11. client'[c] = e /\ Others(c)
  BY <1>0, <1>9, <1>10 DEF Others
<1>12. At(c) \notin Blocked /\ At(c)' \in {"find", "take"} /\ At(c)' \notin Blocked
  BY <1>1, <1>10, <1>11 DEF At, Blocked
<1>13. Works(c)'
  <2>1. At(c)' = "take" => ~ExitedBy(On(c))'
    BY <1>1, <1>10, <1>11 DEF At, On, ExitedBy
  <2>. QED
    BY <1>0, <1>1, <1>2, <1>10, <1>11, <1>12, <2>1 DEF Works
<1>14. Copied(c)'
  BY <1>0, <1>2, <1>10, <1>11, <1>12 DEF Copied
<1>. QED
  BY <1>1, <1>11, <1>12, <1>13, <1>14, AwayStep

LEMMA ReturnWire == ASSUME IInv, WireInv, NEW c \in Clients, Return(c) PROVE WireInv'
<1>0. Types /\ Works(c) /\ Copied(c) /\ MaxLen \in Nat
  BY Constants DEF WireInv
<1>1. At(c) = "return" /\ UNCHANGED <<sock, ctl, to_pc, to_psp, session, faults>>
  BY DEF Return, At
<1>2. sock[On(c)].buf[1].who = c /\ client[c].op # "read"
  BY <1>0, <1>1 DEF Works
<1>3. Finish(c, "ok", c, 0, <<>>)
  BY <1>2 DEF Return, On
<1>4. 0 \in 0 .. MaxLen /\ <<>> \in Seq(Unit)
  BY <1>0
<1>5. Others(c) /\ client'[c].at = "idle" /\ client'[c].op = client[c].op /\ client'[c].reply = c
  BY <1>0, <1>3, <1>4, FinishFacts
<1>6. At(c) \notin Blocked /\ At(c)' = "idle" /\ "idle" \notin Blocked \cup {"return", "find", "take"}
  BY <1>1, <1>5 DEF At, Blocked
<1>7. Works(c)'
  BY <1>6 DEF Works, Blocked
<1>8. Copied(c)'
  BY <1>2, <1>5 DEF Copied
<1>. QED
  BY <1>1, <1>5, <1>6, <1>7, <1>8, AwayStep

(* A call takes a socket of the pool and sends its request.                   *)
LEMMA TakeWire == ASSUME IInv, WireInv, NEW c \in Clients, Take(c) PROVE WireInv'
<1>0. Types /\ Works(c) /\ Copied(c) /\ MaxLen \in Nat /\ c \in People
  BY Constants DEF WireInv
<1>1. /\ At(c) = "take" /\ UNCHANGED <<ctl, to_pc, to_psp, session, faults>>
      /\ Alone(c)
  <2>1. At(c) = "take"
    BY DEF Take, At
  <2>. QED
    BY <2>1, MarkedAlone DEF Take, Bare
<1>2. PICK s \in Socks : s = On(c)
  BY <1>0 DEF Types, Client, On
<1>3. /\ client[c].len > 0 /\ client[c].op \in Ops \ {"exit"} /\ client[c].done = 0 /\ client[c].data = <<>>
      /\ ~ExitedBy(On(c))
  BY <1>0, <1>1 DEF Works
<1>4. Clean(s)
  <2>1. ~Busy(s)
    BY <1>1, <1>2 DEF IInv, Pool, Bare
  <2>2. ~ExitedBy(s)
    BY <1>2, <1>3
  <2>. QED
    BY <2>1, <2>2 DEF WireInv, Pooled
<1>5. PICK u \in Unit : u = Request(c)
  <2>1. client[c].len \in 0 .. MaxLen
    BY <1>0 DEF Types, Client
  <2>. QED
    BY <1>0, <1>3, <2>1, UnitType DEF Request
<1>6. PICK units : units = <<u>>
  OBVIOUS
<1>7. units \in Seq(Unit) /\ Len(units) = 1
  BY <1>5, <1>6, OneUnit
<1>8. Len(units) \in 0 .. MaxLen + 1
  BY <1>0, <1>7
<1>9. PICK so \in Sock : so = sock[s]
  BY <1>0 DEF Types
<1>10. PICK a : a = [so EXCEPT !.busy = TRUE]
  OBVIOUS
<1>11. /\ a \in Sock /\ a.busy = TRUE /\ a.own = so.own /\ a.wake = so.wake /\ a.sema = so.sema /\ a.at = so.at
  BY <1>10 DEF Sock
<1>12. a.wake = 0 /\ a.own \in BOOLEAN
  BY <1>4, <1>9, <1>11 DEF Clean, Still, Sock
<1>13. PICK new : new = wifiSend(a, units, a.own)
  OBVIOUS
<1>14. /\ new \in Sock /\ new.busy = a.busy /\ new.operation = "S_SEND" /\ new.length = Len(units)
       /\ new.buf = units /\ new.own = a.own /\ new.wake = 1 /\ new.sema = a.sema /\ new.at = a.at
  <2>1. PICK own \in BOOLEAN : own = a.own
    BY <1>12, Zenon
  <2>2. new = wifiSend(a, units, own)
    BY <1>13, <2>1, Zenon
  <2>3. /\ new \in Sock /\ new.busy = a.busy /\ new.operation = "S_SEND" /\ new.length = Len(units)
        /\ new.buf = units /\ new.own = own /\ new.wake = 1 /\ new.sema = a.sema /\ new.at = a.at
    <3>1. a \in Sock /\ a.wake = 0 /\ units \in Seq(Unit)
      BY <1>7, <1>11, <1>12, Zenon
    <3>. QED
      BY <1>8, <2>2, <3>1, SendFacts
  <2>. QED
    BY <2>1, <2>3, Zenon
<1>15. sock' = [sock EXCEPT ![s] = new]
  BY <1>2, <1>5, <1>6, <1>9, <1>10, <1>13 DEF Take, On, Request
<1>16. SockOnly(s) /\ sock'[s] = new
  BY <1>0, <1>14, <1>15 DEF Types, SockOnly
<1>17. /\ Others(c) /\ client'[c].at = "sent" /\ client'[c].op = client[c].op /\ client'[c].s = client[c].s
       /\ client'[c].len = client[c].len /\ client'[c].done = client[c].done
       /\ client'[c].data = client[c].data /\ client'[c].reply = client[c].reply
  <2>1. client' = [client EXCEPT ![c].at = "sent"] /\ "sent" \in {"idle"} \cup Running \cup Blocked
    BY DEF Take, Blocked
  <2>. QED
    BY <1>0, <2>1, MovesFacts
<1>18. At(c)' = "sent" /\ On(c)' = s /\ Request(c)' = u
  BY <1>2, <1>5, <1>17 DEF At, On, Request
<1>19. SentOK(c, s)'
  BY <1>1, <1>4, <1>6, <1>9, <1>11, <1>14, <1>16, <1>18 DEF SentOK, Sending, Clean, Still, Caught, Waits
<1>20. Works(c)'
  BY <1>3, <1>17, <1>18, <1>19 DEF Works
<1>21. Copied(c)'
  BY <1>0, <1>17 DEF Copied, At
<1>22. Busy(s)' /\ ~Unused(s)'
  <2>1. Busy(s)'
    BY <1>11, <1>14, <1>16 DEF Busy
  <2>. QED
    BY <1>18, <2>1 DEF Unused, Blocked
<1>. QED
  BY <1>1, <1>2, <1>16, <1>17, <1>20, <1>21, <1>22, OwnStep

(* A call that fails keeps its socket.                                        *)
LEMMA FailWire ==
  ASSUME IInv, WireInv, NEW c \in Clients, NEW s \in Socks, s = On(c), At(c) \in Blocked,
         Alone(c), Signals(s), Partly(s),
         Fail(c), UNCHANGED <<ctl, to_pc, to_psp, session, faults>>
  PROVE  WireInv'
<1>0. Types /\ MaxLen \in Nat
  BY Constants DEF WireInv
<1>1. PICK so \in Sock : so = sock[s]
  BY <1>0 DEF Types
<1>2. PICK new : new = [so EXCEPT !.sema = 0]
  OBVIOUS
<1>3. /\ new \in Sock /\ new.sema = 0 /\ new.busy = so.busy /\ new.wake = so.wake /\ new.at = so.at
  BY <1>2, SemaFacts
<1>4. sock' = [sock EXCEPT ![s] = new]
  BY <1>1, <1>2 DEF Fail, On
<1>5. SockOnly(s) /\ sock'[s] = new
  BY <1>0, <1>3, <1>4 DEF Types, SockOnly
<1>6. Others(c) /\ client'[c].at = "idle" /\ client'[c].ret = "error" /\ client'[c].reply = c
  <2>1. 0 \in 0 .. MaxLen /\ <<>> \in Seq(Unit)
    BY <1>0
  <2>. QED
    BY <1>0, <2>1, FinishFacts DEF Fail
<1>7. Works(c)' /\ Copied(c)'
  BY <1>6 DEF Works, Copied, At, Blocked
<1>8. Busy(s)'
  BY <1>1, <1>3, <1>5 DEF Busy, IInv, Pool
<1>9. Kept(s)'
  <2>1. Still(s)'
    BY <1>1, <1>3, <1>5 DEF Signals, Still
  <2>2. Partly(s)'
    BY DEF Partly, Caught, Asked, Writing
  <2>. QED
    BY <2>1, <2>2 DEF Kept
<1>. QED
  BY <1>5, <1>6, <1>7, <1>8, <1>9, OwnStep

(* A blocked call runs on: its socket's thread has signalled it.              *)
LEMMA WokenFacts ==
  ASSUME IInv, WireInv, NEW c \in Clients, NEW at \in Blocked, Woken(c, at)
  PROVE  /\ Types /\ Works(c) /\ Copied(c) /\ c \in People /\ MaxLen \in Nat
         /\ At(c) = at /\ On(c) \in Socks /\ Signals(On(c)) /\ ~Waits(On(c)) /\ Busy(On(c))
         /\ Alone(c)
         /\ client[c].len \in 1 .. MaxLen /\ client[c].op \in Ops \ {"exit"} /\ client[c].reply = c
<1>1. Types /\ Works(c) /\ Copied(c) /\ c \in People /\ MaxLen \in Nat
  BY Constants DEF WireInv
<1>2. At(c) = at /\ Alone(c)
  BY WokenAlone
<1>3. On(c) \in Socks /\ client[c].len \in 0 .. MaxLen
  BY <1>1 DEF Types, Client, On
<1>4. client[c].len > 0 /\ client[c].op \in Ops \ {"exit"}
  BY <1>1, <1>2 DEF Works
<1>5. ~Waits(On(c))
  BY DEF Woken, Waits, On
<1>6. Signals(On(c))
  BY <1>1, <1>2, <1>5 DEF Works, SentOK, BlockOK, RepliedOK, ReceivedOK, Blocked
<1>7. Busy(On(c))
  BY <1>2 DEF IInv, Pool
<1>8. client[c].len \in 1 .. MaxLen
  BY <1>1, <1>3, <1>4
<1>9. client[c].reply = c
  BY <1>1 DEF Copied
<1>. QED
  BY <1>1, <1>2, <1>3, <1>4, <1>5, <1>6, <1>7, <1>8, <1>9

(* It sends or receives again.                                                *)
LEMMA OnStep ==
  ASSUME IInv, WireInv, NEW c \in Clients, NEW s \in Socks, s = On(c), At(c) \in Blocked,
         Alone(c), Copied(c),
         NEW new \in Sock, sock' = [sock EXCEPT ![s] = new], new.busy = TRUE,
         Others(c), UNCHANGED <<ctl, to_pc, to_psp, session, faults>>,
         Works(c)', At(c)' \in Blocked, On(c)' = s, client'[c].reply = c
  PROVE  WireInv'
<1>1. sock \in [Socks -> Sock]
  BY DEF WireInv, Types
<1>2. SockOnly(s) /\ sock'[s] = new
  BY <1>1 DEF SockOnly
<1>3. Busy(s)' /\ ~Unused(s)'
  <2>1. Busy(s)'
    BY <1>2 DEF Busy
  <2>. QED
    BY <2>1 DEF Unused
<1>4. Copied(c)'
  BY DEF Copied, Blocked
<1>. QED
  BY <1>2, <1>3, <1>4, OwnStep

(* The PC has not looked at a request yet, has it in part, or has answered.   *)
LEMMA ReachedPartly ==
  ASSUME NEW c \in Clients, NEW s \in Socks, s = On(c), client[c].len \in 1 .. MaxLen,
         client[c].op \in Ops \ {"exit"}, NEW k \in 0 .. client[c].len, Reached(c, k)
  PROVE  Partly(s)
<1>1. PICK n \in 1 .. MaxLen : n = client[c].len
  OBVIOUS
<1>2. PICK op \in Ops \ {"exit"} : op = client[c].op
  OBVIOUS
<1>3. CASE op = "write"
  BY <1>1, <1>2, <1>3 DEF Reached, Served, Partly
<1>4. CASE op # "write"
  BY <1>1, <1>2, <1>4 DEF Reached, Served, Partly
<1>. QED
  BY <1>3, <1>4

LEMMA SentWire == ASSUME IInv, WireInv, NEW c \in Clients, Sent(c) PROVE WireInv'
<1>1. Woken(c, "sent") /\ UNCHANGED <<ctl, to_pc, to_psp, session, faults>> /\ "sent" \in Blocked
  BY DEF Sent, Blocked
<1>2. /\ Types /\ Works(c) /\ Copied(c) /\ c \in People /\ MaxLen \in Nat
      /\ At(c) = "sent" /\ On(c) \in Socks /\ Signals(On(c)) /\ ~Waits(On(c)) /\ Busy(On(c))
      /\ Alone(c)
      /\ client[c].len \in 1 .. MaxLen /\ client[c].op \in Ops \ {"exit"} /\ client[c].reply = c
  BY <1>1, WokenFacts
<1>3. PICK s \in Socks : s = On(c)
  BY <1>2
<1>4. PICK n \in 1 .. MaxLen : n = client[c].len
  BY <1>2
<1>5. PICK op \in Ops \ {"exit"} : op = client[c].op
  BY <1>2
<1>6. SentOK(c, s) /\ client[c].done = 0 /\ client[c].data = <<>> /\ Signals(s)
  BY <1>2, <1>3 DEF Works
<1>7. PICK so \in Sock : so = sock[s]
  BY <1>2 DEF Types
<1>8. so.own = TRUE /\ so.wake = 0 /\ so.at = "asleep" /\ so.busy = TRUE
  BY <1>2, <1>3, <1>6, <1>7 DEF SentOK, Signals, Busy, Sock
<1>9. PICK new : new = [so EXCEPT !.sema = 0]
  OBVIOUS
<1>10. /\ new \in Sock /\ new.sema = 0 /\ new.busy = TRUE /\ new.length = so.length /\ new.res = so.res
       /\ new.own = TRUE /\ new.wake = 0 /\ new.at = "asleep"
  BY <1>8, <1>9, SemaFacts
<1>11. so.length = 1
  <2>1. PICK u : u = Request(c)
    OBVIOUS
  <2>2. Len(<<u>>) = 1
    OBVIOUS
  <2>. QED
    BY <1>6, <1>7, <2>1, <2>2 DEF SentOK, Sending
<1>12. CASE new.res # new.length /\ Fail(c)
  <2>1. Caught(s)
    BY <1>2, <1>3, <1>6, <1>7, <1>10, <1>11, <1>12 DEF SentOK
  <2>. QED
    BY <1>1, <1>2, <1>3, <1>6, <1>12, <2>1, FailWire DEF Partly
<1>13. ASSUME new.res = new.length PROVE Reached(c, 0)
  BY <1>2, <1>3, <1>6, <1>7, <1>10, <1>11, <1>13 DEF SentOK
<1>14. CASE /\ new.res = new.length /\ op # "write"
            /\ sock' = [sock EXCEPT ![s] = wifiRecv(new, ReplyLen(op))]
            /\ client' = [client EXCEPT ![c].at = "replied"]
  <2>1. PICK l \in 0 .. MaxLen + 1 : l = ReplyLen(op)
    BY <1>2, <1>4 DEF ReplyLen
  <2>2. PICK nx : nx = wifiRecv(new, l)
    OBVIOUS
  <2>3. /\ nx \in Sock /\ nx.busy = TRUE /\ nx.operation = "S_RECV" /\ nx.length = l
        /\ nx.own = TRUE /\ nx.wake = 1 /\ nx.sema = 0 /\ nx.at = "asleep"
    BY <1>10, <2>2, RecvFacts
  <2>4. sock' = [sock EXCEPT ![s] = nx]
    BY <1>14, <2>1, <2>2
  <2>5. sock'[s] = nx
    BY <1>2, <2>4 DEF Types
  <2>6. /\ Others(c) /\ client'[c].at = "replied" /\ client'[c].op = op /\ client'[c].s = s
        /\ client'[c].len = n /\ client'[c].done = 0
        /\ client'[c].data = <<>> /\ client'[c].reply = c
    <3>1. "replied" \in {"idle"} \cup Running \cup Blocked
      BY DEF Blocked
    <3>. QED
      BY <1>2, <1>3, <1>4, <1>5, <1>6, <1>14, <3>1, MovesFacts DEF On
  <2>7. Asked(s, c, op, n) \/ Served(c)
    BY <1>3, <1>4, <1>5, <1>13, <1>14 DEF Reached
  <2>8. Reached(c, n)'
    BY <1>1, <1>3, <1>4, <1>5, <1>14, <2>6, <2>7 DEF Reached, Served, Caught, Asked, On
  <2>9. RepliedOK(c, s)'
    BY <2>1, <2>3, <2>5, <2>6, <2>8 DEF RepliedOK, Receiving, Waits
  <2>10. Works(c)'
    BY <1>4, <2>6, <2>9 DEF Works, At, On
  <2>. QED
    BY <1>1, <1>2, <1>3, <2>3, <2>4, <2>6, <2>10, OnStep DEF At, On, Blocked
<1>15. CASE /\ new.res = new.length /\ op = "write"
            /\ sock' = [sock EXCEPT ![s] = wifiSend(new, Data(c, 0, Block(c, 0)), FALSE)]
            /\ client' = [client EXCEPT ![c].at = "block"]
  <2>0. PICK zero \in Nat : zero = 0 /\ zero <= n /\ zero < n
    OBVIOUS
  <2>1. /\ Block(c, zero) \in Nat /\ zero + Block(c, zero) <= n
        /\ Data(c, zero, zero + Block(c, zero)) \in Seq(Unit)
        /\ Len(Data(c, zero, zero + Block(c, zero))) = Block(c, zero)
    BY <1>4, <2>0, BlockUnits
  <2>2. zero + Block(c, zero) = Block(c, 0)
    BY <2>0, <2>1
  <2>3. PICK units \in Seq(Unit) : units = Data(c, 0, Block(c, 0))
    BY <2>0, <2>1, <2>2
  <2>4. Len(units) \in 0 .. MaxLen + 1
    <3>1. PICK b \in Nat : b = Block(c, zero) /\ b <= n
      BY <2>0, <2>1
    <3>2. Len(units) = b
      BY <2>0, <2>1, <2>2, <2>3, <3>1
    <3>. QED
      BY <1>2, <3>1, <3>2
  <2>5. PICK own \in BOOLEAN : own = FALSE
    BY Zenon
  <2>6. PICK nx : nx = wifiSend(new, units, own)
    OBVIOUS
  <2>7. /\ nx \in Sock /\ nx.busy = TRUE /\ nx.operation = "S_SEND" /\ nx.length = Len(units)
        /\ nx.buf = units /\ nx.wake = 1 /\ nx.sema = 0 /\ nx.at = "asleep"
    BY <1>10, <2>4, <2>6, SendFacts
  <2>8. sock' = [sock EXCEPT ![s] = nx]
    BY <1>15, <2>3, <2>5, <2>6, Zenon
  <2>9. sock'[s] = nx
    BY <1>2, <2>7, <2>8 DEF Types
  <2>10. /\ Others(c) /\ client'[c].at = "block" /\ client'[c].op = op /\ client'[c].s = s
         /\ client'[c].len = n /\ client'[c].done = 0
         /\ client'[c].data = <<>> /\ client'[c].reply = c
    <3>1. "block" \in {"idle"} \cup Running \cup Blocked
      BY DEF Blocked
    <3>. QED
      BY <1>2, <1>3, <1>4, <1>5, <1>6, <1>15, <3>1, MovesFacts DEF On
  <2>11. Writing(s, c, n, 0)
    BY <1>3, <1>4, <1>5, <1>13, <1>15 DEF Reached
  <2>12. Writing(s, c, n, 0)'
    BY <1>1, <2>11 DEF Writing
  <2>13. Block(c, 0)' = Block(c, 0)
    BY <1>4, <2>10 DEF Block
  <2>14. Sending(s, Data(c, 0, Block(c, 0)))'
    BY <2>3, <2>7, <2>9, <2>13 DEF Sending
  <2>15. BlockOK(c, s)'
    <3>1. 0 + Block(c, 0)' = Block(c, 0)'
      BY <2>0, <2>1, <2>13
    <3>. QED
      BY <1>15, <2>0, <2>7, <2>9, <2>10, <2>12, <2>14, <3>1 DEF BlockOK, Waits
  <2>16. Works(c)'
    BY <1>4, <2>10, <2>15 DEF Works, At, On
  <2>. QED
    BY <1>1, <1>2, <1>3, <2>7, <2>8, <2>10, <2>16, OnStep DEF At, On, Blocked
<1>. QED
  BY <1>3, <1>5, <1>7, <1>9, <1>12, <1>14, <1>15 DEF Sent, On

LEMMA OnlyDoneFacts ==
  ASSUME Types, NEW c \in Clients, NEW done \in 0 .. MaxLen, client' = [client EXCEPT ![c].done = done]
  PROVE  /\ Others(c) /\ client'[c].at = client[c].at /\ client'[c].op = client[c].op /\ client'[c].s = client[c].s
         /\ client'[c].len = client[c].len /\ client'[c].done = done
         /\ client'[c].data = client[c].data /\ client'[c].reply = client[c].reply
<1>1. client \in [Clients -> Client]
  BY DEF Types
<1>2. PICK r \in Client : r = client[c]
  BY <1>1
<1>3. PICK a : a = [r EXCEPT !.done = done]
  OBVIOUS
<1>4. /\ a \in Client /\ a.at = r.at /\ a.op = r.op /\ a.s = r.s
      /\ a.len = r.len /\ a.done = done
      /\ a.data = r.data /\ a.reply = r.reply
  BY <1>3 DEF Client
<1>5. client' = [client EXCEPT ![c] = a]
  BY <1>2, <1>3
<1>. QED
  BY <1>1, <1>2, <1>4, <1>5 DEF Others

LEMMA AtDoneFacts ==
  ASSUME Types, NEW c \in Clients, NEW at \in Blocked, NEW done \in 0 .. MaxLen,
         client' = [client EXCEPT ![c].at = at, ![c].done = done]
  PROVE  /\ Others(c) /\ client'[c].at = at /\ client'[c].op = client[c].op /\ client'[c].s = client[c].s
         /\ client'[c].len = client[c].len /\ client'[c].done = done
         /\ client'[c].data = client[c].data /\ client'[c].reply = client[c].reply
<1>1. client \in [Clients -> Client]
  BY DEF Types
<1>2. PICK r \in Client : r = client[c]
  BY <1>1
<1>3. PICK a : a = [r EXCEPT !.at = at]
  OBVIOUS
<1>4. /\ a \in Client /\ a.at = at /\ a.op = r.op /\ a.s = r.s
      /\ a.len = r.len /\ a.done = r.done
      /\ a.data = r.data /\ a.reply = r.reply
  BY <1>3 DEF Client
<1>5. PICK b : b = [a EXCEPT !.done = done]
  OBVIOUS
<1>6. /\ b \in Client /\ b.at = at /\ b.op = r.op /\ b.s = r.s
      /\ b.len = r.len /\ b.done = done
      /\ b.data = r.data /\ b.reply = r.reply
  BY <1>4, <1>5 DEF Client
<1>7. client' = [client EXCEPT ![c] = b]
  BY <1>1, <1>2, <1>3, <1>5
<1>. QED
  BY <1>1, <1>2, <1>6, <1>7 DEF Others

(* A block of a write is sent, in full or in part.                            *)
LEMMA BlockSentWire == ASSUME IInv, WireInv, NEW c \in Clients, BlockSent(c) PROVE WireInv'
<1>1. Woken(c, "block") /\ UNCHANGED <<ctl, to_pc, to_psp, session, faults>> /\ "block" \in Blocked
  BY DEF BlockSent, Blocked
<1>2. /\ Types /\ Works(c) /\ Copied(c) /\ c \in People /\ MaxLen \in Nat
      /\ At(c) = "block" /\ On(c) \in Socks /\ Signals(On(c)) /\ ~Waits(On(c)) /\ Busy(On(c))
      /\ Alone(c)
      /\ client[c].len \in 1 .. MaxLen /\ client[c].op \in Ops \ {"exit"} /\ client[c].reply = c
  BY <1>1, WokenFacts
<1>3. PICK s \in Socks : s = On(c)
  BY <1>2
<1>4. PICK n \in 1 .. MaxLen : n = client[c].len
  BY <1>2
<1>5. PICK k \in Nat : k = client[c].done
  BY <1>2 DEF Types, Client
<1>6. BlockOK(c, s) /\ Signals(s)
  BY <1>2, <1>3 DEF Works
<1>7. client[c].op = "write" /\ k < n /\ Sending(s, Data(c, k, k + Block(c, k)))
  BY <1>4, <1>5, <1>6 DEF BlockOK
<1>8. PICK so \in Sock : so = sock[s]
  BY <1>2 DEF Types
<1>9. so.wake = 0 /\ so.at = "asleep" /\ so.busy = TRUE
  BY <1>2, <1>3, <1>6, <1>8 DEF Signals, Busy, Sock
<1>10. PICK new : new = [so EXCEPT !.sema = 0]
  OBVIOUS
<1>11. /\ new \in Sock /\ new.sema = 0 /\ new.busy = TRUE /\ new.res = so.res
       /\ new.wake = 0 /\ new.at = "asleep"
  BY <1>9, <1>10, SemaFacts
<1>12. /\ Block(c, k) \in Nat /\ k + Block(c, k) <= n /\ so.length = Block(c, k)
  BY <1>4, <1>7, <1>8, BlockUnits DEF Sending
<1>13. \/ so.res = -1 /\ Writing(s, c, n, k)
       \/ so.res \in 0 .. so.length /\ Reached(c, k + so.res)
  BY <1>2, <1>3, <1>4, <1>5, <1>6, <1>8 DEF BlockOK
<1>14. CASE new.res <= 0 /\ Fail(c)
  <2>1. Reached(c, k)
    <3>1. CASE so.res = -1 /\ Writing(s, c, n, k)
      BY <1>3, <1>4, <1>7, <3>1 DEF Reached
    <3>2. CASE so.res \in 0 .. so.length /\ Reached(c, k + so.res)
      <4>1. k + so.res = k
        BY <1>11, <1>14, <3>2
      <4>. QED
        BY <3>2, <4>1
    <3>. QED
      BY <1>13, <3>1, <3>2
  <2>2. k \in 0 .. client[c].len
    BY <1>4, <1>7
  <2>3. Partly(s)
    BY <1>2, <1>3, <2>1, <2>2, ReachedPartly
  <2>. QED
    BY <1>1, <1>2, <1>3, <1>6, <1>14, <2>3, FailWire
<1>15. ASSUME new.res > 0
       PROVE  LET e == k + new.res
              IN  e \in Nat /\ k < e /\ e <= n /\ e \in 0 .. MaxLen /\ Reached(c, e)
  <2>1. so.res \in 0 .. so.length /\ Reached(c, k + so.res)
    BY <1>11, <1>13, <1>15
  <2>2. PICK r \in Nat : r = new.res /\ r > 0 /\ k + r <= n
    BY <1>11, <1>12, <1>15, <2>1
  <2>3. k + r \in Nat /\ k < k + r /\ k + r \in 0 .. MaxLen
    BY <1>2, <2>2
  <2>. QED
    BY <1>11, <2>1, <2>2, <2>3
<1>16. CASE /\ new.res > 0 /\ k + new.res < n
            /\ sock' = [sock EXCEPT ![s] = wifiSend(new, Data(c, k + new.res, k + new.res + Block(c, k + new.res)), FALSE)]
            /\ client' = [client EXCEPT ![c].done = k + new.res]
  <2>1. PICK e \in Nat : e = k + new.res /\ k < e /\ e <= n /\ e \in 0 .. MaxLen /\ Reached(c, e) /\ e < n
    BY <1>15, <1>16
  <2>2. /\ Block(c, e) \in Nat /\ e + Block(c, e) <= n
        /\ Data(c, e, e + Block(c, e)) \in Seq(Unit) /\ Len(Data(c, e, e + Block(c, e))) = Block(c, e)
    BY <1>4, <2>1, BlockUnits
  <2>3. PICK units \in Seq(Unit) : units = Data(c, e, e + Block(c, e))
    BY <2>2
  <2>4. Len(units) \in 0 .. MaxLen + 1
    <3>1. PICK b \in Nat : b = Block(c, e) /\ e + b <= n
      BY <2>2
    <3>2. Len(units) = b
      BY <2>2, <2>3, <3>1
    <3>. QED
      BY <1>2, <3>1, <3>2
  <2>5. PICK own \in BOOLEAN : own = FALSE
    BY Zenon
  <2>6. PICK nx : nx = wifiSend(new, units, own)
    OBVIOUS
  <2>7. /\ nx \in Sock /\ nx.busy = TRUE /\ nx.operation = "S_SEND" /\ nx.length = Len(units)
        /\ nx.buf = units /\ nx.wake = 1 /\ nx.sema = 0 /\ nx.at = "asleep"
    BY <1>11, <2>4, <2>6, SendFacts
  <2>8. sock' = [sock EXCEPT ![s] = nx]
    BY <1>16, <2>1, <2>3, <2>5, <2>6, Zenon
  <2>9. sock'[s] = nx
    BY <1>2, <2>7, <2>8 DEF Types
  <2>10. /\ Others(c) /\ client'[c].at = "block" /\ client'[c].op = "write" /\ client'[c].s = s
         /\ client'[c].len = n /\ client'[c].done = e /\ client'[c].reply = c
    <3>1. client' = [client EXCEPT ![c].done = e]
      BY <1>16, <2>1
    <3>. QED
      BY <1>2, <1>3, <1>4, <1>7, <2>1, <3>1, OnlyDoneFacts DEF On, At
  <2>11. Writing(s, c, n, e)
    BY <1>3, <1>4, <1>7, <2>1 DEF Reached
  <2>12. Writing(s, c, n, e)'
    BY <1>1, <2>11 DEF Writing
  <2>13. Block(c, e)' = Block(c, e)
    BY <1>4, <2>10 DEF Block
  <2>14. Sending(s, Data(c, e, e + Block(c, e)))'
    BY <2>3, <2>7, <2>9, <2>13 DEF Sending
  <2>15. BlockOK(c, s)'
    BY <2>1, <2>7, <2>9, <2>10, <2>12, <2>14 DEF BlockOK, Waits
  <2>16. Works(c)'
    BY <1>2, <1>4, <1>7, <2>10, <2>15 DEF Works, At, On
  <2>. QED
    BY <1>1, <1>2, <1>3, <2>7, <2>8, <2>10, <2>16, OnStep DEF At, On, Blocked
<1>17. CASE /\ new.res > 0 /\ k + new.res = n
            /\ sock' = [sock EXCEPT ![s] = wifiRecv([new EXCEPT !.own = TRUE], 1)]
            /\ client' = [client EXCEPT ![c].at = "replied", ![c].done = k + new.res]
  <2>1. Reached(c, n) /\ n \in 0 .. MaxLen
    BY <1>15, <1>17
  <2>2. PICK own \in BOOLEAN : own = TRUE
    BY Zenon
  <2>3. PICK m : m = [new EXCEPT !.own = own]
    OBVIOUS
  <2>4. m \in Sock /\ m.own = own /\ m.sema = 0 /\ m.busy = TRUE /\ m.wake = 0 /\ m.at = "asleep"
    BY <1>11, <2>3 DEF Sock
  <2>5. PICK one \in 0 .. MaxLen + 1 : one = 1
    BY <1>2
  <2>6. PICK nx : nx = wifiRecv(m, one)
    OBVIOUS
  <2>7. /\ nx \in Sock /\ nx.busy = TRUE /\ nx.operation = "S_RECV" /\ nx.length = one
        /\ nx.own = TRUE /\ nx.wake = 1 /\ nx.sema = 0 /\ nx.at = "asleep"
    <3>1. m \in Sock /\ m.wake = 0
      BY <2>4
    <3>2. /\ nx \in Sock /\ nx.busy = m.busy /\ nx.operation = "S_RECV" /\ nx.length = one
          /\ nx.own = m.own /\ nx.wake = 1 /\ nx.sema = m.sema /\ nx.at = m.at
      BY <2>6, <3>1, RecvFacts
    <3>. QED
      BY <2>2, <2>4, <3>2, Zenon
  <2>8. sock' = [sock EXCEPT ![s] = nx]
    BY <1>17, <2>2, <2>3, <2>5, <2>6, Zenon
  <2>9. sock'[s] = nx
    BY <1>2, <2>7, <2>8 DEF Types
  <2>10. /\ Others(c) /\ client'[c].at = "replied" /\ client'[c].op = "write" /\ client'[c].s = s
         /\ client'[c].len = n /\ client'[c].reply = c
    <3>1. client' = [client EXCEPT ![c].at = "replied", ![c].done = n]
      BY <1>17
    <3>2. "replied" \in Blocked
      BY DEF Blocked
    <3>. QED
      BY <1>2, <1>3, <1>4, <1>7, <2>1, <3>1, <3>2, AtDoneFacts DEF On
  <2>11. Reached(c, n)'
    <3>1. Writing(s, c, n, n) \/ Served(c)
      BY <1>3, <1>4, <1>7, <2>1 DEF Reached
    <3>. QED
      BY <1>1, <1>3, <1>4, <1>7, <2>10, <3>1 DEF Reached, Served, Caught, Writing, On
  <2>12. RepliedOK(c, s)'
    BY <2>5, <2>7, <2>9, <2>10, <2>11 DEF RepliedOK, Receiving, Waits, ReplyLen
  <2>13. Works(c)'
    BY <1>2, <1>4, <1>7, <2>10, <2>12 DEF Works, At, On
  <2>. QED
    BY <1>1, <1>2, <1>3, <2>7, <2>8, <2>10, <2>13, OnStep DEF At, On, Blocked
<1>. QED
  BY <1>3, <1>4, <1>5, <1>8, <1>10, <1>14, <1>16, <1>17 DEF BlockSent, On

(* The reply of the PC, or a part of it, is there.                            *)
LEMMA RepliedWire == ASSUME IInv, WireInv, NEW c \in Clients, Replied(c) PROVE WireInv'
<1>1. Woken(c, "replied") /\ UNCHANGED <<ctl, to_pc, to_psp, session, faults>> /\ "replied" \in Blocked
  BY DEF Replied, Blocked
<1>2. /\ Types /\ Works(c) /\ Copied(c) /\ c \in People /\ MaxLen \in Nat
      /\ At(c) = "replied" /\ On(c) \in Socks /\ Signals(On(c)) /\ ~Waits(On(c)) /\ Busy(On(c))
      /\ Alone(c)
      /\ client[c].len \in 1 .. MaxLen /\ client[c].op \in Ops \ {"exit"} /\ client[c].reply = c
  BY <1>1, WokenFacts
<1>3. PICK s \in Socks : s = On(c)
  BY <1>2
<1>4. PICK n \in 1 .. MaxLen : n = client[c].len
  BY <1>2
<1>5. PICK op \in Ops \ {"exit"} : op = client[c].op
  BY <1>2
<1>6. /\ RepliedOK(c, s) /\ Signals(s)
      /\ op # "write" => client[c].done = 0 /\ client[c].data = <<>>
  BY <1>2, <1>3, <1>5 DEF Works
<1>7. PICK so \in Sock : so = sock[s]
  BY <1>2 DEF Types
<1>8. so.wake = 0 /\ so.at = "asleep" /\ so.busy = TRUE /\ so.own = TRUE
  BY <1>2, <1>3, <1>6, <1>7 DEF Signals, Busy, Sock, RepliedOK
<1>9. PICK new : new = [so EXCEPT !.sema = 0]
  OBVIOUS
<1>10. /\ new \in Sock /\ new.sema = 0 /\ new.busy = so.busy /\ new.res = so.res /\ new.own = so.own
       /\ new.wake = 0 /\ new.at = "asleep" /\ new.buf = so.buf
  BY <1>8, <1>9, SemaFacts
<1>11. \/ so.res = -1 /\ Reached(c, n)
       \/ /\ so.res \in 1 .. ReplyLen(op) /\ Caught(s) /\ Len(so.buf) = so.res
          /\ so.buf \o to_psp[s] \in Answers(c, op, n)
  BY <1>2, <1>3, <1>4, <1>5, <1>6, <1>7 DEF RepliedOK
<1>12. CASE Fail(c)
  <2>1. Partly(s)
    <3>1. CASE Reached(c, n)
      <4>1. n \in 0 .. client[c].len
        BY <1>4
      <4>. QED
        BY <1>2, <1>3, <3>1, <4>1, ReachedPartly
    <3>2. CASE Caught(s)
      BY <3>2 DEF Partly
    <3>. QED
      BY <1>11, <3>1, <3>2
  <2>. QED
    BY <1>1, <1>2, <1>3, <1>6, <1>12, <2>1, FailWire
<1>13. PICK b \in Seq(Unit), p \in Seq(Unit) : b = so.buf /\ p = to_psp[s]
  BY <1>2 DEF Sock, Types
<1>14. ASSUME new.res = ReplyLen(op)
       PROVE  /\ Caught(s) /\ b # <<>> /\ b[1].who = c
              /\ op # "read" => p = <<>>
              /\ op = "read" => b[1].n \in 0 .. n /\ p = Data(c, 0, b[1].n)
  <2>1. ReplyLen(op) # -1
    BY DEF ReplyLen
  <2>2. Caught(s) /\ Len(b) = ReplyLen(op) /\ b \o p \in Answers(c, op, n)
    BY <1>10, <1>11, <1>13, <1>14, <2>1
  <2>. QED
    BY <2>2, AnswerRead
<1>15. PICK idle \in Sock : idle = [new EXCEPT !.busy = FALSE]
  BY <1>10 DEF Sock
<1>16. /\ idle.busy = FALSE /\ idle.sema = 0 /\ idle.own = TRUE /\ idle.wake = 0 /\ idle.at = "asleep"
       /\ idle.buf = b
  <2>1. /\ idle.busy = FALSE /\ idle.sema = new.sema /\ idle.own = new.own /\ idle.wake = new.wake
        /\ idle.at = new.at /\ idle.buf = new.buf
    BY <1>10, <1>15 DEF Sock
  <2>. QED
    BY <1>8, <1>10, <1>13, <2>1, Zenon
<1>17. ASSUME sock' = [sock EXCEPT ![s] = idle], Caught(s), p = <<>>
       PROVE  SockOnly(s) /\ sock'[s] = idle /\ Clean(s)' /\ ~Busy(s)'
  <2>1. SockOnly(s) /\ sock'[s] = idle
    BY <1>2, <1>17 DEF Types, SockOnly
  <2>. QED
    BY <1>1, <1>13, <1>16, <1>17, <2>1 DEF Clean, Still, Caught, Busy
<1>18. CASE new.res = 1 /\ op \in {"cmd", "write"} /\ sock' = [sock EXCEPT ![s] = idle]
            /\ client' = [client EXCEPT ![c].at = "return"]
  <2>1. new.res = ReplyLen(op) /\ op # "read"
    BY <1>18 DEF ReplyLen
  <2>2. Caught(s) /\ b # <<>> /\ b[1].who = c /\ p = <<>>
    BY <1>14, <2>1
  <2>3. SockOnly(s) /\ sock'[s] = idle /\ Clean(s)' /\ ~Busy(s)'
    BY <1>17, <1>18, <2>2
  <2>4. /\ Others(c) /\ client'[c].at = "return" /\ client'[c].op = op /\ client'[c].s = s
        /\ client'[c].reply = c
    <3>1. "return" \in {"idle"} \cup Running \cup Blocked
      BY DEF Running
    <3>. QED
      BY <1>2, <1>3, <1>5, <1>18, <3>1, MovesFacts DEF On
  <2>5. ~ExitedBy(s)'
    <3>1. ~ExitedBy(s)
      BY <1>2, <1>3 DEF WireInv, Pooled, Gone
    <3>. QED
      BY <1>1, <3>1 DEF ExitedBy
  <2>6. At(c)' = "return" /\ On(c)' = s /\ "return" \notin Blocked
    BY <2>4 DEF At, On, Blocked
  <2>7. Works(c)'
    BY <1>16, <2>1, <2>2, <2>3, <2>4, <2>5, <2>6 DEF Works, Blocked
  <2>8. Copied(c)'
    BY <2>4, <2>6 DEF Copied
  <2>. QED
    BY <1>1, <1>2, <1>3, <2>3, <2>4, <2>7, <2>8, OwnStep
<1>19. ASSUME NEW ret \in {"ok", "end"}, ret = "ok" => op # "read",
              sock' = [sock EXCEPT ![s] = idle], Caught(s), p = <<>>, Finish(c, ret, c, 0, <<>>)
       PROVE  WireInv'
  <2>1. SockOnly(s) /\ sock'[s] = idle /\ Clean(s)' /\ ~Busy(s)'
    BY <1>17, <1>19
  <2>2. /\ Others(c) /\ client'[c].at = "idle" /\ client'[c].op = op
        /\ client'[c].ret = ret /\ client'[c].reply = c
    <3>1. PICK zero \in 0 .. MaxLen : zero = 0
      BY <1>2
    <3>2. PICK none \in Seq(Unit) : none = <<>>
      <4>1. <<>> \in Seq(Unit)
        OBVIOUS
      <4>. QED
        BY <4>1, Zenon
    <3>3. PICK re \in {"ok", "end", "error"} : re = ret
      OBVIOUS
    <3>4. PICK who \in Clients \cup {Ctl} : who = c
      OBVIOUS
    <3>5. Finish(c, re, who, zero, none) /\ Types
      BY <1>2, <1>19, <3>1, <3>2, <3>3, <3>4, Zenon
    <3>6. /\ Others(c) /\ client'[c].at = "idle" /\ client'[c].op = client[c].op
          /\ client'[c].ret = re /\ client'[c].reply = who
      BY <3>5, FinishFacts
    <3>. QED
      BY <1>5, <3>3, <3>4, <3>6, Zenon
  <2>3. Works(c)'
    BY <2>2 DEF Works, At, Blocked
  <2>4. Copied(c)'
    BY <1>19, <2>2 DEF Copied
  <2>. QED
    BY <1>1, <1>2, <1>3, <2>1, <2>2, <2>3, <2>4, OwnStep
<1>20. CASE new.res = ReplyLen(op) /\ op \in {"open", "stat"} /\ sock' = [sock EXCEPT ![s] = idle]
            /\ Finish(c, "ok", new.buf[1].who, 0, <<>>)
  <2>1. Caught(s) /\ b[1].who = c /\ p = <<>> /\ op # "read"
    BY <1>14, <1>20
  <2>2. Finish(c, "ok", c, 0, <<>>)
    BY <1>10, <1>13, <1>20, <2>1
  <2>. QED
    BY <1>19, <1>20, <2>1, <2>2
<1>21. CASE new.res = 1 /\ op = "read"
            /\ IF new.buf[1].n > client[c].len \/ new.buf[1].n <= 0
               THEN /\ sock' = [sock EXCEPT ![s] = idle]
                    /\ Finish(c, "end", new.buf[1].who, 0, <<>>)
               ELSE /\ sock' = [sock EXCEPT ![s] = wifiRecv(new, Least(new.buf[1].n, max_block_size))]
                    /\ client' = [client EXCEPT ![c].at = "received", ![c].len = new.buf[1].n,
                                                ![c].reply = new.buf[1].who]
  <2>1. Caught(s) /\ b[1].who = c /\ b[1].n \in 0 .. n /\ p = Data(c, 0, b[1].n)
    BY <1>14, <1>21 DEF ReplyLen
  <2>2. PICK size \in Nat : size = b[1].n /\ size <= n /\ size <= MaxLen
    BY <1>2, <2>1
  <2>3. new.buf[1].n = size /\ new.buf[1].who = c /\ p = Data(c, 0, size)
    BY <1>10, <1>13, <2>1, <2>2
  <2>4. CASE size = 0
    <3>1. p = <<>>
      BY <1>2, <2>3, <2>4, DataNone
    <3>2. sock' = [sock EXCEPT ![s] = idle] /\ Finish(c, "end", c, 0, <<>>)
      BY <1>21, <2>3, <2>4
    <3>. QED
      BY <1>19, <2>1, <3>1, <3>2
  <2>5. CASE size # 0
    <3>1. /\ sock' = [sock EXCEPT ![s] = wifiRecv(new, Least(size, max_block_size))]
          /\ client' = [client EXCEPT ![c].at = "received", ![c].len = size, ![c].reply = c]
      <4>1. ~(new.buf[1].n > client[c].len \/ new.buf[1].n <= 0)
        BY <1>4, <2>2, <2>3, <2>5
      <4>2. /\ sock' = [sock EXCEPT ![s] = wifiRecv(new, Least(new.buf[1].n, max_block_size))]
            /\ client' = [client EXCEPT ![c].at = "received", ![c].len = new.buf[1].n,
                                        ![c].reply = new.buf[1].who]
        BY <1>21, <4>1, Zenon
      <4>. QED
        BY <2>3, <4>2, Zenon
    <3>2. PICK l \in 0 .. MaxLen + 1 : l = Least(size, max_block_size)
      <4>1. Least(size, max_block_size) \in Nat /\ Least(size, max_block_size) <= size
        BY Constants, LeastFacts
      <4>. QED
        BY <1>2, <2>2, <4>1
    <3>3. PICK nx : nx = wifiRecv(new, l)
      OBVIOUS
    <3>4. /\ nx \in Sock /\ nx.busy = TRUE /\ nx.operation = "S_RECV" /\ nx.length = l
          /\ nx.own = TRUE /\ nx.wake = 1 /\ nx.sema = 0 /\ nx.at = "asleep"
      <4>1. /\ nx \in Sock /\ nx.busy = new.busy /\ nx.operation = "S_RECV" /\ nx.length = l
            /\ nx.own = new.own /\ nx.wake = 1 /\ nx.sema = new.sema /\ nx.at = new.at
        BY <1>10, <3>3, RecvFacts
      <4>. QED
        BY <1>8, <1>10, <4>1, Zenon
    <3>5. sock' = [sock EXCEPT ![s] = nx]
      BY <3>1, <3>2, <3>3
    <3>6. sock'[s] = nx
      BY <1>2, <3>5 DEF Types
    <3>7. /\ Others(c) /\ client'[c].at = "received" /\ client'[c].op = op /\ client'[c].s = s
          /\ client'[c].len = size /\ client'[c].done = 0 /\ client'[c].data = <<>> /\ client'[c].reply = c
      <4>1. client \in [Clients -> Client]
        BY <1>2 DEF Types
      <4>2. PICK r \in Client : r = client[c]
        BY <4>1
      <4>3. PICK x : x = [r EXCEPT !.at = "received"]
        OBVIOUS
      <4>4. /\ x \in Client /\ x.at = "received" /\ x.op = r.op /\ x.s = r.s
            /\ x.done = r.done /\ x.data = r.data
        BY <4>3 DEF Client, Blocked
      <4>5. PICK y : y = [x EXCEPT !.len = size]
        OBVIOUS
      <4>6. /\ y \in Client /\ y.at = "received" /\ y.op = r.op /\ y.s = r.s
            /\ y.len = size /\ y.done = r.done /\ y.data = r.data
        <5>1. PICK len \in 0 .. MaxLen : len = size
          BY <1>2, <2>2
        <5>2. y = [x EXCEPT !.len = len]
          BY <4>5, <5>1
        <5>3. /\ y \in Client /\ y.at = "received" /\ y.op = r.op /\ y.s = r.s
              /\ y.len = len /\ y.done = r.done /\ y.data = r.data
          BY <4>4, <5>2 DEF Client
        <5>. QED
          BY <5>1, <5>3, Zenon
      <4>7. PICK z : z = [y EXCEPT !.reply = c]
        OBVIOUS
      <4>8. /\ z \in Client /\ z.at = "received" /\ z.op = r.op /\ z.s = r.s
            /\ z.len = size /\ z.done = r.done /\ z.data = r.data /\ z.reply = c
        BY <4>6, <4>7 DEF Client
      <4>9. client' = [client EXCEPT ![c] = z]
        BY <3>1, <4>1, <4>2, <4>3, <4>5, <4>7
      <4>10. client'[c] = z /\ Others(c)
        BY <4>1, <4>8, <4>9 DEF Others
      <4>11. r.s = s /\ r.op = op /\ r.done = 0 /\ r.data = <<>>
        BY <1>3, <1>5, <1>6, <1>21, <4>2 DEF On
      <4>. QED
        BY <4>8, <4>10, <4>11
    <3>8. Block(c, 0)' = l
      BY <2>2, <3>2, <3>7 DEF Block
    <3>9. ReceivedOK(c, s)'
      <4>1. Data(c, 0, 0) = <<>>
        BY <1>2, DataNone
      <4>2. Caught(s)' /\ to_psp'[s] = Data(c, 0, size) /\ 0 < size
        BY <1>1, <1>13, <2>1, <2>2, <2>3, <2>5 DEF Caught
      <4>. QED
        BY <1>21, <3>4, <3>6, <3>7, <3>8, <4>1, <4>2 DEF ReceivedOK, Receiving, Waits
    <3>10. Works(c)'
      BY <2>2, <2>5, <3>7, <3>9 DEF Works, At, On
    <3>. QED
      BY <1>1, <1>2, <1>3, <3>4, <3>5, <3>7, <3>10, OnStep DEF At, On, Blocked
  <2>. QED
    BY <2>4, <2>5
<1>. QED
  BY <1>3, <1>4, <1>5, <1>7, <1>9, <1>12, <1>15, <1>18, <1>20, <1>21 DEF Replied, On

(* A block of a read is there, in full or in part.                            *)
LEMMA BlockReceivedWire == ASSUME IInv, WireInv, NEW c \in Clients, BlockReceived(c) PROVE WireInv'
<1>1. Woken(c, "received") /\ UNCHANGED <<ctl, to_pc, to_psp, session, faults>> /\ "received" \in Blocked
  BY DEF BlockReceived, Blocked
<1>2. /\ Types /\ Works(c) /\ Copied(c) /\ c \in People /\ MaxLen \in Nat
      /\ At(c) = "received" /\ On(c) \in Socks /\ Signals(On(c)) /\ ~Waits(On(c)) /\ Busy(On(c))
      /\ Alone(c)
      /\ client[c].len \in 1 .. MaxLen /\ client[c].op \in Ops \ {"exit"} /\ client[c].reply = c
  BY <1>1, WokenFacts
<1>3. PICK s \in Socks : s = On(c)
  BY <1>2
<1>4. PICK n \in 1 .. MaxLen : n = client[c].len
  BY <1>2
<1>5. PICK k \in Nat : k = client[c].done
  BY <1>2 DEF Types, Client
<1>6. ReceivedOK(c, s) /\ Signals(s)
  BY <1>2, <1>3 DEF Works
<1>7. /\ client[c].op = "read" /\ k < n /\ client[c].data = Data(c, 0, k) /\ Receiving(s, Block(c, k))
      /\ sock[s].own /\ Caught(s)
  BY <1>4, <1>5, <1>6 DEF ReceivedOK
<1>8. PICK so \in Sock : so = sock[s]
  BY <1>2 DEF Types
<1>9. so.wake = 0 /\ so.at = "asleep" /\ so.busy = TRUE /\ so.own = TRUE
  BY <1>2, <1>3, <1>6, <1>7, <1>8 DEF Signals, Busy, Sock
<1>10. PICK new : new = [so EXCEPT !.sema = 0]
  OBVIOUS
<1>11. /\ new \in Sock /\ new.sema = 0 /\ new.busy = so.busy /\ new.res = so.res /\ new.own = so.own
       /\ new.wake = 0 /\ new.at = "asleep" /\ new.buf = so.buf
  BY <1>9, <1>10, SemaFacts
<1>12. Block(c, k) \in Nat /\ k + Block(c, k) <= n /\ so.length = Block(c, k)
  BY <1>4, <1>7, <1>8, BlockFacts DEF Receiving
<1>13. CASE new.res <= 0 /\ Fail(c)
  BY <1>1, <1>2, <1>3, <1>6, <1>7, <1>13, FailWire DEF Partly
<1>14. ASSUME new.res > 0
       PROVE  LET e == k + new.res
              IN  /\ e \in Nat /\ k < e /\ e <= n /\ e \in 0 .. MaxLen
                  /\ client[c].data \o new.buf = Data(c, 0, e) /\ to_psp[s] = Data(c, e, n)
  <2>1. /\ so.res \in 1 .. so.length /\ so.buf = Data(c, k, k + so.res) /\ to_psp[s] = Data(c, k + so.res, n)
    BY <1>2, <1>3, <1>4, <1>5, <1>6, <1>8, <1>11, <1>14 DEF ReceivedOK
  <2>2. PICK r \in Nat : r = so.res /\ r > 0 /\ k + r <= n
    BY <1>12, <2>1
  <2>3. PICK e \in Nat : e = k + r /\ k < e /\ e <= n /\ e <= MaxLen /\ k <= e
    BY <1>2, <2>2
  <2>4. PICK zero \in Nat : zero = 0 /\ zero <= k
    OBVIOUS
  <2>5. Data(c, zero, k) \o Data(c, k, e) = Data(c, zero, e)
    BY <1>2, <2>3, <2>4, DataJoin
  <2>6. client[c].data \o new.buf = Data(c, 0, e) /\ to_psp[s] = Data(c, e, n)
    BY <1>7, <1>11, <2>1, <2>2, <2>3, <2>4, <2>5
  <2>. QED
    BY <1>11, <2>2, <2>3, <2>6
<1>15. CASE /\ new.res > 0 /\ k + new.res < n
            /\ sock' = [sock EXCEPT ![s] = wifiRecv(new, Block(c, k + new.res))]
            /\ client' = [client EXCEPT ![c].done = k + new.res, ![c].data = client[c].data \o new.buf]
  <2>1. PICK e \in 0 .. MaxLen : /\ e = k + new.res /\ e \in Nat /\ e < n
                                 /\ client[c].data \o new.buf = Data(c, 0, e) /\ to_psp[s] = Data(c, e, n)
    BY <1>14, <1>15
  <2>2. PICK data \in Seq(Unit) : data = Data(c, 0, e)
    <3>1. e <= MaxLen /\ 0 <= e
      OBVIOUS
    <3>. QED
      BY <1>2, <2>1, <3>1, DataFacts
  <2>3. PICK l \in 0 .. MaxLen + 1 : l = Block(c, e)
    <3>1. Block(c, e) \in Nat /\ e + Block(c, e) <= n
      BY <1>4, <2>1, BlockFacts
    <3>. QED
      BY <1>2, <2>1, <3>1
  <2>4. PICK nx : nx = wifiRecv(new, l)
    OBVIOUS
  <2>5. /\ nx \in Sock /\ nx.busy = TRUE /\ nx.operation = "S_RECV" /\ nx.length = l
        /\ nx.own = TRUE /\ nx.wake = 1 /\ nx.sema = 0 /\ nx.at = "asleep"
    <3>1. /\ nx \in Sock /\ nx.busy = new.busy /\ nx.operation = "S_RECV" /\ nx.length = l
          /\ nx.own = new.own /\ nx.wake = 1 /\ nx.sema = new.sema /\ nx.at = new.at
      BY <1>11, <2>4, RecvFacts
    <3>. QED
      BY <1>9, <1>11, <3>1, Zenon
  <2>6. sock' = [sock EXCEPT ![s] = nx]
    BY <1>15, <2>1, <2>3, <2>4
  <2>7. sock'[s] = nx
    BY <1>2, <2>6 DEF Types
  <2>8. /\ Others(c) /\ client'[c].at = "received" /\ client'[c].op = "read" /\ client'[c].s = s
        /\ client'[c].len = n /\ client'[c].done = e /\ client'[c].data = data /\ client'[c].reply = c
    <3>1. client' = [client EXCEPT ![c].done = e, ![c].data = data]
      BY <1>15, <2>1, <2>2
    <3>. QED
      BY <1>2, <1>3, <1>4, <1>7, <3>1, DoneFacts DEF On, At
  <2>9. Block(c, e)' = l
    BY <1>4, <2>3, <2>8 DEF Block
  <2>10. ReceivedOK(c, s)'
    <3>1. Caught(s)' /\ to_psp'[s] = Data(c, e, n)
      BY <1>1, <1>7, <2>1 DEF Caught
    <3>. QED
      BY <2>1, <2>2, <2>5, <2>7, <2>8, <2>9, <3>1 DEF ReceivedOK, Receiving, Waits
  <2>11. Works(c)'
    BY <1>2, <1>4, <1>7, <2>8, <2>10 DEF Works, At, On
  <2>. QED
    BY <1>1, <1>2, <1>3, <2>5, <2>6, <2>8, <2>11, OnStep DEF At, On, Blocked
<1>16. CASE /\ new.res > 0 /\ k + new.res = n
            /\ sock' = [sock EXCEPT ![s] = [new EXCEPT !.busy = FALSE]]
            /\ Finish(c, "ok", client[c].reply, client[c].len, client[c].data \o new.buf)
  <2>1. client[c].data \o new.buf = Data(c, 0, n) /\ to_psp[s] = Data(c, n, n) /\ n \in Nat /\ n <= MaxLen
    <3>1. PICK e : e = k + new.res
      OBVIOUS
    <3>2. client[c].data \o new.buf = Data(c, 0, e) /\ to_psp[s] = Data(c, e, n)
      BY <1>14, <1>16, <3>1, Zenon
    <3>3. e = n
      BY <1>16, <3>1, Zenon
    <3>4. n \in Nat /\ n <= MaxLen
      OBVIOUS
    <3>. QED
      BY <3>2, <3>3, <3>4, Zenon
  <2>2. to_psp[s] = <<>>
    BY <1>2, <2>1, DataNone
  <2>3. PICK data \in Seq(Unit) : data = Data(c, 0, n)
    BY <1>2, <2>1, DataFacts
  <2>4. PICK idle \in Sock : idle = [new EXCEPT !.busy = FALSE]
    BY <1>11 DEF Sock
  <2>5. idle.busy = FALSE /\ idle.sema = 0 /\ idle.own = TRUE /\ idle.wake = 0 /\ idle.at = "asleep"
    <3>1. /\ idle.busy = FALSE /\ idle.sema = new.sema /\ idle.own = new.own /\ idle.wake = new.wake
          /\ idle.at = new.at
      BY <1>11, <2>4 DEF Sock
    <3>. QED
      BY <1>9, <1>11, <3>1, Zenon
  <2>6. SockOnly(s) /\ sock'[s] = idle
    <3>1. sock' = [sock EXCEPT ![s] = idle]
      BY <1>16, <2>4
    <3>. QED
      BY <1>2, <3>1 DEF Types, SockOnly
  <2>7. Clean(s)' /\ ~Busy(s)'
    BY <1>1, <1>7, <2>2, <2>5, <2>6 DEF Clean, Still, Caught, Busy
  <2>8. /\ Others(c) /\ client'[c].at = "idle" /\ client'[c].op = "read" /\ client'[c].len = n
        /\ client'[c].data = data /\ client'[c].ret = "ok" /\ client'[c].reply = c
    <3>1. PICK len \in 0 .. MaxLen : len = n
      BY <2>1
    <3>2. PICK re \in {"ok", "end", "error"} : re = "ok"
      OBVIOUS
    <3>3. PICK who \in Clients \cup {Ctl} : who = c
      OBVIOUS
    <3>4. Finish(c, re, who, len, data) /\ Types
      BY <1>2, <1>4, <1>16, <2>1, <2>3, <3>1, <3>2, <3>3, Zenon
    <3>5. /\ Others(c) /\ client'[c].at = "idle" /\ client'[c].op = client[c].op /\ client'[c].len = len
          /\ client'[c].data = data /\ client'[c].ret = re /\ client'[c].reply = who
      BY <3>4, FinishFacts
    <3>. QED
      BY <1>7, <3>1, <3>2, <3>3, <3>5, Zenon
  <2>9. Works(c)'
    BY <2>8 DEF Works, At, Blocked
  <2>10. Copied(c)'
    BY <2>3, <2>8 DEF Copied
  <2>. QED
    BY <1>1, <1>2, <1>3, <2>6, <2>7, <2>8, <2>9, <2>10, OwnStep
<1>. QED
  BY <1>3, <1>4, <1>5, <1>8, <1>10, <1>13, <1>15, <1>16 DEF BlockReceived, On

------------------------------------------------------------------------------
(* wifiIoExit's steps at socket s: no call that has not marked a socket is    *)
(* there, and the sockets elsewhere stay on the side they are.                *)
CtlStep(s) ==
    /\ UNCHANGED <<client, to_pc, to_psp, session, faults>>
    /\ SockOnly(s) /\ Busy(s)' = Busy(s)
    /\ \A q \in Socks \ {s} : ExitedBy(q)' <=> ExitedBy(q)

(* The calls elsewhere do not see which socket wifiIoExit is at.              *)
LEMMA WorksExit ==
  ASSUME IInv, NEW d \in Clients, Works(d), NEW s \in Socks, CtlStep(s), ~Busy(s),
         At(d) \in Bare => On(d) # s
  PROVE  Works(d)'
<1>1. At(d)' = At(d) /\ On(d)' = On(d) /\ Request(d)' = Request(d) /\ \A k : Block(d, k)' = Block(d, k)
  BY DEF CtlStep, At, On, Request, Block
<1>2. CASE At(d) \in Blocked
  <2>1. Busy(On(d)) /\ On(d) \in Socks
    BY <1>2 DEF IInv, Pool, Shape
  <2>2. PICK q \in Socks : q = On(d) /\ q # s
    BY <2>1
  <2>3. SameAt(q)
    BY <2>2 DEF CtlStep, SockOnly, SameAt
  <2>4. /\ Waits(q)' <=> Waits(q)
        /\ Signals(q)' <=> Signals(q)
        /\ Caught(q)' <=> Caught(q)
        /\ sock'[q] = sock[q] /\ to_psp'[q] = to_psp[q] /\ client'[d] = client[d]
        /\ \A u : Sending(q, u)' <=> Sending(q, u)
        /\ \A l : Receiving(q, l)' <=> Receiving(q, l)
        /\ \A c, n, k : Writing(q, c, n, k)' <=> Writing(q, c, n, k)
        /\ \A c, op, n : Asked(q, c, op, n)' <=> Asked(q, c, op, n)
    BY <2>3 DEF CtlStep, SameAt, Waits, Signals, Caught, Sending, Receiving, Writing, Asked
  <2>5. Served(d)' <=> Served(d)
    BY <1>1, <2>2, <2>4 DEF Served
  <2>6. \A k : Reached(d, k)' <=> Reached(d, k)
    BY <1>1, <2>2, <2>4, <2>5 DEF Reached
  <2>7. /\ SentOK(d, q)' <=> SentOK(d, q)
        /\ RepliedOK(d, q)' <=> RepliedOK(d, q)
    BY <1>1, <2>4, <2>6 DEF SentOK, RepliedOK
  <2>8. BlockOK(d, q)' <=> BlockOK(d, q)
    BY <1>1, <2>4, <2>6 DEF BlockOK
  <2>9. ReceivedOK(d, q)' <=> ReceivedOK(d, q)
    BY <1>1, <2>4, <2>6 DEF ReceivedOK
  <2>. QED
    BY <1>1, <1>2, <2>2, <2>4, <2>7, <2>8, <2>9 DEF Works, Blocked
<1>3. CASE At(d) \in Bare
  <2>1. On(d) \in Socks \ {s}
    BY <1>3 DEF IInv, Shape
  <2>2. sock'[On(d)] = sock[On(d)] /\ (ExitedBy(On(d))' <=> ExitedBy(On(d))) /\ client' = client
    BY <1>1, <2>1 DEF CtlStep, SockOnly, ExitedBy
  <2>. QED
    BY <1>1, <1>3, <2>2 DEF Works, Blocked, Bare
<1>4. CASE At(d) \notin Blocked \cup Bare
  <2>1. client' = client
    BY DEF CtlStep
  <2>. QED
    BY <1>1, <1>4, <2>1 DEF Works, Blocked, Bare
<1>. QED
  BY <1>2, <1>3, <1>4

(* The sockets elsewhere.                                                     *)
LEMMA PooledExit ==
  ASSUME NEW s \in Socks, CtlStep(s), NEW q \in Socks, q # s, Pooled(q),
         ForExit(q)' <=> ForExit(q)
  PROVE  Pooled(q)'
<1>1. SameAt(q)
  BY DEF CtlStep, SockOnly, SameAt
<1>2. /\ Waits(q)' <=> Waits(q)
      /\ Signals(q)' <=> Signals(q)
      /\ Still(q)' <=> Still(q)
      /\ Caught(q)' <=> Caught(q)
      /\ Left(q)' <=> Left(q)
      /\ Whole(q)' <=> Whole(q)
      /\ Busy(q)' = Busy(q)
      /\ sock'[q] = sock[q] /\ to_psp'[q] = to_psp[q]
      /\ \A u : Sending(q, u)' <=> Sending(q, u)
      /\ \A c, n, k : Writing(q, c, n, k)' <=> Writing(q, c, n, k)
      /\ \A c, op, n : Asked(q, c, op, n)' <=> Asked(q, c, op, n)
  BY <1>1 DEF SameAt, Waits, Signals, Still, Caught, Left, Whole, Busy, Sending, Writing, Asked
<1>3. (Clean(q)' <=> Clean(q)) /\ (Kept(q)' <=> Kept(q)) /\ (Gone(q)' <=> Gone(q))
  BY <1>2 DEF Clean, Kept, Partly, Gone, ForExit
<1>4. Unused(q)' <=> Unused(q)
  BY DEF Unused, CtlStep, At, On
<1>5. ExitedBy(q)' <=> ExitedBy(q)
  BY DEF CtlStep
<1>. QED
  BY <1>2, <1>3, <1>4, <1>5 DEF Pooled

LEMMA DelDrvWire == ASSUME IInv, WireInv, DelDrv PROVE WireInv'
<1>1. /\ ctl.at = "none" /\ ctl' = [at |-> "poll", i |-> 0] /\ "exit" \in Ops
      /\ UNCHANGED <<sock, client, to_pc, to_psp, session, faults>>
  BY DEF DelDrv
<1>2. \A q \in Socks : ~ExitedBy(q) /\ ~ExitedBy(q)'
  BY <1>1, WifiHostAssumption DEF ExitedBy, Socks
<1>3. Types'
  <2>1. 0 \in Socks
    BY NumSockNat
  <2>. QED
    BY <1>1, <2>1 DEF WireInv, Types
<1>4. ASSUME NEW q \in Socks PROVE Pooled(q)'
  <2>1. Pooled(q)
    BY DEF WireInv
  <2>2. /\ Clean(q)' <=> Clean(q)
        /\ Kept(q)' <=> Kept(q)
        /\ Whole(q)' <=> Whole(q)
        /\ Busy(q)' <=> Busy(q)
        /\ Unused(q)' <=> Unused(q)
    BY <1>1 DEF Clean, Kept, Partly, Whole, Busy, Unused, Caught, Still, Asked, Writing, At, On
  <2>. QED
    BY <1>2, <2>1, <2>2 DEF Pooled
<1>5. ASSUME NEW c \in Clients PROVE Works(c)' /\ Copied(c)'
  <2>1. Works(c) /\ Copied(c) /\ On(c) \in Socks
    BY DEF WireInv, Types, Client, On
  <2>2. /\ At(c)' = At(c) /\ On(c)' = On(c) /\ client'[c] = client[c] /\ sock' = sock /\ to_psp' = to_psp
        /\ ~ExitedBy(On(c))'
    BY <1>1, <1>2, <2>1 DEF At, On
  <2>3. /\ SentOK(c, On(c))' <=> SentOK(c, On(c))
        /\ BlockOK(c, On(c))' <=> BlockOK(c, On(c))
        /\ RepliedOK(c, On(c))' <=> RepliedOK(c, On(c))
        /\ ReceivedOK(c, On(c))' <=> ReceivedOK(c, On(c))
    <3>1. /\ \A q : (Waits(q)' <=> Waits(q)) /\ (Signals(q)' <=> Signals(q)) /\ (Caught(q)' <=> Caught(q))
          /\ \A q, u : (Sending(q, u)' <=> Sending(q, u)) /\ (Receiving(q, u)' <=> Receiving(q, u))
          /\ \A q, d, n, k : Writing(q, d, n, k)' <=> Writing(q, d, n, k)
          /\ \A q, d, op, n : Asked(q, d, op, n)' <=> Asked(q, d, op, n)
          /\ \A k : Block(c, k)' = Block(c, k)
          /\ Request(c)' = Request(c)
      BY <1>1 DEF Waits, Signals, Caught, Sending, Receiving, Writing, Asked, Block, Request
    <3>2. \A k : Reached(c, k)' <=> Reached(c, k)
      BY <2>2, <3>1 DEF Reached, Served
    <3>. QED
      BY <2>2, <3>1, <3>2 DEF SentOK, BlockOK, RepliedOK, ReceivedOK
  <2>4. Works(c)'
    BY <1>1, <2>1, <2>2, <2>3 DEF Works
  <2>. QED
    BY <2>1, <2>2, <2>4 DEF Copied
<1>. QED
  BY <1>1, <1>3, <1>4, <1>5 DEF WireInv

LEMMA SendExitWire == ASSUME ~met', IInv, WireInv, SendExit PROVE WireInv'
<1>1. /\ ctl.at = "poll" /\ ctl' = [ctl EXCEPT !.at = "sent"]
      /\ UNCHANGED <<client, to_pc, to_psp, session, faults>>
      /\ \A c \in Clients : At(c) \in Bare => On(c) # ctl.i
  <2>1. \A c \in Clients : ~Unmarked(c, ctl.i)
    BY DEF SendExit
  <2>2. \A c \in Clients : At(c) \in Bare => On(c) # ctl.i
    BY <2>1 DEF Unmarked, Bare, At, On
  <2>. QED
    BY <2>2 DEF SendExit
<1>2. Types /\ MaxLen \in Nat /\ Ctl \in People
  BY Constants DEF WireInv
<1>3. PICK s \in Socks : s = ctl.i
  BY <1>2 DEF Types
<1>4. ~Busy(s) /\ ~ExitedBy(s) /\ Clean(s) /\ Whole(s)
  <2>1. ~Busy(s)
    BY <1>3 DEF SendExit, Busy
  <2>2. ~ExitedBy(s)
    BY <1>1, <1>3, WifiHostAssumption DEF ExitedBy, Socks
  <2>. QED
    BY <2>1, <2>2 DEF WireInv, Pooled
<1>5. PICK x : x = ctl'
  OBVIOUS
<1>6. x \in [at : {"none", "poll", "sent", "done"}, i : Socks] /\ x.at = "sent" /\ x.i = s
  BY <1>1, <1>2, <1>3, <1>5 DEF Types
<1>7. PICK so \in Sock : so = sock[s]
  BY <1>2 DEF Types
<1>8. so.wake = 0 /\ so.sema = 0 /\ so.at = "asleep" /\ so.busy = Busy(s)
  BY <1>4, <1>7 DEF Clean, Still, Busy
<1>9. PICK u \in Unit : u = Params(Ctl, "exit", 0)
  <2>1. "exit" \in Ops
    BY <1>1 DEF WireInv
  <2>2. PICK zero \in 0 .. MaxLen : zero = 0
    BY <1>2
  <2>. QED
    BY <1>2, <2>1, <2>2, UnitType
<1>10. PICK units : units = <<u>>
  OBVIOUS
<1>11. units \in Seq(Unit) /\ Len(units) = 1
  BY <1>10, OneUnit
<1>12. Len(units) \in 0 .. MaxLen + 1
  BY <1>2, <1>11
<1>13. PICK own \in BOOLEAN : own = so.own
  BY DEF Sock
<1>14. PICK new : new = wifiSend(so, units, own)
  OBVIOUS
<1>15. /\ new \in Sock /\ new.busy = so.busy /\ new.operation = "S_SEND" /\ new.length = Len(units)
       /\ new.buf = units /\ new.wake = 1 /\ new.sema = so.sema /\ new.at = so.at
  <2>1. units \in Seq(Unit) /\ so.wake = 0
    BY <1>8, <1>11, Zenon
  <2>. QED
    BY <1>12, <1>14, <2>1, SendFacts
<1>16. sock' = [sock EXCEPT ![s] = new]
  BY <1>3, <1>7, <1>9, <1>10, <1>13, <1>14 DEF SendExit
<1>17. sock'[s] = new /\ SockOnly(s)
  BY <1>2, <1>15, <1>16 DEF Types, SockOnly
<1>18. CtlStep(s)
  <2>1. \A q \in Socks \ {s} : ExitedBy(q)' <=> ExitedBy(q)
    BY <1>1, <1>3, <1>5, <1>6 DEF ExitedBy
  <2>. QED
    BY <1>1, <1>8, <1>15, <1>17, <2>1 DEF CtlStep, Busy
<1>19. Gone(s)' /\ ExitedBy(s)' /\ Whole(s)'
  <2>1. Waits(s)' /\ Sending(s, units)' /\ ~Busy(s)'
    BY <1>4, <1>8, <1>15, <1>17 DEF Waits, Sending, Busy
  <2>2. Caught(s)' /\ Whole(s)'
    BY <1>1, <1>4 DEF Clean, Caught, Whole
  <2>3. ctl'.at = "sent" /\ ctl'.i = s
    BY <1>5, <1>6
  <2>. QED
    BY <1>9, <1>10, <2>1, <2>2, <2>3 DEF Gone, ExitedBy
<1>20. ASSUME NEW q \in Socks PROVE Pooled(q)'
  <2>1. CASE q = s
    BY <1>18, <1>4, <1>19, <2>1 DEF Pooled, CtlStep
  <2>2. CASE q # s
    <3>1. ForExit(q)' <=> ForExit(q)
      BY <1>1, <1>3, <1>5, <1>6, <2>2 DEF ForExit
    <3>. QED
      BY <1>18, <2>2, <3>1, PooledExit DEF WireInv
  <2>. QED
    BY <2>1, <2>2
<1>21. ASSUME NEW c \in Clients PROVE Works(c)' /\ Copied(c)'
  <2>1. Works(c) /\ Copied(c) /\ (At(c) \in Bare => On(c) # s)
    BY <1>1, <1>3 DEF WireInv
  <2>2. Works(c)'
    BY <1>4, <1>18, <2>1, WorksExit
  <2>. QED
    BY <1>1, <2>1, <2>2 DEF Copied, At
<1>22. Types'
  BY <1>1, <1>2, <1>5, <1>6, <1>17 DEF Types, SockOnly
<1>. QED
  BY <1>1, <1>20, <1>21, <1>22 DEF WireInv

LEMMA ExitSentWire == ASSUME IInv, WireInv, ExitSent PROVE WireInv'
<1>1. /\ ctl.at = "sent" /\ sock[ctl.i].sema = 1
      /\ sock' = [sock EXCEPT ![ctl.i].sema = 0]
      /\ UNCHANGED <<client, to_pc, to_psp, session, faults>>
      /\ \A c \in Clients : At(c) \in Bare => On(c) # ctl.i
  BY DEF ExitSent, IInv, ExitAlone
<1>2. Types
  BY DEF WireInv
<1>3. PICK s \in Socks : s = ctl.i
  BY <1>2 DEF Types
<1>4. ~Busy(s) /\ Signals(s) /\ Left(s) /\ Whole(s)
  <2>1. Gone(s) /\ Whole(s)
    BY <1>1, <1>3 DEF WireInv, Pooled, ExitedBy
  <2>. QED
    BY <1>1, <1>3, <2>1 DEF Gone, Waits
<1>5. PICK x : x = ctl'
  OBVIOUS
<1>6. /\ x \in [at : {"none", "poll", "sent", "done"}, i : Socks]
      /\ (x.at = "done" /\ x.i = s) \/ (x.at = "poll" /\ x.i = s + 1)
  <2>1. CASE x = [ctl EXCEPT !.at = "done"]
    BY <1>2, <1>3, <2>1 DEF Types
  <2>2. CASE s # NumSock /\ x = [at |-> "poll", i |-> s + 1]
    <3>1. s + 1 \in Socks
      BY <2>2, NumSockNat
    <3>. QED
      BY <2>2, <3>1
  <2>. QED
    BY <1>3, <1>5, <2>1, <2>2 DEF ExitSent
<1>7. PICK so \in Sock : so = sock[s]
  BY <1>2 DEF Types
<1>8. PICK new : new = [so EXCEPT !.sema = 0]
  OBVIOUS
<1>9. new \in Sock /\ new.sema = 0 /\ new.busy = so.busy /\ new.wake = so.wake /\ new.at = so.at
  BY <1>8, SemaFacts
<1>10. sock' = [sock EXCEPT ![s] = new]
  BY <1>1, <1>3, <1>7, <1>8
<1>11. sock'[s] = new /\ SockOnly(s)
  BY <1>2, <1>9, <1>10 DEF Types, SockOnly
<1>13. s \in Nat /\ \A q \in Socks : q \in Nat
  BY NumSockNat
<1>12. CtlStep(s)
  <2>1. \A q \in Socks \ {s} : ExitedBy(q)' <=> ExitedBy(q)
    BY <1>1, <1>3, <1>5, <1>6, <1>13 DEF ExitedBy
  <2>. QED
    BY <1>1, <1>7, <1>9, <1>11, <2>1 DEF CtlStep, Busy
<1>14. ExitedBy(s)' /\ ctl'.at # "sent" /\ ctl'.at # "none"
  BY <1>5, <1>6, <1>13 DEF ExitedBy
<1>15. Gone(s)' /\ Whole(s)'
  <2>1. Still(s)' /\ ~Busy(s)'
    BY <1>4, <1>7, <1>9, <1>11 DEF Signals, Still, Busy
  <2>2. Left(s)' /\ Whole(s)'
    BY <1>1, <1>4 DEF Left, Whole
  <2>. QED
    BY <1>14, <2>1, <2>2 DEF Gone
<1>16. ASSUME NEW q \in Socks PROVE Pooled(q)'
  <2>1. CASE q = s
    BY <1>4, <1>12, <1>14, <1>15, <2>1 DEF Pooled, CtlStep
  <2>2. CASE q # s
    <3>1. ForExit(q)' <=> ForExit(q)
      BY <1>3, <1>14, <2>2 DEF ForExit
    <3>. QED
      BY <1>12, <2>2, <3>1, PooledExit DEF WireInv
  <2>. QED
    BY <2>1, <2>2
<1>17. ASSUME NEW c \in Clients PROVE Works(c)' /\ Copied(c)'
  <2>1. Works(c) /\ Copied(c) /\ (At(c) \in Bare => On(c) # s)
    BY <1>1, <1>3 DEF WireInv
  <2>2. Works(c)'
    BY <1>4, <1>12, <2>1, WorksExit
  <2>. QED
    BY <1>1, <2>1, <2>2 DEF Copied, At
<1>18. Types'
  BY <1>1, <1>2, <1>5, <1>6, <1>11 DEF Types, SockOnly
<1>19. ctl'.at # "none" => "exit" \in Ops
  BY <1>1 DEF WireInv
<1>. QED
  BY <1>16, <1>17, <1>18, <1>19 DEF WireInv

------------------------------------------------------------------------------
LEMMA InitWire == Init => WireInv
<1>. SUFFICES ASSUME Init PROVE WireInv
  OBVIOUS
<1>0. MaxLen \in Nat /\ MaxFaults \in Nat /\ 0 \in Socks
  BY WifiHostAssumption, NumSockNat
<1>1. PICK so : so = [busy |-> FALSE, operation |-> "none", length |-> 0, res |-> 0,
                      buf |-> <<>>, own |-> TRUE, wake |-> 0, sema |-> 0, at |-> "asleep"]
  OBVIOUS
<1>2. /\ so \in Sock /\ so.busy = FALSE /\ so.own = TRUE /\ so.wake = 0 /\ so.sema = 0
      /\ so.at = "asleep"
  BY <1>0, <1>1 DEF Sock
<1>3. PICK se : se = [at |-> "cmd", who |-> Ctl, len |-> 0, data |-> <<>>]
  OBVIOUS
<1>4. se \in Session /\ se.at = "cmd" /\ se.who = Ctl /\ se.len = 0 /\ se.data = <<>>
  BY <1>0, <1>3 DEF Session
<1>5. sock = [s \in Socks |-> so] /\ session = [s \in Socks |-> se]
  BY <1>1, <1>3 DEF Init
<1>6. /\ sock \in [Socks -> Sock] /\ session \in [Socks -> Session]
      /\ \A s \in Socks : sock[s] = so /\ session[s] = se
  BY <1>2, <1>4, <1>5
<1>7. ASSUME NEW c \in Clients
      PROVE  client[c] \in Client /\ At(c) = "idle" /\ client[c].op = "cmd" /\ client[c].ret = "none"
             /\ client[c].reply = c
  <2>1. PICK r : r = [at |-> "idle", op |-> "cmd", s |-> 0, len |-> 0, done |-> 0,
                      data |-> <<>>, ret |-> "none", reply |-> c]
    OBVIOUS
  <2>2. r \in Client
    BY <1>0, <2>1 DEF Client
  <2>3. client[c] = r
    BY <2>1 DEF Init
  <2>. QED
    BY <2>1, <2>2, <2>3 DEF At
<1>8. DOMAIN client = Clients /\ client \in [Clients -> Client]
  <2>1. client = [c \in Clients |-> client[c]]
    BY DEF Init
  <2>. QED
    BY <1>7, <2>1
<1>9. ctl = [at |-> "none", i |-> 0] /\ \A s \in Socks : to_pc[s] = <<>> /\ to_psp[s] = <<>>
  BY DEF Init
<1>10. Types
  <2>1. to_pc \in [Socks -> Seq(Unit)] /\ to_psp \in [Socks -> Seq(Unit)] /\ faults \in 0 .. MaxFaults
    BY <1>0 DEF Init
  <2>. QED
    BY <1>0, <1>6, <1>8, <1>9, <2>1 DEF Types
<1>11. \A c \in Clients : Works(c) /\ Copied(c)
  BY <1>7 DEF Works, Copied, Blocked
<1>12. ASSUME NEW s \in Socks PROVE Pooled(s)
  <2>1. Clean(s) /\ ~Busy(s) /\ ~ExitedBy(s)
    BY <1>2, <1>4, <1>6, <1>9 DEF Clean, Caught, Still, Busy, ExitedBy
  <2>2. Whole(s)
    <3>1. Data(Ctl, 0, 0) = <<>>
      <4>1. PICK zero \in Nat : zero = 0 /\ zero <= MaxLen
        BY <1>0
      <4>. QED
        BY <4>1, Constants, DataNone
    <3>. QED
      BY <1>4, <1>6, <3>1 DEF Whole
  <2>. QED
    BY <2>1, <2>2 DEF Pooled
<1>. QED
  BY <1>9, <1>10, <1>11, <1>12 DEF WireInv

LEMMA StillWire == ASSUME WireInv, UNCHANGED vars PROVE WireInv'
<1>1. sock' = sock /\ client' = client /\ ctl' = ctl /\ to_pc' = to_pc /\ to_psp' = to_psp
      /\ session' = session /\ faults' = faults
  BY DEF vars
<1>2. Types'
  BY <1>1 DEF WireInv, Types
<1>3. \A q : SameAt(q)
  BY <1>1 DEF SameAt
<1>4. ASSUME NEW c \in Clients PROVE Works(c)' /\ Copied(c)'
  <2>1. Works(c) /\ Copied(c)
    BY DEF WireInv
  <2>. QED
    BY <1>1, <1>3, <2>1, WorksOn DEF Copied, At
<1>5. ASSUME NEW q \in Socks PROVE Pooled(q)'
  <2>1. Unused(q)' => Unused(q)
    BY <1>1 DEF Unused, At, On
  <2>. QED
    BY <1>1, <1>3, <2>1, PooledOn DEF WireInv
<1>. QED
  BY <1>1, <1>2, <1>4, <1>5 DEF WireInv

LEMMA StepWire == ASSUME ~met', IInv, WireInv, [Next]_vars PROVE WireInv'
<1>1. ASSUME NEW c \in Clients, Begin(c) \/ ClientStep(c) PROVE WireInv'
  BY <1>1, BeginWire, LookWire, TakeWire, SentWire, BlockSentWire, RepliedWire, BlockReceivedWire,
     ReturnWire DEF ClientStep
<1>2. CASE DelDrv \/ SendExit \/ ExitSent
  BY <1>2, DelDrvWire, SendExitWire, ExitSentWire
<1>3. ASSUME NEW s \in Socks, SockStep(s) \/ SockFails(s) \/ PcStep(s) PROVE WireInv'
  BY <1>3, WakesWire, SendsWire, ReceivesWire, FailsWire, PcWire DEF SockStep
<1>4. CASE UNCHANGED vars
  BY <1>4, StillWire
<1>. QED
  BY <1>1, <1>2, <1>3, <1>4 DEF Next

(* The history is a truth value, whatever step is taken.                      *)
LEMMA MetType == ASSUME met \in BOOLEAN, [Next]_vars PROVE met' \in BOOLEAN
<1>1. met' = met => met' \in BOOLEAN
  OBVIOUS
<1>2. ASSUME NEW c \in Clients, Begin(c) \/ Take(c) \/ Sent(c) \/ BlockSent(c) PROVE met' = met
  BY <1>2, Zenon DEF Begin, Take, Sent, BlockSent
<1>3. ASSUME NEW c \in Clients, Replied(c) \/ BlockReceived(c) \/ Return(c) PROVE met' = met
  BY <1>3, Zenon DEF Replied, BlockReceived, Return
<1>4. ASSUME NEW c \in Clients, getIdleSock(c) PROVE met' \in BOOLEAN
  BY <1>4 DEF getIdleSock
<1>5. CASE SendExit
  BY <1>5 DEF SendExit
<1>6. CASE DelDrv \/ ExitSent
  BY <1>1, <1>6 DEF DelDrv, ExitSent
<1>7. ASSUME NEW s \in Socks, SockStep(s) \/ SockFails(s) PROVE met' = met
  BY <1>7 DEF SockStep, SockWakes, SockSends, SockReceives, SockFails
<1>8. ASSUME NEW s \in Socks, PcStep(s) PROVE met' = met
  BY <1>8 DEF PcStep, process_cmd, process_iowrite
<1>9. CASE UNCHANGED vars
  BY <1>1, <1>9 DEF vars
<1>. QED
  BY <1>1, <1>2, <1>3, <1>4, <1>5, <1>6, <1>7, <1>8, <1>9 DEF Next, ClientStep

(* All of it holds until two threads have met.                                *)
UntilMet == met \in BOOLEAN /\ (~met => IInv /\ WireInv)

LEMMA UntilMetInv == Spec => []UntilMet
<1>1. Init => UntilMet
  <2>1. Init => met \in BOOLEAN
    BY DEF Init
  <2>. QED
    BY <2>1, InitInv, InitWire DEF UntilMet
<1>2. ASSUME UntilMet, [Next]_vars PROVE UntilMet'
  <2>1. met' \in BOOLEAN
    BY <1>2, MetType DEF UntilMet
  <2>2. ASSUME ~met' PROVE IInv' /\ WireInv'
    <3>1. ~met
      BY <1>2, <2>2, MetStays
    <3>2. IInv /\ WireInv
      BY <1>2, <3>1 DEF UntilMet
    <3>. QED
      BY <1>2, <2>2, <3>2, StepInv, StepWire
  <2>. QED
    BY <2>1, <2>2 DEF UntilMet
<1>. QED
  BY <1>1, <1>2, PTL DEF Spec

LEMMA WirePoolClean == UntilMet => PoolClean
<1>. SUFFICES ASSUME UntilMet, ~met PROVE TypeOK /\ IdleClean /\ OwnReply
  BY DEF PoolClean
<1>0. WireInv /\ met \in BOOLEAN
  BY DEF UntilMet
<1>1. IdleClean
  BY <1>0 DEF WireInv, Pooled, Clean, Caught, Still, Busy, IdleClean
<1>2. OwnReply
  BY <1>0 DEF WireInv, Copied, OwnReply
<1>3. TypeOK
  BY <1>0 DEF WireInv, Types, TypeOK
<1>. QED
  BY <1>1, <1>2, <1>3

LEMMA WireDataIntact == UntilMet => DataIntact
<1>. SUFFICES ASSUME UntilMet, ~met PROVE DataIntact
  BY DEF DataIntact
<1>1. WireInv
  BY DEF UntilMet
<1>. QED
  BY <1>1 DEF WireInv, Copied, Pooled, Whole, At, DataIntact

(* Whatever the priorities of the clients, whatever calls fail on the network *)
(* and however sends and receives are cut in parts: until two threads have    *)
(* been together on a socket that neither had marked, getIdleSock only ever   *)
(* gives a call a socket with nothing left on it of the call before, and      *)
(* every call returns the reply to its own request.                           *)
THEOREM PoolStaysClean == Spec => []PoolClean
BY UntilMetInv, WirePoolClean, PTL

(* Until then, a read that succeeds has copied as many units as it says, in   *)
(* order and from the start, in blocks of any size and receives of any part   *)
(* of a block; and process_iowrite, once it has replied, has the whole of the *)
(* write.                                                                     *)
THEOREM DataWhole == Spec => []DataIntact
BY UntilMetInv, WireDataIntact, PTL

==============================================================================
