--------------------------- MODULE NetHostFsProofs ---------------------------
(* Proofs about NetHostFs: the connections of the PC server stay in step, -r  *)
(* keeps what is below rootdir, and the tables agree with what the PSP holds. *)
EXTENDS NetHostFs, SequenceTheorems, TLAPS

Data(r) == IF r.op = "write" THEN r.len ELSE 0

StepsOf(op) ==
    CASE op = "open" -> {"open", "path", "stat", "store", "opened", "reply"}
      [] op = "close" -> {"close", "reset", "reply"}
      [] op = "dopen" -> {"dopen", "scandir", "reply"}
      [] op = "dclose" -> {"dclose", "closing", "reply"}
      [] op = "read" -> {"read", "reply", "send"}
      [] op = "write" -> {"write", "recv", "reply"}
      [] OTHER -> {op, "reply"}

(* A thread inside a request: it is the one the PSP waits for, and the slot   *)
(* it looks at is one of the table.                                           *)
Serves(T, r) ==
    /\ T.req.op = r.op /\ T.req.h = r.h /\ T.req.w = r.w /\ T.req.len = r.len
    /\ T.at \in StepsOf(r.op)
    /\ T.at \in {"open", "path", "dopen", "scandir"} => T.req.path = r.path
    /\ T.at = "open" => T.i <= MaxFiles
    /\ T.at = "dopen" => T.i <= MaxDirs
    /\ T.at \in {"path", "stat", "store", "opened"} => T.i \in FileSlots
    /\ T.at = "store" => T.res \in Fds \cup {-1}
    /\ T.at = "scandir" => T.i \in DirSlots
    /\ ~T.again

(* What is under way on a connection: nothing; the request; the data of a     *)
(* write; the reply and the data of a read.                                   *)
Silence(t) == to_pc[t] = <<>> /\ to_psp[t] = <<>>
Unread(t) ==
    /\ to_pc[t] # <<>> /\ Head(to_pc[t]) = call[t] /\ Len(to_pc[t]) = 1 + Data(call[t])
    /\ to_psp[t] = <<>>
Answered(t) == to_pc[t] = <<>> /\ to_psp[t] # <<>> /\ Len(to_psp[t]) = ReplyLen(t)
Owed(T, r) ==
    CASE T.at = "write" -> r.len
      [] T.at = "recv" -> T.left
      [] OTHER -> 0
Working(t) ==
    /\ Serves(thread[t], call[t])
    /\ Len(to_pc[t]) = Owed(thread[t], call[t])
    /\ IF thread[t].at = "send"
       THEN /\ to_psp[t] # <<>> /\ Reply(t).n = thread[t].res
            /\ thread[t].left \in 1 .. thread[t].res
            /\ Len(to_psp[t]) = 1 + thread[t].res - thread[t].left
       ELSE to_psp[t] = <<>>

Wired(t) ==
    /\ call[t] \in Requests \cup {NoCall}
    /\ call[t] # NoCall /\ to_psp[t] # <<>> =>
           Reply(t).op = call[t].op /\ Len(to_psp[t]) <= ReplyLen(t)
    /\ thread[t].at # "closed" =>
           \/ call[t] = NoCall /\ thread[t].at = "cmd" /\ Silence(t)
           \/ call[t] # NoCall /\ thread[t].at = "cmd" /\ (Unread(t) \/ Answered(t))
           \/ call[t] # NoCall /\ thread[t].at # "cmd" /\ Working(t)

(* The result of a call, once the server knows it.                            *)
Decided(t) == call[t] # NoCall /\ (At(t, "reply") \/ to_psp[t] # <<>>)
Outcome(t) == IF to_psp[t] # <<>> THEN Reply(t).n ELSE thread[t].res

(* Nobody but hello and init gets past process_cmd before the login.          *)
LoggedIn ==
    /\ logged => g_login
    /\ \A t \in Threads : call[t].op \notin {"none", "hello", "init"} => g_login
    /\ \A t \in Threads : call[t].op = "init" /\ Decided(t) /\ Outcome(t) = 0 => g_login

TablesType ==
    /\ {rdonly, g_login, written} \subseteq BOOLEAN
    /\ files_table \in [FileSlots -> [name : Paths, fd : Fds \cup {-1, 0, 65535}]]
    /\ dirs_table \in [DirSlots -> [entries : Paths, pos : 0 .. MaxEntries, nentries : 0 .. MaxEntries, opened : BOOLEAN]]
    /\ kernel \in [Fds -> Files \cup {NoPath}]
WiresType ==
    /\ logged \in BOOLEAN
    /\ thread \in [Threads -> Thread]
    /\ to_pc \in [Threads -> Seq(Request)]
    /\ to_psp \in [Threads -> Seq([op : Ops \cup {"data"}, n : Int])]
    /\ call \in [Threads -> Request]
    /\ calls \in 0 .. MaxCalls
    /\ faults \in 0 .. MaxFaults

WInv == TablesType /\ WiresType /\ LoggedIn /\ \A t \in Threads : Wired(t)

------------------------------------------------------------------------------
(* The first states, and the helpers the steps are built from.               *)
LEMMA NoCallType == NoCall \in Request /\ NoCall.op = "none" /\ Ready \in Thread /\ Ready.at = "cmd" /\ ~Ready.again
<1>1. NoCall \in Request /\ NoCall.op = "none"
  BY NetHostFsAssumption DEF NoCall, Req, Request, Paths
<1>. QED
  BY <1>1 DEF Ready, Thread, Steps

LEMMA RequestsType ==
  ASSUME NEW r \in Requests
  PROVE  /\ r \in Request /\ r.op \in Ops /\ r # NoCall
         /\ r.op \in OnFile => r.h \in FileSlots
         /\ r.op \in OnDir => r.h \in DirSlots
         /\ r.op = "dopen" => r.path \in Dirs
         /\ r.op = "open" => r.path \in Files \cup Dirs
<1>1. \A op \in Ops \cup {"none", "data"} :
          Req(op) \in Request /\ Req(op).op = op /\ Req(op).h = 0 /\ Req(op).path = NoPath
  BY NetHostFsAssumption DEF Req, Request, Paths
<1>2. FileSlots \subseteq Nat /\ DirSlots \subseteq Nat
  BY NetHostFsAssumption DEF FileSlots, DirSlots
<1>3. SUFFICES /\ r \in Request /\ r.op \in Ops
               /\ r.op \in OnFile => r.h \in FileSlots
               /\ r.op \in OnDir => r.h \in DirSlots
               /\ r.op = "dopen" => r.path \in Dirs
               /\ r.op = "open" => r.path \in Files \cup Dirs
  BY NoCallType DEF Ops, OnFile, OnDir
<1>4. CASE r \in {Req(op) : op \in {"hello", "exit", "change", "chstat", "getstat"}}
  BY <1>1, <1>4 DEF Ops, OnFile, OnDir
<1>5. CASE r \in {[Req(op) EXCEPT !.w = b] : op \in {"init", "rename"}, b \in BOOLEAN}
  <2>1. PICK op \in {"init", "rename"}, b \in BOOLEAN : r = [Req(op) EXCEPT !.w = b]
    BY <1>5
  <2>2. r \in Request /\ r.op = op
    BY <1>1, <2>1 DEF Request, Ops, OnFile, OnDir
  <2>. QED
    BY <2>2 DEF Ops, OnFile, OnDir
<1>6. CASE r \in {OpenReq(p, w) : p \in Files \cup Dirs, w \in BOOLEAN}
  <2>1. PICK p \in Files \cup Dirs, w \in BOOLEAN : r = OpenReq(p, w)
    BY <1>6
  <2>2. Req("open") \in Request /\ Req("open").op = "open" /\ p \in Paths
    BY <1>1 DEF Ops, OnFile, OnDir, Paths
  <2>3. PICK q : q = [Req("open") EXCEPT !.path = p]
    OBVIOUS
  <2>4. q \in Request /\ q.op = "open" /\ q.path = p
    BY <2>2, <2>3 DEF Request
  <2>5. r = [q EXCEPT !.w = w]
    BY <2>1, <2>3 DEF OpenReq
  <2>6. r \in Request /\ r.op = "open" /\ r.path = p
    BY <2>4, <2>5 DEF Request
  <2>. QED
    BY <2>6 DEF Ops, OnFile, OnDir
<1>7. CASE r \in {[Req("dopen") EXCEPT !.path = p] : p \in Dirs}
  <2>1. PICK p \in Dirs : r = [Req("dopen") EXCEPT !.path = p]
    BY <1>7
  <2>2. Req("dopen") \in Request /\ Req("dopen").op = "dopen"
    BY <1>1 DEF Ops, OnFile, OnDir
  <2>3. r \in Request /\ r.op = "dopen" /\ r.path = p
    BY <2>1, <2>2 DEF Request, Paths
  <2>. QED
    BY <2>3 DEF Ops, OnFile, OnDir
<1>8. CASE r \in {[Req(op) EXCEPT !.h = h] : op \in {"close", "lseek"}, h \in FileSlots}
  <2>1. PICK op \in {"close", "lseek"}, h \in FileSlots : r = [Req(op) EXCEPT !.h = h]
    BY <1>8
  <2>2. Req(op) \in Request /\ Req(op).op = op
    BY <1>1 DEF Ops, OnFile, OnDir
  <2>3. r \in Request /\ r.op = op /\ r.h = h
    BY <1>2, <2>1, <2>2 DEF Request
  <2>. QED
    BY <2>3 DEF Ops, OnFile, OnDir
<1>9. CASE r \in {DataReq(op, h, n) : op \in {"read", "write"}, h \in FileSlots, n \in 1 .. Limit}
  <2>1. PICK op \in {"read", "write"}, h \in FileSlots, n \in 1 .. Limit : r = DataReq(op, h, n)
    BY <1>9
  <2>2. Req(op) \in Request /\ Req(op).op = op /\ n \in 0 .. Limit
    BY <1>1, NetHostFsAssumption DEF Ops, OnFile, OnDir
  <2>3. PICK q : q = [Req(op) EXCEPT !.h = h]
    OBVIOUS
  <2>4. q \in Request /\ q.op = op /\ q.h = h
    BY <1>2, <2>2, <2>3 DEF Request
  <2>5. r = [q EXCEPT !.len = n]
    BY <2>1, <2>3 DEF DataReq
  <2>6. r \in Request /\ r.op = op /\ r.h = h
    BY <2>2, <2>4, <2>5 DEF Request
  <2>. QED
    BY <2>6 DEF Ops, OnFile, OnDir
<1>10. CASE r \in {[Req(op) EXCEPT !.h = h] : op \in OnDir, h \in DirSlots}
  <2>1. PICK op \in OnDir, h \in DirSlots : r = [Req(op) EXCEPT !.h = h]
    BY <1>10
  <2>2. Req(op) \in Request /\ Req(op).op = op
    BY <1>1 DEF Ops, OnFile, OnDir
  <2>3. r \in Request /\ r.op = op /\ r.h = h
    BY <1>2, <2>1, <2>2 DEF Request
  <2>. QED
    BY <2>3 DEF Ops, OnFile, OnDir
<1>. QED
  BY <1>4, <1>5, <1>6, <1>7, <1>8, <1>9, <1>10 DEF Requests

(* Records with one or two fields changed.                                    *)
LEMMA AnswerFields ==
  ASSUME thread \in [Threads -> Thread], NEW t \in Threads, NEW v \in Int, Answer(t, v)
  PROVE  /\ thread' \in [Threads -> Thread]
         /\ \A u \in Threads : u # t => thread'[u] = thread[u]
         /\ thread'[t].at = "reply" /\ thread'[t].res = v /\ thread'[t].req = thread[t].req
         /\ thread'[t].i = thread[t].i /\ thread'[t].again = thread[t].again
<1>1. PICK q : q = [thread[t] EXCEPT !.at = "reply"]
  OBVIOUS
<1>2. q \in Thread /\ q.at = "reply" /\ q.req = thread[t].req /\ q.i = thread[t].i /\ q.again = thread[t].again
  BY <1>1 DEF Thread, Steps
<1>3. PICK x : x = [q EXCEPT !.res = v]
  OBVIOUS
<1>4. /\ x \in Thread /\ x.at = "reply" /\ x.res = v /\ x.req = thread[t].req
      /\ x.i = thread[t].i /\ x.again = thread[t].again
  BY <1>2, <1>3 DEF Thread
<1>5. thread' = [thread EXCEPT ![t] = x]
  BY <1>1, <1>3 DEF Answer
<1>. QED
  BY <1>4, <1>5

LEMMA GotoFields ==
  ASSUME thread \in [Threads -> Thread], NEW t \in Threads, NEW at \in Steps, Goto(t, at)
  PROVE  /\ thread' \in [Threads -> Thread]
         /\ \A u \in Threads : u # t => thread'[u] = thread[u]
         /\ thread'[t].at = at /\ thread'[t].res = thread[t].res /\ thread'[t].req = thread[t].req
         /\ thread'[t].i = thread[t].i /\ thread'[t].again = thread[t].again /\ thread'[t].left = thread[t].left
BY DEF Goto, Thread

LEMMA TypesInit == Init => WInv
<1>1. NoCall \in Request /\ NoCall \in Requests \cup {NoCall} /\ Ready \in Thread /\ Ready.at = "cmd" /\ NoCall.op = "none"
  BY NoCallType
<1>2. SUFFICES ASSUME Init PROVE WInv
  OBVIOUS
<1>3. TablesType
  <2>1. [name |-> NoPath, fd |-> 0] \in [name : Paths, fd : Fds \cup {-1, 0, 65535}]
    BY DEF Paths
  <2>2. FreeDir \in [entries : Paths, pos : 0 .. MaxEntries, nentries : 0 .. MaxEntries, opened : BOOLEAN]
    BY NetHostFsAssumption DEF FreeDir, Paths
  <2>3. {rdonly, g_login, written} \subseteq BOOLEAN
    BY <1>2 DEF Init
  <2>4. files_table \in [FileSlots -> [name : Paths, fd : Fds \cup {-1, 0, 65535}]]
    BY <1>2, <2>1 DEF Init
  <2>5. dirs_table \in [DirSlots -> [entries : Paths, pos : 0 .. MaxEntries, nentries : 0 .. MaxEntries, opened : BOOLEAN]]
    BY <1>2, <2>2 DEF Init
  <2>6. kernel \in [Fds -> Files \cup {NoPath}]
    BY <1>2 DEF Init
  <2>. QED
    BY <2>3, <2>4, <2>5, <2>6 DEF TablesType
<1>4. WiresType
  <2>1. MaxCalls \in Nat /\ MaxFaults \in Nat
    BY NetHostFsAssumption
  <2>5. calls \in 0 .. MaxCalls /\ faults \in 0 .. MaxFaults
    <3>1. calls = 0 /\ faults = 0
      BY <1>2 DEF Init
    <3>. QED
      BY <2>1, <3>1
  <2>6. logged \in BOOLEAN
    BY <1>2 DEF Init
  <2>2. thread \in [Threads -> Thread] /\ call \in [Threads -> Request]
    BY <1>1, <1>2 DEF Init
  <2>3. to_pc \in [Threads -> Seq(Request)]
    BY <1>2 DEF Init
  <2>4. to_psp \in [Threads -> Seq([op : Ops \cup {"data"}, n : Int])]
    BY <1>2 DEF Init
  <2>. QED
    BY <2>2, <2>3, <2>4, <2>5, <2>6 DEF WiresType
<1>5. LoggedIn
  BY <1>1, <1>2 DEF Init, LoggedIn
<1>6. \A t \in Threads : Wired(t)
  BY <1>1, <1>2 DEF Init, Wired, Silence
<1>. QED
  BY <1>3, <1>4, <1>5, <1>6 DEF WInv

(* Only what thread t sees of its connection changes; the others may end.     *)
LEMMA OthersWired ==
  ASSUME NEW t \in Threads, \A u \in Threads : Wired(u),
         \A u \in Threads \ {t} : /\ thread[u]' = thread[u] \/ thread[u].at' = "closed"
                                  /\ call[u]' = call[u] /\ to_pc[u]' = to_pc[u] /\ to_psp[u]' = to_psp[u],
         Wired(t)'
  PROVE  (\A u \in Threads : Wired(u))'
<1>1. SUFFICES ASSUME NEW u \in Threads \ {t} PROVE Wired(u)'
  OBVIOUS
<1>2. Wired(u) /\ call[u]' = call[u] /\ to_pc[u]' = to_pc[u] /\ to_psp[u]' = to_psp[u]
  OBVIOUS
<1>3. CASE thread[u].at' = "closed"
  BY <1>2, <1>3 DEF Wired, Reply, ReplyLen
<1>4. CASE thread[u]' = thread[u]
  BY <1>2, <1>4 DEF Wired, Reply, ReplyLen, Silence, Unread, Answered, Working
<1>. QED
  BY <1>3, <1>4

(* The wires and the call stay as they are and t goes on with its request.    *)
LEMMA WorksOn ==
  ASSUME NEW t \in Threads, Wired(t),
         thread[t].at \notin {"cmd", "closed", "send"},
         call[t]' = call[t], to_pc[t]' = to_pc[t], to_psp[t]' = to_psp[t],
         thread[t].at' \notin {"cmd", "closed", "send"},
         Serves(thread[t], call[t])',
         Owed(thread[t], call[t])' = Owed(thread[t], call[t])
  PROVE  Wired(t)'
<1>1. call[t] # NoCall /\ Working(t)
  BY DEF Wired
<1>2. Working(t)'
  BY <1>1 DEF Working
<1>. QED
  BY <1>1, <1>2 DEF Wired, Reply, ReplyLen

(* Who works on a request.                                                    *)
LEMMA Works ==
  ASSUME NEW t \in Threads, Wired(t), thread[t].at \notin {"cmd", "closed"}
  PROVE  /\ call[t] \in Requests /\ call[t] # NoCall
         /\ Serves(thread[t], call[t])
         /\ Len(to_pc[t]) = Owed(thread[t], call[t])
         /\ thread[t].at # "send" => to_psp[t] = <<>>
BY DEF Wired, Working

LEMMA LoginKept ==
  ASSUME WiresType, LoggedIn, g_login => g_login', logged' = logged, call' = call, NEW t \in Threads,
         \A u \in Threads \ {t} : /\ thread[u]' = thread[u] \/ thread[u].at' = "closed"
                                  /\ to_psp[u]' = to_psp[u],
         call[t].op = "init" /\ Decided(t)' /\ Outcome(t)' = 0 => g_login'
  PROVE  LoggedIn'
<1>1. \A u \in Threads \ {t} : Decided(u)' => Decided(u) /\ Outcome(u)' = Outcome(u)
  <2>1. SUFFICES ASSUME NEW u \in Threads \ {t}, Decided(u)' PROVE Decided(u) /\ Outcome(u)' = Outcome(u)
    OBVIOUS
  <2>2. CASE thread[u]' = thread[u]
    BY <2>1, <2>2 DEF Decided, Outcome, At, Reply
  <2>3. CASE thread[u].at' = "closed"
    BY <2>1, <2>3 DEF Decided, Outcome, At, Reply
  <2>. QED
    BY <2>2, <2>3
<1>2. \A u \in Threads : call[u].op = "init" /\ Decided(u)' /\ Outcome(u)' = 0 => g_login'
  BY <1>1 DEF LoggedIn
<1>. QED
  BY <1>2 DEF LoggedIn

(* A step of the server that leaves the wires alone.                          *)
LEMMA ServerStep ==
  ASSUME WInv, NEW t \in Threads, TablesType',
         UNCHANGED <<to_pc, to_psp, call, logged, calls, faults>>,
         g_login => g_login',
         thread' \in [Threads -> Thread], \A u \in Threads : u # t => thread'[u] = thread[u],
         thread[t].at \notin {"cmd", "closed", "send"},
         thread'[t].at \notin {"cmd", "closed", "send"},
         Serves(thread'[t], call[t]),
         Owed(thread'[t], call[t]) = Owed(thread[t], call[t]),
         call[t].op = "init" /\ thread'[t].at = "reply" /\ thread'[t].res = 0 => g_login'
  PROVE  WInv'
<1>1. WiresType'
  BY DEF WInv, WiresType
<1>2. Wired(t) /\ LoggedIn /\ WiresType /\ \A u \in Threads : Wired(u)
  BY DEF WInv
<1>3. Wired(t)'
  BY <1>2, WorksOn
<1>4. (\A u \in Threads : Wired(u))'
  BY <1>2, <1>3, OthersWired
<1>5. to_psp[t] = <<>>
  BY <1>2, Works
<1>6. call[t].op = "init" /\ Decided(t)' /\ Outcome(t)' = 0 => g_login'
  BY <1>5 DEF Decided, Outcome, At
<1>7. LoggedIn'
  BY <1>2, <1>6, LoginKept
<1>. QED
  BY <1>1, <1>4, <1>7 DEF WInv

(* The answer of a handler.                                                   *)
LEMMA AnswerStep ==
  ASSUME WInv, NEW t \in Threads, TablesType', NEW v \in Int, Answer(t, v),
         UNCHANGED <<to_pc, to_psp, call, logged, calls, faults>>,
         g_login => g_login',
         thread[t].at \notin {"cmd", "closed", "send", "reply"},
         thread[t].at = "write" => thread[t].req.len <= 0,
         thread[t].at = "recv" => thread[t].left = 0,
         thread[t].at = "init" => v # 0 \/ g_login'
  PROVE  WInv'
<1>1. thread \in [Threads -> Thread] /\ Wired(t) /\ call \in [Threads -> Request]
  BY DEF WInv, WiresType
<1>2. /\ thread' \in [Threads -> Thread]
      /\ \A u \in Threads : u # t => thread'[u] = thread[u]
      /\ thread'[t].at = "reply" /\ thread'[t].res = v /\ thread'[t].req = thread[t].req
      /\ thread'[t].i = thread[t].i /\ thread'[t].again = thread[t].again
  BY <1>1, AnswerFields
<1>3. Serves(thread[t], call[t])
  BY <1>1, Works
<1>4. Serves(thread'[t], call[t])
  BY <1>2, <1>3 DEF Serves, StepsOf
<1>5. Owed(thread'[t], call[t]) = Owed(thread[t], call[t])
  <2>1. call[t].len \in Nat /\ call[t].len = thread[t].req.len
    BY <1>1, <1>3, NetHostFsAssumption DEF Serves, Request
  <2>. QED
    BY <1>2, <2>1 DEF Owed
<1>6. call[t].op = "init" => thread[t].at = "init"
  BY <1>3 DEF Serves, StepsOf
<1>. QED
  BY <1>2, <1>4, <1>5, <1>6, ServerStep

LEMMA StepWired_process_cmd ==
  ASSUME WInv, NEW t \in Threads, process_cmd(t)
  PROVE  WInv'
<1>1. /\ thread \in [Threads -> Thread] /\ to_pc \in [Threads -> Seq(Request)] /\ call \in [Threads -> Request]
      /\ Wired(t) /\ LoggedIn /\ TablesType /\ WiresType /\ \A u \in Threads : Wired(u)
  BY DEF WInv, WiresType
<1>2. call[t] # NoCall /\ Unread(t) /\ call[t] \in Requests
  BY <1>1 DEF process_cmd, At, Wired, Silence, Answered
<1>3. /\ call[t] \in Request /\ call[t].op \in Ops /\ call[t].len \in Nat
  BY <1>1, <1>2, RequestsType, NetHostFsAssumption DEF Request
<1>4. g_login \/ call[t].op \in {"hello", "init"}
  BY <1>1, <1>3 DEF LoggedIn, Ops, OnFile, OnDir
<1>5. PICK q : q = [Ready EXCEPT !.req = call[t]]
  OBVIOUS
<1>6. q \in Thread /\ q.req = call[t] /\ q.i = 0 /\ q.res = 0 /\ ~q.again
  BY <1>3, <1>5, NoCallType DEF Ready, Thread
<1>7. PICK x : x = [q EXCEPT !.at = call[t].op]
  OBVIOUS
<1>8. x \in Thread /\ x.req = call[t] /\ x.i = 0 /\ x.res = 0 /\ ~x.again /\ x.at = call[t].op
  BY <1>3, <1>6, <1>7 DEF Thread, Steps
<1>9. thread' = [thread EXCEPT ![t] = x]
  BY <1>2, <1>4, <1>5, <1>7 DEF process_cmd, Unread
<1>10. thread' \in [Threads -> Thread] /\ thread'[t] = x /\ \A u \in Threads \ {t} : thread'[u] = thread[u]
  BY <1>1, <1>8, <1>9
<1>11. /\ to_pc' \in [Threads -> Seq(Request)] /\ to_pc'[t] = Tail(to_pc[t])
       /\ \A u \in Threads \ {t} : to_pc'[u] = to_pc[u]
  BY <1>1 DEF process_cmd
<1>12. UNCHANGED <<to_psp, call, logged, calls, faults, g_login>>
  BY DEF process_cmd, psp
<1>13. TablesType'
  BY <1>1 DEF TablesType, process_cmd, tables
<1>14. WiresType'
  BY <1>1, <1>10, <1>11, <1>12 DEF WiresType
<1>15. Len(to_pc'[t]) = Data(call[t])
  BY <1>1, <1>2, <1>3, <1>11 DEF Unread, Data
<1>16. Working(t)'
  <2>1. Serves(x, call[t])
    <3>1. call[t].op \in StepsOf(call[t].op) /\ call[t].op \notin {"path", "scandir", "stat", "store", "opened"}
      BY <1>3 DEF StepsOf, Ops, OnFile, OnDir
    <3>2. 0 <= MaxFiles /\ 0 <= MaxDirs
      BY NetHostFsAssumption
    <3>. QED
      BY <1>8, <3>1, <3>2 DEF Serves
  <2>2. call[t].op \notin {"recv", "send"}
    BY <1>3 DEF Ops, OnFile, OnDir
  <2>3. Owed(x, call[t]) = Data(call[t])
    BY <1>8, <2>2 DEF Owed, Data
  <2>4. to_psp'[t] = <<>>
    BY <1>2, <1>12 DEF Unread
  <2>. QED
    BY <1>8, <1>10, <1>12, <1>15, <2>1, <2>2, <2>3, <2>4 DEF Working
<1>17. Wired(t)'
  <2>1. call'[t] \in Requests /\ call'[t] # NoCall /\ to_psp'[t] = <<>> /\ thread'[t].at # "cmd"
    BY <1>2, <1>3, <1>8, <1>10, <1>12 DEF Unread, Ops, OnFile, OnDir
  <2>. QED
    BY <1>16, <2>1 DEF Wired
<1>18. (\A u \in Threads : Wired(u))'
  BY <1>1, <1>10, <1>11, <1>12, <1>17, OthersWired
<1>19. LoggedIn'
  <2>1. ~Decided(t)'
    BY <1>2, <1>3, <1>8, <1>10, <1>12 DEF Decided, At, Unread, Ops, OnFile, OnDir
  <2>2. call' = call /\ g_login' = g_login /\ logged' = logged
    BY <1>12
  <2>3. \A u \in Threads \ {t} : thread[u]' = thread[u] /\ to_psp[u]' = to_psp[u]
    BY <1>10, <1>12
  <2>. QED
    BY <1>1, <2>1, <2>2, <2>3, LoginKept
<1>. QED
  BY <1>13, <1>14, <1>18, <1>19 DEF WInv

LEMMA StepWired_SendReturn ==
  ASSUME WInv, NEW t \in Threads, SendReturn(t)
  PROVE  WInv'
<1>1. /\ thread \in [Threads -> Thread] /\ to_psp \in [Threads -> Seq([op : Ops \cup {"data"}, n : Int])]
      /\ call \in [Threads -> Request]
      /\ Wired(t) /\ LoggedIn /\ TablesType /\ WiresType /\ \A u \in Threads : Wired(u)
  BY DEF WInv, WiresType
<1>2. /\ call[t] \in Requests /\ call[t] # NoCall
      /\ Serves(thread[t], call[t])
      /\ Len(to_pc[t]) = Owed(thread[t], call[t]) /\ to_psp[t] = <<>>
      /\ thread[t].at = "reply"
  BY <1>1, Works DEF SendReturn, At
<1>3. /\ thread[t].req.op = call[t].op /\ ~thread[t].again /\ call[t].op \in Ops
      /\ thread[t].res \in Int /\ Len(to_pc[t]) = 0 /\ to_pc[t] \in Seq(Request)
  BY <1>1, <1>2, RequestsType DEF Serves, Owed, Thread, WiresType
<1>4. PICK m : m = [op |-> call[t].op, n |-> thread[t].res]
  OBVIOUS
<1>5. m \in [op : Ops \cup {"data"}, n : Int] /\ m.op = call[t].op /\ m.n = thread[t].res
  BY <1>3, <1>4
<1>a. PICK s : s = Append(<<>>, m)
  OBVIOUS
<1>b. s \in Seq([op : Ops \cup {"data"}, n : Int]) /\ s # <<>> /\ Len(s) = 1 /\ Head(s) = m
  BY <1>5, <1>a
<1>6. to_psp' = [to_psp EXCEPT ![t] = s]
  BY <1>1, <1>2, <1>3, <1>4, <1>a DEF SendReturn, Arg
<1>7. /\ to_psp' \in [Threads -> Seq([op : Ops \cup {"data"}, n : Int])]
      /\ \A u \in Threads \ {t} : to_psp'[u] = to_psp[u]
      /\ to_psp'[t] # <<>> /\ Len(to_psp'[t]) = 1 /\ Head(to_psp'[t]) = m
  BY <1>1, <1>b, <1>6
<1>8. UNCHANGED <<to_pc, call, logged, calls, faults, g_login>>
  BY DEF SendReturn, psp
<1>9. TablesType'
  BY <1>1 DEF TablesType, SendReturn, tables
<1>10. call'[t] = call[t] /\ to_pc'[t] = to_pc[t] /\ to_pc[t] = <<>>
  BY <1>3, <1>8
<1>11. ReplyLen(t)' = IF call[t].op = "read" /\ thread[t].res > 0 THEN 1 + thread[t].res ELSE 1
  BY <1>5, <1>7, <1>10 DEF ReplyLen, Reply
<1>12. /\ thread' \in [Threads -> Thread] /\ \A u \in Threads \ {t} : thread'[u] = thread[u]
       /\ Wired(t)'
  <2>1. CASE call[t].op = "read" /\ thread[t].res > 0
    <3>1. PICK q : q = [thread[t] EXCEPT !.at = "send"]
      OBVIOUS
    <3>2. /\ q \in Thread /\ q.at = "send" /\ q.req = thread[t].req /\ q.res = thread[t].res
          /\ q.i = thread[t].i /\ q.again = thread[t].again
      BY <1>1, <3>1 DEF Thread, Steps
    <3>3. PICK x : x = [q EXCEPT !.left = thread[t].res]
      OBVIOUS
    <3>4. /\ x \in Thread /\ x.at = "send" /\ x.req = thread[t].req /\ x.res = thread[t].res
          /\ x.i = thread[t].i /\ x.again = thread[t].again /\ x.left = thread[t].res
      BY <1>3, <2>1, <3>2, <3>3 DEF Thread
    <3>5. thread' = [thread EXCEPT ![t] = x]
      BY <1>1, <1>3, <2>1, <3>1, <3>3 DEF SendReturn, Arg
    <3>6. thread' \in [Threads -> Thread] /\ thread'[t] = x /\ \A u \in Threads \ {t} : thread'[u] = thread[u]
      BY <1>1, <3>4, <3>5
    <3>7. Working(t)'
      <4>1. Serves(x, call[t])
        BY <1>2, <1>3, <2>1, <3>4 DEF Serves, StepsOf
      <4>2. Owed(x, call[t]) = 0
        BY <3>4 DEF Owed
      <4>3. x.left \in 1 .. x.res /\ Len(to_psp'[t]) = 1 + x.res - x.left
        BY <1>3, <1>7, <2>1, <3>4
      <4>. QED
        BY <1>3, <1>5, <1>7, <1>10, <3>4, <3>6, <4>1, <4>2, <4>3 DEF Working, Reply
    <3>8. Len(to_psp'[t]) <= ReplyLen(t)'
      BY <1>3, <1>7, <1>11, <2>1
    <3>. QED
      BY <1>2, <1>5, <1>7, <1>10, <3>4, <3>6, <3>7, <3>8 DEF Wired, Reply
  <2>2. CASE ~(call[t].op = "read" /\ thread[t].res > 0)
    <3>1. thread' = [thread EXCEPT ![t] = Ready]
      BY <1>1, <1>3, <2>2 DEF SendReturn, Arg
    <3>2. thread' \in [Threads -> Thread] /\ thread'[t] = Ready /\ \A u \in Threads \ {t} : thread'[u] = thread[u]
      BY <1>1, <3>1, NoCallType
    <3>3. ReplyLen(t)' = 1
      BY <1>11, <2>2
    <3>4. Answered(t)'
      BY <1>7, <1>10, <3>3 DEF Answered
    <3>. QED
      BY <1>2, <1>5, <1>7, <1>10, <3>2, <3>3, <3>4, NoCallType DEF Wired, Reply
  <2>. QED
    BY <2>1, <2>2
<1>13. WiresType'
  BY <1>1, <1>7, <1>8, <1>12 DEF WiresType
<1>14. (\A u \in Threads : Wired(u))'
  BY <1>1, <1>7, <1>8, <1>12, OthersWired
<1>15. LoggedIn'
  <2>1. Outcome(t)' = thread[t].res
    BY <1>5, <1>7 DEF Outcome, Reply
  <2>2. Decided(t) /\ Outcome(t) = thread[t].res
    BY <1>2 DEF Decided, Outcome, At
  <2>3. call' = call /\ g_login' = g_login /\ logged' = logged
    BY <1>8
  <2>4. call[t].op = "init" /\ Decided(t)' /\ Outcome(t)' = 0 => g_login'
    BY <1>1, <2>1, <2>2, <2>3 DEF LoggedIn
  <2>5. \A u \in Threads \ {t} : thread[u]' = thread[u] /\ to_psp[u]' = to_psp[u]
    BY <1>7, <1>12
  <2>. QED
    BY <1>1, <2>3, <2>4, <2>5, LoginKept
<1>. QED
  BY <1>9, <1>13, <1>14, <1>15 DEF WInv

LEMMA MoreBehind ==
  ASSUME NEW S, NEW s \in Seq(S), NEW d \in Seq(S), s # <<>>
  PROVE  s \o d \in Seq(S) /\ s \o d # <<>> /\ Len(s \o d) = Len(s) + Len(d) /\ Head(s \o d) = Head(s)
<1>1. s \o d \in Seq(S) /\ Len(s \o d) = Len(s) + Len(d) /\ Len(s) \in Nat /\ Len(s) > 0 /\ Len(d) \in Nat
  BY EmptySeq
<1>2. s \o d # <<>>
  BY <1>1, EmptySeq
<1>3. (s \o d)[1] = s[1]
  BY <1>1
<1>. QED
  BY <1>1, <1>2, <1>3

LEMMA StepWired_ReadSend ==
  ASSUME WInv, NEW t \in Threads, ReadSend(t)
  PROVE  WInv'
<1>1. /\ thread \in [Threads -> Thread] /\ to_psp \in [Threads -> Seq([op : Ops \cup {"data"}, n : Int])]
      /\ call \in [Threads -> Request] /\ to_pc \in [Threads -> Seq(Request)]
      /\ Wired(t) /\ LoggedIn /\ TablesType /\ WiresType /\ \A u \in Threads : Wired(u)
  BY DEF WInv, WiresType
<1>2. /\ call[t] \in Requests /\ call[t] # NoCall /\ thread[t].at = "send"
      /\ Serves(thread[t], call[t]) /\ Len(to_pc[t]) = Owed(thread[t], call[t])
      /\ Working(t)
  BY <1>1, Works DEF ReadSend, At, Wired
<1>3. /\ to_psp[t] # <<>> /\ Reply(t).n = thread[t].res /\ Reply(t).op = call[t].op
      /\ thread[t].left \in 1 .. thread[t].res
      /\ Len(to_psp[t]) = 1 + thread[t].res - thread[t].left
      /\ Len(to_pc[t]) = 0 /\ call[t].op = "read"
  <2>1. /\ to_psp[t] # <<>> /\ Reply(t).n = thread[t].res
        /\ thread[t].left \in 1 .. thread[t].res
        /\ Len(to_psp[t]) = 1 + thread[t].res - thread[t].left
    BY <1>2 DEF Working
  <2>2. Reply(t).op = call[t].op
    BY <1>1, <1>2, <2>1 DEF Wired
  <2>3. Len(to_pc[t]) = 0
    BY <1>2 DEF Owed
  <2>4. call[t].op = "read"
    BY <1>2, RequestsType DEF Serves, StepsOf, Ops, OnFile, OnDir
  <2>. QED
    BY <2>1, <2>2, <2>3, <2>4
<1>4. thread[t] \in Thread /\ thread[t].res \in Int /\ thread[t].left \in Nat /\ blk_size \in Nat
  BY <1>1, NetHostFsAssumption DEF Thread
<1>5. PICK x \in 1 .. Least(blk_size, thread[t].left) :
           /\ to_psp' = [to_psp EXCEPT ![t] = @ \o [k \in 1 .. x |-> [op |-> "data", n |-> 0]]]
           /\ thread' = [thread EXCEPT ![t] = IF x = @.left THEN Ready ELSE [@ EXCEPT !.left = thread[t].left - x]]
  BY DEF ReadSend
<1>6. x \in Nat /\ 1 <= x /\ x <= thread[t].left
  BY <1>4, <1>5 DEF Least
<1>7. PICK d : d = [k \in 1 .. x |-> [op |-> "data", n |-> 0]]
  OBVIOUS
<1>8. d \in Seq([op : Ops \cup {"data"}, n : Int]) /\ Len(d) = x
  BY <1>6, <1>7
<1>9. to_psp' = [to_psp EXCEPT ![t] = to_psp[t] \o d]
  BY <1>1, <1>5, <1>7
<1>10. PICK s : s = to_psp[t] \o d
  OBVIOUS
<1>11. /\ s \in Seq([op : Ops \cup {"data"}, n : Int]) /\ s # <<>>
       /\ Len(s) = Len(to_psp[t]) + x /\ Head(s) = Head(to_psp[t])
  <2>1. to_psp[t] \in Seq([op : Ops \cup {"data"}, n : Int]) /\ to_psp[t] # <<>>
    BY <1>1, <1>3
  <2>. QED
    BY <1>6, <1>8, <1>10, <2>1, MoreBehind
<1>12. /\ to_psp' \in [Threads -> Seq([op : Ops \cup {"data"}, n : Int])]
       /\ to_psp'[t] = s /\ \A u \in Threads \ {t} : to_psp'[u] = to_psp[u]
  BY <1>1, <1>9, <1>10, <1>11
<1>13. UNCHANGED <<to_pc, call, logged, calls, faults, g_login>>
  BY DEF ReadSend, psp
<1>14. TablesType'
  BY <1>1 DEF TablesType, ReadSend, tables
<1>15. call'[t] = call[t] /\ to_pc'[t] = to_pc[t] /\ to_pc[t] = <<>>
  BY <1>1, <1>3, <1>13
<1>16. Reply(t)' = Reply(t) /\ ReplyLen(t)' = 1 + thread[t].res
  <2>1. Reply(t)' = Reply(t)
    BY <1>11, <1>12 DEF Reply
  <2>2. thread[t].res > 0
    BY <1>3, <1>4
  <2>. QED
    BY <1>3, <1>15, <2>1, <2>2 DEF ReplyLen
<1>17. Len(s) = 1 + thread[t].res - (thread[t].left - x)
  BY <1>3, <1>4, <1>6, <1>11
<1>18. /\ thread' \in [Threads -> Thread] /\ \A u \in Threads \ {t} : thread'[u] = thread[u]
       /\ Wired(t)'
  <2>1. CASE x = thread[t].left
    <3>1. thread' = [thread EXCEPT ![t] = Ready]
      BY <1>1, <1>5, <2>1
    <3>2. thread' \in [Threads -> Thread] /\ thread'[t] = Ready /\ \A u \in Threads \ {t} : thread'[u] = thread[u]
      BY <1>1, <3>1, NoCallType
    <3>3. Answered(t)'
      BY <1>4, <1>11, <1>12, <1>15, <1>16, <1>17, <2>1 DEF Answered
    <3>4. Len(to_psp'[t]) <= ReplyLen(t)'
      BY <1>4, <1>12, <1>16, <1>17, <2>1
    <3>. QED
      BY <1>2, <1>3, <1>15, <1>16, <3>2, <3>3, <3>4, NoCallType DEF Wired
  <2>2. CASE x # thread[t].left
    <3>1. PICK q : q = [thread[t] EXCEPT !.left = thread[t].left - x]
      OBVIOUS
    <3>2. /\ q \in Thread /\ q.at = "send" /\ q.req = thread[t].req /\ q.res = thread[t].res
          /\ q.i = thread[t].i /\ q.again = thread[t].again /\ q.left = thread[t].left - x
      BY <1>2, <1>4, <1>6, <3>1 DEF Thread
    <3>3. thread' = [thread EXCEPT ![t] = q]
      BY <1>1, <1>5, <2>2, <3>1
    <3>4. thread' \in [Threads -> Thread] /\ thread'[t] = q /\ \A u \in Threads \ {t} : thread'[u] = thread[u]
      BY <1>1, <3>2, <3>3
    <3>5. Working(t)'
      <4>1. Serves(q, call[t])
        BY <1>2, <3>2 DEF Serves, StepsOf
      <4>2. Owed(q, call[t]) = 0
        BY <3>2 DEF Owed
      <4>3. q.left \in 1 .. q.res /\ Len(to_psp'[t]) = 1 + q.res - q.left
        BY <1>3, <1>4, <1>6, <1>12, <1>17, <2>2, <3>2
      <4>. QED
        BY <1>3, <1>11, <1>12, <1>15, <1>16, <3>2, <3>4, <4>1, <4>2, <4>3 DEF Working
    <3>6. Len(to_psp'[t]) <= ReplyLen(t)'
      BY <1>4, <1>6, <1>12, <1>16, <1>17
    <3>. QED
      BY <1>2, <1>3, <1>15, <1>16, <3>2, <3>4, <3>5, <3>6 DEF Wired
  <2>. QED
    BY <2>1, <2>2
<1>19. WiresType'
  BY <1>1, <1>12, <1>13, <1>18 DEF WiresType
<1>20. (\A u \in Threads : Wired(u))'
  BY <1>1, <1>12, <1>13, <1>18, OthersWired
<1>21. LoggedIn'
  <2>1. call' = call /\ g_login' = g_login /\ logged' = logged
    BY <1>13
  <2>2. \A u \in Threads \ {t} : thread[u]' = thread[u] /\ to_psp[u]' = to_psp[u]
    BY <1>12, <1>18
  <2>. QED
    BY <1>1, <1>3, <2>1, <2>2, LoginKept
<1>. QED
  BY <1>14, <1>19, <1>20, <1>21 DEF WInv

LEMMA StepWired_process_iowrite ==
  ASSUME WInv, NEW t \in Threads, process_iowrite(t)
  PROVE  WInv'
<1>1. /\ thread \in [Threads -> Thread] /\ call \in [Threads -> Request]
      /\ Wired(t) /\ TablesType
  BY DEF WInv, WiresType
<1>2. call[t] \in Requests /\ Serves(thread[t], call[t]) /\ thread[t].at = "write" /\ call[t].op = "write"
  BY <1>1, Works, RequestsType DEF process_iowrite, At, Serves, StepsOf, Ops, OnFile, OnDir
<1>3. UNCHANGED <<to_pc, to_psp, call, logged, calls, faults, g_login>>
  BY DEF process_iowrite, Rest, Wire, psp
<1>4. TablesType'
  BY <1>1 DEF TablesType, process_iowrite, tables
<1>5. CASE Arg(t).len <= 0
  <2>1. Answer(t, 0)
    BY <1>5 DEF process_iowrite
  <2>. QED
    BY <1>2, <1>3, <1>4, <1>5, <2>1, AnswerStep DEF Arg
<1>6. CASE ~(Arg(t).len <= 0)
  <2>1. PICK v \in {-1, 0} : thread' = [thread EXCEPT ![t].at = "recv", ![t].left = Arg(t).len, ![t].res = v]
    BY <1>6, Zenon DEF process_iowrite
  <2>2. PICK q : q = [thread[t] EXCEPT !.at = "recv"]
    OBVIOUS
  <2>3. /\ q \in Thread /\ q.at = "recv" /\ q.req = thread[t].req
        /\ q.i = thread[t].i /\ q.again = thread[t].again
    BY <1>1, <2>2 DEF Thread, Steps
  <2>4. PICK y : y = [q EXCEPT !.left = Arg(t).len]
    OBVIOUS
  <2>5. Arg(t).len \in Nat
    BY <1>1, NetHostFsAssumption DEF Arg, Thread, Request
  <2>6. /\ y \in Thread /\ y.at = "recv" /\ y.req = thread[t].req /\ y.left = Arg(t).len
        /\ y.i = thread[t].i /\ y.again = thread[t].again
    BY <2>3, <2>4, <2>5 DEF Thread
  <2>7. PICK x : x = [y EXCEPT !.res = v]
    OBVIOUS
  <2>8. /\ x \in Thread /\ x.at = "recv" /\ x.req = thread[t].req /\ x.left = Arg(t).len
        /\ x.i = thread[t].i /\ x.again = thread[t].again
    BY <2>1, <2>6, <2>7 DEF Thread
  <2>9. thread' = [thread EXCEPT ![t] = x]
    BY <1>1, <2>1, <2>2, <2>4, <2>7
  <2>10. thread' \in [Threads -> Thread] /\ thread'[t] = x /\ \A u \in Threads : u # t => thread'[u] = thread[u]
    BY <1>1, <2>8, <2>9
  <2>11. Serves(x, call[t])
    BY <1>2, <2>8 DEF Serves, StepsOf
  <2>12. Owed(x, call[t]) = Owed(thread[t], call[t])
    BY <1>2, <2>8 DEF Owed, Serves, Arg
  <2>. QED
    BY <1>2, <1>3, <1>4, <2>8, <2>10, <2>11, <2>12, ServerStep
<1>. QED
  BY <1>5, <1>6

LEMMA StepWired_WriteRecv ==
  ASSUME WInv, NEW t \in Threads, WriteRecv(t)
  PROVE  WInv'
<1>1. /\ thread \in [Threads -> Thread] /\ to_pc \in [Threads -> Seq(Request)] /\ call \in [Threads -> Request]
      /\ Wired(t) /\ LoggedIn /\ TablesType /\ WiresType /\ \A u \in Threads : Wired(u)
  BY DEF WInv, WiresType
<1>2. /\ call[t] \in Requests /\ call[t] # NoCall /\ thread[t].at = "recv"
      /\ Serves(thread[t], call[t]) /\ Len(to_pc[t]) = thread[t].left /\ to_psp[t] = <<>>
  BY <1>1, Works DEF WriteRecv, At, Owed
<1>3. thread[t] \in Thread /\ thread[t].left \in Nat /\ blk_size \in Nat
  BY <1>1, NetHostFsAssumption DEF Thread
<1>4. PICK x \in 1 .. Least(blk_size, thread[t].left) :
           /\ to_pc' = [to_pc EXCEPT ![t] = SubSeq(@, x + 1, Len(@))]
           /\ thread' = [thread EXCEPT ![t].left = @ - x]
  BY DEF WriteRecv
<1>5. x \in Nat /\ 1 <= x /\ x <= thread[t].left
  BY <1>3, <1>4 DEF Least
<1>6. PICK s : s = SubSeq(to_pc[t], x + 1, Len(to_pc[t]))
  OBVIOUS
<1>7. s \in Seq(Request) /\ Len(s) = thread[t].left - x
  <2>1. to_pc[t] \in Seq(Request) /\ x + 1 \in 1 .. Len(to_pc[t]) + 1 /\ Len(to_pc[t]) \in 0 .. Len(to_pc[t])
    BY <1>1, <1>2, <1>3, <1>5
  <2>2. s \in Seq(Request) /\ Len(s) = IF x + 1 <= Len(to_pc[t]) THEN Len(to_pc[t]) - (x + 1) + 1 ELSE 0
    BY <1>6, <2>1, SubSeqProperties
  <2>. QED
    BY <1>2, <1>3, <1>5, <2>2
<1>8. /\ to_pc' \in [Threads -> Seq(Request)]
      /\ to_pc'[t] = s /\ \A u \in Threads \ {t} : to_pc'[u] = to_pc[u]
  BY <1>1, <1>4, <1>6, <1>7
<1>9. PICK q : q = [thread[t] EXCEPT !.left = thread[t].left - x]
  OBVIOUS
<1>10. /\ q \in Thread /\ q.at = "recv" /\ q.req = thread[t].req /\ q.left = thread[t].left - x
       /\ q.i = thread[t].i /\ q.again = thread[t].again
  BY <1>2, <1>3, <1>5, <1>9 DEF Thread
<1>11. thread' = [thread EXCEPT ![t] = q]
  BY <1>1, <1>4, <1>9
<1>12. thread' \in [Threads -> Thread] /\ thread'[t] = q /\ \A u \in Threads \ {t} : thread'[u] = thread[u]
  BY <1>1, <1>10, <1>11
<1>13. UNCHANGED <<to_psp, call, logged, calls, faults, g_login>>
  BY DEF WriteRecv, psp
<1>14. TablesType'
  BY <1>1 DEF TablesType, WriteRecv, tables
<1>15. Wired(t)'
  <2>1. Serves(q, call[t]) /\ Owed(q, call[t]) = q.left
    BY <1>2, <1>10 DEF Serves, StepsOf, Owed
  <2>2. Working(t)'
    BY <1>2, <1>7, <1>8, <1>10, <1>12, <1>13, <2>1 DEF Working
  <2>. QED
    BY <1>2, <1>10, <1>12, <1>13, <2>2 DEF Wired
<1>16. WiresType'
  BY <1>1, <1>8, <1>12, <1>13 DEF WiresType
<1>17. (\A u \in Threads : Wired(u))'
  BY <1>1, <1>8, <1>12, <1>13, <1>15, OthersWired
<1>18. LoggedIn'
  <2>1. call' = call /\ g_login' = g_login /\ logged' = logged
    BY <1>13
  <2>2. \A u \in Threads \ {t} : thread[u]' = thread[u] /\ to_psp[u]' = to_psp[u]
    BY <1>12, <1>13
  <2>3. ~Decided(t)'
    BY <1>2, <1>10, <1>12, <1>13 DEF Decided, At
  <2>. QED
    BY <1>1, <2>1, <2>2, <2>3, LoginKept
<1>. QED
  BY <1>14, <1>16, <1>17, <1>18 DEF WInv

LEMMA StepWired_WriteFile ==
  ASSUME WInv, NEW t \in Threads, WriteFile(t)
  PROVE  WInv'
<1>1. thread \in [Threads -> Thread] /\ TablesType
  BY DEF WInv, WiresType
<1>2. Arg(t).len \in Nat
  BY <1>1, NetHostFsAssumption DEF Arg, Thread, Request
<1>3. PICK n \in IF thread[t].res < 0 THEN {-1}
                 ELSE IF rdonly THEN {Arg(t).len}
                 ELSE Transferred(Fd(t), Arg(t).len) : Answer(t, n) /\ Modify(~rdonly /\ n > 0)
  BY DEF WriteFile
<1>4. n \in Int
  BY <1>2, <1>3 DEF Transferred
<1>5. TablesType'
  <2>1. written' \in BOOLEAN
    BY <1>1, <1>3 DEF Modify, TablesType
  <2>2. UNCHANGED <<rdonly, g_login, files_table, dirs_table, kernel>>
    BY DEF WriteFile, tables
  <2>. QED
    BY <1>1, <2>1, <2>2 DEF TablesType
<1>6. UNCHANGED <<to_pc, to_psp, call, logged, calls, faults, g_login>>
  BY DEF WriteFile, Rest, Wire, psp
<1>7. thread[t].at = "recv" /\ thread[t].left = 0
  BY DEF WriteFile, At
<1>. QED
  BY <1>3, <1>4, <1>5, <1>6, <1>7, AnswerStep

LEMMA HeadIn ==
  ASSUME NEW S, NEW s \in Seq(S), s # <<>>
  PROVE  Head(s) \in S
<1>1. Len(s) \in Nat /\ Len(s) # 0
  BY EmptySeq
<1>2. 1 \in 1 .. Len(s)
  BY <1>1
<1>. QED
  BY <1>1, <1>2

LEMMA StepWired_Call ==
  ASSUME WInv, NEW t \in Threads, NEW r \in Requests, Call(t, r)
  PROVE  WInv'
<1>1. /\ thread \in [Threads -> Thread] /\ to_pc \in [Threads -> Seq(Request)] /\ call \in [Threads -> Request]
      /\ Wired(t) /\ LoggedIn /\ TablesType /\ WiresType /\ \A u \in Threads : Wired(u)
  BY DEF WInv, WiresType
<1>2. call[t] = NoCall /\ thread[t].at = "cmd" /\ to_pc[t] = <<>> /\ to_psp[t] = <<>>
  BY <1>1 DEF Call, Wired, Silence
<1>3. r \in Request /\ r.op \in Ops /\ r # NoCall
  BY RequestsType
<1>4. Data(r) \in Nat
  BY <1>3, NetHostFsAssumption DEF Data, Request
<1>5. PICK d : d = [i \in 1 .. Data(r) |-> Req("data")]
  OBVIOUS
<1>6. d \in Seq(Request) /\ Len(d) = Data(r)
  <2>1. Req("data") \in Request
    BY NetHostFsAssumption DEF Req, Request, Paths
  <2>. QED
    BY <1>4, <1>5, <2>1
<1>7. PICK s : s = <<r>> \o d
  OBVIOUS
<1>8. s \in Seq(Request) /\ s # <<>> /\ Head(s) = r /\ Len(s) = 1 + Data(r)
  <2>1. <<r>> \in Seq(Request) /\ <<r>> # <<>> /\ Len(<<r>>) = 1 /\ Head(<<r>>) = r
    BY <1>3
  <2>. QED
    BY <1>6, <1>7, <2>1, MoreBehind
<1>9. to_pc' = [to_pc EXCEPT ![t] = s]
  <2>1. to_pc' = [to_pc EXCEPT ![t] = (to_pc[t] \o <<r>>) \o d]
    BY <1>1, <1>5 DEF Call, Data
  <2>2. to_pc[t] \o <<r>> = <<r>>
    BY <1>2, <1>3
  <2>. QED
    BY <1>7, <2>1, <2>2
<1>10. /\ to_pc' \in [Threads -> Seq(Request)]
       /\ to_pc'[t] = s /\ \A u \in Threads \ {t} : to_pc'[u] = to_pc[u]
  BY <1>1, <1>8, <1>9
<1>11. /\ call' \in [Threads -> Request]
       /\ call'[t] = r /\ \A u \in Threads \ {t} : call'[u] = call[u]
  BY <1>1, <1>3 DEF Call
<1>12. UNCHANGED <<thread, to_psp, logged, faults, g_login>>
  BY DEF Call, server
<1>13. TablesType'
  BY <1>1 DEF TablesType, Call, server, tables
<1>14. WiresType'
  <2>1. calls' \in 0 .. MaxCalls
    BY <1>1, NetHostFsAssumption DEF Call, WiresType
  <2>. QED
    BY <1>1, <1>10, <1>11, <1>12, <2>1 DEF WiresType
<1>15. Wired(t)'
  BY <1>2, <1>3, <1>8, <1>10, <1>11, <1>12 DEF Wired, Unread
<1>16. (\A u \in Threads : Wired(u))'
  BY <1>1, <1>10, <1>11, <1>12, <1>15, OthersWired
<1>17. LoggedIn'
  <2>1. r.op \notin {"hello", "init"} => g_login
    BY <1>1 DEF Call, Legal, LoggedIn
  <2>2. \A u \in Threads : call'[u].op \notin {"none", "hello", "init"} => g_login
    BY <1>1, <1>11, <2>1 DEF LoggedIn
  <2>3. ~Decided(t)'
    BY <1>2, <1>12 DEF Decided, At
  <2>4. \A u \in Threads \ {t} : /\ Decided(u)' <=> Decided(u)
                                 /\ Outcome(u)' = Outcome(u)
    BY <1>11, <1>12 DEF Decided, Outcome, At, Reply
  <2>. QED
    BY <1>1, <1>11, <1>12, <2>2, <2>3, <2>4 DEF LoggedIn
<1>. QED
  BY <1>13, <1>14, <1>16, <1>17 DEF WInv

LEMMA StepWired_Receive ==
  ASSUME WInv, NEW t \in Threads, Receive(t)
  PROVE  WInv'
<1>1. /\ thread \in [Threads -> Thread] /\ call \in [Threads -> Request]
      /\ to_psp \in [Threads -> Seq([op : Ops \cup {"data"}, n : Int])]
      /\ Wired(t) /\ LoggedIn /\ TablesType /\ WiresType /\ \A u \in Threads : Wired(u)
  BY DEF WInv, WiresType
<1>2. call[t] # NoCall /\ to_psp[t] # <<>> /\ Len(to_psp[t]) >= ReplyLen(t)
  BY DEF Receive
<1>3. to_psp[t] \in Seq([op : Ops \cup {"data"}, n : Int]) /\ Reply(t).n \in Int
  <2>1. to_psp[t] \in Seq([op : Ops \cup {"data"}, n : Int]) /\ to_psp[t] # <<>>
    BY <1>1, <1>2
  <2>2. Head(to_psp[t]) \in [op : Ops \cup {"data"}, n : Int]
    BY <2>1, HeadIn
  <2>. QED
    BY <2>1, <2>2 DEF Reply
<1>4. ReplyLen(t) \in Nat /\ ReplyLen(t) >= 1
  BY <1>3 DEF ReplyLen
<1>5. Len(to_psp[t]) = ReplyLen(t)
  BY <1>1, <1>2, <1>3, <1>4 DEF Wired
<1>6. SubSeq(to_psp[t], ReplyLen(t) + 1, Len(to_psp[t])) = <<>>
  BY <1>3, <1>4, <1>5
<1>7. to_psp' = [to_psp EXCEPT ![t] = <<>>]
  BY <1>1, <1>6 DEF Receive
<1>8. /\ to_psp' \in [Threads -> Seq([op : Ops \cup {"data"}, n : Int])]
      /\ to_psp'[t] = <<>> /\ \A u \in Threads \ {t} : to_psp'[u] = to_psp[u]
  BY <1>1, <1>7, EmptySeq
<1>9. /\ call' \in [Threads -> Request]
      /\ call'[t] = NoCall /\ \A u \in Threads \ {t} : call'[u] = call[u]
  BY <1>1, NoCallType DEF Receive
<1>10. UNCHANGED <<thread, to_pc, calls, faults, g_login>>
  BY DEF Receive, server
<1>11. TablesType'
  BY <1>1 DEF TablesType, Receive, server, tables
<1>12. WiresType'
  <2>1. logged' \in BOOLEAN
    BY <1>1 DEF Receive, WiresType
  <2>. QED
    BY <1>1, <1>8, <1>9, <1>10, <2>1 DEF WiresType
<1>13. thread[t].at # "closed" => thread[t].at = "cmd" /\ to_pc[t] = <<>>
  <2>1. SUFFICES ASSUME thread[t].at # "closed", thread[t].at # "cmd" PROVE FALSE
    BY <1>1, <1>2 DEF Wired, Unread, Answered
  <2>2. Working(t) /\ Serves(thread[t], call[t]) /\ call[t] \in Requests
    BY <1>1, <2>1, Works DEF Wired
  <2>3. /\ thread[t].at = "send" /\ Reply(t).n = thread[t].res
        /\ thread[t].left \in 1 .. thread[t].res
        /\ Len(to_psp[t]) = 1 + thread[t].res - thread[t].left
    BY <1>2, <2>2 DEF Working
  <2>4. call[t].op = "read"
    BY <2>2, <2>3, RequestsType DEF Serves, StepsOf, Ops, OnFile, OnDir
  <2>5. thread[t].res \in Int
    BY <1>3, <2>3
  <2>6. ReplyLen(t) = 1 + thread[t].res
    BY <2>3, <2>4, <2>5 DEF ReplyLen
  <2>7. PICK a \in Int, b \in Int : a = thread[t].res /\ b = thread[t].left
    BY <2>3, <2>5
  <2>8. 1 + a = 1 + a - b
    BY <1>5, <2>3, <2>6, <2>7
  <2>9. b >= 1
    BY <2>3, <2>7
  <2>. QED
    BY <2>7, <2>8, <2>9
<1>14. Wired(t)'
  BY <1>8, <1>9, <1>10, <1>13 DEF Wired, Silence
<1>15. (\A u \in Threads : Wired(u))'
  BY <1>1, <1>8, <1>9, <1>10, <1>14, OthersWired
<1>16. LoggedIn'
  <2>1. logged' => g_login
    BY <1>1, <1>2 DEF Receive, LoggedIn, Decided, Outcome
  <2>2. \A u \in Threads \ {t} : /\ Decided(u)' <=> Decided(u)
                                 /\ Outcome(u)' = Outcome(u)
    BY <1>8, <1>9, <1>10 DEF Decided, Outcome, At, Reply
  <2>. QED
    BY <1>1, <1>9, <1>10, <2>1, <2>2, NoCallType DEF LoggedIn
<1>. QED
  BY <1>11, <1>12, <1>15, <1>16 DEF WInv

LEMMA StepWired_Lose ==
  ASSUME WInv, NEW t \in Threads, Lose(t)
  PROVE  WInv'
<1>1. /\ call \in [Threads -> Request]
      /\ LoggedIn /\ TablesType /\ WiresType /\ \A u \in Threads : Wired(u)
  BY DEF WInv, WiresType
<1>2. /\ call' \in [Threads -> Request]
      /\ call'[t] = NoCall /\ \A u \in Threads \ {t} : call'[u] = call[u]
  BY <1>1, NoCallType DEF Lose
<1>3. UNCHANGED <<thread, to_pc, to_psp, logged, calls, faults, g_login>> /\ thread[t].at = "closed"
  BY DEF Lose, server
<1>4. TablesType'
  BY <1>1 DEF TablesType, Lose, server, tables
<1>5. WiresType'
  BY <1>1, <1>2, <1>3 DEF WiresType
<1>6. Wired(t)'
  BY <1>2, <1>3 DEF Wired
<1>7. (\A u \in Threads : Wired(u))'
  BY <1>1, <1>2, <1>3, <1>6, OthersWired
<1>8. LoggedIn'
  <2>1. \A u \in Threads \ {t} : /\ Decided(u)' <=> Decided(u)
                                 /\ Outcome(u)' = Outcome(u)
    BY <1>2, <1>3 DEF Decided, Outcome, At, Reply
  <2>. QED
    BY <1>1, <1>2, <1>3, <2>1, NoCallType DEF LoggedIn
<1>. QED
  BY <1>4, <1>5, <1>7, <1>8 DEF WInv

LEMMA StepWired_End ==
  ASSUME WInv, NEW ended \in SUBSET Threads, NEW t \in ended, End(ended), faults' \in 0 .. MaxFaults
  PROVE  WInv'
<1>1. thread \in [Threads -> Thread] /\ LoggedIn /\ TablesType /\ WiresType /\ \A u \in Threads : Wired(u)
  BY DEF WInv, WiresType
<1>2. Closed \in Thread /\ Closed.at = "closed"
  BY NoCallType DEF Closed, Thread, Steps
<1>3. /\ thread' \in [Threads -> Thread]
      /\ \A u \in Threads : thread'[u] = thread[u] \/ thread'[u].at = "closed"
      /\ thread'[t].at = "closed"
  BY <1>1, <1>2 DEF End
<1>4. UNCHANGED <<to_pc, to_psp, call, logged, calls, g_login>>
  BY DEF End, Wire, psp
<1>5. TablesType'
  <2>1. kernel' \in [Fds -> Files \cup {NoPath}]
    BY <1>1 DEF TablesType, End
  <2>. QED
    BY <1>1, <2>1 DEF TablesType, End, tables
<1>6. WiresType'
  BY <1>1, <1>3, <1>4 DEF WiresType
<1>7. Wired(t)'
  BY <1>1, <1>3, <1>4 DEF Wired, Reply, ReplyLen
<1>8. (\A u \in Threads : Wired(u))'
  BY <1>1, <1>3, <1>4, <1>7, OthersWired
<1>9. LoggedIn'
  <2>1. call' = call /\ logged' = logged /\ g_login' = g_login
    BY <1>4
  <2>2. \A u \in Threads \ {t} : (thread[u]' = thread[u] \/ thread[u].at' = "closed") /\ to_psp[u]' = to_psp[u]
    BY <1>3, <1>4
  <2>3. Decided(t)' => Decided(t) /\ Outcome(t)' = Outcome(t)
    BY <1>3, <1>4 DEF Decided, Outcome, At, Reply
  <2>4. call[t].op = "init" /\ Decided(t)' /\ Outcome(t)' = 0 => g_login'
    BY <1>1, <2>1, <2>3 DEF LoggedIn
  <2>. QED
    BY <1>1, <2>1, <2>2, <2>4, LoginKept
<1>. QED
  BY <1>5, <1>6, <1>8, <1>9 DEF WInv

LEMMA FdType ==
  ASSUME TablesType, NEW i \in FileSlots
  PROVE  files_table[i].fd \in Int /\ files_table[i].name \in Paths
<1>1. files_table[i] \in [name : Paths, fd : Fds \cup {-1, 0, 65535}]
  BY DEF TablesType
<1>2. files_table[i].fd \in Fds \cup {-1, 0, 65535} /\ files_table[i].name \in Paths
  BY <1>1
<1>3. \A x \in Fds : x \in Int
  BY NetHostFsAssumption
<1>4. -1 \in Int /\ 0 \in Int /\ 65535 \in Int
  OBVIOUS
<1>5. files_table[i].fd \in Int
  BY <1>2, <1>3, <1>4
<1>. QED
  BY <1>2, <1>5

LEMMA StoreType ==
  ASSUME TablesType, NEW i \in FileSlots, NEW fd \in Fds \cup {-1, 0, 65535}, Store(i, fd)
  PROVE  /\ files_table' \in [FileSlots -> [name : Paths, fd : Fds \cup {-1, 0, 65535}]]
         /\ files_table'[i].fd = fd /\ files_table'[i].name = files_table[i].name
         /\ \A k \in FileSlots \ {i} : files_table'[k] = files_table[k]
BY DEF TablesType, Store

LEMMA TransferredType ==
  ASSUME NEW fd, NEW n \in Int, NEW x \in Transferred(fd, n)
  PROVE  x \in Int
BY DEF Transferred

(* What the handlers do with the tables keeps their types.                    *)
LEMMA DirStored ==
  ASSUME TablesType, NEW i \in DirSlots, NEW e \in Paths, NEW p \in 0 .. MaxEntries,
         NEW n \in 0 .. MaxEntries, NEW o \in BOOLEAN,
         dirs_table' = [dirs_table EXCEPT ![i] = [entries |-> e, pos |-> p, nentries |-> n, opened |-> o]],
         UNCHANGED <<rdonly, g_login, written, files_table, kernel>>
  PROVE  TablesType'
<1>1. [entries |-> e, pos |-> p, nentries |-> n, opened |-> o]
          \in [entries : Paths, pos : 0 .. MaxEntries, nentries : 0 .. MaxEntries, opened : BOOLEAN]
  OBVIOUS
<1>2. dirs_table' \in [DirSlots -> [entries : Paths, pos : 0 .. MaxEntries, nentries : 0 .. MaxEntries, opened : BOOLEAN]]
  BY <1>1 DEF TablesType
<1>. QED
  BY <1>2 DEF TablesType

LEMMA FileStored ==
  ASSUME TablesType,
         files_table' \in [FileSlots -> [name : Paths, fd : Fds \cup {-1, 0, 65535}]],
         kernel' \in [Fds -> Files \cup {NoPath}], written' \in BOOLEAN,
         UNCHANGED <<rdonly, g_login, dirs_table>>
  PROVE  TablesType'
BY DEF TablesType

LEMMA StepWired_process_ioinit ==
  ASSUME WInv, NEW t \in Threads, process_ioinit(t)
  PROVE  WInv'
<1>1. TablesType
  BY DEF WInv
<1>2. UNCHANGED <<to_pc, to_psp, call, logged, calls, faults, rdonly, kernel, written>> /\ thread[t].at = "init"
  BY DEF process_ioinit, Rest, Wire, psp, At
<1>3. CASE ~g_login /\ ~Arg(t).w
  <2>1. Answer(t, -2) /\ UNCHANGED <<g_login, tables>>
    BY <1>3 DEF process_ioinit
  <2>2. TablesType'
    BY <1>1, <1>2, <2>1 DEF TablesType, tables
  <2>. QED
    BY <1>2, <2>1, <2>2, AnswerStep
<1>4. CASE ~(~g_login /\ ~Arg(t).w)
  <2>1. /\ g_login' = TRUE
        /\ files_table' = [i \in FileSlots |-> [name |-> NoPath, fd |-> -1]]
        /\ dirs_table' = [i \in DirSlots |-> FreeDir]
        /\ Answer(t, 0)
    BY <1>4 DEF process_ioinit
  <2>2. files_table' \in [FileSlots -> [name : Paths, fd : Fds \cup {-1, 0, 65535}]]
    BY <2>1 DEF Paths
  <2>3. FreeDir \in [entries : Paths, pos : 0 .. MaxEntries, nentries : 0 .. MaxEntries, opened : BOOLEAN]
    BY NetHostFsAssumption DEF FreeDir, Paths
  <2>4. dirs_table' \in [DirSlots -> [entries : Paths, pos : 0 .. MaxEntries, nentries : 0 .. MaxEntries, opened : BOOLEAN]]
    BY <2>1, <2>3
  <2>5. TablesType'
    BY <1>1, <1>2, <2>1, <2>2, <2>4 DEF TablesType
  <2>. QED
    BY <1>2, <2>1, <2>5, AnswerStep
<1>. QED
  BY <1>3, <1>4

LEMMA StepWired_FindFile ==
  ASSUME WInv, NEW t \in Threads, FindFile(t)
  PROVE  WInv'
<1>1. TablesType /\ thread \in [Threads -> Thread] /\ Wired(t)
  BY DEF WInv, WiresType
<1>2. /\ UNCHANGED <<to_pc, to_psp, call, logged, calls, faults, rdonly, g_login, dirs_table, kernel, written>>
      /\ thread[t].at = "open"
  BY DEF FindFile, Rest, Wire, psp, At
<1>3. /\ call[t] \in Requests /\ Serves(thread[t], call[t]) /\ call[t].op = "open"
      /\ thread[t].i <= MaxFiles /\ thread[t].i \in Nat /\ MaxFiles \in Nat
      /\ thread[t] \in Thread /\ Arg(t).path \in Paths
  <2>1. call[t] \in Requests /\ Serves(thread[t], call[t])
    BY <1>1, <1>2, Works
  <2>2. call[t].op = "open"
    BY <1>2, <2>1, RequestsType DEF Serves, StepsOf, Ops, OnFile, OnDir
  <2>3. thread[t] \in Thread /\ thread[t].i \in Nat /\ Arg(t).path \in Paths
    BY <1>1 DEF Thread, Arg, Request
  <2>4. MaxFiles \in Nat
    BY NetHostFsAssumption
  <2>5. thread[t].i <= MaxFiles
    BY <1>2, <2>1 DEF Serves
  <2>. QED
    BY <2>1, <2>2, <2>3, <2>4, <2>5
<1>4. CASE Answer(t, -1) /\ UNCHANGED files_table
  <2>1. TablesType'
    BY <1>1, <1>2, <1>4 DEF TablesType
  <2>. QED
    BY <1>2, <1>4, <2>1, AnswerStep
<1>5. CASE thread[t].i < MaxFiles /\ thread' = [thread EXCEPT ![t].i = thread[t].i + 1] /\ UNCHANGED files_table
  <2>1. TablesType'
    BY <1>1, <1>2, <1>5 DEF TablesType
  <2>2. PICK q : q = [thread[t] EXCEPT !.i = thread[t].i + 1]
    OBVIOUS
  <2>3. /\ q \in Thread /\ q.at = "open" /\ q.req = thread[t].req /\ q.i = thread[t].i + 1
        /\ q.again = thread[t].again
    BY <1>2, <1>3, <2>2 DEF Thread
  <2>4. thread' = [thread EXCEPT ![t] = q]
    BY <1>1, <1>5, <2>2
  <2>5. thread' \in [Threads -> Thread] /\ thread'[t] = q /\ \A u \in Threads : u # t => thread'[u] = thread[u]
    BY <1>1, <2>3, <2>4
  <2>6. Serves(q, call[t]) /\ Owed(q, call[t]) = Owed(thread[t], call[t])
    BY <1>2, <1>3, <1>5, <2>3 DEF Serves, StepsOf, Owed
  <2>. QED
    BY <1>2, <2>1, <2>3, <2>5, <2>6, ServerStep
<1>6. CASE thread[t].i < MaxFiles /\ files_table' = [files_table EXCEPT ![thread[t].i].name = Arg(t).path] /\ Goto(t, "path")
  <2>1. thread[t].i \in FileSlots
    BY <1>3, <1>6 DEF FileSlots
  <2>2. files_table' \in [FileSlots -> [name : Paths, fd : Fds \cup {-1, 0, 65535}]]
    BY <1>1, <1>3, <1>6, <2>1 DEF TablesType
  <2>3. TablesType'
    BY <1>1, <1>2, <2>2 DEF TablesType
  <2>4. /\ thread' \in [Threads -> Thread]
        /\ \A u \in Threads : u # t => thread'[u] = thread[u]
        /\ thread'[t].at = "path" /\ thread'[t].req = thread[t].req
        /\ thread'[t].i = thread[t].i /\ thread'[t].again = thread[t].again
    BY <1>1, <1>6, GotoFields DEF Steps
  <2>5. Serves(thread'[t], call[t]) /\ Owed(thread'[t], call[t]) = Owed(thread[t], call[t])
    BY <1>2, <1>3, <2>1, <2>4 DEF Serves, StepsOf, Owed
  <2>. QED
    BY <1>2, <2>3, <2>4, <2>5, ServerStep
<1>. QED
  BY <1>4, <1>5, <1>6 DEF FindFile

LEMMA StepWired_MakePath ==
  ASSUME WInv, NEW t \in Threads, MakePath(t)
  PROVE  WInv'
<1>1. TablesType /\ thread \in [Threads -> Thread] /\ Wired(t)
  BY DEF WInv, WiresType
<1>2. /\ UNCHANGED <<to_pc, to_psp, call, logged, calls, faults, rdonly, g_login, files_table, dirs_table, kernel, written>>
      /\ thread[t].at = "path"
  BY DEF MakePath, Rest, Wire, psp, At, tables
<1>3. /\ call[t] \in Requests /\ Serves(thread[t], call[t]) /\ call[t].op = "open"
      /\ thread[t].i \in FileSlots /\ thread[t] \in Thread
  BY <1>1, <1>2, Works, RequestsType DEF Serves, StepsOf, Ops, OnFile, OnDir
<1>4. files_table[thread[t].i].name \in Paths
  BY <1>1, <1>3, FdType
<1>5. PICK r : r = [thread[t].req EXCEPT !.path = files_table[thread[t].i].name]
  OBVIOUS
<1>6. /\ r \in Request /\ r.path = files_table[thread[t].i].name /\ r.op = thread[t].req.op
      /\ r.h = thread[t].req.h /\ r.w = thread[t].req.w /\ r.len = thread[t].req.len
  BY <1>3, <1>4, <1>5 DEF Thread, Request
<1>7. PICK q : q = [thread[t] EXCEPT !.at = "stat"]
  OBVIOUS
<1>8. q \in Thread /\ q.at = "stat" /\ q.req = thread[t].req /\ q.i = thread[t].i /\ q.again = thread[t].again
  BY <1>3, <1>7 DEF Thread, Steps
<1>9. PICK x : x = [q EXCEPT !.req = r]
  OBVIOUS
<1>10. x \in Thread /\ x.at = "stat" /\ x.req = r /\ x.i = thread[t].i /\ x.again = thread[t].again
  BY <1>6, <1>8, <1>9 DEF Thread
<1>11. thread' = [thread EXCEPT ![t] = x]
  BY <1>1, <1>5, <1>7, <1>8, <1>9 DEF MakePath
<1>12. thread' \in [Threads -> Thread] /\ thread'[t] = x /\ \A u \in Threads : u # t => thread'[u] = thread[u]
  BY <1>1, <1>10, <1>11
<1>13. Serves(x, call[t]) /\ Owed(x, call[t]) = Owed(thread[t], call[t])
  BY <1>2, <1>3, <1>6, <1>10 DEF Serves, StepsOf, Owed
<1>14. TablesType'
  BY <1>1, <1>2 DEF TablesType
<1>. QED
  BY <1>2, <1>10, <1>12, <1>13, <1>14, ServerStep

(* The fields of a thread after Got.                                          *)
LEMMA GotFields ==
  ASSUME thread \in [Threads -> Thread], NEW t \in Threads, NEW fd \in Int, Got(t, fd)
  PROVE  /\ thread' \in [Threads -> Thread]
         /\ \A u \in Threads : u # t => thread'[u] = thread[u]
         /\ thread'[t].at = "store" /\ thread'[t].res = fd /\ thread'[t].req = thread[t].req
         /\ thread'[t].i = thread[t].i /\ thread'[t].again = thread[t].again
<1>1. thread[t] \in Thread
  OBVIOUS
<1>2. PICK q : q = [thread[t] EXCEPT !.at = "store"]
  OBVIOUS
<1>3. /\ q \in Thread /\ q.at = "store" /\ q.req = thread[t].req /\ q.i = thread[t].i
      /\ q.again = thread[t].again
  BY <1>1, <1>2 DEF Thread, Steps
<1>4. PICK x : x = [q EXCEPT !.res = fd]
  OBVIOUS
<1>5. /\ x \in Thread /\ x.at = "store" /\ x.res = fd /\ x.req = thread[t].req /\ x.i = thread[t].i
      /\ x.again = thread[t].again
  BY <1>3, <1>4 DEF Thread
<1>6. thread' = [thread EXCEPT ![t] = x]
  BY <1>2, <1>4 DEF Got
<1>. QED
  BY <1>5, <1>6

LEMMA StepWired_OpenFile ==
  ASSUME WInv, NEW t \in Threads, OpenFile(t)
  PROVE  WInv'
<1>1. TablesType /\ thread \in [Threads -> Thread] /\ Wired(t)
  BY DEF WInv, WiresType
<1>2. /\ UNCHANGED <<to_pc, to_psp, call, logged, calls, faults, rdonly, g_login, dirs_table>>
      /\ thread[t].at = "stat"
  BY DEF OpenFile, Rest, Wire, psp, At
<1>3. /\ call[t] \in Requests /\ Serves(thread[t], call[t]) /\ call[t].op = "open"
      /\ thread[t].i \in FileSlots
  BY <1>1, <1>2, Works, RequestsType DEF Serves, StepsOf, Ops, OnFile, OnDir
<1>a. /\ files_table \in [FileSlots -> [name : Paths, fd : Fds \cup {-1, 0, 65535}]]
      /\ kernel \in [Fds -> Files \cup {NoPath}] /\ written \in BOOLEAN
  BY <1>1 DEF TablesType
<1>4. CASE Goto(t, "opened") /\ UNCHANGED <<kernel, written>> /\ (files_table' = files_table \/ Store(thread[t].i, 65535))
  <2>1. files_table' \in [FileSlots -> [name : Paths, fd : Fds \cup {-1, 0, 65535}]]
    <3>1. CASE files_table' = files_table
      BY <1>a, <3>1
    <3>2. CASE Store(thread[t].i, 65535)
      <4>1. 65535 \in Fds \cup {-1, 0, 65535}
        OBVIOUS
      <4>. QED
        BY <1>1, <1>3, <3>2, <4>1, StoreType
    <3>. QED
      BY <1>4, <3>1, <3>2
  <2>2. TablesType'
    BY <1>1, <1>2, <1>4, <1>a, <2>1, FileStored
  <2>3. /\ thread' \in [Threads -> Thread]
        /\ \A u \in Threads : u # t => thread'[u] = thread[u]
        /\ thread'[t].at = "opened" /\ thread'[t].req = thread[t].req
        /\ thread'[t].i = thread[t].i /\ thread'[t].again = thread[t].again
    BY <1>1, <1>4, GotoFields DEF Steps
  <2>4. Serves(thread'[t], call[t]) /\ Owed(thread'[t], call[t]) = Owed(thread[t], call[t])
    BY <1>2, <1>3, <2>3 DEF Serves, StepsOf, Owed
  <2>. QED
    BY <1>2, <2>2, <2>3, <2>4, ServerStep
<1>5. CASE /\ UNCHANGED files_table
           /\ \/ Got(t, -1) /\ UNCHANGED <<kernel, written>>
              \/ /\ Arg(t).path \in Files /\ Modify(Arg(t).w)
                 /\ \E fd \in Fds : kernel' = [kernel EXCEPT ![fd] = Arg(t).path] /\ Got(t, fd)
  <2>1. PICK fd \in Fds \cup {-1} : Got(t, fd)
    BY <1>5
  <2>2. fd \in Int
    BY NetHostFsAssumption
  <2>3. kernel' \in [Fds -> Files \cup {NoPath}] /\ written' \in BOOLEAN
    <3>1. CASE UNCHANGED <<kernel, written>>
      BY <1>a, <3>1
    <3>2. CASE /\ Arg(t).path \in Files /\ Modify(Arg(t).w)
               /\ \E x \in Fds : kernel' = [kernel EXCEPT ![x] = Arg(t).path]
      <4>1. Arg(t).w \in BOOLEAN
        BY <1>1 DEF Arg, Thread, Request
      <4>. QED
        BY <1>a, <3>2, <4>1 DEF Modify
    <3>. QED
      BY <1>5, <3>1, <3>2
  <2>4. TablesType'
    BY <1>1, <1>2, <1>5, <1>a, <2>3, FileStored
  <2>5. /\ thread' \in [Threads -> Thread]
        /\ \A u \in Threads : u # t => thread'[u] = thread[u]
        /\ thread'[t].at = "store" /\ thread'[t].res = fd /\ thread'[t].req = thread[t].req
        /\ thread'[t].i = thread[t].i /\ thread'[t].again = thread[t].again
    BY <1>1, <2>1, <2>2, GotFields
  <2>6. Serves(thread'[t], call[t]) /\ Owed(thread'[t], call[t]) = Owed(thread[t], call[t])
    BY <1>2, <1>3, <2>1, <2>5 DEF Serves, StepsOf, Owed
  <2>. QED
    BY <1>2, <2>4, <2>5, <2>6, ServerStep
<1>. QED
  BY <1>4, <1>5 DEF OpenFile

LEMMA StepWired_StoreFile ==
  ASSUME WInv, NEW t \in Threads, StoreFile(t)
  PROVE  WInv'
<1>1. TablesType /\ thread \in [Threads -> Thread] /\ Wired(t)
  BY DEF WInv, WiresType
<1>2. /\ UNCHANGED <<to_pc, to_psp, call, logged, calls, faults, rdonly, g_login, dirs_table, kernel, written>>
      /\ thread[t].at = "store" /\ Goto(t, "opened") /\ Store(thread[t].i, thread[t].res)
  BY DEF StoreFile, Rest, Wire, psp, At
<1>3. /\ call[t] \in Requests /\ Serves(thread[t], call[t]) /\ call[t].op = "open"
      /\ thread[t].i \in FileSlots /\ thread[t].res \in Fds \cup {-1}
  BY <1>1, <1>2, Works, RequestsType DEF Serves, StepsOf, Ops, OnFile, OnDir
<1>4. files_table' \in [FileSlots -> [name : Paths, fd : Fds \cup {-1, 0, 65535}]]
  BY <1>1, <1>2, <1>3, StoreType
<1>5. TablesType'
  <2>1. kernel' \in [Fds -> Files \cup {NoPath}] /\ written' \in BOOLEAN
    BY <1>1, <1>2 DEF TablesType
  <2>. QED
    BY <1>1, <1>2, <1>4, <2>1, FileStored
<1>6. /\ thread' \in [Threads -> Thread]
      /\ \A u \in Threads : u # t => thread'[u] = thread[u]
      /\ thread'[t].at = "opened" /\ thread'[t].req = thread[t].req
      /\ thread'[t].i = thread[t].i /\ thread'[t].again = thread[t].again
  BY <1>1, <1>2, GotoFields DEF Steps
<1>7. Serves(thread'[t], call[t]) /\ Owed(thread'[t], call[t]) = Owed(thread[t], call[t])
  BY <1>2, <1>3, <1>6 DEF Serves, StepsOf, Owed
<1>. QED
  BY <1>2, <1>5, <1>6, <1>7, ServerStep

LEMMA StepWired_Opened ==
  ASSUME WInv, NEW t \in Threads, Opened(t)
  PROVE  WInv'
<1>1. TablesType /\ thread \in [Threads -> Thread] /\ Wired(t)
  BY DEF WInv, WiresType
<1>2. /\ UNCHANGED <<to_pc, to_psp, call, logged, calls, faults, rdonly, g_login, files_table, dirs_table, kernel, written>>
      /\ thread[t].at = "opened"
  BY DEF Opened, Rest, Wire, psp, At, tables
<1>3. thread[t].i \in FileSlots
  BY <1>1, <1>2, Works DEF Serves
<1>4. PICK v \in Int : Answer(t, v)
  <2>1. thread[t].i \in Int
    BY <1>3, NetHostFsAssumption DEF FileSlots
  <2>. QED
    BY <1>1, <1>3, <2>1, FdType DEF Opened
<1>5. TablesType'
  BY <1>1, <1>2 DEF TablesType
<1>. QED
  BY <1>2, <1>4, <1>5, AnswerStep

LEMMA StepWired_process_ioclose ==
  ASSUME WInv, NEW t \in Threads, process_ioclose(t)
  PROVE  WInv'
<1>1. TablesType /\ thread \in [Threads -> Thread] /\ Wired(t)
  BY DEF WInv, WiresType
<1>2. /\ UNCHANGED <<to_pc, to_psp, call, logged, calls, faults, rdonly, g_login, dirs_table, written>>
      /\ thread[t].at = "close"
  BY DEF process_ioclose, Rest, Wire, psp, At
<1>a. /\ files_table \in [FileSlots -> [name : Paths, fd : Fds \cup {-1, 0, 65535}]]
      /\ kernel \in [Fds -> Files \cup {NoPath}] /\ written \in BOOLEAN
  BY <1>1 DEF TablesType
<1>b. /\ call[t] \in Requests /\ Serves(thread[t], call[t]) /\ call[t].op = "close"
      /\ Arg(t).h = call[t].h /\ call[t].h \in FileSlots
  BY <1>1, <1>2, Works, RequestsType DEF Serves, StepsOf, Ops, OnFile, OnDir, Arg
<1>3. CASE UNCHANGED <<files_table, kernel>> /\ Answer(t, -1)
  <2>1. TablesType'
    BY <1>1, <1>2, <1>3 DEF TablesType
  <2>. QED
    BY <1>2, <1>3, <2>1, AnswerStep
<1>4. CASE Store(Arg(t).h, -1) /\ Answer(t, 0) /\ UNCHANGED kernel
  <2>1. -1 \in Fds \cup {-1, 0, 65535}
    OBVIOUS
  <2>2. files_table' \in [FileSlots -> [name : Paths, fd : Fds \cup {-1, 0, 65535}]]
    BY <1>1, <1>4, <1>b, <2>1, StoreType
  <2>3. TablesType'
    BY <1>1, <1>2, <1>4, <1>a, <2>2, FileStored
  <2>. QED
    BY <1>2, <1>4, <2>3, AnswerStep
<1>5. CASE IsOpen(Fd(t)) /\ kernel' = [kernel EXCEPT ![Fd(t)] = NoPath] /\ Goto(t, "reset") /\ UNCHANGED files_table
  <2>1. kernel' \in [Fds -> Files \cup {NoPath}]
    <3>1. PICK d : d = Fd(t)
      OBVIOUS
    <3>2. kernel' = [kernel EXCEPT ![d] = NoPath]
      BY <1>5, <3>1
    <3>3. d \in Fds
      BY <1>5, <3>1 DEF IsOpen
    <3>. QED
      BY <1>a, <3>2, <3>3
  <2>2. TablesType'
    BY <1>1, <1>2, <1>5, <1>a, <2>1, FileStored
  <2>3. /\ thread' \in [Threads -> Thread]
        /\ \A u \in Threads : u # t => thread'[u] = thread[u]
        /\ thread'[t].at = "reset" /\ thread'[t].req = thread[t].req
        /\ thread'[t].i = thread[t].i /\ thread'[t].again = thread[t].again
    BY <1>1, <1>5, GotoFields DEF Steps
  <2>4. Serves(thread'[t], call[t]) /\ Owed(thread'[t], call[t]) = Owed(thread[t], call[t])
    BY <1>2, <1>b, <2>3 DEF Serves, StepsOf, Owed
  <2>. QED
    BY <1>2, <2>2, <2>3, <2>4, ServerStep
<1>. QED
  BY <1>3, <1>4, <1>5 DEF process_ioclose

LEMMA StepWired_ResetFile ==
  ASSUME WInv, NEW t \in Threads, ResetFile(t)
  PROVE  WInv'
<1>1. TablesType /\ thread \in [Threads -> Thread] /\ Wired(t)
  BY DEF WInv, WiresType
<1>2. /\ UNCHANGED <<to_pc, to_psp, call, logged, calls, faults, rdonly, g_login, dirs_table, kernel, written>>
      /\ thread[t].at = "reset" /\ Store(Arg(t).h, -1) /\ Answer(t, 0)
  BY DEF ResetFile, Rest, Wire, psp, At
<1>3. Arg(t).h \in FileSlots
  BY <1>1, <1>2, Works, RequestsType DEF Serves, StepsOf, Ops, OnFile, OnDir, Arg
<1>4. -1 \in Fds \cup {-1, 0, 65535}
  OBVIOUS
<1>5. files_table' \in [FileSlots -> [name : Paths, fd : Fds \cup {-1, 0, 65535}]]
  BY <1>1, <1>2, <1>3, <1>4, StoreType
<1>6. TablesType'
  <2>1. kernel' \in [Fds -> Files \cup {NoPath}] /\ written' \in BOOLEAN
    BY <1>1, <1>2 DEF TablesType
  <2>. QED
    BY <1>1, <1>2, <1>5, <2>1, FileStored
<1>. QED
  BY <1>2, <1>6, AnswerStep

LEMMA StepWired_OnFile ==
  ASSUME WInv, NEW t \in Threads, process_ioread(t) \/ process_iolseek(t)
  PROVE  WInv'
<1>1. TablesType /\ thread \in [Threads -> Thread]
  BY DEF WInv, WiresType
<1>2. UNCHANGED <<to_pc, to_psp, call, logged, calls, faults, rdonly, g_login, files_table, dirs_table, kernel, written>>
  BY DEF process_ioread, process_iolseek, Rest, Wire, psp, tables
<1>3. TablesType'
  BY <1>1, <1>2 DEF TablesType
<1>4. CASE process_ioread(t)
  <2>1. Arg(t).len \in Int
    BY <1>1, NetHostFsAssumption DEF Arg, Thread, Request
  <2>2. PICK v \in IF Arg(t).len >= Limit THEN {-1}
                   ELSE IF Arg(t).len <= 0 THEN {0}
                   ELSE IF ~InFiles(Arg(t).h) \/ FreeFile(Arg(t).h) THEN {-1}
                   ELSE Transferred(Fd(t), Arg(t).len) : Answer(t, v)
    BY <1>4 DEF process_ioread
  <2>3. v \in Int /\ thread[t].at = "read"
    BY <1>4, <2>1, <2>2, TransferredType DEF process_ioread, At
  <2>. QED
    BY <1>2, <1>3, <2>2, <2>3, AnswerStep
<1>5. CASE process_iolseek(t)
  <2>1. PICK v \in {-1, 0} : Answer(t, v)
    BY <1>5 DEF process_iolseek
  <2>2. thread[t].at = "lseek"
    BY <1>5 DEF process_iolseek, At
  <2>. QED
    BY <1>2, <1>3, <2>1, <2>2, AnswerStep
<1>. QED
  BY <1>4, <1>5

LEMMA StepWired_FindDir ==
  ASSUME WInv, NEW t \in Threads, FindDir(t)
  PROVE  WInv'
<1>1. TablesType /\ thread \in [Threads -> Thread] /\ Wired(t)
  BY DEF WInv, WiresType
<1>2. /\ UNCHANGED <<to_pc, to_psp, call, logged, calls, faults, rdonly, g_login, files_table, dirs_table, kernel, written>>
      /\ thread[t].at = "dopen"
  BY DEF FindDir, Rest, Wire, psp, At, tables
<1>3. TablesType'
  BY <1>1, <1>2 DEF TablesType
<1>4. /\ call[t] \in Requests /\ Serves(thread[t], call[t]) /\ call[t].op = "dopen"
      /\ thread[t].i <= MaxDirs /\ thread[t].i \in Nat /\ MaxDirs \in Nat /\ thread[t] \in Thread
  <2>1. call[t] \in Requests /\ Serves(thread[t], call[t])
    BY <1>1, <1>2, Works
  <2>2. call[t].op = "dopen"
    BY <1>2, <2>1, RequestsType DEF Serves, StepsOf, Ops, OnFile, OnDir
  <2>3. thread[t] \in Thread /\ thread[t].i \in Nat
    BY <1>1 DEF Thread
  <2>4. MaxDirs \in Nat
    BY NetHostFsAssumption
  <2>5. thread[t].i <= MaxDirs
    BY <1>2, <2>1 DEF Serves
  <2>. QED
    BY <2>1, <2>2, <2>3, <2>4, <2>5
<1>5. CASE Answer(t, -1)
  BY <1>2, <1>3, <1>5, AnswerStep
<1>6. CASE thread[t].i < MaxDirs /\ thread' = [thread EXCEPT ![t].i = thread[t].i + 1]
  <2>1. PICK q : q = [thread[t] EXCEPT !.i = thread[t].i + 1]
    OBVIOUS
  <2>2. /\ q \in Thread /\ q.at = "dopen" /\ q.req = thread[t].req /\ q.i = thread[t].i + 1
        /\ q.again = thread[t].again
    BY <1>2, <1>4, <2>1 DEF Thread
  <2>3. thread' = [thread EXCEPT ![t] = q]
    BY <1>1, <1>6, <2>1
  <2>4. thread' \in [Threads -> Thread] /\ thread'[t] = q /\ \A u \in Threads : u # t => thread'[u] = thread[u]
    BY <1>1, <2>2, <2>3
  <2>5. Serves(q, call[t]) /\ Owed(q, call[t]) = Owed(thread[t], call[t])
    BY <1>2, <1>4, <1>6, <2>2 DEF Serves, StepsOf, Owed
  <2>. QED
    BY <1>2, <1>3, <2>2, <2>4, <2>5, ServerStep
<1>7. CASE thread[t].i < MaxDirs /\ Goto(t, "scandir")
  <2>1. thread[t].i \in DirSlots
    BY <1>4, <1>7 DEF DirSlots
  <2>2. /\ thread' \in [Threads -> Thread]
        /\ \A u \in Threads : u # t => thread'[u] = thread[u]
        /\ thread'[t].at = "scandir" /\ thread'[t].req = thread[t].req
        /\ thread'[t].i = thread[t].i /\ thread'[t].again = thread[t].again
    BY <1>1, <1>7, GotoFields DEF Steps
  <2>3. Serves(thread'[t], call[t]) /\ Owed(thread'[t], call[t]) = Owed(thread[t], call[t])
    BY <1>2, <1>4, <2>1, <2>2 DEF Serves, StepsOf, Owed
  <2>. QED
    BY <1>2, <1>3, <2>2, <2>3, ServerStep
<1>. QED
  BY <1>5, <1>6, <1>7 DEF FindDir

LEMMA StepWired_OpenDir ==
  ASSUME WInv, NEW t \in Threads, OpenDir(t)
  PROVE  WInv'
<1>1. TablesType /\ thread \in [Threads -> Thread] /\ Wired(t)
  BY DEF WInv, WiresType
<1>2. /\ UNCHANGED <<to_pc, to_psp, call, logged, calls, faults, rdonly, g_login, files_table, kernel, written>>
      /\ thread[t].at = "scandir"
  BY DEF OpenDir, Rest, Wire, psp, At
<1>3. thread[t].i \in DirSlots
  BY <1>1, <1>2, Works DEF Serves
<1>4. dirs_table \in [DirSlots -> [entries : Paths, pos : 0 .. MaxEntries, nentries : 0 .. MaxEntries, opened : BOOLEAN]]
  BY <1>1 DEF TablesType
<1>5. Arg(t).path \in Paths /\ thread[t].i \in Int
  BY <1>1 DEF Arg, Thread, Request
<1>6. CASE Answer(t, -1) /\ UNCHANGED dirs_table
  <2>1. TablesType'
    BY <1>1, <1>2, <1>6 DEF TablesType
  <2>. QED
    BY <1>2, <1>6, <2>1, AnswerStep
<1>7. CASE dirs_table' = [dirs_table EXCEPT ![thread[t].i].opened = TRUE] /\ Answer(t, -1)
  <2>1. dirs_table' \in [DirSlots -> [entries : Paths, pos : 0 .. MaxEntries, nentries : 0 .. MaxEntries, opened : BOOLEAN]]
    BY <1>3, <1>4, <1>7
  <2>2. TablesType'
    BY <1>1, <1>2, <2>1 DEF TablesType
  <2>. QED
    BY <1>2, <1>7, <2>2, AnswerStep
<1>8. CASE \E idx \in 0 .. MaxEntries :
               /\ dirs_table' = [dirs_table EXCEPT ![thread[t].i] =
                      [entries |-> Arg(t).path, pos |-> 0, nentries |-> idx, opened |-> TRUE]]
               /\ Answer(t, thread[t].i)
  <2>1. PICK idx \in 0 .. MaxEntries :
               /\ dirs_table' = [dirs_table EXCEPT ![thread[t].i] =
                      [entries |-> Arg(t).path, pos |-> 0, nentries |-> idx, opened |-> TRUE]]
               /\ Answer(t, thread[t].i)
    BY <1>8
  <2>2. 0 \in 0 .. MaxEntries
    BY NetHostFsAssumption
  <2>3. TablesType'
    BY <1>1, <1>2, <1>3, <1>5, <2>1, <2>2, DirStored
  <2>. QED
    BY <1>2, <1>5, <2>1, <2>3, AnswerStep
<1>. QED
  BY <1>6, <1>7, <1>8 DEF OpenDir

LEMMA StepWired_process_iodclose ==
  ASSUME WInv, NEW t \in Threads, process_iodclose(t)
  PROVE  WInv'
<1>1. TablesType /\ thread \in [Threads -> Thread] /\ Wired(t)
  BY DEF WInv, WiresType
<1>2. /\ UNCHANGED <<to_pc, to_psp, call, logged, calls, faults, rdonly, g_login, files_table, kernel, written>>
      /\ thread[t].at = "dclose"
  BY DEF process_iodclose, Rest, Wire, psp, At
<1>3. call[t] \in Requests /\ Serves(thread[t], call[t]) /\ call[t].op = "dclose" /\ thread[t] \in Thread
  BY <1>1, <1>2, Works, RequestsType DEF Serves, StepsOf, Ops, OnFile, OnDir
<1>4. CASE Answer(t, -1) /\ UNCHANGED dirs_table
  <2>1. TablesType'
    BY <1>1, <1>2, <1>4 DEF TablesType
  <2>. QED
    BY <1>2, <1>4, <2>1, AnswerStep
<1>5. CASE /\ Arg(t).h \in DirSlots
           /\ dirs_table' = [dirs_table EXCEPT ![Arg(t).h].entries = NoPath]
           /\ thread' = [thread EXCEPT ![t].again = FALSE, ![t].at = "closing"]
  <2>1. dirs_table' \in [DirSlots -> [entries : Paths, pos : 0 .. MaxEntries, nentries : 0 .. MaxEntries, opened : BOOLEAN]]
    BY <1>1, <1>5 DEF TablesType, Paths
  <2>2. TablesType'
    BY <1>1, <1>2, <2>1 DEF TablesType
  <2>3. PICK q : q = [thread[t] EXCEPT !.again = FALSE]
    OBVIOUS
  <2>4. q \in Thread /\ q.req = thread[t].req /\ q.i = thread[t].i /\ ~q.again
    BY <1>3, <2>3 DEF Thread
  <2>5. PICK x : x = [q EXCEPT !.at = "closing"]
    OBVIOUS
  <2>6. x \in Thread /\ x.at = "closing" /\ x.req = thread[t].req /\ x.i = thread[t].i /\ ~x.again
    BY <2>4, <2>5 DEF Thread, Steps
  <2>7. thread' = [thread EXCEPT ![t] = x]
    BY <1>1, <1>5, <2>3, <2>5
  <2>8. thread' \in [Threads -> Thread] /\ thread'[t] = x /\ \A u \in Threads : u # t => thread'[u] = thread[u]
    BY <1>1, <2>6, <2>7
  <2>9. Serves(x, call[t]) /\ Owed(x, call[t]) = Owed(thread[t], call[t])
    BY <1>2, <1>3, <2>6 DEF Serves, StepsOf, Owed
  <2>. QED
    BY <1>2, <2>2, <2>6, <2>8, <2>9, ServerStep
<1>. QED
  BY <1>4, <1>5 DEF process_iodclose, InDirs

LEMMA StepWired_CloseDir ==
  ASSUME WInv, NEW t \in Threads, CloseDir(t)
  PROVE  WInv'
<1>1. TablesType /\ thread \in [Threads -> Thread] /\ Wired(t)
  BY DEF WInv, WiresType
<1>2. /\ UNCHANGED <<to_pc, to_psp, call, logged, calls, faults, rdonly, g_login, files_table, kernel, written>>
      /\ thread[t].at = "closing" /\ Answer(t, 0)
      /\ dirs_table' = [dirs_table EXCEPT ![Arg(t).h].opened = FALSE]
  BY DEF CloseDir, Rest, Wire, psp, At
<1>3. dirs_table' \in [DirSlots -> [entries : Paths, pos : 0 .. MaxEntries, nentries : 0 .. MaxEntries, opened : BOOLEAN]]
  <2>1. Arg(t).h \in DirSlots
    BY <1>1, <1>2, Works, RequestsType DEF Serves, StepsOf, Ops, OnFile, OnDir, Arg
  <2>2. PICK h \in DirSlots : h = Arg(t).h
    BY <2>1
  <2>3. dirs_table' = [dirs_table EXCEPT ![h].opened = FALSE]
    BY <1>2, <2>2
  <2>4. dirs_table \in [DirSlots -> [entries : Paths, pos : 0 .. MaxEntries, nentries : 0 .. MaxEntries, opened : BOOLEAN]]
    BY <1>1 DEF TablesType
  <2>. QED
    BY <2>3, <2>4
<1>4. TablesType'
  BY <1>1, <1>2, <1>3 DEF TablesType
<1>. QED
  BY <1>2, <1>4, AnswerStep

LEMMA StepWired_process_iodread ==
  ASSUME WInv, NEW t \in Threads, process_iodread(t)
  PROVE  WInv'
<1>1. TablesType /\ thread \in [Threads -> Thread] /\ Wired(t)
  BY DEF WInv, WiresType
<1>2. /\ UNCHANGED <<to_pc, to_psp, call, logged, calls, faults, rdonly, g_login, files_table, kernel, written>>
      /\ thread[t].at = "dread"
  BY DEF process_iodread, Rest, Wire, psp, At
<1>3. CASE Answer(t, -1) /\ UNCHANGED dirs_table
  <2>1. TablesType'
    BY <1>1, <1>2, <1>3 DEF TablesType
  <2>. QED
    BY <1>2, <1>3, <2>1, AnswerStep
<1>4. CASE /\ InDirs(Arg(t).h)
           /\ Answer(t, IF Exhausted(Arg(t).h) THEN 0 ELSE dirs_table[Arg(t).h].pos + 1)
           /\ dirs_table' = [dirs_table EXCEPT ![Arg(t).h].pos = Moved(Arg(t).h)]
  <2>1. PICK h \in DirSlots : h = Arg(t).h
    BY <1>4 DEF InDirs
  <2>2. dirs_table \in [DirSlots -> [entries : Paths, pos : 0 .. MaxEntries, nentries : 0 .. MaxEntries, opened : BOOLEAN]]
    BY <1>1 DEF TablesType
  <2>3. dirs_table[h].pos \in 0 .. MaxEntries /\ dirs_table[h].nentries \in 0 .. MaxEntries /\ MaxEntries \in Nat
    BY <2>2, NetHostFsAssumption
  <2>4. Moved(h) \in 0 .. MaxEntries
    BY <2>3 DEF Moved, Exhausted
  <2>5. dirs_table' \in [DirSlots -> [entries : Paths, pos : 0 .. MaxEntries, nentries : 0 .. MaxEntries, opened : BOOLEAN]]
    BY <1>4, <2>1, <2>2, <2>4
  <2>6. TablesType'
    BY <1>1, <1>2, <2>5 DEF TablesType
  <2>7. PICK v \in Int : Answer(t, v)
    BY <1>4, <2>1, <2>3
  <2>. QED
    BY <1>2, <2>6, <2>7, AnswerStep
<1>. QED
  BY <1>3, <1>4 DEF process_iodread

LEMMA StepWired_Plain ==
  ASSUME WInv, NEW t \in Threads, Query(t) \/ Change(t) \/ process_iorename(t)
  PROVE  WInv'
<1>1. TablesType /\ thread \in [Threads -> Thread]
  BY DEF WInv, WiresType
<1>2. UNCHANGED <<to_pc, to_psp, call, logged, calls, faults, rdonly, g_login, files_table, dirs_table, kernel>>
  BY DEF Query, Change, process_iorename, Rest, Wire, psp, tables
<1>3. PICK v \in {-1, 0} : Answer(t, v)
  BY DEF Query, Change, process_iorename
<1>4. written' \in BOOLEAN
  <2>1. CASE written' = written
    BY <1>1, <2>1 DEF TablesType
  <2>2. CASE \E done : Modify(done)
    <3>1. PICK done : written' = (written \/ done)
      BY <2>2, Zenon DEF Modify
    <3>. QED
      BY <3>1, Zenon
  <2>3. written' = written \/ \E done : Modify(done)
    BY DEF Query, Change, process_iorename
  <2>. QED
    BY <2>1, <2>2, <2>3
<1>5. TablesType'
  BY <1>1, <1>2, <1>4 DEF TablesType
<1>6. thread[t].at \in {"hello", "getstat", "change", "rename"}
  BY DEF Query, Change, process_iorename, At
<1>. QED
  BY <1>2, <1>3, <1>5, <1>6, AnswerStep

LEMMA StepWired_process_iochstat ==
  ASSUME WInv, ~ChmodFails, NEW t \in Threads, process_iochstat(t)
  PROVE  WInv'
<1>1. TablesType /\ thread \in [Threads -> Thread] /\ Wired(t)
  BY DEF WInv, WiresType
<1>2. /\ UNCHANGED <<to_pc, to_psp, call, logged, calls, faults, rdonly, g_login, files_table, dirs_table, kernel>>
      /\ thread[t].at = "chstat"
  BY DEF process_iochstat, Rest, Wire, psp, tables, At
<1>3. thread' = [thread EXCEPT ![t].at = "reply", ![t].res = 0, ![t].again = FALSE]
  BY Zenon DEF process_iochstat
<1>4. written' \in BOOLEAN
  BY <1>1 DEF TablesType, process_iochstat, Modify
<1>5. TablesType'
  BY <1>1, <1>2, <1>4 DEF TablesType
<1>6. call[t] \in Requests /\ Serves(thread[t], call[t]) /\ call[t].op = "chstat" /\ thread[t] \in Thread
  BY <1>1, <1>2, Works, RequestsType DEF Serves, StepsOf, Ops, OnFile, OnDir
<1>7. PICK q : q = [thread[t] EXCEPT !.at = "reply"]
  OBVIOUS
<1>8. q \in Thread /\ q.at = "reply" /\ q.req = thread[t].req /\ q.i = thread[t].i
  BY <1>6, <1>7 DEF Thread, Steps
<1>9. PICK y : y = [q EXCEPT !.res = 0]
  OBVIOUS
<1>10. y \in Thread /\ y.at = "reply" /\ y.req = thread[t].req /\ y.i = thread[t].i
  BY <1>8, <1>9 DEF Thread
<1>11. PICK x : x = [y EXCEPT !.again = FALSE]
  OBVIOUS
<1>12. x \in Thread /\ x.at = "reply" /\ x.req = thread[t].req /\ x.i = thread[t].i /\ ~x.again
  BY <1>10, <1>11 DEF Thread
<1>13. thread' = [thread EXCEPT ![t] = x]
  BY <1>1, <1>3, <1>7, <1>9, <1>11
<1>14. thread' \in [Threads -> Thread] /\ thread'[t] = x /\ \A u \in Threads : u # t => thread'[u] = thread[u]
  BY <1>1, <1>12, <1>13
<1>15. Serves(x, call[t]) /\ Owed(x, call[t]) = Owed(thread[t], call[t])
  BY <1>2, <1>6, <1>12 DEF Serves, StepsOf, Owed
<1>. QED
  BY <1>2, <1>5, <1>6, <1>12, <1>14, <1>15, ServerStep

LEMMA StepWired_SocketFails ==
  ASSUME WInv, NEW t \in Threads, SocketFails(t)
  PROVE  WInv'
<1>1. faults' \in 0 .. MaxFaults
  BY NetHostFsAssumption DEF WInv, WiresType, SocketFails
<1>. QED
  BY <1>1, StepWired_End DEF SocketFails

LEMMA StepWired_process_ioexit ==
  ASSUME WInv, NEW t \in Threads, process_ioexit(t)
  PROVE  WInv'
<1>1. faults' \in 0 .. MaxFaults
  BY DEF WInv, WiresType, process_ioexit
<1>. QED
  BY <1>1, StepWired_End DEF process_ioexit

LEMMA WInvInductive == ASSUME ~ChmodFails PROVE WInv /\ [Next]_vars => WInv'
<1>1. SUFFICES ASSUME WInv, [Next]_vars PROVE WInv'
  OBVIOUS
<1>2. CASE UNCHANGED vars
  <2>a. TablesType'
    BY <1>1, <1>2 DEF vars, server, tables, WInv, TablesType
  <2>b. WiresType'
    BY <1>1, <1>2 DEF vars, server, psp, WInv, WiresType
  <2>2. UNCHANGED <<thread, call, to_pc, to_psp, logged, g_login>>
    BY <1>2 DEF vars, server, psp
  <2>3. LoggedIn'
    BY <1>1, <2>2 DEF WInv, LoggedIn, Decided, Outcome, At, Reply
  <2>4. (\A u \in Threads : Wired(u))'
    <3>1. SUFFICES ASSUME NEW u \in Threads PROVE Wired(u)'
      OBVIOUS
    <3>. QED
      BY <1>1, <2>2 DEF WInv, Wired, Reply, ReplyLen, Silence, Unread, Answered, Working
  <2>. QED
    BY <2>a, <2>b, <2>3, <2>4 DEF WInv
<1>3. CASE Next
  <2>1. PICK t \in Threads :
            \/ \E r \in Requests : Call(t, r)
            \/ Receive(t) \/ Lose(t) \/ process_thread(t) \/ SocketFails(t)
    BY <1>3 DEF Next
  <2>2. CASE \E r \in Requests : Call(t, r)
    BY <1>1, <2>2, StepWired_Call
  <2>3. CASE Receive(t) \/ Lose(t)
    BY <1>1, <2>3, StepWired_Receive, StepWired_Lose
  <2>4. CASE SocketFails(t)
    BY <1>1, <2>4, StepWired_SocketFails
  <2>5. CASE process_thread(t)
    <3>1. CASE process_cmd(t) \/ SendReturn(t) \/ process_ioinit(t) \/ process_ioexit(t)
      BY <1>1, <3>1, StepWired_process_cmd, StepWired_SendReturn, StepWired_process_ioinit, StepWired_process_ioexit
    <3>2. CASE \/ FindFile(t) \/ MakePath(t) \/ OpenFile(t) \/ StoreFile(t) \/ Opened(t)
               \/ process_ioclose(t) \/ ResetFile(t)
      BY <1>1, <3>2, StepWired_FindFile, StepWired_MakePath, StepWired_OpenFile, StepWired_StoreFile, StepWired_Opened,
         StepWired_process_ioclose, StepWired_ResetFile
    <3>3. CASE process_ioread(t) \/ process_iolseek(t)
      BY <1>1, <3>3, StepWired_OnFile
    <3>4. CASE ReadSend(t) \/ process_iowrite(t) \/ WriteRecv(t) \/ WriteFile(t)
      BY <1>1, <3>4, StepWired_ReadSend, StepWired_process_iowrite, StepWired_WriteRecv, StepWired_WriteFile
    <3>5. CASE FindDir(t) \/ OpenDir(t) \/ process_iodclose(t) \/ CloseDir(t) \/ process_iodread(t)
      BY <1>1, <3>5, StepWired_FindDir, StepWired_OpenDir, StepWired_process_iodclose, StepWired_CloseDir, StepWired_process_iodread
    <3>6. CASE Query(t) \/ Change(t) \/ process_iorename(t)
      BY <1>1, <3>6, StepWired_Plain
    <3>7. CASE process_iochstat(t)
      BY <1>1, <3>7, StepWired_process_iochstat
    <3>. QED
      BY <2>5, <3>1, <3>2, <3>3, <3>4, <3>5, <3>6, <3>7 DEF process_thread
  <2>. QED
    BY <2>1, <2>2, <2>3, <2>4, <2>5
<1>. QED
  BY <1>1, <1>2, <1>3

LEMMA WInvInStep == WInv => InStep
<1>1. SUFFICES ASSUME WInv, NEW t \in Threads, thread[t].at # "closed"
               PROVE  /\ call[t] = NoCall => At(t, "cmd") /\ to_pc[t] = <<>> /\ to_psp[t] = <<>>
                      /\ call[t] # NoCall /\ to_psp[t] # <<>> => Reply(t).op = call[t].op
                      /\ At(t, "cmd") /\ to_pc[t] # <<>> => Head(to_pc[t]) = call[t]
  BY DEF InStep
<1>2. Wired(t)
  BY <1>1 DEF WInv
<1>. QED
  BY <1>1, <1>2 DEF Wired, Silence, Unread, Answered, At

(* A connection on which the PSP waits for nothing is empty, and what comes   *)
(* back on it answers the call the PSP waits for: every handler of            *)
(* process_thread takes from the socket, and sends, what its request asks     *)
(* for, also when it refuses it.  When chmod fails process_iochstat sends two *)
(* results, and nothing is in step any more.                                  *)
THEOREM ConnectionsInStep == ASSUME ~ChmodFails PROVE Spec => []InStep
<1>1. Init => WInv
  BY TypesInit
<1>2. WInv /\ [Next]_vars => WInv'
  BY WInvInductive
<1>3. WInv => InStep
  BY WInvInStep
<1>. QED
  BY <1>1, <1>2, <1>3, PTL DEF Spec

(* Under -r nothing below rootdir is created, changed or removed: each        *)
(* handler that could looks at rdonly itself.                                 *)
THEOREM ReadOnlyKept == Spec => []ReadOnly
<1>1. Init => ReadOnly
  BY DEF Init, ReadOnly
<1>2. ReadOnly /\ [Next]_vars => ReadOnly'
  <2>1. SUFFICES ASSUME ReadOnly, [Next]_vars PROVE ReadOnly'
    OBVIOUS
  <2>2. CASE UNCHANGED vars
    BY <2>1, <2>2 DEF ReadOnly, vars, server
  <2>3. CASE Next
    <3>1. PICK t \in Threads :
              \/ \E r \in Requests : Call(t, r)
              \/ Receive(t) \/ Lose(t) \/ process_thread(t) \/ SocketFails(t)
      BY <2>3 DEF Next
    <3>2. CASE (\E r \in Requests : Call(t, r)) \/ Receive(t) \/ Lose(t) \/ SocketFails(t) \/ process_ioexit(t)
      BY <2>1, <3>2 DEF ReadOnly, Call, Receive, Lose, SocketFails, process_ioexit, End, server
    <3>3. CASE process_thread(t)
      <4>1. CASE OpenFile(t)
        <5>1. UNCHANGED rdonly
          BY <4>1 DEF OpenFile
        <5>2. CASE UNCHANGED written
          BY <2>1, <5>1, <5>2 DEF ReadOnly
        <5>3. CASE ~Refused(Arg(t)) /\ Modify(Arg(t).w)
          BY <2>1, <5>1, <5>3 DEF ReadOnly, Modify, Refused
        <5>4. UNCHANGED written \/ (~Refused(Arg(t)) /\ Modify(Arg(t).w))
          BY <4>1 DEF OpenFile
        <5>. QED
          BY <5>2, <5>3, <5>4
      <4>2. CASE WriteFile(t) \/ Change(t) \/ process_iorename(t) \/ process_iochstat(t)
        BY <2>1, <4>2 DEF ReadOnly, WriteFile, Change, process_iorename, process_iochstat, Modify
      <4>3. CASE \/ process_cmd(t) \/ SendReturn(t) \/ process_ioinit(t) \/ FindFile(t) \/ MakePath(t)
                 \/ StoreFile(t) \/ Opened(t) \/ process_ioclose(t) \/ ResetFile(t) \/ process_ioread(t) \/ ReadSend(t) \/ process_iowrite(t)
                 \/ WriteRecv(t) \/ process_iolseek(t) \/ FindDir(t) \/ OpenDir(t) \/ process_iodclose(t)
                 \/ CloseDir(t) \/ process_iodread(t) \/ Query(t)
        <5>1. UNCHANGED <<rdonly, written>>
          BY <4>3 DEF process_cmd, SendReturn, process_ioinit, FindFile, MakePath, StoreFile, Opened, process_ioclose,
             ResetFile, process_ioread, ReadSend, process_iowrite, WriteRecv, process_iolseek, FindDir, OpenDir,
             process_iodclose, CloseDir, process_iodread, Query
        <5>. QED
          BY <2>1, <5>1 DEF ReadOnly
      <4>. QED
        BY <3>2, <3>3, <4>1, <4>2, <4>3 DEF process_thread
    <3>. QED
      BY <3>1, <3>2, <3>3
  <2>. QED
    BY <2>1, <2>2, <2>3
<1>. QED
  BY <1>1, <1>2, PTL DEF Spec

------------------------------------------------------------------------------
(* The tables: what the threads, the kernel and the PSP know of a slot.       *)

(* A request the server has not served, or a close that has still to reset    *)
(* its slot.                                                                  *)
Pending(t, op) == call[t].op = op /\ (At(t, op) \/ (At(t, "cmd") /\ to_pc[t] # <<>>))
ToClose(t) == Pending(t, "close") \/ At(t, "reset")

(* Before the login nothing is open; a login leaves every slot free.          *)
Desc(i) == files_table[i].fd
Untouched ==
    /\ \A t \in Threads : call[t].op \in {"none", "hello", "init"}
    /\ \A t, u \in Threads : call[t].op = "init" /\ call[u].op = "init" => t = u
    /\ handles = [i \in FileSlots |-> <<>>] /\ dhandles = [i \in DirSlots |-> <<>>]
    /\ kernel = [f \in Fds |-> NoPath]
    /\ dirs_table = [i \in DirSlots |-> FreeDir]
    /\ \A t \in Threads : call[t].op = "init" /\ Decided(t) /\ Outcome(t) = 0 => \A i \in FileSlots : Desc(i) = -1

(* The process lives as long as the thread that was created last.             *)
Login ==
    /\ ~logged => Untouched
    /\ logged => \A t \in Threads : call[t].op # "init"
    /\ ~Running => \A t \in Threads : At(t, "closed")

(* The descriptor of file slot i is not closed behind it.                     *)
Steady(i) == \A u \in Threads : At(u, "reset") => call[u].h # i

(* Nobody is going to close file slot i; it was opened on path and its handle *)
(* is not used.                                                               *)
Kept(i) == \A u \in Threads : ToClose(u) => call[u].h # i
Given(i, path) ==
    /\ path \in Files
    /\ handles[i] = <<>>
    /\ Desc(i) # -1
    /\ Desc(i) # 65535 => kernel[Desc(i)] = path
    /\ Kept(i)

(* A descriptor of a slot is open and the slot's own, until it is closed.     *)
Slot(i) ==
    \/ Desc(i) = -1
    \/ rdonly /\ Desc(i) = 65535
    \/ /\ Desc(i) \in Fds
       /\ Steady(i) => /\ kernel[Desc(i)] # NoPath
                       /\ \A k \in FileSlots \ {i} : Steady(k) => Desc(k) # Desc(i)

Held(i) ==
    handles[i] # <<>> =>
        /\ Len(handles[i]) = 1
        /\ Desc(i) # -1
        /\ Desc(i) # 65535 => kernel[Desc(i)] = handles[i][1]

Closing(t) == ToClose(t) => handles[call[t].h] = <<>> /\ Desc(call[t].h) # -1

(* What open returned to t is no other thread's and no slot's.                *)
Fresh(t) ==
    /\ thread[t].res \in Fds /\ kernel[thread[t].res] = call[t].path
    /\ \A k \in FileSlots : Steady(k) => Desc(k) # thread[t].res
    /\ \A u \in Threads \ {t} : At(u, "store") => thread[u].res # thread[t].res

(* process_ioopen has found a free slot, put the name there, taken it back,   *)
(* opened it, stored the descriptor and looked at it again.                   *)
Opening(t) ==
    call[t].op = "open" =>
        /\ At(t, "path") => Desc(thread[t].i) = -1 /\ files_table[thread[t].i].name = call[t].path
        /\ At(t, "stat") => Desc(thread[t].i) = -1 /\ Arg(t).path = call[t].path
        /\ At(t, "store") => /\ Desc(thread[t].i) = -1 /\ call[t].path \in Files
                             /\ thread[t].res = -1 \/ Fresh(t)
        /\ At(t, "opened") => Desc(thread[t].i) = -1 \/ Given(thread[t].i, call[t].path)
        /\ Decided(t) /\ Outcome(t) \in FileSlots =>
               call[t].path \in Files /\ (Running => Given(Outcome(t), call[t].path))

(* Two opens are never in the same slot, nor two closes.                      *)
Takes(t, i) == call[t].op = "open" /\ (Filling(t, i) \/ (Decided(t) /\ Outcome(t) = i))
OneSlot == \A t, u \in Threads, i \in FileSlots : Takes(t, i) /\ Takes(u, i) => t = u
OneClose == \A t, u \in Threads : ToClose(t) /\ ToClose(u) /\ call[t].h = call[u].h => t = u

(* A descriptor that is open is a steady slot's or has just been returned.    *)
NoLoss ==
    \A fd \in Fds : kernel[fd] # NoPath =>
        \/ \E i \in FileSlots : Steady(i) /\ Desc(i) = fd
        \/ \E t \in Threads : At(t, "store") /\ thread[t].res = fd

FilesInv ==
    /\ handles \in [FileSlots -> Seq(Files)]
    /\ NoLoss
    /\ OneSlot
    /\ OneClose
    /\ Running /\ logged => \A i \in FileSlots : Slot(i)
    /\ Running => \A i \in FileSlots : Held(i)
    /\ \A t \in Threads : Closing(t)
    /\ \A t \in Threads : Opening(t)

(* Nobody is going to free directory slot h; it was opened on path and its    *)
(* handle is not used.                                                        *)
Dir(h) == dirs_table[h]
DFrees(t) == Pending(t, "dclose") \/ At(t, "closing")
DKept(h) == \A u \in Threads : DFrees(u) => call[u].h # h
DGiven(h, path) ==
    /\ dhandles[h] = <<>> /\ DKept(h)
    /\ Dir(h).opened /\ Dir(h).entries = path /\ Dir(h).pos = 0

DHeld(h) ==
    dhandles[h] # <<>> =>
        /\ Len(dhandles[h]) = 1
        /\ Dir(h).opened /\ Dir(h).entries = dhandles[h][1].path
        /\ Dir(h).pos >= dhandles[h][1].got
        /\ faults = 0 /\ ~Using({"dread"}, h) => Dir(h).pos = dhandles[h][1].got

DOpening(t) ==
    call[t].op = "dopen" =>
        /\ At(t, "scandir") => Dir(thread[t].i).entries = NoPath /\ DKept(thread[t].i)
        /\ Decided(t) /\ Outcome(t) \in DirSlots => (Running => DGiven(Outcome(t), call[t].path))

DClosing(t) ==
    /\ DFrees(t) => dhandles[call[t].h] = <<>>
    /\ Pending(t, "dclose") => Dir(call[t].h).entries # NoPath

(* A read of a directory that the PSP waits for: its answer is the position.  *)
DReading(t) ==
    call[t].op = "dread" =>
        /\ dhandles[call[t].h] # <<>>
        /\ Decided(t) => /\ Outcome(t) \in -1 .. MaxEntries
                         /\ Running /\ Outcome(t) > 0 => Outcome(t) = Dir(call[t].h).pos
        /\ Running /\ faults = 0 /\ ~(Decided(t) /\ Outcome(t) > 0) =>
               Dir(call[t].h).pos = dhandles[call[t].h][1].got

(* Two opens are never in the same slot, nor two closes, nor two reads.       *)
DTakes(t, i) ==
    call[t].op = "dopen" /\ ((At(t, "scandir") /\ thread[t].i = i) \/ (Decided(t) /\ Outcome(t) = i))
OneDSlot == \A t, u \in Threads, i \in DirSlots : DTakes(t, i) /\ DTakes(u, i) => t = u
OneDclose == \A t, u \in Threads : DFrees(t) /\ DFrees(u) /\ call[t].h = call[u].h => t = u
OneUser == \A t, u \in Threads : call[t].op = "dread" /\ call[u].op = "dread" /\ call[t].h = call[u].h => t = u

DirsInv ==
    /\ dhandles \in [DirSlots -> Seq([path : Dirs, got : 0 .. MaxEntries])]
    /\ OneDSlot
    /\ OneDclose
    /\ OneUser
    /\ Running => \A h \in DirSlots : DHeld(h)
    /\ \A t \in Threads : DOpening(t)
    /\ \A t \in Threads : DClosing(t)
    /\ \A t \in Threads : DReading(t)
    /\ faults = 0 /\ Running => \A t \in Threads : At(t, "closed") => call[t].op \in {"none", "exit"}

(* Thread t of the server goes a step on; the PSP does nothing.               *)
Acts(t) ==
    /\ UNCHANGED <<call, handles, dhandles, logged, faults, rdonly>>
    /\ \A u \in Threads \ {t} : thread'[u] = thread[u] /\ to_pc'[u] = to_pc[u] /\ to_psp'[u] = to_psp[u]
    /\ thread[t].at # "closed" /\ thread'[t].at # "closed"

LEMMA Elsewhere ==
  ASSUME NEW t \in Threads, Acts(t), NEW u \in Threads \ {t}
  PROVE  /\ \A op \in Ops : Pending(u, op)' <=> Pending(u, op)
         /\ Decided(u)' <=> Decided(u)
         /\ Outcome(u)' = Outcome(u)
         /\ \A at \in Steps : At(u, at)' <=> At(u, at)
         /\ thread[u]' = thread[u] /\ call[u]' = call[u] /\ Arg(u)' = Arg(u)
BY DEF Acts, Pending, Decided, Outcome, At, Reply, Arg

LEMMA ElsewhereToo ==
  ASSUME NEW t \in Threads, Acts(t), NEW u \in Threads \ {t}
  PROVE  /\ ToClose(u)' <=> ToClose(u)
         /\ DFrees(u)' <=> DFrees(u)
         /\ \A i : Takes(u, i)' <=> Takes(u, i)
         /\ \A i : DTakes(u, i)' <=> DTakes(u, i)
<1>1. /\ Pending(u, "close")' <=> Pending(u, "close")
      /\ Pending(u, "dclose")' <=> Pending(u, "dclose")
  BY Elsewhere DEF Ops, OnFile, OnDir
<1>2. \A at \in Steps : At(u, at)' <=> At(u, at)
  BY Elsewhere
<1>3. /\ At(u, "reset")' <=> At(u, "reset")
      /\ At(u, "closing")' <=> At(u, "closing")
      /\ At(u, "scandir")' <=> At(u, "scandir")
  BY <1>2 DEF Steps
<1>4. UNCHANGED <<thread[u], call[u]>> /\ (Decided(u)' <=> Decided(u)) /\ Outcome(u)' = Outcome(u)
  BY Elsewhere
<1>5. \A i : Filling(u, i)' <=> Filling(u, i)
  BY <1>4 DEF Filling
<1>6. ToClose(u)' <=> ToClose(u)
  BY <1>1, <1>3 DEF ToClose
<1>7. DFrees(u)' <=> DFrees(u)
  BY <1>1, <1>3 DEF DFrees
<1>8. \A i : Takes(u, i)' <=> Takes(u, i)
  BY <1>4, <1>5 DEF Takes
<1>9. \A i : DTakes(u, i)' <=> DTakes(u, i)
  BY <1>3, <1>4 DEF DTakes
<1>. QED
  BY <1>6, <1>7, <1>8, <1>9

LEMMA OneSlotStays ==
  ASSUME OneSlot, NEW t \in Threads, Acts(t), \A i \in FileSlots : Takes(t, i)' => Takes(t, i)
  PROVE  OneSlot'
<1>1. \A u \in Threads, i \in FileSlots : Takes(u, i)' => Takes(u, i)
  BY ElsewhereToo
<1>. QED
  BY <1>1 DEF OneSlot

LEMMA OneDSlotStays ==
  ASSUME OneDSlot, NEW t \in Threads, Acts(t), \A i \in DirSlots : DTakes(t, i)' => DTakes(t, i)
  PROVE  OneDSlot'
<1>1. \A u \in Threads, i \in DirSlots : DTakes(u, i)' => DTakes(u, i)
  BY ElsewhereToo
<1>. QED
  BY <1>1 DEF OneDSlot

LEMMA RunsOn ==
  ASSUME Login, NEW t \in Threads, Acts(t)
  PROVE  Running /\ Running'
<1>1. Running
  BY DEF Login, Acts, At
<1>2. Last \in Threads
  BY NetHostFsAssumption
<1>. QED
  BY <1>1, <1>2 DEF Acts, Running

LEMMA LoggedFor ==
  ASSUME Login, NEW t \in Threads, call[t].op \notin {"none", "hello", "init"}
  PROVE  logged
BY DEF Login, Untouched

(* Login does not look at the tables once somebody has logged in.             *)
LEMMA LoginLater ==
  ASSUME Login, NEW t \in Threads, Acts(t), logged
  PROVE  Login'
<1>1. Running' /\ logged' = logged /\ call' = call
  BY RunsOn DEF Acts
<1>. QED
  BY <1>1 DEF Login

LEMMA LoginActs ==
  ASSUME Login, NEW t \in Threads, Acts(t), UNCHANGED <<kernel, dirs_table, files_table>>,
         call[t].op = "init" /\ Decided(t)' /\ Outcome(t)' = 0 => Decided(t) /\ Outcome(t) = 0
  PROVE  Login'
<1>1. CASE logged
  BY <1>1, LoginLater
<1>2. CASE ~logged
  <2>1. Untouched /\ UNCHANGED <<call, handles, dhandles, logged>> /\ Running'
    BY <1>2, RunsOn DEF Login, Acts
  <2>2. \A u \in Threads : call[u].op = "init" /\ Decided(u)' /\ Outcome(u)' = 0 => Decided(u) /\ Outcome(u) = 0
    BY Elsewhere
  <2>3. \A i \in FileSlots : Desc(i)' = Desc(i)
    BY DEF Desc
  <2>4. Untouched'
    BY <2>1, <2>2, <2>3 DEF Untouched
  <2>. QED
    BY <1>2, <2>1, <2>4 DEF Login
<1>. QED
  BY <1>1, <1>2

(* What a request is about.                                                   *)
LEMMA DirSlotOf ==
  ASSUME WInv, NEW t \in Threads
  PROVE  /\ call[t].op \in OnDir => call[t].h \in DirSlots
         /\ call[t].op \in OnFile => call[t].h \in FileSlots
         /\ call[t].op = "dopen" => call[t].path \in Dirs
         /\ At(t, "scandir") => thread[t].i \in DirSlots
         /\ At(t, "closing") => call[t].op = "dclose"
         /\ ToClose(t) => call[t].op = "close" /\ call[t].h \in FileSlots
         /\ DFrees(t) => call[t].op = "dclose" /\ call[t].h \in DirSlots
         /\ call[t].op \in Ops \cup {"none"}
         /\ call[t] = NoCall <=> call[t].op = "none"
<1>1. call[t] \in Requests \cup {NoCall} /\ Wired(t)
  BY DEF WInv, Wired
<1>2. At(t, "scandir") => thread[t].i \in DirSlots
  BY <1>1 DEF Wired, Working, Serves, At
<1>3. At(t, "closing") => call[t].op = "dclose"
  <2>1. SUFFICES ASSUME thread[t].at = "closing" PROVE call[t].op = "dclose"
    BY DEF At
  <2>2. call[t] \in Requests /\ Serves(thread[t], call[t])
    BY <1>1, <2>1, Works
  <2>. QED
    BY <2>1, <2>2, RequestsType DEF Serves, StepsOf, Ops, OnFile, OnDir
<1>4. call[t] = NoCall => call[t].op = "none"
  BY NoCallType
<1>5. At(t, "reset") => call[t].op = "close"
  <2>1. SUFFICES ASSUME thread[t].at = "reset" PROVE call[t].op = "close"
    BY DEF At
  <2>2. call[t] \in Requests /\ Serves(thread[t], call[t])
    BY <1>1, <2>1, Works
  <2>. QED
    BY <2>1, <2>2, RequestsType DEF Serves, StepsOf, Ops, OnFile, OnDir
<1>6. /\ call[t].op \in OnDir => call[t].h \in DirSlots
      /\ call[t].op \in OnFile => call[t].h \in FileSlots
      /\ call[t].op = "dopen" => call[t].path \in Dirs
      /\ call[t].op \in Ops \cup {"none"}
      /\ call[t] = NoCall <=> call[t].op = "none"
  BY <1>1, <1>4, RequestsType, NoCallType DEF Ops, OnFile, OnDir
<1>7. ToClose(t) => call[t].op = "close"
  BY <1>5 DEF ToClose, Pending
<1>8. DFrees(t) => call[t].op = "dclose"
  BY <1>3 DEF DFrees, Pending
<1>. QED
  BY <1>2, <1>3, <1>6, <1>7, <1>8 DEF OnFile, OnDir

(* The descriptors stay as they are.                                          *)
LEMMA FilesActs ==
  ASSUME Login, FilesInv, NEW t \in Threads, Acts(t), UNCHANGED kernel,
         \A i \in FileSlots : Desc(i)' = Desc(i),
         \A u \in Threads \ {t} : At(u, "path") /\ call[u].op = "open" =>
             files_table'[thread[u].i].name = files_table[thread[u].i].name,
         ToClose(t)' => ToClose(t),
         thread[t].at \notin {"store", "reset"}, thread'[t].at \notin {"store", "reset"},
         OneSlot', WInv, WInv', Opening(t)'
  PROVE  FilesInv'
<1>1. Running /\ Running' /\ UNCHANGED <<call, handles, logged, rdonly>>
  BY RunsOn DEF Acts
<1>2. \A u \in Threads : ToClose(u)' => ToClose(u)
  BY ElsewhereToo
<1>a. \A u \in Threads : (At(u, "reset")' <=> At(u, "reset")) /\ (At(u, "store")' <=> At(u, "store"))
  <2>1. ASSUME NEW u \in Threads \ {t} PROVE (At(u, "reset")' <=> At(u, "reset")) /\ (At(u, "store")' <=> At(u, "store"))
    BY DEF Acts, At
  <2>. QED
    BY <2>1 DEF At
<1>b. \A i \in FileSlots : Steady(i)' <=> Steady(i)
  BY <1>1, <1>a DEF Steady
<1>c. \A u \in Threads : At(u, "store") => u # t /\ thread'[u] = thread[u]
  BY DEF Acts, At
<1>3. \A i \in FileSlots : (Slot(i) => Slot(i)') /\ (Held(i) => Held(i)')
  <2>1. ASSUME NEW i \in FileSlots, Slot(i) PROVE Slot(i)'
    BY <1>1, <1>b, <2>1 DEF Slot
  <2>2. ASSUME NEW i \in FileSlots, Held(i) PROVE Held(i)'
    BY <1>1, <2>2 DEF Held
  <2>. QED
    BY <2>1, <2>2
<1>4. NoLoss'
  BY <1>a, <1>b, <1>c DEF FilesInv, NoLoss
<1>5. OneClose'
  BY <1>1, <1>2, Zenon DEF FilesInv, OneClose
<1>6. ASSUME NEW u \in Threads PROVE Closing(u)'
  <2>1. SUFFICES ASSUME ToClose(u)' PROVE (handles[call[u].h] = <<>> /\ Desc(call[u].h) # -1)'
    BY DEF Closing
  <2>2. ToClose(u) /\ call[u].h \in FileSlots
    BY <1>2, <2>1, DirSlotOf
  <2>3. handles[call[u].h] = <<>> /\ Desc(call[u].h) # -1
    BY <2>2 DEF FilesInv, Closing
  <2>. QED
    BY <1>1, <2>2, <2>3
<1>7. \A i \in FileSlots : \A path : Given(i, path) => Given(i, path)'
  BY <1>1, <1>2 DEF Given, Kept
<1>8. ASSUME NEW u \in Threads PROVE Opening(u)'
  <2>1. CASE u = t
    BY <2>1
  <2>2. CASE u # t /\ call[u].op # "open"
    BY <1>1, <2>2 DEF Opening
  <2>3. CASE u # t /\ call[u].op = "open"
    <3>2. Opening(u) /\ UNCHANGED <<thread[u], call[u], to_psp[u]>>
      BY <2>3 DEF FilesInv, Acts
    <3>3. thread[u].at \in {"path", "stat", "store", "opened"} => thread[u].i \in FileSlots
      BY DEF WInv, Wired, Working, Serves, At
    <3>4. (Decided(u)' <=> Decided(u)) /\ Outcome(u)' = Outcome(u)
      BY <2>3, Elsewhere
    <3>5. At(u, "path")' => Desc(thread[u].i)' = -1 /\ files_table'[thread[u].i].name = call[u].path
      BY <2>3, <3>2, <3>3 DEF Opening, At
    <3>6. At(u, "stat")' => Desc(thread[u].i)' = -1 /\ Arg(u)'.path = call[u].path
      BY <2>3, <3>2, <3>3 DEF Opening, At, Arg
    <3>9. At(u, "store")' => /\ Desc(thread[u].i)' = -1 /\ call[u].path \in Files
                             /\ thread[u].res = -1 \/ Fresh(u)'
      <4>1. SUFFICES ASSUME At(u, "store") PROVE /\ Desc(thread[u].i)' = -1 /\ call[u].path \in Files
                                                 /\ thread[u].res = -1 \/ Fresh(u)'
        BY <3>2 DEF At
      <4>2. Desc(thread[u].i) = -1 /\ call[u].path \in Files /\ (thread[u].res = -1 \/ Fresh(u))
        BY <2>3, <3>2, <4>1 DEF Opening
      <4>3. Fresh(u) => Fresh(u)'
        BY <1>a, <1>b, <1>c, <3>2 DEF Fresh
      <4>. QED
        BY <3>2, <3>3, <4>1, <4>2, <4>3 DEF At
    <3>7. At(u, "opened")' => Desc(thread[u].i)' = -1 \/ Given(thread[u].i, call[u].path)'
      <4>1. SUFFICES ASSUME At(u, "opened") PROVE Desc(thread[u].i)' = -1 \/ Given(thread[u].i, call[u].path)'
        BY <3>2 DEF At
      <4>2. Desc(thread[u].i) = -1 \/ Given(thread[u].i, call[u].path)
        BY <2>3, <3>2, <4>1 DEF Opening
      <4>3. CASE Desc(thread[u].i) = -1
        BY <3>2, <3>3, <4>1, <4>3 DEF At
      <4>4. CASE Given(thread[u].i, call[u].path)
        <5>1. PICK i \in FileSlots : i = thread[u].i
          BY <3>3, <4>1 DEF At
        <5>2. PICK p : p = call[u].path
          OBVIOUS
        <5>3. Given(i, p)'
          BY <1>7, <4>4, <5>1, <5>2
        <5>4. i = thread[u].i' /\ p = call[u].path'
          BY <3>2, <5>1, <5>2
        <5>5. Given(thread[u].i, call[u].path)'
          BY <5>3, <5>4 DEF Given, Kept
        <5>. QED
          BY <5>5
      <4>. QED
        BY <4>2, <4>3, <4>4
    <3>8. Decided(u)' /\ Outcome(u)' \in FileSlots =>
              call[u].path \in Files /\ Given(Outcome(u), call[u].path)'
      <4>1. SUFFICES ASSUME Decided(u), Outcome(u) \in FileSlots
                     PROVE  call[u].path \in Files /\ Given(Outcome(u), call[u].path)'
        BY <3>4
      <4>2. call[u].path \in Files /\ Given(Outcome(u), call[u].path)
        BY <1>1, <2>3, <3>2, <4>1 DEF Opening
      <4>3. PICK i \in FileSlots : i = Outcome(u)
        BY <4>1
      <4>4. PICK p : p = call[u].path
        OBVIOUS
      <4>5. Given(i, p)'
        BY <1>7, <4>2, <4>3, <4>4
      <4>6. i = Outcome(u)' /\ p = call[u].path'
        BY <3>2, <3>4, <4>3, <4>4
      <4>7. Given(Outcome(u), call[u].path)'
        BY <4>5, <4>6 DEF Given, Kept
      <4>. QED
        BY <4>2, <4>7
    <3>. QED
      BY <1>1, <2>3, <3>2, <3>5, <3>6, <3>7, <3>8, <3>9 DEF Opening
  <2>. QED
    BY <2>1, <2>2, <2>3
<1>. QED
  BY <1>1, <1>3, <1>4, <1>5, <1>6, <1>8 DEF FilesInv

(* The directories stay as they are.                                          *)
LEMMA DirsActs ==
  ASSUME Login, DirsInv, NEW t \in Threads, Acts(t), UNCHANGED dirs_table, WInv, WInv',
         DFrees(t)' => DFrees(t), Pending(t, "dclose")' => Pending(t, "dclose"),
         OneDSlot', DOpening(t)', DReading(t)'
  PROVE  DirsInv'
<1>1. Running /\ Running' /\ UNCHANGED <<call, dhandles, faults>>
  BY RunsOn DEF Acts
<1>a. \A u \in Threads : (DFrees(u)' => DFrees(u)) /\ (Pending(u, "dclose")' => Pending(u, "dclose"))
  BY Elsewhere, ElsewhereToo DEF Ops, OnDir
<1>2. OneDclose' /\ OneUser'
  BY <1>1, <1>a, Zenon DEF DirsInv, OneDclose, OneUser
<1>b. \A h : DKept(h) => DKept(h)'
  BY <1>1, <1>a DEF DKept
<1>3. (\A h \in DirSlots : DHeld(h))'
  BY <1>1 DEF DirsInv, DHeld, Dir, Using
<1>4. ASSUME NEW u \in Threads PROVE DClosing(u)'
  BY <1>1, <1>a DEF DirsInv, DClosing, Dir
<1>5. ASSUME NEW u \in Threads PROVE DOpening(u)'
  <2>1. CASE u = t
    BY <2>1
  <2>2. CASE u # t
    <3>1. UNCHANGED <<thread[u], call[u]>> /\ (Decided(u)' <=> Decided(u)) /\ Outcome(u)' = Outcome(u)
      BY <2>2, Elsewhere
    <3>2. DOpening(u)
      BY DEF DirsInv
    <3>3. ASSUME NEW h, DKept(h) PROVE \A k : k = h => DKept(k)'
      BY <1>b, <3>3 DEF DKept
    <3>4. call[u].op = "dopen" /\ At(u, "scandir")' => (Dir(thread[u].i).entries = NoPath /\ DKept(thread[u].i))'
      <4>1. SUFFICES ASSUME call[u].op = "dopen", At(u, "scandir")
                     PROVE  (Dir(thread[u].i).entries = NoPath /\ DKept(thread[u].i))'
        BY <3>1, <3>2 DEF At, DOpening
      <4>. QED
        BY <3>1, <3>2, <3>3, <4>1 DEF DOpening, Dir
    <3>. QED
      BY <1>1, <3>1, <3>2, <3>3, <3>4 DEF DOpening, Dir, DGiven
  <2>. QED
    BY <2>1, <2>2
<1>6. ASSUME NEW u \in Threads PROVE DReading(u)'
  <2>1. CASE u = t
    BY <2>1
  <2>2. CASE u # t
    <3>1. UNCHANGED <<thread[u], call[u]>> /\ (Decided(u)' <=> Decided(u)) /\ Outcome(u)' = Outcome(u)
      BY <2>2, Elsewhere
    <3>2. DReading(u)
      BY DEF DirsInv
    <3>. QED
      BY <1>1, <3>1, <3>2 DEF DReading, Dir
  <2>. QED
    BY <2>1, <2>2
<1>7. \A u \in Threads : ~At(u, "closed")' \/ At(u, "closed")
  BY DEF Acts, At
<1>. QED
  BY <1>1, <1>2, <1>3, <1>4, <1>5, <1>6, <1>7 DEF DirsInv

TInv == WInv /\ Login /\ FilesInv /\ DirsInv

(* A step of t that leaves the tables alone, and tells no result that tells of *)
(* them.                                                                      *)
LEMMA TablesStay ==
  ASSUME TInv, WInv', NEW t \in Threads, Acts(t), UNCHANGED <<files_table, dirs_table, kernel>>,
         call[t].op \in {"init", "open", "dopen", "dread"} =>
             (Decided(t)' <=> Decided(t)) /\ (Decided(t) => Outcome(t)' = Outcome(t)),
         Pending(t, "close")' => Pending(t, "close"),
         Pending(t, "dclose")' => Pending(t, "dclose"),
         thread[t].at \notin {"store", "reset"},
         thread'[t].at \notin {"path", "stat", "store", "opened", "reset", "scandir", "closing"}
  PROVE  TInv'
<1>1. WInv /\ Login /\ FilesInv /\ DirsInv
  BY DEF TInv
<1>2. Running /\ Running' /\ UNCHANGED <<call, handles, dhandles, faults>>
  BY <1>1, RunsOn DEF Acts
<1>a. (ToClose(t)' => ToClose(t)) /\ (DFrees(t)' => DFrees(t))
  BY DEF ToClose, DFrees, At
<1>3. \A u \in Threads : (ToClose(u)' => ToClose(u)) /\ (DFrees(u)' => DFrees(u))
  BY <1>a, ElsewhereToo
<1>b. UNCHANGED call[t] /\ ~At(t, "scandir")' /\ \A i : ~Filling(t, i)'
  BY <1>2 DEF Filling, At
<1>c. \A i : (Takes(t, i)' => Takes(t, i)) /\ (DTakes(t, i)' => DTakes(t, i))
  <2>1. ASSUME NEW i PROVE Takes(t, i)' => Takes(t, i)
    BY <1>b DEF Takes
  <2>2. ASSUME NEW i PROVE DTakes(t, i)' => DTakes(t, i)
    BY <1>b DEF DTakes
  <2>. QED
    BY <2>1, <2>2
<1>d. OneSlot' /\ OneDSlot'
  BY <1>1, <1>c, OneSlotStays, OneDSlotStays DEF FilesInv, DirsInv
<1>4. \A i, path : Given(i, path) => Given(i, path)'
  BY <1>2, <1>3 DEF Given, Kept, Desc
<1>5. Opening(t)'
  <2>1. SUFFICES ASSUME call[t].op = "open", Decided(t)', Outcome(t)' \in FileSlots
                 PROVE  call[t].path \in Files /\ Given(Outcome(t), call[t].path)'
    BY <1>2 DEF Opening, At
  <2>2. call[t].path \in Files /\ Given(Outcome(t), call[t].path)
    BY <1>1, <1>2, <2>1 DEF FilesInv, Opening
  <2>3. PICK i : i = Outcome(t)
    OBVIOUS
  <2>4. PICK p : p = call[t].path
    OBVIOUS
  <2>5. Given(i, p)'
    BY <1>4, <2>2, <2>3, <2>4
  <2>6. i = Outcome(t)' /\ p = call[t].path'
    BY <1>2, <2>1, <2>3, <2>4
  <2>7. Given(Outcome(t), call[t].path)'
    BY <2>5, <2>6 DEF Given, Kept
  <2>. QED
    BY <2>2, <2>7
<1>6. DOpening(t)'
  <2>1. DOpening(t)
    BY <1>1 DEF DirsInv
  <2>. QED
    BY <1>2, <1>3, <2>1 DEF DOpening, At, DGiven, DKept, Dir
<1>7. DReading(t)'
  <2>1. DReading(t)
    BY <1>1 DEF DirsInv
  <2>. QED
    BY <1>2, <2>1 DEF DReading, Dir
<1>8. Login'
  BY <1>1, LoginActs
<1>9. FilesInv'
  <2>1. \A i \in FileSlots : Desc(i)' = Desc(i)
    BY DEF Desc
  <2>. QED
    BY <1>1, <1>3, <1>5, <1>d, <2>1, FilesActs
<1>10. DirsInv'
  BY <1>1, <1>3, <1>6, <1>7, <1>d, DirsActs
<1>. QED
  BY <1>8, <1>9, <1>10 DEF TInv

Still == <<call, handles, dhandles, logged, faults, rdonly>>

(* A step on a request that the tables do not depend on.                      *)
LEMMA GoesOn ==
  ASSUME TInv, WInv', NEW t \in Threads, UNCHANGED <<Still, files_table, dirs_table, kernel>>,
         \A u \in Threads \ {t} : thread'[u] = thread[u] /\ to_pc'[u] = to_pc[u] /\ to_psp'[u] = to_psp[u],
         thread[t].at \notin {"closed", "store", "reset"}, call[t].op \notin {"init", "open", "dopen", "dread"},
         thread'[t].at \notin {"closed", "path", "stat", "store", "opened", "reset", "scandir", "closing", "close", "dclose"},
         thread'[t].at = "cmd" => to_pc'[t] = <<>>
  PROVE  TInv'
<1>1. Acts(t)
  BY DEF Acts, Still
<1>2. ~Pending(t, "close")' /\ ~Pending(t, "dclose")'
  BY DEF Pending, At
<1>. QED
  BY <1>1, <1>2, TablesStay DEF Still

LEMMA OpAt ==
  ASSUME TInv, NEW t \in Threads, thread[t].at \notin {"cmd", "closed"}
  PROVE  /\ call[t] \in Requests /\ Serves(thread[t], call[t])
         /\ thread[t].at # "send" => to_psp[t] = <<>>
         /\ thread[t].at \in Ops => call[t].op = thread[t].at
         /\ thread[t].at \in {"path", "stat", "store", "opened"} => call[t].op = "open"
         /\ thread[t].at = "reset" => call[t].op = "close"
         /\ thread[t].at = "scandir" => call[t].op = "dopen"
         /\ thread[t].at = "closing" => call[t].op = "dclose"
         /\ thread[t].at = "send" => call[t].op = "read"
         /\ thread[t].at = "recv" => call[t].op = "write"
<1>1. call[t] \in Requests /\ Serves(thread[t], call[t]) /\ (thread[t].at # "send" => to_psp[t] = <<>>)
  BY Works DEF TInv, WInv
<1>. QED
  BY <1>1, RequestsType DEF Serves, StepsOf, Ops, OnFile, OnDir

LEMMA AnswerStays ==
  ASSUME TInv, WInv', NEW t \in Threads, NEW v \in Int, Answer(t, v),
         UNCHANGED <<Still, to_pc, to_psp, files_table, dirs_table, kernel>>,
         thread[t].at \in {"hello", "getstat", "change", "rename", "read", "lseek", "recv", "write", "close", "dclose"}
  PROVE  TInv'
<1>1. thread \in [Threads -> Thread]
  BY DEF TInv, WInv, WiresType
<1>2. (\A u \in Threads : u # t => thread'[u] = thread[u]) /\ thread'[t].at = "reply"
  BY <1>1, AnswerFields
<1>3. call[t].op \notin {"init", "open", "dopen", "dread"}
  BY OpAt DEF Ops, OnFile, OnDir
<1>. QED
  BY <1>2, <1>3, GoesOn

LEMMA StepTables_Plain ==
  ASSUME TInv, WInv', NEW t \in Threads,
         \/ Query(t) \/ Change(t) \/ process_iorename(t) \/ process_iolseek(t)
  PROVE  TInv'
<1>1. UNCHANGED <<Still, to_pc, to_psp, files_table, dirs_table, kernel>>
  BY DEF Query, Change, process_iorename, process_iolseek, Rest, Wire, psp, tables, Still
<1>2. PICK v \in {-1, 0} : Answer(t, v)
  BY DEF Query, Change, process_iorename, process_iolseek
<1>3. thread[t].at \in {"hello", "getstat", "change", "rename", "lseek"}
  BY DEF Query, Change, process_iorename, process_iolseek, At
<1>. QED
  BY <1>1, <1>2, <1>3, AnswerStays

LEMMA StepTables_ioread ==
  ASSUME TInv, WInv', NEW t \in Threads, process_ioread(t)
  PROVE  TInv'
<1>1. UNCHANGED <<Still, to_pc, to_psp, files_table, dirs_table, kernel>>
  BY DEF process_ioread, Rest, Wire, psp, tables, Still
<1>a. thread \in [Threads -> Thread]
  BY DEF TInv, WInv, WiresType
<1>2. Arg(t).len \in Int
  BY <1>a, NetHostFsAssumption DEF Arg, Thread, Request
<1>3. PICK v \in IF Arg(t).len >= Limit THEN {-1}
                 ELSE IF Arg(t).len <= 0 THEN {0}
                 ELSE IF ~InFiles(Arg(t).h) \/ FreeFile(Arg(t).h) THEN {-1}
                 ELSE Transferred(Fd(t), Arg(t).len) : Answer(t, v)
  BY DEF process_ioread
<1>4. v \in Int /\ thread[t].at = "read"
  BY <1>2, <1>3, TransferredType DEF process_ioread, At
<1>. QED
  BY <1>1, <1>3, <1>4, AnswerStays

LEMMA StepTables_WriteFile ==
  ASSUME TInv, WInv', NEW t \in Threads, WriteFile(t)
  PROVE  TInv'
<1>1. UNCHANGED <<Still, to_pc, to_psp, files_table, dirs_table, kernel>>
  BY DEF WriteFile, Rest, Wire, psp, tables, Still
<1>a. thread \in [Threads -> Thread]
  BY DEF TInv, WInv, WiresType
<1>2. Arg(t).len \in Int
  BY <1>a, NetHostFsAssumption DEF Arg, Thread, Request
<1>3. PICK v \in IF thread[t].res < 0 THEN {-1}
                 ELSE IF rdonly THEN {Arg(t).len}
                 ELSE Transferred(Fd(t), Arg(t).len) : Answer(t, v)
  BY DEF WriteFile
<1>4. v \in Int /\ thread[t].at = "recv"
  BY <1>2, <1>3, TransferredType DEF WriteFile, At
<1>. QED
  BY <1>1, <1>3, <1>4, AnswerStays

LEMMA StepTables_Transfers ==
  ASSUME TInv, WInv', NEW t \in Threads,
         \/ ReadSend(t) \/ process_iowrite(t) \/ WriteRecv(t) \/ process_iochstat(t)
  PROVE  TInv'
<1>1. thread \in [Threads -> Thread] /\ to_pc \in [Threads -> Seq(Request)] /\ DOMAIN to_psp = Threads
  BY DEF TInv, WInv, WiresType
<1>2. UNCHANGED <<Still, files_table, dirs_table, kernel>>
  BY DEF ReadSend, process_iowrite, WriteRecv, process_iochstat, Rest, Wire, psp, tables, Still
<1>3. /\ thread[t].at \in {"send", "write", "recv", "chstat"}
      /\ call[t].op \notin {"init", "open", "dopen", "dread"}
  <2>1. thread[t].at \in {"send", "write", "recv", "chstat"}
    BY DEF ReadSend, process_iowrite, WriteRecv, process_iochstat, At
  <2>. QED
    BY <2>1, OpAt DEF Ops, OnFile, OnDir
<1>4. \A u \in Threads \ {t} : thread'[u] = thread[u] /\ to_pc'[u] = to_pc[u] /\ to_psp'[u] = to_psp[u]
  BY <1>1 DEF ReadSend, process_iowrite, WriteRecv, process_iochstat, Answer, Rest, Wire
<1>5. CASE ReadSend(t)
  <2>1. PICK x \in 1 .. Least(blk_size, thread[t].left) :
            thread' = [thread EXCEPT ![t] = IF x = @.left THEN Ready ELSE [@ EXCEPT !.left = thread[t].left - x]]
    BY <1>5 DEF ReadSend
  <2>2. CASE x = thread[t].left
    <3>1. thread'[t] = Ready /\ Ready.at = "cmd"
      BY <1>1, <2>1, <2>2, NoCallType
    <3>2. Len(to_pc[t]) = 0 /\ to_pc' = to_pc
      <4>1. Wired(t) /\ thread[t].at = "send"
        BY <1>5 DEF TInv, WInv, ReadSend, At
      <4>. QED
        BY <1>5, <4>1, Works DEF Owed, ReadSend
    <3>3. to_pc'[t] = <<>>
      BY <1>1, <3>2
    <3>. QED
      BY <1>2, <1>3, <1>4, <3>1, <3>3, GoesOn
  <2>3. CASE x # thread[t].left
    <3>1. thread'[t] = [thread[t] EXCEPT !.left = thread[t].left - x]
      BY <1>1, <2>1, <2>3
    <3>2. thread'[t].at = "send"
      BY <1>1, <1>5, <3>1 DEF Thread, ReadSend, At
    <3>. QED
      BY <1>2, <1>3, <1>4, <3>2, GoesOn
  <2>. QED
    BY <2>2, <2>3
<1>6. CASE process_iowrite(t)
  <2>1. thread'[t].at \in {"reply", "recv"}
    <3>1. CASE Answer(t, 0)
      BY <1>1, <3>1, AnswerFields
    <3>2. CASE ~Answer(t, 0)
      <4>1. PICK r : thread' = [thread EXCEPT ![t].at = "recv", ![t].left = Arg(t).len, ![t].res = r]
        BY <1>6, <3>2 DEF process_iowrite
      <4>2. thread'[t] = [thread[t] EXCEPT !.at = "recv", !.left = Arg(t).len, !.res = r]
        BY <1>1, <4>1
      <4>. QED
        BY <1>1, <4>2 DEF Thread
    <3>. QED
      BY <3>1, <3>2
  <2>. QED
    BY <1>2, <1>3, <1>4, <2>1, GoesOn
<1>7. CASE WriteRecv(t)
  <2>1. PICK x : thread' = [thread EXCEPT ![t].left = @ - x]
    BY <1>7 DEF WriteRecv
  <2>2. thread'[t].at = "recv"
    BY <1>1, <1>7, <2>1 DEF Thread, WriteRecv, At
  <2>. QED
    BY <1>2, <1>3, <1>4, <2>2, GoesOn
<1>8. CASE process_iochstat(t)
  <2>1. PICK r, b : thread' = [thread EXCEPT ![t].at = "reply", ![t].res = r, ![t].again = b]
    BY <1>8 DEF process_iochstat
  <2>2. thread'[t] = [thread[t] EXCEPT !.at = "reply", !.res = r, !.again = b]
    BY <1>1, <2>1
  <2>3. thread'[t].at = "reply"
    BY <1>1, <2>2 DEF Thread
  <2>. QED
    BY <1>2, <1>3, <1>4, <2>3, GoesOn
<1>. QED
  BY <1>5, <1>6, <1>7, <1>8

LEMMA StepTables_cmd ==
  ASSUME TInv, WInv', NEW t \in Threads, process_cmd(t)
  PROVE  TInv'
<1>1. thread \in [Threads -> Thread] /\ to_pc \in [Threads -> Seq(Request)] /\ Wired(t)
  BY DEF TInv, WInv, WiresType
<1>2. call[t] # NoCall /\ Unread(t) /\ call[t] \in Requests
  BY <1>1 DEF process_cmd, At, Wired, Silence, Answered
<1>3. call[t].op \in Ops /\ thread[t].at = "cmd" /\ to_psp[t] = <<>> /\ to_pc[t] # <<>>
  BY <1>2, RequestsType DEF Unread, process_cmd, At
<1>4. PICK at \in {call[t].op, "cmd"} : thread' = [thread EXCEPT ![t] = [Ready EXCEPT !.req = call[t], !.at = at]]
  BY <1>2 DEF process_cmd, Unread
<1>5. thread'[t].at = at
  BY <1>1, <1>4, NoCallType DEF Ready
<1>6. UNCHANGED <<Still, files_table, dirs_table, kernel, to_psp>>
  BY DEF process_cmd, psp, tables, Still
<1>7. Acts(t)
  BY <1>1, <1>3, <1>4, <1>5, <1>6 DEF Acts, Still, process_cmd, Ops, OnFile, OnDir
<1>8. ~Decided(t) /\ ~Decided(t)'
  BY <1>3, <1>5, <1>6 DEF Decided, At, Ops, OnFile, OnDir
<1>9. (Pending(t, "close")' => Pending(t, "close")) /\ (Pending(t, "dclose")' => Pending(t, "dclose"))
  BY <1>3, <1>6 DEF Pending, At, Still
<1>10. thread'[t].at \notin {"path", "stat", "store", "opened", "reset", "scandir", "closing"}
  BY <1>3, <1>5 DEF Ops, OnFile, OnDir
<1>. QED
  BY <1>3, <1>6, <1>7, <1>8, <1>9, <1>10, TablesStay

LEMMA StepTables_SendReturn ==
  ASSUME TInv, WInv', NEW t \in Threads, SendReturn(t)
  PROVE  TInv'
<1>1. /\ thread \in [Threads -> Thread] /\ DOMAIN to_psp = Threads
      /\ to_pc \in [Threads -> Seq(Request)]
  BY DEF TInv, WInv, WiresType
<1>2. /\ call[t] \in Requests /\ Serves(thread[t], call[t])
      /\ to_psp[t] = <<>> /\ thread[t].at = "reply" /\ Len(to_pc[t]) = Owed(thread[t], call[t])
  BY Works DEF SendReturn, At, TInv, WInv
<1>3. to_pc[t] = <<>> /\ call[t] # NoCall /\ thread[t].res \in Int
  BY <1>1, <1>2, RequestsType DEF Owed, Thread
<1>4. PICK m : m = [op |-> Arg(t).op, n |-> thread[t].res]
  OBVIOUS
<1>5. m.n = thread[t].res
  BY <1>4
<1>6. PICK s : s = Append(<<>>, m)
  OBVIOUS
<1>7. s # <<>> /\ Head(s) = m
  BY <1>6
<1>8. to_psp' = [to_psp EXCEPT ![t] = s]
  BY <1>1, <1>2, <1>4, <1>6 DEF SendReturn
<1>9. to_psp'[t] = s /\ \A u \in Threads \ {t} : to_psp'[u] = to_psp[u]
  BY <1>1, <1>8
<1>10. UNCHANGED <<Still, files_table, dirs_table, kernel, to_pc>>
  BY DEF SendReturn, psp, tables, Still
<1>11. /\ \A u \in Threads \ {t} : thread'[u] = thread[u]
       /\ thread'[t].at \in {"cmd", "send"}
  <2>1. ~thread[t].again
    BY <1>2 DEF Serves
  <2>2. CASE thread' = [thread EXCEPT ![t] = Ready]
    BY <1>1, <2>2, NoCallType
  <2>3. CASE thread' = [thread EXCEPT ![t] = [thread[t] EXCEPT !.at = "send", !.left = thread[t].res]]
    <3>1. thread'[t] = [thread[t] EXCEPT !.at = "send", !.left = thread[t].res]
      BY <1>1, <2>3
    <3>. QED
      BY <1>1, <2>3, <3>1 DEF Thread
  <2>. QED
    BY <1>1, <2>1, <2>2, <2>3 DEF SendReturn
<1>12. Acts(t)
  BY <1>2, <1>9, <1>10, <1>11 DEF Acts, Still
<1>13. Decided(t) /\ Decided(t)' /\ Outcome(t) = thread[t].res /\ Outcome(t)' = thread[t].res
  BY <1>2, <1>3, <1>5, <1>7, <1>9, <1>10 DEF Decided, Outcome, At, Reply, Still
<1>14. ~Pending(t, "close")' /\ ~Pending(t, "dclose")'
  BY <1>3, <1>10, <1>11 DEF Pending, At
<1>. QED
  BY <1>2, <1>10, <1>11, <1>12, <1>13, <1>14, TablesStay

LEMMA StepTables_ioinit ==
  ASSUME TInv, WInv', NEW t \in Threads, process_ioinit(t)
  PROVE  TInv'
<1>1. thread \in [Threads -> Thread] /\ WInv /\ Login /\ FilesInv /\ DirsInv
  BY DEF TInv, WInv, WiresType
<1>2. UNCHANGED <<Still, to_pc, to_psp, kernel>> /\ thread[t].at = "init"
  BY DEF process_ioinit, Rest, Wire, psp, Still, At
<1>3. call[t].op = "init" /\ to_psp[t] = <<>> /\ ~logged
  BY <1>1, <1>2, OpAt DEF Login, Ops
<1>4. Untouched
  BY <1>1, <1>3 DEF Login
<1>5. CASE Answer(t, -2) /\ UNCHANGED tables
  <2>1. (\A u \in Threads : u # t => thread'[u] = thread[u]) /\ thread'[t].at = "reply" /\ thread'[t].res = -2
    BY <1>1, <1>5, AnswerFields
  <2>2. Acts(t)
    BY <1>2, <2>1 DEF Acts, Still
  <2>3. Outcome(t)' = -2
    BY <1>2, <1>3, <2>1 DEF Outcome
  <2>4. UNCHANGED <<files_table, dirs_table, kernel>>
    BY <1>2, <1>5 DEF tables
  <2>5. Login'
    BY <1>1, <2>2, <2>3, <2>4, LoginActs
  <2>6. ~ToClose(t)' /\ ~DFrees(t)' /\ ~Pending(t, "dclose")'
    BY <2>1 DEF ToClose, DFrees, Pending, At
  <2>7. call'[t].op = "init"
    BY <1>2, <1>3 DEF Still
  <2>8. Opening(t)' /\ DOpening(t)' /\ DReading(t)'
    BY <2>7 DEF Opening, DOpening, DReading
  <2>9. \A i \in FileSlots : Desc(i)' = Desc(i)
    BY <2>4 DEF Desc
  <2>10. OneSlot' /\ OneDSlot'
    <3>1. \A i : ~Takes(t, i)' /\ ~DTakes(t, i)'
      BY <2>7 DEF Takes, DTakes
    <3>. QED
      BY <1>1, <2>2, <3>1, OneSlotStays, OneDSlotStays DEF FilesInv, DirsInv
  <2>. QED
    BY <1>1, <1>2, <2>1, <2>10, <2>2, <2>4, <2>5, <2>6, <2>8, <2>9, FilesActs, DirsActs DEF TInv
<1>6. CASE /\ files_table' = [i \in FileSlots |-> [name |-> NoPath, fd |-> -1]]
           /\ dirs_table' = [i \in DirSlots |-> FreeDir]
           /\ Answer(t, 0)
  <2>1. (\A u \in Threads : u # t => thread'[u] = thread[u]) /\ thread'[t].at = "reply" /\ thread'[t].res = 0
    BY <1>1, <1>6, AnswerFields
  <2>2. Acts(t)
    BY <1>2, <2>1 DEF Acts, Still
  <2>3. Running /\ Running'
    BY <1>1, <2>2, RunsOn
  <2>4. \A i \in FileSlots : Desc(i)' = -1
    BY <1>6 DEF Desc
  <2>5. UNCHANGED <<call, handles, dhandles, kernel, logged, faults, rdonly>>
    BY <1>2 DEF Still
  <2>6. Untouched'
    BY <1>4, <1>6, <2>4, <2>5 DEF Untouched
  <2>7. Login'
    BY <1>3, <2>3, <2>5, <2>6 DEF Login
  <2>8. /\ \A u \in Threads : call'[u].op \in {"none", "hello", "init"}
        /\ handles' = [i \in FileSlots |-> <<>>] /\ dhandles' = [i \in DirSlots |-> <<>>]
        /\ kernel' = [f \in Fds |-> NoPath]
    BY <2>6 DEF Untouched
  <2>11. \A u \in Threads : ~ToClose(u)' /\ ~DFrees(u)'
    <3>1. \A u \in Threads : ~At(u, "reset") /\ ~At(u, "closing")
      BY <1>1, <1>4, DirSlotOf DEF Untouched, ToClose
    <3>2. \A u \in Threads : ~At(u, "reset")' /\ ~At(u, "closing")'
      BY <2>1, <3>1 DEF At
    <3>. QED
      BY <2>8, <3>2 DEF ToClose, DFrees, Pending
  <2>9. FilesInv'
    <3>1. (handles \in [FileSlots -> Seq(Files)])'
      BY <1>1, <2>5 DEF FilesInv
    <3>2. NoLoss'
      BY <2>8 DEF NoLoss
    <3>3. OneSlot' /\ OneClose'
      BY <2>8, <2>11 DEF OneSlot, OneClose, Takes
    <3>4. (\A i \in FileSlots : Held(i))'
      BY <2>8 DEF Held
    <3>5. (\A u \in Threads : Closing(u) /\ Opening(u))'
      BY <2>8, <2>11 DEF Closing, Opening
    <3>. QED
      BY <1>3, <2>5, <3>1, <3>2, <3>3, <3>4, <3>5 DEF FilesInv
  <2>10. DirsInv'
    <3>1. (dhandles \in [DirSlots -> Seq([path : Dirs, got : 0 .. MaxEntries])])'
      BY <1>1, <2>5 DEF DirsInv
    <3>2. OneDSlot' /\ OneDclose' /\ OneUser'
      BY <2>8, <2>11 DEF OneDSlot, DTakes, OneDclose, OneUser
    <3>3. (\A h \in DirSlots : DHeld(h))'
      BY <2>8 DEF DHeld
    <3>4. (\A u \in Threads : DOpening(u) /\ DReading(u))'
      BY <2>8 DEF DOpening, DReading
    <3>5. (\A u \in Threads : DClosing(u))'
      BY <2>8, <2>11 DEF DClosing, Pending
    <3>6. (faults = 0 /\ Running => \A u \in Threads : At(u, "closed") => call[u].op \in {"none", "exit"})'
      <4>1. \A u \in Threads : At(u, "closed")' => At(u, "closed")
        BY <2>1 DEF At
      <4>. QED
        BY <1>1, <2>3, <2>5, <4>1 DEF DirsInv
    <3>. QED
      BY <3>1, <3>2, <3>3, <3>4, <3>5, <3>6 DEF DirsInv
  <2>. QED
    BY <2>7, <2>9, <2>10 DEF TInv
<1>. QED
  BY <1>5, <1>6 DEF process_ioinit

(* Connections end, and with the last one the process.                        *)
LEMMA StepTables_End ==
  ASSUME TInv, WInv', NEW ended \in SUBSET Threads, End(ended),
         Last \in ended \/ \A u \in ended : thread[u].at \notin {"store", "reset"},
         faults' = 0 => faults = 0 /\ \A u \in ended : call[u].op = "exit"
  PROVE  TInv'
<1>1. thread \in [Threads -> Thread] /\ WInv /\ Login /\ FilesInv /\ DirsInv
  BY DEF TInv, WInv, WiresType
<1>2. UNCHANGED <<call, handles, dhandles, logged, rdonly, files_table, dirs_table, to_pc, to_psp>>
  BY DEF End, tables, Wire, psp
<1>3. Closed.at = "closed" /\ Last \in Threads
  BY NoCallType, NetHostFsAssumption DEF Closed, Ready, Thread
<1>4. /\ \A u \in Threads : thread'[u] = thread[u] \/ thread'[u].at = "closed"
      /\ \A u \in ended : thread'[u].at = "closed"
      /\ Running' => thread'[Last] = thread[Last] /\ Last \notin ended /\ kernel' = kernel
                     /\ \A u \in Threads \ ended : thread'[u] = thread[u]
      /\ Last \in ended => \A u \in Threads : thread'[u].at = "closed"
  BY <1>1, <1>3 DEF End, Running
<1>5. Running' => Running
  BY <1>4 DEF Running
<1>6. ASSUME NEW u \in Threads
      PROVE  /\ \A op \in Ops : Pending(u, op)' => Pending(u, op)
             /\ \A at \in Steps \ {"closed"} : At(u, at)' => At(u, at) /\ thread'[u] = thread[u]
             /\ Decided(u)' => Decided(u) /\ Outcome(u)' = Outcome(u)
             /\ Running' /\ faults' = 0 /\ call[u].op # "exit" => thread'[u] = thread[u] /\ u \notin ended
  <2>1. call'[u] = call[u] /\ to_pc'[u] = to_pc[u] /\ to_psp'[u] = to_psp[u]
    BY <1>2
  <2>2. CASE thread'[u] = thread[u]
    BY <1>4, <2>1, <2>2 DEF Pending, Decided, Outcome, At, Reply
  <2>3. CASE thread'[u].at = "closed"
    BY <1>4, <2>1, <2>3 DEF Pending, Decided, Outcome, At, Reply, Ops, OnFile, OnDir
  <2>. QED
    BY <1>4, <2>2, <2>3
<1>7. kernel' = kernel \/ (kernel' = [f \in Fds |-> NoPath] /\ ~Running')
  BY <1>1, <1>3, <1>4 DEF End, Running
<1>8. Login'
  <2>1. ~logged => Untouched'
    <3>1. SUFFICES ASSUME Untouched PROVE Untouched'
      BY <1>1 DEF Login
    <3>2. kernel' = [f \in Fds |-> NoPath]
      BY <1>7, <3>1 DEF Untouched
    <3>3. \A i \in FileSlots : Desc(i)' = Desc(i)
      BY <1>2 DEF Desc
    <3>4. \A u \in Threads : call[u].op = "init" /\ Decided(u)' /\ Outcome(u)' = 0 => \A i \in FileSlots : Desc(i)' = -1
      BY <1>6, <3>1, <3>3 DEF Untouched
    <3>. QED
      BY <1>2, <3>1, <3>2, <3>4 DEF Untouched
  <2>2. ~Running' => \A u \in Threads : At(u, "closed")'
    <3>1. CASE Last \in ended
      BY <1>4, <3>1 DEF At
    <3>2. CASE Last \notin ended
      <4>1. thread'[Last] = thread[Last]
        BY <1>1, <1>3, <3>2 DEF End
      <4>2. ~Running' => \A u \in Threads : thread[u].at = "closed"
        BY <1>1, <4>1 DEF Running, Login, At
      <4>. QED
        BY <1>4, <4>2 DEF At
    <3>. QED
      BY <3>1, <3>2
  <2>3. logged => \A u \in Threads : call[u].op # "init"
    BY <1>1 DEF Login
  <2>. QED
    BY <1>2, <2>1, <2>2, <2>3 DEF Login
<1>9. \A u \in Threads : (ToClose(u)' => ToClose(u)) /\ (DFrees(u)' => DFrees(u))
                        /\ (Pending(u, "dclose")' => Pending(u, "dclose"))
  <2>1. ASSUME NEW u \in Threads
        PROVE  /\ Pending(u, "close")' => Pending(u, "close")
               /\ Pending(u, "dclose")' => Pending(u, "dclose")
               /\ At(u, "reset")' => At(u, "reset")
               /\ At(u, "closing")' => At(u, "closing")
    BY <1>6 DEF Ops, OnFile, OnDir, Steps
  <2>. QED
    BY <2>1 DEF ToClose, DFrees
<1>10. \A i, path : Running' /\ Given(i, path) => Given(i, path)'
  BY <1>2, <1>4, <1>9 DEF Given, Kept, Desc
<1>a. \/ kernel' = [f \in Fds |-> NoPath] /\ ~Running'
      \/ /\ kernel' = kernel
         /\ \A u \in Threads : /\ (At(u, "reset")' <=> At(u, "reset")) /\ (At(u, "store")' <=> At(u, "store"))
                               /\ At(u, "store") => thread'[u] = thread[u]
  <2>1. CASE Last \in ended
    BY <1>3, <1>4, <2>1 DEF End, Running
  <2>2. CASE Last \notin ended
    <3>1. kernel' = kernel /\ \A u \in Threads \ ended : thread'[u] = thread[u]
      BY <1>1, <2>2 DEF End
    <3>2. \A u \in ended : ~At(u, "reset")' /\ ~At(u, "reset") /\ ~At(u, "store")' /\ ~At(u, "store")
      BY <1>4, <2>2 DEF At
    <3>. QED
      BY <3>1, <3>2 DEF At
  <2>. QED
    BY <2>1, <2>2
<1>b. ASSUME kernel' = kernel, \A u \in Threads : At(u, "reset")' <=> At(u, "reset"), NEW i
      PROVE  Steady(i)' <=> Steady(i)
  BY <1>2, <1>b DEF Steady
<1>c. \A i \in FileSlots : Desc(i)' = Desc(i)
  BY <1>2 DEF Desc
<1>11. FilesInv'
  <2>1. NoLoss'
    <3>1. CASE kernel' = [f \in Fds |-> NoPath]
      BY <3>1 DEF NoLoss
    <3>2. CASE kernel' # [f \in Fds |-> NoPath]
      <4>1. \A i : Steady(i)' <=> Steady(i)
        BY <1>a, <1>b, <3>2
      <4>. QED
        BY <1>1, <1>a, <1>c, <3>2, <4>1 DEF FilesInv, NoLoss
    <3>. QED
      BY <3>1, <3>2
  <2>2. OneSlot' /\ OneClose'
    <3>1. ASSUME NEW u \in Threads, NEW i, Takes(u, i)' PROVE Takes(u, i)
      <4>1. Filling(u, i)' => Filling(u, i)
        <5>1. SUFFICES ASSUME Filling(u, i)' PROVE Filling(u, i)
          OBVIOUS
        <5>2. thread'[u] = thread[u]
          BY <1>4, <5>1 DEF Filling
        <5>. QED
          BY <5>1, <5>2 DEF Filling
      <4>2. Decided(u)' => Decided(u) /\ Outcome(u)' = Outcome(u)
        BY <1>6
      <4>. QED
        BY <1>2, <3>1, <4>1, <4>2 DEF Takes
    <3>2. OneSlot'
      BY <1>1, <3>1 DEF FilesInv, OneSlot
    <3>3. OneClose'
      BY <1>1, <1>2, <1>9, Zenon DEF FilesInv, OneClose
    <3>. QED
      BY <3>2, <3>3
  <2>3. Running' /\ logged => (\A i \in FileSlots : Slot(i))'
    <3>1. SUFFICES ASSUME Running', logged, NEW i \in FileSlots PROVE Slot(i)'
      OBVIOUS
    <3>2. kernel' = kernel /\ \A k : Steady(k)' <=> Steady(k)
      BY <1>a, <1>b, <3>1
    <3>3. Slot(i)
      BY <1>1, <1>5, <3>1 DEF FilesInv
    <3>. QED
      BY <1>2, <1>c, <3>2, <3>3 DEF Slot
  <2>4. Running' => (\A i \in FileSlots : Held(i))'
    BY <1>1, <1>2, <1>4, <1>5 DEF FilesInv, Held, Desc
  <2>5. (\A u \in Threads : Closing(u))'
    BY <1>1, <1>2, <1>9 DEF FilesInv, Closing, Desc
  <2>6. ASSUME NEW u \in Threads PROVE Opening(u)'
    <3>1. SUFFICES ASSUME call[u].op = "open" PROVE Opening(u)'
      BY <1>2 DEF Opening
    <3>2. Opening(u) /\ call'[u] = call[u]
      BY <1>1, <1>2 DEF FilesInv
    <3>3. At(u, "path")' \/ At(u, "stat")' \/ At(u, "store")' \/ At(u, "opened")' => thread'[u] = thread[u] /\ Running'
      <4>1. At(u, "path")' \/ At(u, "stat")' \/ At(u, "store")' \/ At(u, "opened")' => thread'[u] = thread[u] /\ thread'[u].at # "closed"
        BY <1>6 DEF Steps, At
      <4>2. thread'[u].at # "closed" => Running'
        BY <1>8 DEF Login, At
      <4>. QED
        BY <4>1, <4>2
    <3>4. At(u, "path")' => Desc(thread[u].i)' = -1 /\ files_table'[thread[u].i].name = call[u].path
      BY <1>2, <3>1, <3>2, <3>3 DEF Opening, At, Desc
    <3>5. At(u, "stat")' => Desc(thread[u].i)' = -1 /\ Arg(u)'.path = call[u].path
      BY <1>2, <3>1, <3>2, <3>3 DEF Opening, At, Desc, Arg
    <3>a. At(u, "store")' => /\ Desc(thread[u].i)' = -1 /\ call[u].path \in Files
                             /\ thread[u].res = -1 \/ Fresh(u)'
      <4>1. SUFFICES ASSUME At(u, "store")' PROVE /\ Desc(thread[u].i)' = -1 /\ call[u].path \in Files
                                                  /\ thread[u].res = -1 \/ Fresh(u)'
        OBVIOUS
      <4>2. thread'[u] = thread[u] /\ Running' /\ At(u, "store")
        BY <3>3, <4>1 DEF At
      <4>3. Desc(thread[u].i) = -1 /\ call[u].path \in Files /\ (thread[u].res = -1 \/ Fresh(u))
        BY <3>1, <3>2, <4>2 DEF Opening
      <4>4. kernel' = kernel /\ \A k : Steady(k)' <=> Steady(k)
        BY <1>a, <1>b, <4>2
      <4>5. \A w \in Threads : At(w, "store")' => At(w, "store") /\ thread'[w] = thread[w]
        BY <1>a, <4>2
      <4>6. Fresh(u) => Fresh(u)'
        BY <1>c, <3>2, <4>2, <4>4, <4>5 DEF Fresh
      <4>7. Desc(thread[u].i)' = -1
        BY <1>2, <4>2, <4>3 DEF Desc
      <4>. QED
        BY <4>3, <4>6, <4>7
    <3>6. At(u, "opened")' => Desc(thread[u].i)' = -1 \/ Given(thread[u].i, call[u].path)'
      <4>1. SUFFICES ASSUME At(u, "opened")' PROVE Desc(thread[u].i)' = -1 \/ Given(thread[u].i, call[u].path)'
        OBVIOUS
      <4>2. Running' /\ thread'[u] = thread[u] /\ (Desc(thread[u].i) = -1 \/ Given(thread[u].i, call[u].path))
        BY <3>1, <3>2, <3>3, <4>1 DEF Opening, At
      <4>3. PICK i : i = thread[u].i
        OBVIOUS
      <4>4. PICK p : p = call[u].path
        OBVIOUS
      <4>5. Desc(i)' = -1 \/ Given(i, p)'
        BY <1>2, <1>10, <4>2, <4>3, <4>4 DEF Desc
      <4>6. i = thread[u].i' /\ p = call[u].path'
        BY <3>2, <4>2, <4>3, <4>4
      <4>. QED
        BY <4>5, <4>6 DEF Given, Kept, Desc
    <3>7. Decided(u)' /\ Outcome(u)' \in FileSlots =>
              call[u].path \in Files /\ (Running' => Given(Outcome(u), call[u].path)')
      <4>1. SUFFICES ASSUME Decided(u)', Outcome(u)' \in FileSlots
                     PROVE  call[u].path \in Files /\ (Running' => Given(Outcome(u), call[u].path)')
        OBVIOUS
      <4>2. Decided(u) /\ Outcome(u)' = Outcome(u)
        BY <1>6, <4>1
      <4>3. call[u].path \in Files /\ (Running' => Given(Outcome(u), call[u].path))
        BY <1>5, <3>1, <3>2, <4>1, <4>2 DEF Opening
      <4>4. PICK i : i = Outcome(u)
        OBVIOUS
      <4>5. PICK p : p = call[u].path
        OBVIOUS
      <4>6. Running' => Given(i, p)'
        BY <1>10, <4>3, <4>4, <4>5
      <4>7. i = Outcome(u)' /\ p = call[u].path'
        BY <3>2, <4>2, <4>4, <4>5
      <4>8. Given(i, p)' => Given(Outcome(u), call[u].path)'
        BY <4>7 DEF Given, Kept
      <4>. QED
        BY <4>3, <4>6, <4>8
    <3>. QED
      BY <3>2, <3>3, <3>4, <3>5, <3>6, <3>7, <3>a DEF Opening
  <2>. QED
    BY <1>1, <1>2, <2>1, <2>2, <2>3, <2>4, <2>5, <2>6 DEF FilesInv
<1>12. faults' = 0 => faults = 0
  OBVIOUS
<1>13. DirsInv'
  <2>a. ASSUME NEW u \in Threads, NEW i, DTakes(u, i)' PROVE DTakes(u, i)
    <3>1. At(u, "scandir")' => At(u, "scandir") /\ thread'[u] = thread[u]
      BY <1>6 DEF Steps
    <3>2. Decided(u)' => Decided(u) /\ Outcome(u)' = Outcome(u)
      BY <1>6
    <3>. QED
      BY <1>2, <2>a, <3>1, <3>2 DEF DTakes
  <2>1. OneDSlot' /\ OneDclose' /\ OneUser'
    <3>1. OneDSlot'
      BY <1>1, <2>a DEF DirsInv, OneDSlot
    <3>2. OneDclose' /\ OneUser'
      BY <1>1, <1>2, <1>9, Zenon DEF DirsInv, OneDclose, OneUser
    <3>. QED
      BY <3>1, <3>2
  <2>b. \A h : DKept(h) => DKept(h)'
    BY <1>2, <1>9 DEF DKept
  <2>2. Running' => (\A h \in DirSlots : DHeld(h))'
    BY <1>1, <1>2, <1>5, <1>12 DEF DirsInv, DHeld, Dir, Using
  <2>3. ASSUME NEW u \in Threads PROVE DOpening(u)'
    <3>1. DOpening(u) /\ call'[u] = call[u]
      BY <1>1, <1>2 DEF DirsInv
    <3>2. At(u, "scandir")' => At(u, "scandir") /\ thread'[u] = thread[u]
      BY <1>6 DEF Steps
    <3>3. Decided(u)' => Decided(u) /\ Outcome(u)' = Outcome(u)
      BY <1>6
    <3>4. ASSUME NEW h, DKept(h) PROVE \A k : k = h => DKept(k)'
      BY <2>b, <3>4 DEF DKept
    <3>. QED
      BY <1>2, <1>5, <3>1, <3>2, <3>3, <3>4 DEF DOpening, DGiven, Dir
  <2>4. ASSUME NEW u \in Threads PROVE DClosing(u)'
    BY <1>1, <1>2, <1>9 DEF DirsInv, DClosing, Dir
  <2>5. ASSUME NEW u \in Threads PROVE DReading(u)'
    <3>1. DReading(u) /\ call'[u] = call[u] /\ to_psp'[u] = to_psp[u]
      BY <1>1, <1>2 DEF DirsInv
    <3>2. Decided(u)' => Decided(u) /\ Outcome(u)' = Outcome(u)
      BY <1>6
    <3>3. call[u].op = "dread" /\ Running' /\ faults' = 0 /\ Decided(u) => Decided(u)' /\ Outcome(u)' = Outcome(u)
      BY <1>6, <3>1 DEF Decided, Outcome, At, Reply
    <3>. QED
      BY <1>2, <1>5, <1>12, <3>1, <3>2, <3>3 DEF DReading, Dir
  <2>6. faults' = 0 /\ Running' => \A u \in Threads : At(u, "closed")' => call[u].op \in {"none", "exit"}
    BY <1>1, <1>5, <1>6 DEF DirsInv, At
  <2>. QED
    BY <1>1, <1>2, <2>1, <2>2, <2>3, <2>4, <2>5, <2>6 DEF DirsInv
<1>. QED
  BY <1>8, <1>11, <1>13 DEF TInv

LEMMA StepTables_Ends ==
  ASSUME TInv, WInv', NEW t \in Threads, process_ioexit(t) \/ SocketFails(t)
  PROVE  TInv'
<1>1. CASE process_ioexit(t)
  <2>1. call[t].op = "exit"
    BY <1>1, OpAt DEF process_ioexit, At, Ops
  <2>2. /\ End({t}) /\ (faults' = 0 => faults = 0 /\ \A u \in {t} : call[u].op = "exit")
        /\ thread[t].at = "exit"
    BY <1>1, <2>1 DEF process_ioexit, At
  <2>. QED
    BY <2>2, StepTables_End
<1>2. CASE SocketFails(t)
  <2>1. faults \in Nat /\ faults' = faults + 1
    BY <1>2, NetHostFsAssumption DEF SocketFails, TInv, WInv, WiresType
  <2>2. faults' # 0 /\ Last \in Threads
    BY <2>1, NetHostFsAssumption
  <2>. QED
    BY <1>2, <2>2, StepTables_End DEF SocketFails
<1>. QED
  BY <1>1, <1>2

(* The PSP calls.                                                             *)
LEMMA CallFacts ==
  ASSUME TInv, NEW t \in Threads, NEW r \in Requests, Call(t, r)
  PROVE  /\ UNCHANGED <<server, to_psp, logged, faults>>
         /\ call[t] = NoCall /\ call[t].op = "none" /\ thread[t].at = "cmd" /\ to_psp[t] = <<>> /\ Legal(r)
         /\ call'[t] = r /\ r.op \in Ops /\ r # NoCall
         /\ \A u \in Threads \ {t} : call'[u] = call[u] /\ to_pc'[u] = to_pc[u]
         /\ Running /\ (r.op \notin {"hello", "init"} => logged)
         /\ \A u \in Threads \ {t} : /\ \A op \in Ops : Pending(u, op)' <=> Pending(u, op)
                                     /\ Decided(u)' <=> Decided(u)
                                     /\ Outcome(u)' = Outcome(u)
         /\ ~Decided(t)'
<1>1. /\ call \in [Threads -> Request] /\ to_pc \in [Threads -> Seq(Request)] /\ Wired(t) /\ Login
  BY DEF TInv, WInv, WiresType
<1>2. UNCHANGED <<server, to_psp, logged, faults>> /\ call[t] = NoCall /\ Legal(r) /\ thread[t].at # "closed"
  BY DEF Call
<1>3. thread[t].at = "cmd" /\ to_psp[t] = <<>> /\ call[t].op = "none"
  BY <1>1, <1>2, NoCallType DEF Wired, Silence
<1>4. call'[t] = r /\ \A u \in Threads \ {t} : call'[u] = call[u] /\ to_pc'[u] = to_pc[u]
  BY <1>1 DEF Call
<1>5. Running
  BY <1>1, <1>2 DEF Login, At
<1>6. UNCHANGED <<thread, to_psp>>
  BY <1>2 DEF server
<1>7. ASSUME NEW u \in Threads \ {t}
      PROVE  /\ \A op \in Ops : Pending(u, op)' <=> Pending(u, op)
             /\ Decided(u)' <=> Decided(u)
             /\ Outcome(u)' = Outcome(u)
  BY <1>4, <1>6 DEF Pending, Decided, Outcome, At, Reply
<1>8. ~Decided(t)'
  BY <1>3, <1>6 DEF Decided, At
<1>9. r.op \notin {"hello", "init"} => logged
  BY <1>2 DEF Legal
<1>. QED
  BY <1>2, <1>3, <1>4, <1>5, <1>7, <1>8, <1>9, RequestsType

LEMMA OneTail ==
  ASSUME NEW S, NEW q \in Seq(S), Len(q) = 1
  PROVE  Tail(q) = <<>> /\ Tail(q) \in Seq(S)
<1>1. Tail(q) \in Seq(S) /\ Len(Tail(q)) = 0
  BY EmptySeq
<1>. QED
  BY <1>1, EmptySeq

LEMMA HandlesAfterCall ==
  ASSUME TInv, NEW t \in Threads, NEW r \in Requests, Call(t, r)
  PROVE  /\ handles' \in [FileSlots -> Seq(Files)]
         /\ dhandles' \in [DirSlots -> Seq([path : Dirs, got : 0 .. MaxEntries])]
         /\ \A i \in FileSlots : handles'[i] = handles[i] \/ (r.op = "close" /\ r.h = i /\ handles[i] # <<>>)
         /\ \A h \in DirSlots : dhandles'[h] = dhandles[h] \/ (r.op = "dclose" /\ r.h = h /\ dhandles[h] # <<>>)
         /\ \A i \in FileSlots : handles[i] = <<>> => handles'[i] = <<>>
         /\ \A h \in DirSlots : dhandles[h] = <<>> => dhandles'[h] = <<>>
         /\ r.op = "close" => r.h \in FileSlots /\ handles[r.h] # <<>> /\ handles'[r.h] = <<>>
         /\ r.op = "dclose" => r.h \in DirSlots /\ dhandles[r.h] # <<>> /\ dhandles'[r.h] = <<>>
<1>1. /\ handles \in [FileSlots -> Seq(Files)]
      /\ dhandles \in [DirSlots -> Seq([path : Dirs, got : 0 .. MaxEntries])]
      /\ \A i \in FileSlots : Held(i)
      /\ \A h \in DirSlots : DHeld(h)
  BY CallFacts DEF TInv, FilesInv, DirsInv
<1>2. Legal(r)
  BY CallFacts
<1>3. CASE r.op = "close"
  <2>1. r.h \in FileSlots /\ handles[r.h] # <<>> /\ dhandles' = dhandles
    BY <1>2, <1>3, RequestsType DEF Legal, OnFile, Call
  <2>2. PICK i \in FileSlots : i = r.h
    BY <2>1
  <2>3. PICK s : s = Tail(handles[i])
    OBVIOUS
  <2>4. Len(handles[i]) = 1
    BY <1>1, <2>1, <2>2 DEF Held
  <2>a. handles[i] \in Seq(Files)
    BY <1>1
  <2>5. s = <<>> /\ s \in Seq(Files)
    BY <2>a, <2>3, <2>4, OneTail, Zenon
  <2>6. handles' = [handles EXCEPT ![i] = s]
    BY <1>3, <2>2, <2>3 DEF Call
  <2>7. handles' \in [FileSlots -> Seq(Files)] /\ handles'[i] = <<>> /\ \A k \in FileSlots \ {i} : handles'[k] = handles[k]
    BY <1>1, <2>5, <2>6
  <2>. QED
    BY <1>1, <1>3, <2>1, <2>2, <2>7
<1>4. CASE r.op = "dclose"
  <2>1. r.h \in DirSlots /\ dhandles[r.h] # <<>> /\ handles' = handles
    BY <1>2, <1>4, RequestsType DEF Legal, OnDir, Call
  <2>2. PICK i \in DirSlots : i = r.h
    BY <2>1
  <2>3. PICK s : s = Tail(dhandles[i])
    OBVIOUS
  <2>b. DHeld(i)
    BY <1>1
  <2>4. Len(dhandles[i]) = 1
    BY <2>b, <2>1, <2>2, Zenon DEF DHeld
  <2>a. dhandles[i] \in Seq([path : Dirs, got : 0 .. MaxEntries])
    BY <1>1
  <2>5. s = <<>> /\ s \in Seq([path : Dirs, got : 0 .. MaxEntries])
    BY <2>a, <2>3, <2>4, OneTail, Zenon
  <2>6. dhandles' = [dhandles EXCEPT ![i] = s]
    BY <1>4, <2>2, <2>3 DEF Call
  <2>7. /\ dhandles' \in [DirSlots -> Seq([path : Dirs, got : 0 .. MaxEntries])]
        /\ dhandles'[i] = <<>> /\ \A k \in DirSlots \ {i} : dhandles'[k] = dhandles[k]
    BY <1>1, <2>5, <2>6
  <2>. QED
    BY <1>1, <1>4, <2>1, <2>2, <2>7
<1>5. CASE r.op \notin {"close", "dclose"}
  BY <1>1, <1>5 DEF Call
<1>. QED
  BY <1>3, <1>4, <1>5

LEMMA StepTables_Call_Login ==
  ASSUME TInv, NEW t \in Threads, NEW r \in Requests, Call(t, r)
  PROVE  Login'
<1>1. /\ UNCHANGED <<server, to_psp, logged, faults>> /\ Running /\ Legal(r) /\ call'[t] = r
      /\ \A u \in Threads \ {t} : call'[u] = call[u]
      /\ r.op \in Ops /\ (r.op \notin {"hello", "init"} => logged)
      /\ \A u \in Threads \ {t} : (Decided(u)' <=> Decided(u)) /\ Outcome(u)' = Outcome(u)
      /\ ~Decided(t)'
  BY CallFacts
<1>2. UNCHANGED <<thread, kernel, dirs_table, files_table>> /\ Login
  BY <1>1 DEF server, tables, TInv
<1>3. Running'
  BY <1>1, <1>2 DEF Running
<1>4. CASE logged
  <2>1. r.op # "init"
    BY <1>1, <1>4 DEF Legal
  <2>2. \A u \in Threads : call'[u].op # "init"
    BY <1>1, <1>2, <1>4, <2>1 DEF Login
  <2>. QED
    BY <1>1, <1>3, <1>4, <2>2 DEF Login
<1>5. CASE ~logged
  <2>1. Untouched /\ r.op \in {"hello", "init"}
    BY <1>1, <1>2, <1>5 DEF Login
  <2>2. handles' = handles /\ dhandles' = dhandles
    BY <2>1 DEF Call
  <2>3. \A u \in Threads : call'[u].op \in {"none", "hello", "init"}
    BY <1>1, <2>1 DEF Untouched
  <2>4. \A u, w \in Threads : call'[u].op = "init" /\ call'[w].op = "init" => u = w
    <3>1. CASE r.op = "init"
      <4>1. \A u \in Threads : call[u].op # "init"
        BY <1>1, <3>1 DEF Legal, Calling, Ops
      <4>. QED
        BY <1>1, <4>1
    <3>2. CASE r.op # "init"
      BY <1>1, <2>1, <3>2 DEF Untouched
    <3>. QED
      BY <3>1, <3>2
  <2>5. \A u \in Threads : call'[u].op = "init" /\ Decided(u)' /\ Outcome(u)' = 0 => \A i \in FileSlots : Desc(i)' = -1
    BY <1>1, <1>2, <2>1 DEF Untouched, Desc
  <2>6. Untouched'
    BY <1>2, <2>1, <2>2, <2>3, <2>4, <2>5 DEF Untouched
  <2>. QED
    BY <1>1, <1>3, <1>5, <2>6 DEF Login
<1>. QED
  BY <1>4, <1>5

LEMMA StepTables_Call_Files ==
  ASSUME TInv, NEW t \in Threads, NEW r \in Requests, Call(t, r)
  PROVE  FilesInv'
<1>1. /\ UNCHANGED <<server, to_psp, logged, faults>> /\ Running /\ Legal(r) /\ call'[t] = r
      /\ call[t].op = "none" /\ thread[t].at = "cmd"
      /\ \A u \in Threads \ {t} : call'[u] = call[u]
      /\ r.op \in Ops /\ (r.op \notin {"hello", "init"} => logged)
      /\ \A u \in Threads \ {t} : (Decided(u)' <=> Decided(u)) /\ Outcome(u)' = Outcome(u)
      /\ \A u \in Threads \ {t} : Pending(u, "close")' <=> Pending(u, "close")
      /\ ~Decided(t)'
  BY CallFacts DEF Ops, OnFile
<1>2. UNCHANGED <<rdonly, thread, kernel, files_table>> /\ Login /\ FilesInv /\ WInv
  BY <1>1 DEF server, tables, TInv
<1>3. /\ handles' \in [FileSlots -> Seq(Files)]
      /\ \A i \in FileSlots : handles'[i] = handles[i] \/ (r.op = "close" /\ r.h = i /\ handles[i] # <<>>)
      /\ \A i \in FileSlots : handles[i] = <<>> => handles'[i] = <<>>
      /\ r.op = "close" => r.h \in FileSlots /\ handles[r.h] # <<>> /\ handles'[r.h] = <<>>
  BY HandlesAfterCall
<1>4. Running' /\ \A i \in FileSlots : Held(i) /\ Desc(i)' = Desc(i)
  BY <1>1, <1>2 DEF Running, FilesInv, Desc
<1>a. \A u \in Threads : \A at : At(u, at)' <=> At(u, at)
  BY <1>2 DEF At
<1>b. \A i : Steady(i)' <=> Steady(i)
  BY <1>1, <1>a DEF Steady, At
<1>5. NoLoss'
  BY <1>2, <1>a, <1>b, <1>4 DEF FilesInv, NoLoss
<1>6. OneSlot'
  <2>1. ASSUME NEW u \in Threads, NEW i, Takes(u, i)' PROVE Takes(u, i)
    <3>1. u # t
      BY <1>1, <1>2, <2>1 DEF Takes, Filling
    <3>. QED
      BY <1>1, <1>2, <2>1, <3>1 DEF Takes, Filling
  <2>. QED
    BY <1>2, <2>1 DEF OneSlot, FilesInv
<1>8. ToClose(t)' => r.op = "close"
  BY <1>1, <1>2 DEF ToClose, Pending, At
<1>c. ASSUME NEW u \in Threads \ {t}, ToClose(u)'
      PROVE  /\ ToClose(u) /\ call'[u] = call[u] /\ call[u].h \in FileSlots /\ handles[call[u].h] = <<>>
             /\ ToClose(t)' => r.h # call[u].h
  <2>1. ToClose(u)
    <3>1. Pending(u, "close")' <=> Pending(u, "close")
      BY <1>1
    <3>2. At(u, "reset")' <=> At(u, "reset")
      BY <1>a
    <3>. QED
      BY <1>c, <3>1, <3>2 DEF ToClose
  <2>2. call'[u] = call[u] /\ call[u].h \in FileSlots /\ Closing(u)
    BY <1>1, <1>2, <2>1, DirSlotOf DEF FilesInv
  <2>3. handles[call[u].h] = <<>>
    BY <2>1, <2>2 DEF Closing
  <2>. QED
    BY <1>3, <1>8, <2>1, <2>2, <2>3
<1>9. OneClose'
  <2>1. ASSUME NEW u \in Threads, NEW w \in Threads, ToClose(u)', ToClose(w)', call'[u].h = call'[w].h
        PROVE  u = w
    <3>1. CASE u # t /\ w # t
      BY <1>2, <1>c, <2>1, <3>1 DEF FilesInv, OneClose
    <3>2. CASE u = t \/ w = t
      BY <1>1, <1>c, <2>1, <3>2
    <3>. QED
      BY <3>1, <3>2
  <2>. QED
    BY <2>1 DEF OneClose
<1>10. (\A i \in FileSlots : Slot(i))' \/ ~logged
  BY <1>1, <1>2, <1>4, <1>b DEF FilesInv, Slot
<1>11. (\A i \in FileSlots : Held(i))'
  BY <1>2, <1>3, <1>4 DEF Held
<1>12. ASSUME NEW u \in Threads PROVE Closing(u)'
  <2>1. CASE u = t
    <3>1. r.op = "close" => Desc(r.h)' # -1
      BY <1>3, <1>4 DEF Held
    <3>. QED
      BY <1>1, <1>3, <1>8, <2>1, <3>1 DEF Closing
  <2>2. CASE u # t
    <3>1. SUFFICES ASSUME ToClose(u)' PROVE Closing(u)'
      BY DEF Closing
    <3>2. ToClose(u) /\ call'[u] = call[u] /\ call[u].h \in FileSlots /\ handles[call[u].h] = <<>>
      BY <1>c, <2>2, <3>1
    <3>3. Desc(call[u].h) # -1
      BY <1>2, <3>2 DEF FilesInv, Closing
    <3>. QED
      BY <1>3, <1>4, <3>2, <3>3 DEF Closing
  <2>. QED
    BY <2>1, <2>2
<1>13. ASSUME NEW i \in FileSlots, NEW path, Given(i, path) PROVE Given(i, path)'
  <2>1. Kept(i)'
    <3>1. ASSUME NEW u \in Threads, ToClose(u)' PROVE call'[u].h # i
      <4>1. CASE u = t
        BY <1>1, <1>3, <1>8, <1>13, <3>1, <4>1 DEF Given
      <4>2. CASE u # t
        BY <1>c, <1>13, <3>1, <4>2 DEF Given, Kept
      <4>. QED
        BY <4>1, <4>2
    <3>. QED
      BY <3>1 DEF Kept
  <2>. QED
    BY <1>2, <1>3, <1>4, <1>13, <2>1 DEF Given
<1>14. ASSUME NEW u \in Threads PROVE Opening(u)'
  <2>1. CASE u = t
    BY <1>1, <1>2, <2>1 DEF Opening, At
  <2>2. CASE u # t /\ call[u].op # "open"
    BY <1>1, <2>2 DEF Opening
  <2>3. CASE u # t /\ call[u].op = "open"
    <3>1. UNCHANGED <<thread[u], call[u]>> /\ Opening(u) /\ (Decided(u)' <=> Decided(u)) /\ Outcome(u)' = Outcome(u)
      BY <1>1, <1>2, <2>3 DEF FilesInv
    <3>2. At(u, "store") \/ At(u, "opened") => thread[u].i \in FileSlots
      BY <1>2 DEF WInv, Wired, Working, Serves, At
    <3>7. At(u, "store")' => /\ Desc(thread[u].i)' = -1 /\ call[u].path \in Files
                             /\ thread[u].res = -1 \/ Fresh(u)'
      <4>1. SUFFICES ASSUME At(u, "store") PROVE /\ Desc(thread[u].i)' = -1 /\ call[u].path \in Files
                                                 /\ thread[u].res = -1 \/ Fresh(u)'
        BY <1>a
      <4>2. Desc(thread[u].i) = -1 /\ call[u].path \in Files /\ (thread[u].res = -1 \/ Fresh(u))
        BY <2>3, <3>1, <4>1 DEF Opening
      <4>3. Fresh(u) => Fresh(u)'
        BY <1>2, <1>4, <1>a, <1>b, <3>1 DEF Fresh
      <4>. QED
        BY <1>2, <1>4, <3>2, <4>1, <4>2, <4>3
    <3>3. At(u, "path")' => Desc(thread[u].i)' = -1 /\ files_table'[thread[u].i].name = call[u].path
      BY <1>2, <2>3, <3>1 DEF Opening, At, Desc
    <3>4. At(u, "stat")' => Desc(thread[u].i)' = -1 /\ Arg(u)'.path = call[u].path
      BY <1>2, <2>3, <3>1 DEF Opening, At, Desc, Arg
    <3>5. At(u, "opened")' => Desc(thread[u].i)' = -1 \/ Given(thread[u].i, call[u].path)'
      <4>1. SUFFICES ASSUME At(u, "opened") PROVE Desc(thread[u].i)' = -1 \/ Given(thread[u].i, call[u].path)'
        BY <3>1 DEF At
      <4>2. Desc(thread[u].i) = -1 \/ Given(thread[u].i, call[u].path)
        BY <2>3, <3>1, <4>1 DEF Opening
      <4>3. PICK i \in FileSlots : i = thread[u].i
        BY <3>2, <4>1
      <4>4. PICK p : p = call[u].path
        OBVIOUS
      <4>5. Desc(i)' = -1 \/ Given(i, p)'
        BY <1>4, <1>13, <4>2, <4>3, <4>4
      <4>6. i = thread[u].i' /\ p = call[u].path'
        BY <3>1, <4>3, <4>4
      <4>. QED
        BY <4>5, <4>6 DEF Given, Kept, Desc
    <3>6. Decided(u)' /\ Outcome(u)' \in FileSlots =>
              call[u].path \in Files /\ Given(Outcome(u), call[u].path)'
      <4>1. SUFFICES ASSUME Decided(u), Outcome(u) \in FileSlots
                     PROVE  call[u].path \in Files /\ Given(Outcome(u), call[u].path)'
        BY <3>1
      <4>2. call[u].path \in Files /\ Given(Outcome(u), call[u].path)
        BY <1>1, <2>3, <3>1, <4>1 DEF Opening
      <4>3. PICK i \in FileSlots : i = Outcome(u)
        BY <4>1
      <4>4. PICK p : p = call[u].path
        OBVIOUS
      <4>5. Given(i, p)'
        BY <1>13, <4>2, <4>3, <4>4
      <4>6. i = Outcome(u)' /\ p = call[u].path'
        BY <3>1, <4>3, <4>4
      <4>. QED
        BY <4>2, <4>5, <4>6 DEF Given, Kept
    <3>. QED
      BY <1>2, <2>3, <3>1, <3>3, <3>4, <3>5, <3>6, <3>7 DEF Opening
  <2>. QED
    BY <2>1, <2>2, <2>3
<1>. QED
  BY <1>1, <1>3, <1>5, <1>6, <1>9, <1>10, <1>11, <1>12, <1>14 DEF FilesInv

LEMMA StepTables_Call_Dirs ==
  ASSUME TInv, NEW t \in Threads, NEW r \in Requests, Call(t, r)
  PROVE  DirsInv'
<1>1. /\ UNCHANGED <<server, to_psp, logged, faults>> /\ Running /\ Legal(r) /\ call'[t] = r
      /\ call[t].op = "none" /\ thread[t].at = "cmd"
      /\ \A u \in Threads \ {t} : call'[u] = call[u]
      /\ r.op \in Ops
      /\ \A u \in Threads \ {t} : (Decided(u)' <=> Decided(u)) /\ Outcome(u)' = Outcome(u)
      /\ \A u \in Threads \ {t} : Pending(u, "dclose")' <=> Pending(u, "dclose")
      /\ ~Decided(t)'
  BY CallFacts DEF Ops, OnDir
<1>2. UNCHANGED <<thread, dirs_table>> /\ Login /\ DirsInv /\ WInv
  BY <1>1 DEF server, tables, TInv
<1>3. /\ dhandles' \in [DirSlots -> Seq([path : Dirs, got : 0 .. MaxEntries])]
      /\ \A h \in DirSlots : dhandles'[h] = dhandles[h] \/ (r.op = "dclose" /\ r.h = h /\ dhandles[h] # <<>>)
      /\ \A h \in DirSlots : dhandles[h] = <<>> => dhandles'[h] = <<>>
      /\ r.op = "dclose" => r.h \in DirSlots /\ dhandles[r.h] # <<>> /\ dhandles'[r.h] = <<>>
  BY HandlesAfterCall
<1>4. Running' /\ \A h \in DirSlots : DHeld(h)
  BY <1>1, <1>2 DEF Running, DirsInv
<1>5. r.op \in OnDir => r.h \in DirSlots /\ dhandles[r.h] # <<>> /\ \A u \in Threads : call[u].op = "dread" => call[u].h # r.h
  BY <1>1, RequestsType DEF Legal, Using, OnDir
<1>a. \A u \in Threads : \A at : At(u, at)' <=> At(u, at)
  BY <1>2 DEF At
<1>c. (DFrees(t)' => r.op = "dclose") /\ (Pending(t, "dclose")' => r.op = "dclose")
  BY <1>1, <1>2 DEF DFrees, Pending, At
<1>d. r.op = "dclose" => Dir(r.h)'.entries # NoPath
  <2>1. SUFFICES ASSUME r.op = "dclose" PROVE Dir(r.h).entries # NoPath
    BY <1>2 DEF Dir
  <2>2. PICK h \in DirSlots : h = r.h
    BY <1>3, <2>1
  <2>3. DHeld(h) /\ dhandles[h] # <<>>
    BY <1>3, <1>4, <2>1, <2>2
  <2>4. dhandles[h] \in Seq([path : Dirs, got : 0 .. MaxEntries])
    BY <1>2 DEF DirsInv
  <2>5. Dir(h).entries = dhandles[h][1].path /\ Len(dhandles[h]) = 1
    BY <2>3 DEF DHeld
  <2>7. PICK q : q = dhandles[h]
    OBVIOUS
  <2>8. q \in Seq([path : Dirs, got : 0 .. MaxEntries]) /\ Len(q) = 1
    BY <2>4, <2>5, <2>7
  <2>6. dhandles[h][1] \in [path : Dirs, got : 0 .. MaxEntries]
    <3>1. 1 \in 1 .. Len(q)
      BY <2>8
    <3>2. q[1] \in [path : Dirs, got : 0 .. MaxEntries]
      BY <2>8, <3>1, ElementOfSeq
    <3>. QED
      BY <2>7, <3>2
  <2>. QED
    BY <2>2, <2>5, <2>6, NetHostFsAssumption
<1>e. ASSUME NEW u \in Threads \ {t}, DFrees(u)'
      PROVE  /\ DFrees(u) /\ call'[u] = call[u] /\ call[u].h \in DirSlots /\ dhandles[call[u].h] = <<>>
             /\ DFrees(t)' => r.h # call[u].h
  <2>1. DFrees(u)
    <3>1. Pending(u, "dclose")' <=> Pending(u, "dclose")
      BY <1>1
    <3>2. At(u, "closing")' <=> At(u, "closing")
      BY <1>a
    <3>. QED
      BY <1>e, <3>1, <3>2 DEF DFrees
  <2>2. call'[u] = call[u] /\ call[u].h \in DirSlots /\ DClosing(u)
    BY <1>1, <1>2, <2>1, DirSlotOf DEF DirsInv
  <2>3. dhandles[call[u].h] = <<>>
    BY <2>1, <2>2 DEF DClosing
  <2>. QED
    BY <1>3, <1>c, <2>1, <2>2, <2>3
<1>6. OneDSlot' /\ OneDclose'
  <2>1. ASSUME NEW u \in Threads, NEW i, DTakes(u, i)' PROVE DTakes(u, i)
    <3>1. u # t
      BY <1>1, <1>2, <2>1 DEF DTakes, At
    <3>. QED
      BY <1>1, <1>2, <2>1, <3>1 DEF DTakes, At
  <2>2. OneDSlot'
    BY <1>2, <2>1 DEF OneDSlot, DirsInv
  <2>3. OneDclose'
    <3>1. ASSUME NEW u \in Threads, NEW w \in Threads, DFrees(u)', DFrees(w)', call'[u].h = call'[w].h
          PROVE  u = w
      <4>1. CASE u # t /\ w # t
        BY <1>2, <1>e, <3>1, <4>1 DEF DirsInv, OneDclose
      <4>2. CASE u = t \/ w = t
        BY <1>1, <1>e, <3>1, <4>2
      <4>. QED
        BY <4>1, <4>2
    <3>. QED
      BY <3>1 DEF OneDclose
  <2>. QED
    BY <2>2, <2>3
<1>7. OneUser'
  <2>1. r.op = "dread" => \A u \in Threads : call[u].op = "dread" => call[u].h # r.h
    BY <1>5 DEF OnDir
  <2>. QED
    BY <1>1, <1>2, <2>1 DEF OneUser, DirsInv
<1>8. ASSUME NEW h \in DirSlots PROVE DHeld(h)'
  <2>1. SUFFICES ASSUME dhandles'[h] # <<>> PROVE DHeld(h)'
    BY DEF DHeld
  <2>2. dhandles'[h] = dhandles[h]
    BY <1>3, <2>1
  <2>3. Using({"dread"}, h) => Using({"dread"}, h)'
    BY <1>1 DEF Using
  <2>. QED
    BY <1>1, <1>2, <1>4, <2>2, <2>3 DEF DHeld, Dir
<1>9. ASSUME NEW u \in Threads PROVE DClosing(u)'
  <2>1. CASE u = t
    BY <1>1, <1>3, <1>c, <1>d, <2>1 DEF DClosing
  <2>2. CASE u # t
    <3>1. DClosing(u) /\ (Pending(u, "dclose")' => Pending(u, "dclose"))
      BY <1>1, <1>2, <2>2 DEF DirsInv
    <3>2. DFrees(u)' => DFrees(u) /\ call'[u] = call[u] /\ call[u].h \in DirSlots /\ dhandles[call[u].h] = <<>>
      BY <1>e, <2>2
    <3>. QED
      BY <1>1, <1>2, <1>3, <2>2, <3>1, <3>2 DEF DClosing, Dir
  <2>. QED
    BY <2>1, <2>2
<1>10. ASSUME NEW u \in Threads PROVE DOpening(u)'
  <2>1. CASE u = t
    BY <1>1, <1>2, <2>1 DEF DOpening, At
  <2>2. CASE u # t
    <3>1. DOpening(u) /\ UNCHANGED <<thread[u], call[u]>> /\ (Decided(u)' <=> Decided(u)) /\ Outcome(u)' = Outcome(u)
      BY <1>1, <1>2, <2>2 DEF DirsInv
    <3>2. ASSUME NEW h, DKept(h), r.op = "dclose" => r.h # h PROVE \A k : k = h => DKept(k)'
      <4>1. ASSUME NEW w \in Threads, DFrees(w)' PROVE call'[w].h # h
        <5>1. CASE w = t
          BY <1>1, <1>c, <3>2, <4>1, <5>1
        <5>2. CASE w # t
          BY <1>e, <3>2, <4>1, <5>2 DEF DKept
        <5>. QED
          BY <5>1, <5>2
      <4>. QED
        BY <4>1 DEF DKept
    <3>3. ASSUME call[u].op = "dopen", At(u, "scandir") PROVE (Dir(thread[u].i).entries = NoPath /\ DKept(thread[u].i))'
      <4>1. Dir(thread[u].i).entries = NoPath /\ DKept(thread[u].i)
        BY <3>1, <3>3 DEF DOpening
      <4>2. r.op = "dclose" => r.h # thread[u].i
        BY <1>2, <1>d, <4>1 DEF Dir
      <4>. QED
        BY <1>2, <3>1, <3>2, <4>1, <4>2 DEF Dir
    <3>4. ASSUME call[u].op = "dopen", Decided(u), Outcome(u) \in DirSlots PROVE DGiven(Outcome(u), call[u].path)'
      <4>1. DGiven(Outcome(u), call[u].path)
        BY <1>1, <3>1, <3>4 DEF DOpening
      <4>2. r.op = "dclose" => r.h # Outcome(u)
        BY <1>3, <4>1 DEF DGiven
      <4>. QED
        BY <1>2, <1>3, <3>1, <3>2, <3>4, <4>1, <4>2 DEF DGiven, Dir
    <3>. QED
      BY <1>1, <1>a, <2>2, <3>1, <3>3, <3>4 DEF DOpening
  <2>. QED
    BY <2>1, <2>2
<1>11. ASSUME NEW u \in Threads PROVE DReading(u)'
  <2>1. CASE u = t
    <3>1. SUFFICES ASSUME r.op = "dread" PROVE DReading(t)'
      BY <1>1, <2>1 DEF DReading
    <3>2. r.h \in DirSlots /\ dhandles[r.h] # <<>> /\ ~Using({"dread"}, r.h)
      BY <1>5, <3>1 DEF OnDir, Using
    <3>3. faults = 0 => Dir(r.h).pos = dhandles[r.h][1].got
      BY <1>4, <3>2 DEF DHeld
    <3>4. dhandles'[r.h] = dhandles[r.h]
      BY <1>3, <3>1, <3>2
    <3>. QED
      BY <1>1, <1>2, <3>2, <3>3, <3>4 DEF DReading, Dir
  <2>2. CASE u # t
    <3>1. SUFFICES ASSUME call[u].op = "dread" PROVE DReading(u)'
      BY <1>1, <2>2 DEF DReading
    <3>2. DReading(u) /\ UNCHANGED <<call[u]>> /\ (Decided(u)' <=> Decided(u)) /\ Outcome(u)' = Outcome(u)
      BY <1>1, <1>2, <2>2 DEF DirsInv
    <3>3. call[u].h \in DirSlots /\ (r.op = "dclose" => call[u].h # r.h)
      <4>1. call[u].op \in OnDir /\ ("dclose" \in OnDir)
        BY <3>1 DEF OnDir
      <4>. QED
        BY <1>2, <1>5, <3>1, <4>1, DirSlotOf
    <3>4. dhandles'[call[u].h] = dhandles[call[u].h]
      BY <1>3, <3>3
    <3>. QED
      BY <1>1, <1>2, <1>4, <3>1, <3>2, <3>4 DEF DReading, Dir
  <2>. QED
    BY <2>1, <2>2
<1>12. (faults = 0 /\ Running => \A u \in Threads : At(u, "closed") => call[u].op \in {"none", "exit"})'
  BY <1>1, <1>2 DEF DirsInv, At
<1>. QED
  BY <1>3, <1>4, <1>6, <1>7, <1>8, <1>9, <1>10, <1>11, <1>12 DEF DirsInv

(* A call of the PSP is over.                                                 *)
Over(t) ==
    /\ UNCHANGED <<server, faults>>
    /\ call[t] # NoCall /\ call'[t] = NoCall
    /\ \A u \in Threads \ {t} : call'[u] = call[u] /\ to_pc'[u] = to_pc[u] /\ to_psp'[u] = to_psp[u]

LEMMA OverFacts ==
  ASSUME TInv, NEW t \in Threads, Over(t)
  PROVE  /\ UNCHANGED <<thread, files_table, dirs_table, kernel, faults, rdonly>> /\ Running' = Running
         /\ call'[t].op = "none" /\ ~Decided(t)' /\ \A op \in Ops : ~Pending(t, op)'
         /\ \A u \in Threads : \A at : At(u, at)' <=> At(u, at)
         /\ \A u \in Threads \ {t} : /\ \A op \in Ops : Pending(u, op)' <=> Pending(u, op)
                                     /\ Decided(u)' <=> Decided(u)
                                     /\ Outcome(u)' = Outcome(u)
                                     /\ call'[u] = call[u]
BY NoCallType DEF Over, server, tables, Running, Decided, Outcome, Pending, At, Reply, Ops, OnFile, OnDir

LEMMA OverAt ==
  ASSUME WInv', NEW t \in Threads, Over(t)
  PROVE  thread[t].at \in {"cmd", "closed"} /\ thread' = thread
BY DEF WInv, Wired, Over, server

LEMMA ReceiveFacts ==
  ASSUME TInv, NEW t \in Threads, Receive(t)
  PROVE  /\ Over(t) /\ Decided(t) /\ Outcome(t) = Reply(t).n
         /\ logged' = (logged \/ (call[t].op = "init" /\ Reply(t).n = 0))
         /\ handles' = IF call[t].op = "open" /\ Reply(t).n \in FileSlots
                       THEN [handles EXCEPT ![Reply(t).n] = Append(@, call[t].path)] ELSE handles
         /\ dhandles' = IF call[t].op = "dopen" /\ Reply(t).n \in DirSlots
                        THEN [dhandles EXCEPT ![Reply(t).n] = Append(@, [path |-> call[t].path, got |-> 0])]
                        ELSE IF call[t].op = "dread" /\ Reply(t).n > 0
                        THEN [dhandles EXCEPT ![call[t].h] = <<[Head(@) EXCEPT !.got = Reply(t).n]>> \o Tail(@)]
                        ELSE dhandles
<1>1. call \in [Threads -> Request] /\ DOMAIN to_psp = Threads
  BY DEF TInv, WInv, WiresType
<1>2. Over(t)
  BY <1>1 DEF Receive, Over
<1>3. Decided(t) /\ Outcome(t) = Reply(t).n
  BY DEF Receive, Decided, Outcome
<1>. QED
  BY <1>2, <1>3 DEF Receive

LEMMA OverLogin ==
  ASSUME TInv, NEW t \in Threads, Over(t),
         logged' = logged \/ (logged' = TRUE /\ call[t].op = "init" /\ Decided(t) /\ Outcome(t) = 0),
         call[t].op \notin {"open", "dopen", "dread"} => UNCHANGED <<handles, dhandles>>
  PROVE  Login'
<1>1. /\ UNCHANGED <<thread, files_table, dirs_table, kernel>> /\ Running' = Running
      /\ call'[t].op = "none" /\ ~Decided(t)'
      /\ \A u \in Threads \ {t} : /\ Decided(u)' <=> Decided(u)
                                  /\ Outcome(u)' = Outcome(u)
                                  /\ call'[u] = call[u]
  BY OverFacts
<1>2. Login
  BY DEF TInv
<1>3. ~Running' => \A u \in Threads : At(u, "closed")'
  BY <1>1, <1>2 DEF Login, At
<1>4. logged' => \A u \in Threads : call'[u].op # "init"
  <2>1. CASE logged
    BY <1>1, <1>2, <2>1 DEF Login
  <2>2. CASE ~logged
    BY <1>1, <1>2, <2>2 DEF Login, Untouched
  <2>. QED
    BY <2>1, <2>2
<1>5. ~logged' => Untouched'
  <2>1. SUFFICES ASSUME ~logged' PROVE Untouched'
    OBVIOUS
  <2>2. ~logged /\ Untouched
    BY <1>2, <2>1 DEF Login
  <2>3. UNCHANGED <<handles, dhandles>>
    BY <2>2 DEF Untouched
  <2>4. \A i \in FileSlots : Desc(i)' = Desc(i)
    BY <1>1 DEF Desc
  <2>5. \A u \in Threads : call'[u].op = "init" /\ Decided(u)' /\ Outcome(u)' = 0 => \A i \in FileSlots : Desc(i)' = -1
    BY <1>1, <2>2, <2>4 DEF Untouched
  <2>6. \A u, w \in Threads : call'[u].op = "init" /\ call'[w].op = "init" => u = w
    BY <1>1, <2>2 DEF Untouched
  <2>7. \A u \in Threads : call'[u].op \in {"none", "hello", "init"}
    BY <1>1, <2>2 DEF Untouched
  <2>. QED
    BY <1>1, <2>2, <2>3, <2>5, <2>6, <2>7 DEF Untouched
<1>. QED
  BY <1>3, <1>4, <1>5 DEF Login

(* A file handle is given to the PSP, or none.                                *)
LEMMA OverFiles ==
  ASSUME TInv, NEW t \in Threads, Over(t), WInv',
         logged' => logged \/ (call[t].op = "init" /\ Decided(t) /\ Outcome(t) = 0),
         handles' \in [FileSlots -> Seq(Files)],
         \A i \in FileSlots : \/ handles'[i] = handles[i]
                              \/ /\ call[t].op = "open" /\ Decided(t) /\ Outcome(t) = i
                                 /\ handles[i] = <<>> \/ ~Running
                                 /\ handles[i] = <<>> => handles'[i] # <<>> /\ Len(handles'[i]) = 1 /\ handles'[i][1] = call[t].path
  PROVE  FilesInv'
<1>1. /\ UNCHANGED <<thread, files_table, kernel, rdonly>> /\ Running' = Running
      /\ call'[t].op = "none" /\ ~Decided(t)' /\ ~Pending(t, "close")'
      /\ \A u \in Threads \ {t} : /\ Pending(u, "close")' <=> Pending(u, "close")
                                  /\ Decided(u)' <=> Decided(u)
                                  /\ Outcome(u)' = Outcome(u)
                                  /\ call'[u] = call[u]
  BY OverFacts DEF Ops, OnFile
<1>a. /\ \A u \in Threads : \A at : At(u, at)' <=> At(u, at)
      /\ ~At(t, "reset") /\ ~At(t, "store")
  BY OverFacts, OverAt DEF At
<1>b. ~ToClose(t)' /\ \A u \in Threads \ {t} : ToClose(u)' <=> ToClose(u)
  BY <1>1, <1>a DEF ToClose
<1>c. \A i : Steady(i)' <=> Steady(i)
  BY <1>1, <1>a DEF Steady
<1>2. FilesInv /\ Login /\ WInv
  BY DEF TInv
<1>3. \A i \in FileSlots : Desc(i)' = Desc(i)
  BY <1>1 DEF Desc
<1>4. \A u \in Threads : ~Running => ~ToClose(u)
  BY <1>2 DEF Login, ToClose, Pending, At
<1>5. NoLoss'
  BY <1>1, <1>2, <1>3, <1>a, <1>c DEF FilesInv, NoLoss
<1>d. \A u \in Threads : \A i : Takes(u, i)' => Takes(u, i) /\ u # t
  BY <1>1 DEF Takes, Filling
<1>6. OneSlot'
  BY <1>2, <1>d DEF FilesInv, OneSlot
<1>7. OneClose'
  BY <1>1, <1>2, <1>b DEF FilesInv, OneClose
<1>8. Running /\ logged' => (\A i \in FileSlots : Slot(i))'
  <2>1. CASE logged
    BY <1>1, <1>2, <1>3, <1>c, <2>1 DEF FilesInv, Slot
  <2>2. CASE ~logged /\ logged'
    <3>1. \A i \in FileSlots : Desc(i) = -1
      BY <1>2, <2>2 DEF Login, Untouched
    <3>. QED
      BY <1>3, <3>1 DEF Slot
  <2>. QED
    BY <2>1, <2>2
<1>9. call[t].op = "open" /\ Decided(t) /\ Outcome(t) \in FileSlots /\ Running => Given(Outcome(t), call[t].path)
  BY <1>2 DEF FilesInv, Opening
<1>10. Running => (\A i \in FileSlots : Held(i))'
  <2>1. SUFFICES ASSUME Running, NEW i \in FileSlots PROVE Held(i)'
    OBVIOUS
  <2>2. CASE handles'[i] = handles[i]
    BY <1>1, <1>2, <1>3, <2>1, <2>2 DEF FilesInv, Held
  <2>3. CASE handles'[i] # handles[i]
    <3>1. call[t].op = "open" /\ Decided(t) /\ Outcome(t) = i /\ Len(handles'[i]) = 1 /\ handles'[i][1] = call[t].path
      BY <2>1, <2>3
    <3>2. Desc(i) # -1 /\ (Desc(i) # 65535 => kernel[Desc(i)] = call[t].path)
      BY <1>9, <2>1, <3>1 DEF Given
    <3>. QED
      BY <1>1, <1>3, <3>1, <3>2 DEF Held
  <2>. QED
    BY <2>2, <2>3
<1>11. ASSUME NEW u \in Threads PROVE Closing(u)'
  <2>1. CASE u = t
    BY <1>b, <2>1 DEF Closing
  <2>2. CASE u # t
    <3>1. SUFFICES ASSUME ToClose(u) PROVE Closing(u)'
      BY <1>b, <2>2 DEF Closing
    <3>2. Running /\ handles[call[u].h] = <<>> /\ Desc(call[u].h) # -1 /\ call[u].h \in FileSlots /\ call'[u] = call[u]
      BY <1>1, <1>2, <1>4, <2>2, <3>1, DirSlotOf DEF FilesInv, Closing
    <3>3. handles'[call[u].h] = handles[call[u].h]
      <4>1. ~(call[t].op = "open" /\ Decided(t) /\ Outcome(t) = call[u].h)
        BY <1>9, <3>1, <3>2 DEF Given, Kept
      <4>. QED
        BY <3>2, <4>1
    <3>. QED
      BY <1>3, <3>2, <3>3 DEF Closing
  <2>. QED
    BY <2>1, <2>2
<1>12. ASSUME NEW u \in Threads PROVE Opening(u)'
  <2>1. CASE u = t
    BY <1>1, <2>1 DEF Opening
  <2>2. CASE u # t /\ call[u].op # "open"
    BY <1>1, <2>2 DEF Opening
  <2>3. CASE u # t /\ call[u].op = "open"
    <3>2. \A i \in FileSlots : Takes(u, i) => handles'[i] = handles[i]
      <4>1. ASSUME NEW i \in FileSlots, Takes(u, i) PROVE handles'[i] = handles[i]
        <5>1. ~Takes(t, i)
          BY <1>2, <2>3, <4>1 DEF FilesInv, OneSlot
        <5>. QED
          BY <5>1 DEF Takes
      <4>. QED
        BY <4>1
    <3>3. \A i \in FileSlots : \A path : Takes(u, i) /\ Given(i, path) => Given(i, path)'
      BY <1>1, <1>3, <1>b, <3>2 DEF Given, Kept
    <3>4. UNCHANGED <<thread[u], call[u]>> /\ Opening(u) /\ (Decided(u)' <=> Decided(u)) /\ Outcome(u)' = Outcome(u)
      BY <1>1, <1>2, <2>3 DEF FilesInv
    <3>5. At(u, "store") \/ At(u, "opened") => thread[u].i \in FileSlots
      BY <1>2 DEF WInv, Wired, Working, Serves, At
    <3>a. At(u, "store")' => /\ Desc(thread[u].i)' = -1 /\ call[u].path \in Files
                             /\ thread[u].res = -1 \/ Fresh(u)'
      <4>1. SUFFICES ASSUME At(u, "store") PROVE /\ Desc(thread[u].i)' = -1 /\ call[u].path \in Files
                                                 /\ thread[u].res = -1 \/ Fresh(u)'
        BY <1>a
      <4>2. Desc(thread[u].i) = -1 /\ call[u].path \in Files /\ (thread[u].res = -1 \/ Fresh(u))
        BY <2>3, <3>4, <4>1 DEF Opening
      <4>3. Fresh(u) => Fresh(u)'
        BY <1>1, <1>3, <1>a, <1>c, <3>4 DEF Fresh
      <4>. QED
        BY <1>1, <1>3, <3>5, <4>1, <4>2, <4>3
    <3>6. At(u, "path")' => Desc(thread[u].i)' = -1 /\ files_table'[thread[u].i].name = call[u].path
      BY <1>1, <2>3, <3>4 DEF Opening, At, Desc
    <3>7. At(u, "stat")' => Desc(thread[u].i)' = -1 /\ Arg(u)'.path = call[u].path
      BY <1>1, <2>3, <3>4 DEF Opening, At, Desc, Arg
    <3>8. At(u, "opened")' => Desc(thread[u].i)' = -1 \/ Given(thread[u].i, call[u].path)'
      <4>1. SUFFICES ASSUME At(u, "opened") PROVE Desc(thread[u].i)' = -1 \/ Given(thread[u].i, call[u].path)'
        BY <3>4 DEF At
      <4>2. Desc(thread[u].i) = -1 \/ Given(thread[u].i, call[u].path)
        BY <2>3, <3>4, <4>1 DEF Opening
      <4>3. PICK i \in FileSlots : i = thread[u].i
        BY <3>5, <4>1
      <4>4. PICK p : p = call[u].path
        OBVIOUS
      <4>a. Takes(u, i)
        BY <2>3, <4>1, <4>3 DEF Takes, Filling, At
      <4>5. Desc(i)' = -1 \/ Given(i, p)'
        BY <1>3, <3>3, <4>2, <4>3, <4>4, <4>a
      <4>6. i = thread[u].i' /\ p = call[u].path'
        BY <3>4, <4>3, <4>4
      <4>. QED
        BY <4>5, <4>6 DEF Given, Kept, Desc
    <3>9. Decided(u)' /\ Outcome(u)' \in FileSlots =>
              call[u].path \in Files /\ (Running' => Given(Outcome(u), call[u].path)')
      <4>1. SUFFICES ASSUME Decided(u), Outcome(u) \in FileSlots
                     PROVE  call[u].path \in Files /\ (Running' => Given(Outcome(u), call[u].path)')
        BY <3>4
      <4>2. call[u].path \in Files /\ (Running' => Given(Outcome(u), call[u].path))
        BY <1>1, <2>3, <3>4, <4>1 DEF Opening
      <4>3. PICK i \in FileSlots : i = Outcome(u)
        BY <4>1
      <4>4. PICK p : p = call[u].path
        OBVIOUS
      <4>a. Takes(u, i)
        BY <2>3, <4>1, <4>3 DEF Takes
      <4>5. Running' => Given(i, p)'
        BY <1>1, <3>3, <4>2, <4>3, <4>4, <4>a
      <4>6. i = Outcome(u)' /\ p = call[u].path'
        BY <3>4, <4>3, <4>4
      <4>7. Given(i, p)' => Given(Outcome(u), call[u].path)'
        BY <4>6 DEF Given, Kept
      <4>. QED
        BY <4>2, <4>5, <4>7
    <3>. QED
      BY <1>1, <2>3, <3>4, <3>6, <3>7, <3>8, <3>9, <3>a DEF Opening
  <2>. QED
    BY <2>1, <2>2, <2>3
<1>. QED
  BY <1>1, <1>5, <1>6, <1>7, <1>8, <1>10, <1>11, <1>12 DEF FilesInv

(* A directory handle, or an entry, is given to the PSP, or none.             *)
NewHandle(t, h) ==
    /\ call[t].op = "dopen" /\ Decided(t) /\ Outcome(t) = h /\ dhandles'[h] # <<>>
    /\ Running => /\ dhandles[h] = <<>> /\ Len(dhandles'[h]) = 1
                  /\ dhandles'[h][1].path = call[t].path /\ dhandles'[h][1].got = 0
NewEntry(t, h) ==
    /\ call[t].op = "dread" /\ call[t].h = h /\ Decided(t) /\ Outcome(t) > 0 /\ dhandles'[h] # <<>>
    /\ Running => /\ Len(dhandles'[h]) = 1
                  /\ dhandles'[h][1].path = dhandles[h][1].path /\ dhandles'[h][1].got = Outcome(t)

LEMMA OverDirs ==
  ASSUME TInv, WInv', NEW t \in Threads, Over(t),
         dhandles' \in [DirSlots -> Seq([path : Dirs, got : 0 .. MaxEntries])],
         \A h \in DirSlots : dhandles'[h] = dhandles[h] \/ NewHandle(t, h) \/ NewEntry(t, h),
         call[t].op = "dread" /\ Decided(t) /\ Outcome(t) > 0 /\ faults = 0 /\ Running => NewEntry(t, call[t].h)
  PROVE  DirsInv'
<1>1. /\ UNCHANGED <<thread, dirs_table, faults>> /\ Running' = Running
      /\ call'[t].op = "none" /\ ~Decided(t)' /\ ~Pending(t, "dclose")'
      /\ \A u \in Threads \ {t} : /\ Pending(u, "dclose")' <=> Pending(u, "dclose")
                                  /\ Decided(u)' <=> Decided(u)
                                  /\ Outcome(u)' = Outcome(u)
                                  /\ call'[u] = call[u]
  BY OverFacts DEF Ops, OnDir
<1>2. DirsInv /\ Login /\ WInv
  BY DEF TInv
<1>a. /\ \A u \in Threads : \A at : At(u, at)' <=> At(u, at)
      /\ ~At(t, "closing") /\ ~At(t, "scandir")
  BY OverFacts, OverAt DEF At
<1>b. ~DFrees(t)' /\ \A u \in Threads \ {t} : DFrees(u)' <=> DFrees(u)
  BY <1>1, <1>a DEF DFrees
<1>c. \A u \in Threads : \A i : DTakes(u, i)' => DTakes(u, i) /\ u # t
  BY <1>1, <1>a DEF DTakes
<1>3. OneDSlot' /\ OneDclose' /\ OneUser'
  <2>1. OneDSlot'
    BY <1>2, <1>c DEF DirsInv, OneDSlot
  <2>2. OneDclose'
    BY <1>1, <1>2, <1>b DEF DirsInv, OneDclose
  <2>3. OneUser'
    BY <1>1, <1>2 DEF DirsInv, OneUser
  <2>. QED
    BY <2>1, <2>2, <2>3
<1>d. \A h : DKept(h) => \A k : k = h => DKept(k)'
  BY <1>1, <1>b DEF DKept
<1>4. call[t].op = "dopen" /\ Decided(t) /\ Outcome(t) \in DirSlots /\ Running => DGiven(Outcome(t), call[t].path)
  BY <1>2 DEF DirsInv, DOpening
<1>5. call[t].op = "dread" =>
          /\ Running /\ Decided(t) /\ Outcome(t) > 0 => Outcome(t) = Dir(call[t].h).pos
          /\ Running /\ faults = 0 /\ ~(Decided(t) /\ Outcome(t) > 0) =>
                 Dir(call[t].h).pos = dhandles[call[t].h][1].got
  BY <1>2 DEF DirsInv, DReading
<1>6. \A h \in DirSlots : Dir(h)' = Dir(h) /\ Dir(h).pos \in Int
  BY <1>1, <1>2, NetHostFsAssumption DEF Dir, WInv, TablesType
<1>7. ASSUME Running, NEW h \in DirSlots PROVE DHeld(h)'
  <2>1. DHeld(h) /\ Dir(h)' = Dir(h) /\ Dir(h).pos \in Int
    BY <1>2, <1>6, <1>7 DEF DirsInv
  <2>2. CASE NewHandle(t, h)
    <3>1. DGiven(h, call[t].path) /\ Len(dhandles'[h]) = 1 /\ dhandles'[h][1].path = call[t].path /\ dhandles'[h][1].got = 0
      BY <1>4, <1>7, <2>2 DEF NewHandle
    <3>. QED
      BY <2>1, <3>1 DEF DGiven, DHeld
  <2>3. CASE NewEntry(t, h)
    <3>1. Len(dhandles'[h]) = 1 /\ dhandles'[h][1].path = dhandles[h][1].path /\ dhandles'[h][1].got = Dir(h).pos
      BY <1>5, <1>7, <2>3 DEF NewEntry
    <3>2. dhandles[h] # <<>>
      BY <1>2, <2>3 DEF NewEntry, DirsInv, DReading
    <3>3. Dir(h).opened /\ Dir(h).entries = dhandles[h][1].path
      BY <2>1, <3>2 DEF DHeld
    <3>. QED
      BY <2>1, <3>1, <3>3 DEF DHeld
  <2>4. CASE dhandles'[h] = dhandles[h] /\ ~NewEntry(t, h)
    <3>1. SUFFICES ASSUME faults = 0, ~Using({"dread"}, h)', dhandles[h] # <<>>
                   PROVE  Dir(h).pos = dhandles[h][1].got
      BY <1>1, <2>1, <2>4 DEF DHeld
    <3>2. CASE ~Using({"dread"}, h)
      BY <2>1, <3>1, <3>2 DEF DHeld
    <3>3. CASE Using({"dread"}, h)
      <4>1. call[t].op = "dread" /\ call[t].h = h
        BY <1>1, <3>1, <3>3 DEF Using
      <4>. QED
        BY <1>5, <1>7, <2>4, <3>1, <4>1
    <3>. QED
      BY <3>2, <3>3
  <2>. QED
    BY <2>2, <2>3, <2>4
<1>8. ASSUME NEW u \in Threads PROVE DClosing(u)'
  <2>0. CASE ~DFrees(u)'
    BY <2>0 DEF DClosing, DFrees
  <2>. SUFFICES ASSUME u # t, DFrees(u) PROVE DClosing(u)'
    BY <1>b, <2>0
  <2>2. /\ call[u].h \in DirSlots /\ dhandles[call[u].h] = <<>> /\ Running /\ call'[u] = call[u]
        /\ Pending(u, "dclose")' => Dir(call[u].h).entries # NoPath
    BY <1>1, <1>2, DirSlotOf DEF DFrees, Pending, DirsInv, DClosing, Login, At
  <2>3. ~NewHandle(t, call[u].h)
    <3>1. SUFFICES ASSUME NewHandle(t, call[u].h) PROVE FALSE
      OBVIOUS
    <3>2. DGiven(call[u].h, call[t].path)
      BY <1>4, <2>2, <3>1 DEF NewHandle
    <3>. QED
      BY <3>2 DEF DGiven, DKept
  <2>4. ~NewEntry(t, call[u].h)
    BY <1>2, <2>2 DEF NewEntry, DirsInv, DReading
  <2>. QED
    BY <1>1, <2>2, <2>3, <2>4 DEF DClosing, Dir
<1>9. ASSUME NEW u \in Threads PROVE DOpening(u)'
  <2>1. CASE u = t
    BY <1>1, <2>1 DEF DOpening
  <2>2. CASE u # t /\ call[u].op # "dopen"
    BY <1>1, <2>2 DEF DOpening
  <2>3. CASE u # t /\ call[u].op = "dopen"
    <3>1. DOpening(u) /\ UNCHANGED <<thread[u], call[u]>> /\ (Decided(u)' <=> Decided(u)) /\ Outcome(u)' = Outcome(u)
      BY <1>1, <1>2, <2>3 DEF DirsInv
    <3>2. \A h \in DirSlots : DTakes(u, h) => ~NewHandle(t, h)
      BY <1>2, <2>3 DEF DirsInv, OneDSlot, DTakes, NewHandle
    <3>3. ASSUME Decided(u), Outcome(u) \in DirSlots, Running PROVE DGiven(Outcome(u), call[u].path)'
      <4>1. DGiven(Outcome(u), call[u].path)
        BY <2>3, <3>1, <3>3 DEF DOpening
      <4>2. ~NewEntry(t, Outcome(u))
        BY <1>2, <4>1 DEF NewEntry, DGiven, DirsInv, DReading
      <4>3. dhandles'[Outcome(u)] = dhandles[Outcome(u)]
        BY <2>3, <3>2, <3>3, <4>2 DEF DTakes
      <4>4. PICK h \in DirSlots : h = Outcome(u)
        BY <3>3
      <4>5. PICK p : p = call[u].path
        OBVIOUS
      <4>6. DGiven(h, p)'
        BY <1>6, <1>d, <4>1, <4>3, <4>4, <4>5 DEF DGiven
      <4>7. h = Outcome(u)' /\ p = call[u].path'
        BY <3>1, <4>4, <4>5
      <4>. QED
        BY <4>6, <4>7 DEF DGiven, DKept, Dir
    <3>. QED
      <4>1. Decided(u)' /\ Outcome(u)' \in DirSlots /\ Running' => DGiven(Outcome(u), call[u].path)'
        BY <1>1, <3>1, <3>3
      <4>2. At(u, "scandir")' => (Dir(thread[u].i).entries = NoPath /\ DKept(thread[u].i))'
        BY <1>1, <1>a, <1>d, <2>3, <3>1 DEF DOpening, Dir
      <4>. QED
        BY <1>1, <2>3, <3>1, <4>1, <4>2 DEF DOpening
  <2>. QED
    BY <2>1, <2>2, <2>3
<1>10. ASSUME NEW u \in Threads PROVE DReading(u)'
  <2>1. SUFFICES ASSUME u # t, call[u].op = "dread" PROVE DReading(u)'
    BY <1>1 DEF DReading
  <2>2. DReading(u) /\ UNCHANGED <<thread[u], call[u]>> /\ (Decided(u)' <=> Decided(u)) /\ Outcome(u)' = Outcome(u)
    BY <1>1, <1>2, <2>1 DEF DirsInv
  <2>3. call[u].h \in DirSlots
    BY <1>2, <2>1, DirSlotOf DEF OnDir
  <2>4. dhandles[call[u].h] # <<>> /\ ~NewEntry(t, call[u].h)
    BY <1>2, <2>1, <2>2 DEF DReading, NewEntry, DirsInv, OneUser, OnDir
  <2>5. dhandles'[call[u].h] # <<>> /\ (Running => dhandles'[call[u].h] = dhandles[call[u].h])
    BY <2>3, <2>4 DEF NewHandle
  <2>. QED
    BY <1>1, <2>1, <2>2, <2>5 DEF DReading, Dir
<1>11. (faults = 0 /\ Running => \A u \in Threads : At(u, "closed") => call[u].op \in {"none", "exit"})'
  BY <1>1, <1>2 DEF DirsInv, At
<1>. QED
  BY <1>1, <1>3, <1>7, <1>8, <1>9, <1>10, <1>11 DEF DirsInv

LEMMA OneMore ==
  ASSUME NEW S, NEW q \in Seq(S), NEW e \in S
  PROVE  /\ Append(q, e) \in Seq(S) /\ Append(q, e) # <<>>
         /\ q = <<>> => Len(Append(q, e)) = 1 /\ Append(q, e)[1] = e
<1>1. Append(q, e) \in Seq(S) /\ Len(Append(q, e)) = Len(q) + 1 /\ Append(q, e)[Len(q) + 1] = e /\ Len(q) \in Nat
  BY AppendProperties
<1>. QED
  BY <1>1, EmptySeq

(* The first handle of q is at the entry g.                                   *)
Advanced(q, g) == <<[Head(q) EXCEPT !.got = g]>> \o Tail(q)

LEMMA AdvancedType ==
  ASSUME NEW q \in Seq([path : Dirs, got : 0 .. MaxEntries]), q # <<>>, NEW g \in 0 .. MaxEntries
  PROVE  /\ Advanced(q, g) # <<>> /\ Advanced(q, g) \in Seq([path : Dirs, got : 0 .. MaxEntries])
         /\ Advanced(q, g)[1].got = g /\ Advanced(q, g)[1].path = q[1].path
         /\ Len(Advanced(q, g)) = Len(q)
<1> DEFINE E == [path : Dirs, got : 0 .. MaxEntries]
<1>1. q \in Seq(E) /\ Len(q) \in Nat /\ Head(q) = q[1]
  OBVIOUS
<1>2. PICK e : e = [Head(q) EXCEPT !.got = g]
  OBVIOUS
<1> HIDE DEF E
<1>3. Head(q) \in E /\ Tail(q) \in Seq(E) /\ Len(Tail(q)) = Len(q) - 1
  BY <1>1, HeadTailProperties
<1>4. e \in E /\ e.got = g /\ e.path = q[1].path
  BY <1>1, <1>2, <1>3 DEF E
<1>5. <<e>> \in Seq(E) /\ Len(<<e>>) = 1 /\ <<e>>[1] = e
  BY <1>4
<1>6. PICK s : s = <<e>> \o Tail(q)
  OBVIOUS
<1>7. s \in Seq(E) /\ Len(s) = 1 + Len(Tail(q)) /\ s[1] = e
  BY <1>1, <1>3, <1>5, <1>6, ConcatProperties
<1>8. s = Advanced(q, g)
  BY <1>2, <1>6, Zenon DEF Advanced
<1>9. s # <<>> /\ Len(s) = Len(q)
  BY <1>1, <1>3, <1>7, EmptySeq
<1>. QED
  BY <1>4, <1>7, <1>8, <1>9 DEF E

LEMMA StepTables_Receive ==
  ASSUME TInv, WInv', NEW t \in Threads, Receive(t)
  PROVE  TInv'
<1>1. /\ Over(t) /\ Decided(t) /\ Outcome(t) = Reply(t).n
      /\ logged' = (logged \/ (call[t].op = "init" /\ Reply(t).n = 0))
      /\ handles' = IF call[t].op = "open" /\ Reply(t).n \in FileSlots
                    THEN [handles EXCEPT ![Reply(t).n] = Append(@, call[t].path)] ELSE handles
      /\ dhandles' = IF call[t].op = "dopen" /\ Reply(t).n \in DirSlots
                     THEN [dhandles EXCEPT ![Reply(t).n] = Append(@, [path |-> call[t].path, got |-> 0])]
                     ELSE IF call[t].op = "dread" /\ Reply(t).n > 0
                     THEN [dhandles EXCEPT ![call[t].h] = <<[Head(@) EXCEPT !.got = Reply(t).n]>> \o Tail(@)]
                     ELSE dhandles
  BY ReceiveFacts
<1>2. /\ FilesInv /\ DirsInv /\ WInv /\ Opening(t) /\ DOpening(t) /\ DReading(t)
      /\ handles \in [FileSlots -> Seq(Files)]
      /\ dhandles \in [DirSlots -> Seq([path : Dirs, got : 0 .. MaxEntries])]
  BY DEF TInv, FilesInv, DirsInv
<1>4. Login'
  <2>1. logged \in BOOLEAN
    BY <1>2 DEF WInv, WiresType
  <2>. QED
    BY <1>1, <2>1, OverLogin
<1>5. FilesInv'
  <2>1. CASE call[t].op = "open" /\ Reply(t).n \in FileSlots
    <3>1. PICK n \in FileSlots : n = Reply(t).n
      BY <2>1
    <3>2. PICK p : p = call[t].path
      OBVIOUS
    <3>3. PICK s : s = Append(handles[n], p)
      OBVIOUS
    <3>4. p \in Files /\ (Running => handles[n] = <<>>)
      BY <1>1, <1>2, <2>1, <3>1, <3>2 DEF Opening, Given
    <3>5. handles[n] \in Seq(Files)
      BY <1>2
    <3>6. s \in Seq(Files) /\ (handles[n] = <<>> => s # <<>> /\ Len(s) = 1 /\ s[1] = p)
      BY <3>3, <3>4, <3>5, OneMore
    <3>7. handles' = [handles EXCEPT ![n] = s]
      BY <1>1, <2>1, <3>1, <3>2, <3>3
    <3>8. handles' \in [FileSlots -> Seq(Files)] /\ handles'[n] = s /\ \A i \in FileSlots \ {n} : handles'[i] = handles[i]
      BY <1>2, <3>6, <3>7
    <3>. QED
      BY <1>1, <2>1, <3>1, <3>2, <3>4, <3>6, <3>8, OverFiles
  <2>2. CASE ~(call[t].op = "open" /\ Reply(t).n \in FileSlots)
    BY <1>1, <1>2, <2>2, OverFiles
  <2>. QED
    BY <2>1, <2>2
<1>6. DirsInv'
  <2>1. CASE call[t].op = "dopen" /\ Reply(t).n \in DirSlots
    <3>1. PICK n \in DirSlots : n = Reply(t).n
      BY <2>1
    <3>2. PICK e : e = [path |-> call[t].path, got |-> 0]
      OBVIOUS
    <3>3. PICK s : s = Append(dhandles[n], e)
      OBVIOUS
    <3>4. call[t].path \in Dirs /\ (Running => dhandles[n] = <<>>)
      BY <1>1, <1>2, <2>1, <3>1, DirSlotOf DEF DOpening, DGiven
    <3>5. e \in [path : Dirs, got : 0 .. MaxEntries] /\ e.path = call[t].path /\ e.got = 0
      BY <3>2, <3>4, NetHostFsAssumption
    <3>a. dhandles[n] \in Seq([path : Dirs, got : 0 .. MaxEntries])
      BY <1>2
    <3>6. s # <<>> /\ s \in Seq([path : Dirs, got : 0 .. MaxEntries]) /\ (dhandles[n] = <<>> => Len(s) = 1 /\ s[1] = e)
      BY <3>3, <3>5, <3>a, OneMore
    <3>7. dhandles' = [dhandles EXCEPT ![n] = s]
      BY <1>1, <2>1, <3>1, <3>2, <3>3
    <3>8. /\ dhandles' \in [DirSlots -> Seq([path : Dirs, got : 0 .. MaxEntries])]
          /\ dhandles'[n] = s /\ \A i \in DirSlots \ {n} : dhandles'[i] = dhandles[i]
      BY <1>2, <3>6, <3>7
    <3>9. NewHandle(t, n)
      BY <1>1, <2>1, <3>1, <3>4, <3>5, <3>6, <3>8 DEF NewHandle
    <3>. QED
      BY <1>1, <2>1, <3>8, <3>9, OverDirs
  <2>2. CASE call[t].op = "dread" /\ Reply(t).n > 0
    <3>1. PICK n \in DirSlots : n = call[t].h
      BY <1>2, <2>2, DirSlotOf DEF OnDir
    <3>2. dhandles[n] \in Seq([path : Dirs, got : 0 .. MaxEntries]) /\ dhandles[n] # <<>>
      BY <1>2, <2>2, <3>1 DEF DReading
    <3>3. PICK g : g = Reply(t).n
      OBVIOUS
    <3>4. g \in 0 .. MaxEntries
      BY <1>1, <1>2, <2>2, <3>3, NetHostFsAssumption DEF DReading
    <3>5. PICK q : q = dhandles[n]
      OBVIOUS
    <3>6. q \in Seq([path : Dirs, got : 0 .. MaxEntries]) /\ q # <<>>
      BY <3>2, <3>5
    <3>7. PICK s : s = Advanced(q, g)
      OBVIOUS
    <3>a. /\ s # <<>> /\ s \in Seq([path : Dirs, got : 0 .. MaxEntries])
          /\ s[1].got = g /\ s[1].path = q[1].path /\ Len(s) = Len(q)
      BY <3>4, <3>6, <3>7, AdvancedType, Zenon
    <3>8. dhandles' = [dhandles EXCEPT ![n] = s]
      BY <1>1, <2>2, <3>1, <3>3, <3>5, <3>7 DEF Advanced
    <3>9. /\ dhandles' \in [DirSlots -> Seq([path : Dirs, got : 0 .. MaxEntries])]
          /\ dhandles'[n] = s /\ \A i \in DirSlots \ {n} : dhandles'[i] = dhandles[i]
      BY <1>2, <3>a, <3>8
    <3>10. Running => Len(dhandles[n]) = 1
      BY <1>2, <3>2 DEF DirsInv, DHeld
    <3>11. NewEntry(t, n)
      BY <1>1, <2>2, <3>1, <3>3, <3>5, <3>a, <3>9, <3>10 DEF NewEntry
    <3>. QED
      BY <1>1, <2>2, <3>1, <3>9, <3>11, OverDirs
  <2>3. CASE ~(call[t].op = "dopen" /\ Reply(t).n \in DirSlots) /\ ~(call[t].op = "dread" /\ Reply(t).n > 0)
    BY <1>1, <1>2, <2>3, OverDirs
  <2>. QED
    BY <2>1, <2>2, <2>3
<1>. QED
  BY <1>4, <1>5, <1>6 DEF TInv

LEMMA StepTables_Lose ==
  ASSUME TInv, WInv', NEW t \in Threads, Lose(t)
  PROVE  TInv'
<1>1. UNCHANGED <<logged, handles, dhandles>> /\ thread[t].at = "closed"
  BY DEF Lose
<1>2. FilesInv /\ DirsInv /\ WInv
  BY DEF TInv
<1>3. Over(t)
  BY <1>2 DEF Lose, Over, WInv, WiresType
<1>4. Login'
  BY <1>1, <1>3, OverLogin
<1>5. FilesInv'
  BY <1>1, <1>2, <1>3, OverFiles DEF FilesInv
<1>6. DirsInv'
  <2>1. faults = 0 /\ Running => call[t].op # "dread"
    BY <1>1, <1>2 DEF DirsInv, At
  <2>. QED
    BY <1>1, <1>2, <1>3, <2>1, OverDirs DEF DirsInv
<1>. QED
  BY <1>4, <1>5, <1>6 DEF TInv


(* t alone goes into a slot that nobody is in.                                *)
LEMMA OneSlotNow ==
  ASSUME OneSlot, NEW t \in Threads, Acts(t), NEW j, \A i \in FileSlots : Takes(t, i)' => i = j,
         \A u \in Threads \ {t} : ~Takes(u, j)
  PROVE  OneSlot'
<1>1. ASSUME NEW u \in Threads \ {t}, NEW i \in FileSlots, Takes(u, i)' PROVE Takes(u, i) /\ i # j
  <2>1. Takes(u, i)
    BY <1>1, ElsewhereToo
  <2>. QED
    BY <2>1
<1>2. ASSUME NEW u \in Threads, NEW w \in Threads, NEW i \in FileSlots, Takes(u, i)', Takes(w, i)' PROVE u = w
  <2>1. CASE u # t /\ w # t
    BY <1>1, <1>2, <2>1 DEF OneSlot
  <2>2. CASE u = t \/ w = t
    BY <1>1, <1>2, <2>2
  <2>. QED
    BY <2>1, <2>2
<1>. QED
  BY <1>2 DEF OneSlot

(* The steps of process_ioopen that open nothing.                             *)
LEMMA OpenActs ==
  ASSUME TInv, WInv', NEW t \in Threads, Acts(t), call[t].op = "open",
         thread[t].at \notin {"store", "reset"}, thread'[t].at \notin {"closing", "store", "reset", "scandir"},
         UNCHANGED <<dirs_table, kernel>>, \A i \in FileSlots : Desc(i)' = Desc(i),
         \A u \in Threads \ {t} : At(u, "path") /\ call[u].op = "open" =>
             files_table'[thread[u].i].name = files_table[thread[u].i].name,
         OneSlot', Opening(t)'
  PROVE  TInv'
<1>1. WInv /\ Login /\ FilesInv /\ DirsInv
  BY DEF TInv
<1>2. call'[t].op = "open" /\ logged
  BY <1>1, LoggedFor DEF Acts
<1>3. Login'
  BY <1>1, <1>2, LoginLater
<1>4. ~Pending(t, "close")' /\ ~Pending(t, "dclose")' /\ ~ToClose(t)' /\ ~DFrees(t)'
  BY <1>2 DEF Pending, At, ToClose, DFrees
<1>5. DOpening(t)' /\ DReading(t)'
  BY <1>2 DEF DOpening, DReading
<1>8. \A i \in DirSlots : ~DTakes(t, i)'
  BY <1>2 DEF DTakes
<1>9. OneDSlot'
  BY <1>1, <1>8, OneDSlotStays DEF DirsInv
<1>6. FilesInv'
  BY <1>1, <1>4, FilesActs
<1>7. DirsInv'
  BY <1>1, <1>4, <1>5, <1>9, DirsActs
<1>. QED
  BY <1>3, <1>6, <1>7 DEF TInv

LEMMA StepTables_FindFile ==
  ASSUME TInv, WInv', NEW t \in Threads, FindFile(t), ~crossed'
  PROVE  TInv'
<1>1. WInv /\ TablesType /\ thread \in [Threads -> Thread] /\ FilesInv /\ Login /\ OneSlot
  BY DEF TInv, WInv, WiresType, FilesInv
<1>2. UNCHANGED <<Still, to_pc, to_psp, dirs_table, kernel>> /\ thread[t].at = "open"
  BY DEF FindFile, Wire, psp, Still, At
<1>3. call[t].op = "open" /\ to_psp[t] = <<>> /\ Serves(thread[t], call[t]) /\ call'[t] = call[t]
  BY <1>2, OpAt DEF Ops, Still
<1>4. thread[t].i \in Nat /\ thread[t].i <= MaxFiles /\ MaxFiles \in Nat /\ Arg(t).path = call[t].path
  BY <1>1, <1>2, <1>3, NetHostFsAssumption DEF Serves, Thread, Arg
<1>5. CASE Answer(t, -1) /\ UNCHANGED files_table
  <2>1. (\A u \in Threads : u # t => thread'[u] = thread[u]) /\ thread'[t].at = "reply" /\ thread'[t].res = -1
    BY <1>1, <1>5, AnswerFields
  <2>2. Acts(t)
    BY <1>2, <2>1 DEF Acts, Still
  <2>3. Outcome(t)' = -1
    BY <1>2, <1>3, <2>1 DEF Outcome
  <2>4. -1 \notin FileSlots
    BY <1>4 DEF FileSlots
  <2>5. Opening(t)'
    BY <2>1, <2>3, <2>4 DEF Opening, At
  <2>6. \A i \in FileSlots : Desc(i)' = Desc(i)
    BY <1>5 DEF Desc
  <2>7. \A i \in FileSlots : ~Takes(t, i)'
    BY <2>1, <2>3, <2>4 DEF Takes, Filling
  <2>8. OneSlot'
    BY <1>1, <2>2, <2>7, OneSlotStays
  <2>. QED
    BY <1>2, <1>3, <1>5, <2>1, <2>2, <2>5, <2>6, <2>8, OpenActs
<1>6. CASE thread' = [thread EXCEPT ![t].i = thread[t].i + 1] /\ UNCHANGED files_table
  <2>1. thread'[t].at = "open" /\ \A u \in Threads \ {t} : thread'[u] = thread[u]
    BY <1>1, <1>2, <1>6 DEF Thread
  <2>2. Acts(t)
    BY <1>2, <2>1 DEF Acts, Still
  <2>3. ~Decided(t)'
    BY <1>2, <1>3, <2>1 DEF Decided, At
  <2>5. Opening(t)'
    BY <2>1, <2>3 DEF Opening, At
  <2>6. \A i \in FileSlots : Desc(i)' = Desc(i)
    BY <1>6 DEF Desc
  <2>7. \A i \in FileSlots : ~Takes(t, i)'
    BY <2>1, <2>3 DEF Takes, Filling
  <2>8. OneSlot'
    BY <1>1, <2>2, <2>7, OneSlotStays
  <2>. QED
    BY <1>2, <1>3, <1>6, <2>1, <2>2, <2>5, <2>6, <2>8, OpenActs
<1>7. CASE thread[t].i < MaxFiles /\ FreeFile(thread[t].i) /\ Goto(t, "path")
           /\ files_table' = [files_table EXCEPT ![thread[t].i].name = Arg(t).path]
           /\ crossed' = (crossed \/ \E u \in Threads \ {t} : Filling(u, thread[t].i))
  <2>1. PICK i \in FileSlots : i = thread[t].i
    BY <1>4, <1>7 DEF FileSlots
  <2>2. PICK p : p = call[t].path
    OBVIOUS
  <2>3. PICK x : x = [files_table[i] EXCEPT !.name = p]
    OBVIOUS
  <2>a. files_table \in [FileSlots -> [name : Paths, fd : Fds \cup {-1, 0, 65535}]]
    BY <1>1 DEF TablesType
  <2>4. files_table[i] \in [name : Paths, fd : Fds \cup {-1, 0, 65535}]
    BY <2>a
  <2>5. x.name = p /\ x.fd = files_table[i].fd
    BY <2>3, <2>4
  <2>6. files_table' = [files_table EXCEPT ![i] = x]
    BY <1>4, <1>7, <2>1, <2>2, <2>3
  <2>7. files_table'[i] = x /\ \A k \in FileSlots \ {i} : files_table'[k] = files_table[k]
    BY <2>a, <2>6
  <2>8. \A k \in FileSlots : Desc(k)' = Desc(k)
    BY <2>5, <2>7 DEF Desc
  <2>9. /\ \A u \in Threads : u # t => thread'[u] = thread[u]
        /\ thread'[t].at = "path" /\ thread'[t].i = i
    BY <1>1, <1>7, <2>1, GotoFields DEF Steps
  <2>10. Acts(t)
    BY <1>2, <2>9 DEF Acts, Still
  <2>11. Desc(i) = -1
    <3>1. Desc(i) \in Fds \cup {-1, 0, 65535} /\ Desc(i) < 0
      BY <1>7, <2>1, <2>4 DEF Desc, FreeFile
    <3>2. \A f \in Fds : f \in Nat
      BY NetHostFsAssumption
    <3>. QED
      BY <3>1, <3>2
  <2>12. Desc(thread[t].i)' = -1 /\ files_table'[thread'[t].i].name = call'[t].path
    <3>1. Desc(i)' = -1 /\ files_table'[i].name = p
      BY <2>5, <2>7, <2>8, <2>11
    <3>2. Desc(i)' = Desc(thread[t].i)'
      BY <2>9 DEF Desc
    <3>. QED
      BY <1>3, <2>2, <2>9, <3>1, <3>2
  <2>13. ~Decided(t)' /\ ~At(t, "stat")' /\ ~At(t, "store")' /\ ~At(t, "opened")'
    BY <1>2, <1>3, <2>9 DEF Decided, At
  <2>14. Opening(t)'
    BY <2>12, <2>13 DEF Opening
  <2>15. ASSUME NEW u \in Threads \ {t} PROVE ~Takes(u, i)
    <3>1. ~Filling(u, i)
      BY <1>7, <2>1
    <3>2. ASSUME call[u].op = "open", Decided(u), Outcome(u) = i PROVE FALSE
      <4>1. Running /\ Opening(u)
        BY <1>1, <2>10, RunsOn DEF FilesInv
      <4>2. Given(i, call[u].path)
        BY <3>2, <4>1 DEF Opening
      <4>. QED
        BY <2>11, <4>2 DEF Given
    <3>. QED
      BY <3>1, <3>2 DEF Takes
  <2>16. \A k \in FileSlots : Takes(t, k)' => k = i
    BY <2>9, <2>13 DEF Takes, Filling
  <2>17. OneSlot'
    BY <1>1, <2>10, <2>15, <2>16, OneSlotNow
  <2>18. ASSUME NEW u \in Threads \ {t}, At(u, "path"), call[u].op = "open"
         PROVE  files_table'[thread[u].i].name = files_table[thread[u].i].name
    <3>1. thread[u].i \in FileSlots
      BY <1>1, <2>18 DEF WInv, Wired, Working, Serves, At
    <3>2. thread[u].i # i
      BY <2>15, <2>18 DEF Takes, Filling, At
    <3>. QED
      BY <2>7, <3>1, <3>2
  <2>. QED
    BY <1>2, <1>3, <2>8, <2>9, <2>10, <2>14, <2>17, <2>18, OpenActs
<1>. QED
  BY <1>5, <1>6, <1>7 DEF FindFile

LEMMA StepTables_MakePath ==
  ASSUME TInv, WInv', NEW t \in Threads, MakePath(t)
  PROVE  TInv'
<1>1. WInv /\ thread \in [Threads -> Thread] /\ Opening(t) /\ OneSlot
  BY DEF TInv, WInv, WiresType, FilesInv
<1>2. UNCHANGED <<Still, to_pc, to_psp, files_table, dirs_table, kernel>> /\ thread[t].at = "path"
  BY DEF MakePath, Rest, Wire, psp, Still, At, tables
<1>3. call[t].op = "open" /\ to_psp[t] = <<>> /\ call'[t] = call[t]
  BY <1>2, OpAt DEF Still
<1>4. Desc(thread[t].i) = -1 /\ files_table[thread[t].i].name = call[t].path
  BY <1>1, <1>2, <1>3 DEF Opening, At
<1>5. PICK r : r = [thread[t].req EXCEPT !.path = call[t].path]
  OBVIOUS
<1>6. r.path = call[t].path
  <2>1. thread[t].req \in Request
    BY <1>1 DEF Thread
  <2>. QED
    BY <1>5, <2>1 DEF Request
<1>7. PICK q : q = [thread[t] EXCEPT !.at = "stat"]
  OBVIOUS
<1>8. q \in Thread /\ q.at = "stat" /\ q.req = thread[t].req /\ q.i = thread[t].i
  BY <1>1, <1>7 DEF Thread, Steps
<1>9. PICK x : x = [q EXCEPT !.req = r]
  OBVIOUS
<1>10. x.at = "stat" /\ x.req = r /\ x.i = thread[t].i
  BY <1>8, <1>9 DEF Thread
<1>11. thread' = [thread EXCEPT ![t] = x]
  BY <1>1, <1>4, <1>5, <1>7, <1>8, <1>9 DEF MakePath
<1>12. thread'[t] = x /\ \A u \in Threads \ {t} : thread'[u] = thread[u]
  BY <1>1, <1>11
<1>13. Acts(t)
  BY <1>2, <1>10, <1>12 DEF Acts, Still
<1>14. Desc(thread[t].i)' = -1 /\ Arg(t)'.path = call'[t].path
  BY <1>2, <1>3, <1>4, <1>6, <1>10, <1>12 DEF Desc, Arg
<1>15. ~Decided(t)' /\ ~At(t, "path")' /\ ~At(t, "store")' /\ ~At(t, "opened")'
  BY <1>2, <1>3, <1>10, <1>12 DEF Decided, At
<1>16. Opening(t)'
  BY <1>14, <1>15 DEF Opening
<1>17. \A i \in FileSlots : Desc(i)' = Desc(i)
  BY <1>2 DEF Desc
<1>18. \A i \in FileSlots : Takes(t, i)' => Takes(t, i)
  BY <1>2, <1>3, <1>10, <1>12, <1>15 DEF Takes, Filling
<1>19. OneSlot'
  BY <1>1, <1>13, <1>18, OneSlotStays
<1>. QED
  BY <1>2, <1>3, <1>10, <1>12, <1>13, <1>16, <1>17, <1>19, OpenActs

LEMMA StepTables_Opened ==
  ASSUME TInv, WInv', NEW t \in Threads, Opened(t)
  PROVE  TInv'
<1>1. WInv /\ TablesType /\ thread \in [Threads -> Thread] /\ Opening(t) /\ OneSlot
  BY DEF TInv, WInv, WiresType, FilesInv
<1>2. UNCHANGED <<Still, to_pc, to_psp, files_table, dirs_table, kernel>> /\ thread[t].at = "opened"
  BY DEF Opened, Rest, Wire, psp, Still, At, tables
<1>3. call[t].op = "open" /\ to_psp[t] = <<>> /\ Serves(thread[t], call[t]) /\ UNCHANGED <<call, handles, rdonly, kernel>>
  BY <1>2, OpAt DEF Still
<1>4. PICK i \in FileSlots : i = thread[t].i
  BY <1>2, <1>3 DEF Serves
<1>5. PICK p : p = call[t].path
  OBVIOUS
<1>6. PICK v : v = IF FreeFile(i) THEN Desc(i) ELSE i
  OBVIOUS
<1>7. v \in Int /\ Desc(i) \in Int /\ i \in Int
  BY <1>1, <1>4, <1>6, FdType, NetHostFsAssumption DEF Desc, FileSlots
<1>8. Answer(t, v)
  BY <1>4, <1>6 DEF Opened, Desc
<1>9. (\A u \in Threads : u # t => thread'[u] = thread[u]) /\ thread'[t].at = "reply" /\ thread'[t].res = v
  BY <1>1, <1>7, <1>8, AnswerFields
<1>10. Acts(t)
  BY <1>2, <1>9 DEF Acts, Still
<1>11. \A k \in FileSlots : Desc(k)' = Desc(k)
  BY <1>2 DEF Desc
<1>12. Outcome(t)' = v
  BY <1>2, <1>3, <1>9 DEF Outcome
<1>13. Desc(i) = -1 \/ Given(i, p)
  BY <1>1, <1>2, <1>3, <1>4, <1>5 DEF Opening, At
<1>14. v \in FileSlots => v = i /\ Given(i, p)
  BY <1>6, <1>7, <1>13, NetHostFsAssumption DEF FreeFile, Desc, FileSlots
<1>15. \A u \in Threads : ToClose(u)' => ToClose(u)
  <2>1. ~ToClose(t)'
    BY <1>3, <1>9 DEF ToClose, Pending, At
  <2>. QED
    BY <1>10, <2>1, ElsewhereToo
<1>16. Given(i, p) => Given(i, p)'
  BY <1>3, <1>11, <1>15 DEF Given, Kept
<1>17. ASSUME Outcome(t)' \in FileSlots
       PROVE  call'[t].path \in Files /\ Given(Outcome(t), call[t].path)'
  <2>1. v = i /\ Given(i, p) /\ Given(i, p)'
    BY <1>12, <1>14, <1>16, <1>17
  <2>2. p \in Files
    BY <2>1 DEF Given
  <2>3. i = Outcome(t)' /\ p = call[t].path'
    BY <1>3, <1>5, <1>12, <2>1
  <2>4. Given(Outcome(t), call[t].path)'
    BY <2>1, <2>3 DEF Given, Kept
  <2>. QED
    BY <2>2, <2>3, <2>4
<1>18. Opening(t)'
  BY <1>9, <1>17 DEF Opening, At
<1>19. \A k \in FileSlots : Takes(t, k)' => Takes(t, k)
  BY <1>2, <1>3, <1>4, <1>9, <1>12, <1>14 DEF Takes, Filling
<1>20. OneSlot'
  BY <1>1, <1>10, <1>19, OneSlotStays
<1>. QED
  BY <1>2, <1>3, <1>9, <1>10, <1>11, <1>18, <1>20, OpenActs

(* What holds of the files before a step of process_ioopen, process_ioclose.  *)
LEMMA FileFacts ==
  ASSUME TInv, NEW t \in Threads, Acts(t), call[t].op \in {"open", "close"}
  PROVE  /\ WInv /\ Login /\ FilesInv /\ DirsInv /\ OneSlot /\ OneClose /\ NoLoss
         /\ Running /\ Running' /\ logged /\ UNCHANGED <<call, handles, logged, rdonly>>
         /\ \A k \in FileSlots : Slot(k) /\ Held(k)
         /\ \A u \in Threads : Closing(u) /\ Opening(u)
         /\ kernel \in [Fds -> Files \cup {NoPath}] /\ Fds \subseteq Nat \ {65535} /\ NoPath \notin Files
<1>1. WInv /\ Login /\ FilesInv /\ DirsInv
  BY DEF TInv
<1>2. Running /\ Running' /\ logged /\ UNCHANGED <<call, handles, logged, rdonly>>
  BY <1>1, RunsOn, LoggedFor DEF Acts
<1>3. kernel \in [Fds -> Files \cup {NoPath}] /\ Fds \subseteq Nat \ {65535} /\ NoPath \notin Files
  BY <1>1, NetHostFsAssumption DEF WInv, TablesType
<1>. QED
  BY <1>1, <1>2, <1>3 DEF FilesInv

LEMMA SteadyElse ==
  ASSUME NEW t \in Threads, Acts(t), NEW k, call[t].h # k \/ (At(t, "reset")' <=> At(t, "reset"))
  PROVE  Steady(k)' <=> Steady(k)
<1>1. call' = call /\ \A u \in Threads \ {t} : At(u, "reset")' <=> At(u, "reset")
  BY DEF Acts, At
<1>2. ASSUME Steady(k), NEW u \in Threads, At(u, "reset")' PROVE call'[u].h # k
  BY <1>1, <1>2 DEF Steady
<1>3. ASSUME Steady(k)', NEW u \in Threads, At(u, "reset") PROVE call[u].h # k
  BY <1>1, <1>3 DEF Steady
<1>. QED
  BY <1>2, <1>3 DEF Steady

(* A slot that is kept is steady; so is one that is free, or the PSP's.       *)
LEMMA SteadyKept ==
  ASSUME NEW k, ((\A u \in Threads : Closing(u)) /\ (handles[k] # <<>> \/ Desc(k) = -1)) \/ Kept(k)
  PROVE  Kept(k) /\ Steady(k)
<1>1. Kept(k)
  BY DEF Kept, Closing
<1>2. Steady(k)
  BY <1>1 DEF Kept, Steady, ToClose
<1>. QED
  BY <1>1, <1>2

(* A step that changes a descriptor, in a slot or in the kernel, keeps the    *)
(* slots that are kept and the descriptors that are still to be stored.       *)
LEMMA FileStep ==
  ASSUME TInv, WInv', NEW t \in Threads, Acts(t), call[t].op \in {"open", "close"}, UNCHANGED dirs_table,
         thread'[t].at \notin {"closing", "scandir"}, ToClose(t)' => ToClose(t),
         \A k \in FileSlots : files_table'[k].name = files_table[k].name,
         OneSlot', NoLoss', (\A k \in FileSlots : Slot(k))', Opening(t)',
         \A k \in FileSlots : Desc(k) # -1 /\ Kept(k) => Desc(k)' = Desc(k),
         \A k \in FileSlots : Desc(k) \in Fds /\ Kept(k) => kernel'[Desc(k)] = kernel[Desc(k)],
         \A u \in Threads \ {t} : ToClose(u) /\ Desc(call[u].h) # -1 => Desc(call[u].h)' # -1,
         ToClose(t)' => Desc(call[t].h)' # -1,
         \A u \in Threads \ {t}, k \in FileSlots : Takes(u, k) /\ Desc(k) = -1 => Desc(k)' = -1,
         \A u \in Threads \ {t} : At(u, "store") /\ Fresh(u) => Fresh(u)'
  PROVE  TInv'
<1>1. /\ WInv /\ Login /\ FilesInv /\ DirsInv /\ OneClose /\ Running /\ Running' /\ logged
      /\ UNCHANGED <<call, handles, logged, rdonly>>
      /\ \A k \in FileSlots : Slot(k) /\ Held(k)
      /\ \A u \in Threads : Closing(u) /\ Opening(u)
  BY FileFacts
<1>2. Login'
  BY <1>1, LoginLater
<1>3. DirsInv'
  <2>1. DOpening(t)' /\ DReading(t)' /\ ~Pending(t, "dclose")' /\ ~DFrees(t)' /\ \A i \in DirSlots : ~DTakes(t, i)'
    BY <1>1 DEF DOpening, DReading, Pending, DFrees, DTakes, At
  <2>2. OneDSlot'
    BY <1>1, <2>1, OneDSlotStays DEF DirsInv
  <2>. QED
    BY <1>1, <2>1, <2>2, DirsActs
<1>4. \A u \in Threads : ToClose(u)' => ToClose(u)
  BY ElsewhereToo
<1>5. OneClose'
  BY <1>1, <1>4, Zenon DEF OneClose
<1>6. ASSUME NEW u \in Threads PROVE Closing(u)'
  <2>1. SUFFICES ASSUME ToClose(u)' PROVE (handles[call[u].h] = <<>> /\ Desc(call[u].h) # -1)'
    BY DEF Closing
  <2>2. PICK k \in FileSlots : k = call[u].h
    BY <1>1, <1>4, <2>1, DirSlotOf
  <2>3. handles[k] = <<>> /\ Desc(k) # -1
    BY <1>1, <1>4, <2>1, <2>2 DEF Closing
  <2>4. Desc(call[u].h)' # -1
    <3>1. CASE u = t
      <4>1. Desc(call[t].h)' # -1
        BY <2>1, <3>1
      <4>. QED
        BY <1>1, <3>1, <4>1 DEF Desc
    <3>2. CASE u # t
      <4>1. ToClose(u) /\ Desc(call[u].h) # -1
        BY <1>4, <2>1, <2>2, <2>3
      <4>2. Desc(call[u].h)' # -1
        BY <3>2, <4>1
      <4>. QED
        BY <1>1, <4>2 DEF Desc
    <3>. QED
      BY <3>1, <3>2
  <2>. QED
    BY <1>1, <2>2, <2>3, <2>4
<1>7. ASSUME NEW k \in FileSlots PROVE Held(k)'
  <2>1. SUFFICES ASSUME handles[k] # <<>> PROVE Held(k)'
    BY <1>1 DEF Held
  <2>2. Kept(k)
    BY <1>1, <2>1, SteadyKept
  <2>3. Held(k) /\ Slot(k) /\ Desc(k) # -1 /\ Desc(k)' = Desc(k)
    BY <1>1, <2>1, <2>2 DEF Held
  <2>4. Desc(k) # 65535 => Desc(k) \in Fds
    BY <2>3 DEF Slot
  <2>5. Desc(k) # 65535 => kernel'[Desc(k)] = kernel[Desc(k)]
    BY <2>2, <2>4
  <2>. QED
    BY <1>1, <2>3, <2>5 DEF Held
<1>8. ASSUME NEW i \in FileSlots, NEW p, Given(i, p) PROVE Given(i, p)'
  <2>1. Kept(i) /\ Desc(i) # -1 /\ Slot(i)
    BY <1>1, <1>8 DEF Given
  <2>2. Kept(i)'
    BY <1>1, <1>4, <2>1 DEF Kept
  <2>3. Desc(i)' = Desc(i)
    BY <2>1
  <2>4. Desc(i) # 65535 => kernel'[Desc(i)] = kernel[Desc(i)]
    BY <2>1 DEF Slot
  <2>. QED
    BY <1>1, <1>8, <2>1, <2>2, <2>3, <2>4 DEF Given
<1>9. ASSUME NEW u \in Threads PROVE Opening(u)'
  <2>1. CASE u = t
    BY <2>1
  <2>2. CASE u # t /\ call[u].op # "open"
    BY <1>1, <2>2 DEF Opening
  <2>3. CASE u # t /\ call[u].op = "open"
    <3>1. /\ UNCHANGED <<thread[u], call[u]>> /\ Opening(u) /\ (Decided(u)' <=> Decided(u)) /\ Outcome(u)' = Outcome(u)
      BY <1>1, <2>3, Elsewhere
    <3>2. At(u, "path") \/ At(u, "stat") \/ At(u, "store") \/ At(u, "opened") => thread[u].i \in FileSlots /\ Filling(u, thread[u].i)
      BY <1>1 DEF WInv, Wired, Working, Serves, At, Filling
    <3>3. PICK i : i = thread[u].i
      OBVIOUS
    <3>4. PICK p : p = call[u].path
      OBVIOUS
    <3>5. i = thread'[u].i /\ p = call'[u].path
      BY <3>1, <3>3, <3>4
    <3>6. i \in FileSlots /\ Filling(u, i) /\ Desc(i) = -1 => Desc(i)' = -1
      BY <2>3 DEF Takes
    <3>7. At(u, "path") => Desc(i)' = -1 /\ files_table'[i].name = p
      BY <2>3, <3>1, <3>2, <3>3, <3>4, <3>6 DEF Opening
    <3>8. At(u, "stat") => Desc(i)' = -1 /\ Arg(u).path = p
      BY <2>3, <3>1, <3>2, <3>3, <3>4, <3>6 DEF Opening
    <3>9. At(u, "store") => Desc(i)' = -1 /\ p \in Files /\ (thread[u].res = -1 \/ Fresh(u)')
      BY <2>3, <3>1, <3>2, <3>3, <3>4, <3>6 DEF Opening
    <3>10. At(u, "opened") => Desc(i)' = -1 \/ Given(i, p)'
      BY <1>8, <2>3, <3>1, <3>2, <3>3, <3>4, <3>6 DEF Opening
    <3>11. Decided(u) /\ Outcome(u) \in FileSlots => p \in Files /\ Given(Outcome(u), p)'
      <4>1. SUFFICES ASSUME Decided(u), Outcome(u) \in FileSlots PROVE p \in Files /\ Given(Outcome(u), p)'
        OBVIOUS
      <4>2. p \in Files /\ Given(Outcome(u), p)
        BY <1>1, <2>3, <3>1, <3>4, <4>1 DEF Opening
      <4>3. PICK n \in FileSlots : n = Outcome(u)
        BY <4>1
      <4>4. Given(n, p)'
        BY <1>8, <4>2, <4>3
      <4>5. n = Outcome(u)'
        BY <3>1, <4>3
      <4>. QED
        BY <4>2, <4>4, <4>5 DEF Given, Kept
    <3>a. At(u, "path")' => Desc(thread[u].i)' = -1 /\ files_table'[thread'[u].i].name = call'[u].path
      BY <3>1, <3>5, <3>7 DEF At, Desc
    <3>b. At(u, "stat")' => Desc(thread[u].i)' = -1 /\ Arg(u)'.path = call'[u].path
      BY <3>1, <3>5, <3>8 DEF At, Desc, Arg
    <3>c. At(u, "store")' => Desc(thread[u].i)' = -1 /\ call'[u].path \in Files /\ (thread'[u].res = -1 \/ Fresh(u)')
      BY <3>1, <3>5, <3>9 DEF At, Desc
    <3>d. At(u, "opened")' => Desc(thread[u].i)' = -1 \/ Given(thread[u].i, call[u].path)'
      BY <3>1, <3>5, <3>10 DEF At, Desc, Given, Kept
    <3>e. Decided(u)' /\ Outcome(u)' \in FileSlots => call'[u].path \in Files /\ Given(Outcome(u), call[u].path)'
      BY <3>1, <3>5, <3>11 DEF Given, Kept
    <3>. QED
      BY <3>a, <3>b, <3>c, <3>d, <3>e DEF Opening
  <2>. QED
    BY <2>1, <2>2, <2>3
<1>10. (handles \in [FileSlots -> Seq(Files)])'
  BY <1>1 DEF FilesInv
<1>11. FilesInv'
  BY <1>5, <1>6, <1>7, <1>9, <1>10 DEF FilesInv
<1>. QED
  BY <1>2, <1>3, <1>11 DEF TInv

LEMMA InSlotStill ==
  ASSUME OneSlot, NEW t \in Threads, Acts(t), call[t].op = "open", to_psp'[t] = <<>>,
         thread[t].at \in {"stat", "store"}, thread'[t].at \in {"store", "opened"}, thread'[t].i = thread[t].i
  PROVE  OneSlot'
<1>1. call' = call
  BY DEF Acts
<1>2. ~Decided(t)'
  BY <1>1 DEF Decided, At
<1>3. \A i \in FileSlots : Takes(t, i)' => Takes(t, i)
  BY <1>1, <1>2 DEF Takes, Filling
<1>. QED
  BY <1>3, OneSlotStays

(* process_ioopen stores a descriptor, or 65535 under -r.                     *)
LEMMA OpenStores ==
  ASSUME TInv, WInv', NEW t \in Threads, Acts(t), call[t].op = "open", UNCHANGED <<dirs_table, kernel>>,
         NEW i \in FileSlots, i = thread[t].i, Desc(i) = -1, NEW p \in Files, p = call[t].path,
         to_psp[t] = <<>>, to_psp'[t] = <<>>,
         thread[t].at \in {"stat", "store"}, thread'[t].at = "opened", thread'[t].i = i, NEW d, Desc(i)' = d,
         \A k \in FileSlots \ {i} : Desc(k)' = Desc(k),
         \A k \in FileSlots : files_table'[k].name = files_table[k].name,
         \/ thread[t].at = "stat" /\ rdonly /\ d = 65535
         \/ thread[t].at = "store" /\ d = thread[t].res /\ (d = -1 \/ Fresh(t))
  PROVE  TInv'
<1>1. /\ OneSlot /\ NoLoss /\ Running /\ UNCHANGED <<call, handles, logged, rdonly>>
      /\ \A k \in FileSlots : Slot(k) /\ Held(k)
      /\ \A u \in Threads : Closing(u) /\ Opening(u)
      /\ kernel \in [Fds -> Files \cup {NoPath}] /\ Fds \subseteq Nat \ {65535} /\ NoPath \notin Files
  BY FileFacts
<1>2. OneSlot'
  BY <1>1, InSlotStill
<1>3. Kept(i) /\ Steady(i) /\ handles[i] = <<>>
  <2>1. handles[i] = <<>>
    BY <1>1 DEF Held
  <2>. QED
    BY <1>1, <2>1, SteadyKept
<1>4. \A k : Steady(k)' <=> Steady(k)
  BY SteadyElse DEF At
<1>5. \/ d = -1 /\ thread[t].res = -1 /\ thread[t].at = "store"
      \/ d = 65535 /\ rdonly /\ thread[t].at = "stat"
      \/ /\ d \in Fds /\ kernel[d] = p /\ thread[t].at = "store" /\ thread[t].res = d
         /\ \A k \in FileSlots : Steady(k) => Desc(k) # d
         /\ \A u \in Threads \ {t} : At(u, "store") => thread[u].res # d
  BY DEF Fresh
<1>6. \A k \in FileSlots : Desc(k) # -1 => k # i /\ Desc(k)' = Desc(k)
  OBVIOUS
<1>7. ASSUME NEW k \in FileSlots PROVE Slot(k)'
  <2>1. CASE k = i
    <3>1. CASE d = -1 \/ (d = 65535 /\ rdonly)
      BY <1>1, <2>1, <3>1 DEF Slot
    <3>2. CASE d \in Fds /\ kernel[d] = p /\ \A j \in FileSlots : Steady(j) => Desc(j) # d
      BY <1>1, <1>4, <2>1, <3>2 DEF Slot
    <3>. QED
      BY <1>5, <3>1, <3>2
  <2>2. CASE k # i
    <3>1. Slot(k) /\ Desc(k)' = Desc(k)
      BY <1>1, <2>2
    <3>2. CASE Desc(k) = -1 \/ (rdonly /\ Desc(k) = 65535)
      BY <1>1, <3>1, <3>2 DEF Slot
    <3>3. CASE /\ Desc(k) \in Fds
               /\ Steady(k) => /\ kernel[Desc(k)] # NoPath
                               /\ \A j \in FileSlots \ {k} : Steady(j) => Desc(j) # Desc(k)
      <4>1. Steady(k) => d # Desc(k)
        BY <1>1, <1>5, <3>3
      <4>2. Steady(k) => \A j \in FileSlots \ {k} : Steady(j) => Desc(j)' # Desc(k)
        BY <3>3, <4>1
      <4>. QED
        BY <1>4, <3>1, <3>3, <4>2 DEF Slot
    <3>. QED
      BY <3>1, <3>2, <3>3 DEF Slot
  <2>. QED
    BY <2>1, <2>2
<1>8. NoLoss'
  <2>1. SUFFICES ASSUME NEW f \in Fds, kernel[f] # NoPath
                 PROVE  \/ \E k \in FileSlots : Steady(k)' /\ Desc(k)' = f
                        \/ \E u \in Threads : At(u, "store")' /\ thread'[u].res = f
    BY DEF NoLoss
  <2>2. f # -1
    BY <1>1
  <2>3. CASE \E k \in FileSlots : Steady(k) /\ Desc(k) = f
    BY <1>4, <1>6, <2>2, <2>3
  <2>4. CASE \E u \in Threads : At(u, "store") /\ thread[u].res = f
    <3>1. PICK u \in Threads : At(u, "store") /\ thread[u].res = f
      BY <2>4
    <3>2. CASE u = t
      <4>1. d = f
        BY <1>5, <2>2, <3>1, <3>2 DEF At
      <4>. QED
        BY <1>3, <1>4, <4>1
    <3>3. CASE u # t
      <4>1. thread'[u] = thread[u]
        BY <3>3 DEF Acts
      <4>. QED
        BY <3>1, <4>1 DEF At
    <3>. QED
      BY <3>2, <3>3
  <2>. QED
    BY <1>1, <2>1, <2>3, <2>4 DEF NoLoss
<1>9. Opening(t)'
  <2>1. ~Decided(t)'
    BY <1>1 DEF Decided, At
  <2>2. Kept(i)'
    <3>1. ~ToClose(t)'
      BY <1>1 DEF ToClose, Pending, At
    <3>2. \A u \in Threads : ToClose(u)' => ToClose(u)
      BY <3>1, ElsewhereToo
    <3>. QED
      BY <1>1, <1>3, <3>2 DEF Kept
  <2>3. d # -1 => Given(i, p)'
    BY <1>1, <1>3, <1>5, <2>2 DEF Given
  <2>4. d # -1 => Given(thread[t].i, call[t].path)'
    <3>1. i = thread[t].i' /\ p = call[t].path'
      BY <1>1
    <3>. QED
      BY <2>3, <3>1 DEF Given, Kept
  <2>5. d = -1 => Desc(thread[t].i)' = -1
    BY DEF Desc
  <2>. QED
    BY <2>1, <2>4, <2>5 DEF Opening, At
<1>10. ~ToClose(t)'
  BY <1>1 DEF ToClose, Pending, At
<1>11. ASSUME NEW u \in Threads \ {t}, NEW k \in FileSlots, Takes(u, k), Desc(k) = -1 PROVE Desc(k)' = -1
  <2>1. Takes(t, i)
    BY DEF Takes, Filling
  <2>2. k # i
    BY <1>1, <1>11, <2>1 DEF OneSlot
  <2>. QED
    BY <1>11, <2>2
<1>12. ASSUME NEW u \in Threads \ {t}, At(u, "store"), Fresh(u) PROVE Fresh(u)'
  <2>1. thread'[u] = thread[u] /\ thread[u].res \in Fds /\ kernel[thread[u].res] = call[u].path
    BY <1>12 DEF Acts, Fresh
  <2>2. d # thread[u].res
    BY <1>1, <1>5, <1>12, <2>1
  <2>3. ASSUME NEW k \in FileSlots, Steady(k)' PROVE Desc(k)' # thread[u].res
    BY <1>4, <1>12, <2>2, <2>3 DEF Fresh
  <2>4. ASSUME NEW w \in Threads \ {u}, At(w, "store")' PROVE thread'[w].res # thread[u].res
    <3>1. w # t
      BY <2>4 DEF At
    <3>2. thread'[w] = thread[w]
      BY <3>1 DEF Acts
    <3>. QED
      BY <1>12, <2>4, <3>2 DEF At, Fresh
  <2>. QED
    BY <1>1, <2>1, <2>3, <2>4 DEF Fresh
<1>13. \A k \in FileSlots : Desc(k) \in Fds /\ Kept(k) => kernel'[Desc(k)] = kernel[Desc(k)]
  OBVIOUS
<1>14. \A u \in Threads \ {t} : ToClose(u) /\ Desc(call[u].h) # -1 => Desc(call[u].h)' # -1
  <2>1. ASSUME NEW u \in Threads \ {t}, ToClose(u), Desc(call[u].h) # -1 PROVE Desc(call[u].h)' # -1
    <3>1. PICK k \in FileSlots : k = call[u].h
      BY <2>1, DirSlotOf DEF TInv
    <3>2. Desc(k)' # -1
      BY <1>6, <2>1, <3>1
    <3>3. k = call[u].h'
      BY <1>1, <3>1
    <3>. QED
      BY <3>2, <3>3 DEF Desc
  <2>. QED
    BY <2>1
<1>. QED
  BY <1>2, <1>6, <1>7, <1>8, <1>9, <1>10, <1>11, <1>12, <1>13, <1>14, FileStep

(* open returns a descriptor, or fails.                                       *)
LEMMA OpenReturns ==
  ASSUME TInv, WInv', NEW t \in Threads, Acts(t), call[t].op = "open", UNCHANGED <<files_table, dirs_table>>,
         NEW i \in FileSlots, i = thread[t].i, Desc(i) = -1, NEW p \in Files, p = call[t].path,
         to_psp[t] = <<>>, to_psp'[t] = <<>>,
         thread[t].at = "stat", thread'[t].at = "store", thread'[t].i = i, NEW d, thread'[t].res = d,
         \/ d = -1 /\ UNCHANGED kernel
         \/ d \in Fds /\ kernel[d] = NoPath /\ kernel' = [kernel EXCEPT ![d] = p]
  PROVE  TInv'
<1>1. /\ OneSlot /\ NoLoss /\ Running /\ UNCHANGED <<call, handles, logged, rdonly>>
      /\ \A k \in FileSlots : Slot(k) /\ Held(k)
      /\ \A u \in Threads : Closing(u) /\ Opening(u)
      /\ kernel \in [Fds -> Files \cup {NoPath}] /\ Fds \subseteq Nat \ {65535} /\ NoPath \notin Files
  BY FileFacts
<1>2. OneSlot'
  BY <1>1, InSlotStill
<1>3. \A k \in FileSlots : Desc(k)' = Desc(k)
  BY DEF Desc
<1>4. \A k : Steady(k)' <=> Steady(k)
  BY SteadyElse DEF At
<1>5. \/ d = -1 /\ kernel' = kernel
      \/ d \in Fds /\ kernel[d] = NoPath /\ kernel'[d] = p
  BY <1>1
<1>6. \A f \in Fds : f # d => kernel'[f] = kernel[f]
  BY <1>1
<1>7. \A k \in FileSlots : Steady(k) /\ Desc(k) \in Fds => Desc(k) # d
  <2>1. ASSUME NEW k \in FileSlots, Steady(k), Desc(k) \in Fds PROVE Desc(k) # d
    <3>1. Slot(k) /\ Desc(k) # -1 /\ Desc(k) # 65535
      BY <1>1, <2>1
    <3>2. kernel[Desc(k)] # NoPath
      BY <2>1, <3>1 DEF Slot
    <3>. QED
      BY <1>5, <3>1, <3>2
  <2>. QED
    BY <2>1
<1>8. ASSUME NEW u \in Threads \ {t}, At(u, "store") PROVE thread[u].res = -1 \/ (thread[u].res \in Fds /\ thread[u].res # d)
  <2>1. call[u].op = "open"
    <3>1. thread[u].at = "store"
      BY <1>8 DEF At
    <3>. QED
      BY <3>1, OpAt
  <2>2. thread[u].res = -1 \/ Fresh(u)
    BY <1>1, <1>8, <2>1 DEF Opening
  <2>3. call[u].path \in Files
    BY <1>1, <1>8, <2>1 DEF Opening
  <2>4. Fresh(u) => thread[u].res \in Fds /\ kernel[thread[u].res] \in Files
    BY <2>3 DEF Fresh
  <2>5. Fresh(u) => thread[u].res # d
    BY <1>1, <1>5, <2>4
  <2>. QED
    BY <2>2, <2>4, <2>5
<1>9. ASSUME NEW k \in FileSlots PROVE Slot(k)'
  <2>1. Slot(k) /\ Desc(k)' = Desc(k)
    BY <1>1, <1>3
  <2>2. CASE Desc(k) = -1 \/ (rdonly /\ Desc(k) = 65535)
    BY <1>1, <2>1, <2>2 DEF Slot
  <2>3. CASE /\ Desc(k) \in Fds
             /\ Steady(k) => /\ kernel[Desc(k)] # NoPath
                             /\ \A j \in FileSlots \ {k} : Steady(j) => Desc(j) # Desc(k)
    <3>1. Steady(k) => kernel'[Desc(k)] # NoPath
      BY <1>6, <1>7, <2>3
    <3>. QED
      BY <1>3, <1>4, <2>1, <2>3, <3>1 DEF Slot
  <2>. QED
    BY <2>1, <2>2, <2>3 DEF Slot
<1>10. NoLoss'
  <2>1. SUFFICES ASSUME NEW f \in Fds, kernel'[f] # NoPath
                 PROVE  \/ \E k \in FileSlots : Steady(k)' /\ Desc(k)' = f
                        \/ \E u \in Threads : At(u, "store")' /\ thread'[u].res = f
    BY DEF NoLoss
  <2>2. CASE f = d
    BY <2>2 DEF At
  <2>3. CASE f # d
    <3>1. kernel[f] # NoPath
      BY <1>6, <2>1, <2>3
    <3>2. CASE \E k \in FileSlots : Steady(k) /\ Desc(k) = f
      BY <1>3, <1>4, <3>2
    <3>3. CASE \E u \in Threads : At(u, "store") /\ thread[u].res = f
      <4>1. PICK u \in Threads : At(u, "store") /\ thread[u].res = f
        BY <3>3
      <4>2. u # t
        BY <4>1 DEF At
      <4>3. thread'[u] = thread[u]
        BY <4>2 DEF Acts
      <4>. QED
        BY <4>1, <4>3 DEF At
    <3>. QED
      BY <1>1, <3>1, <3>2, <3>3 DEF NoLoss
  <2>. QED
    BY <2>2, <2>3
<1>11. d # -1 => Fresh(t)'
  <2>1. SUFFICES ASSUME d # -1 PROVE Fresh(t)'
    OBVIOUS
  <2>2. d \in Fds /\ kernel'[d] = p
    BY <1>5, <2>1
  <2>3. \A k \in FileSlots : Steady(k)' => Desc(k)' # d
    BY <1>3, <1>4, <1>7, <2>2
  <2>4. ASSUME NEW u \in Threads \ {t}, At(u, "store")' PROVE thread'[u].res # d
    <3>1. thread'[u] = thread[u]
      BY DEF Acts
    <3>. QED
      BY <1>8, <2>1, <2>4, <3>1 DEF At
  <2>. QED
    BY <1>1, <2>2, <2>3, <2>4 DEF Fresh
<1>12. Opening(t)'
  <2>1. ~Decided(t)'
    BY <1>1 DEF Decided, At
  <2>2. Desc(thread[t].i)' = -1 /\ call'[t].path \in Files
    BY <1>1 DEF Desc
  <2>. QED
    BY <1>11, <2>1, <2>2 DEF Opening, At
<1>13. ~ToClose(t)'
  BY <1>1 DEF ToClose, Pending, At
<1>14. ASSUME NEW k \in FileSlots, Desc(k) \in Fds, Kept(k) PROVE kernel'[Desc(k)] = kernel[Desc(k)]
  <2>1. Steady(k)
    BY <1>14, SteadyKept
  <2>. QED
    BY <1>6, <1>7, <1>14, <2>1
<1>15. ASSUME NEW u \in Threads \ {t}, At(u, "store"), Fresh(u) PROVE Fresh(u)'
  <2>1. thread'[u] = thread[u] /\ thread[u].res \in Fds /\ kernel[thread[u].res] = call[u].path
    BY <1>15 DEF Acts, Fresh
  <2>2. thread[u].res # d
    BY <1>1, <1>8, <1>15, <2>1
  <2>3. kernel'[thread[u].res] = call[u].path
    BY <1>6, <2>1, <2>2
  <2>4. ASSUME NEW k \in FileSlots, Steady(k)' PROVE Desc(k)' # thread[u].res
    BY <1>3, <1>4, <1>15, <2>4 DEF Fresh
  <2>5. ASSUME NEW w \in Threads \ {u}, At(w, "store")' PROVE thread'[w].res # thread[u].res
    <3>1. CASE w = t
      BY <2>2, <3>1
    <3>2. CASE w # t
      <4>1. thread'[w] = thread[w]
        BY <3>2 DEF Acts
      <4>. QED
        BY <1>15, <2>5, <4>1 DEF At, Fresh
    <3>. QED
      BY <3>1, <3>2
  <2>. QED
    BY <1>1, <2>1, <2>3, <2>4, <2>5 DEF Fresh
<1>16. \A u \in Threads \ {t} : ToClose(u) /\ Desc(call[u].h) # -1 => Desc(call[u].h)' # -1
  BY <1>1 DEF Desc
<1>17. \A k \in FileSlots : files_table'[k].name = files_table[k].name
  OBVIOUS
<1>. QED
  BY <1>2, <1>3, <1>9, <1>10, <1>12, <1>13, <1>14, <1>15, <1>16, <1>17, FileStep

LEMMA StepTables_OpenFile ==
  ASSUME TInv, WInv', NEW t \in Threads, OpenFile(t)
  PROVE  TInv'
<1>1. WInv /\ TablesType /\ thread \in [Threads -> Thread] /\ Opening(t) /\ OneSlot
  BY DEF TInv, WInv, WiresType, FilesInv
<1>2. UNCHANGED <<Still, to_pc, to_psp, dirs_table>> /\ thread[t].at = "stat"
  BY DEF OpenFile, Rest, Wire, psp, Still, At
<1>3. call[t].op = "open" /\ to_psp[t] = <<>> /\ to_psp'[t] = <<>> /\ Serves(thread[t], call[t]) /\ UNCHANGED call
  BY <1>2, OpAt DEF Still
<1>4. PICK i \in FileSlots : i = thread[t].i
  BY <1>2, <1>3 DEF Serves
<1>5. PICK p : p = call[t].path
  OBVIOUS
<1>6. Desc(i) = -1 /\ p = Arg(t).path
  BY <1>1, <1>2, <1>3, <1>4, <1>5 DEF Opening, At
<1>7. UNCHANGED dirs_table /\ i = thread[t].i /\ p = call[t].path
  BY <1>2, <1>4, <1>5
<1>8. CASE Goto(t, "opened") /\ UNCHANGED <<files_table, kernel>>
  <2>1. /\ \A u \in Threads : u # t => thread'[u] = thread[u]
        /\ thread'[t].at = "opened" /\ thread'[t].i = i
    BY <1>1, <1>4, <1>8, GotoFields DEF Steps
  <2>2. Acts(t)
    BY <1>2, <2>1 DEF Acts, Still
  <2>3. Desc(thread[t].i)' = -1
    BY <1>6, <1>8, <2>1 DEF Desc
  <2>4. Opening(t)'
    BY <1>3, <2>1, <2>3 DEF Opening, At, Decided
  <2>5. OneSlot'
    BY <1>1, <1>2, <1>3, <1>4, <2>1, <2>2, InSlotStill
  <2>6. \A k \in FileSlots : Desc(k)' = Desc(k)
    BY <1>8 DEF Desc
  <2>. QED
    BY <1>2, <1>3, <1>8, <2>1, <2>2, <2>4, <2>5, <2>6, OpenActs
<1>9. CASE Goto(t, "opened") /\ Store(i, 65535) /\ UNCHANGED kernel /\ p \in Files /\ rdonly
  <2>1. /\ \A u \in Threads : u # t => thread'[u] = thread[u]
        /\ thread'[t].at = "opened" /\ thread'[t].i = i
    BY <1>1, <1>4, <1>9, GotoFields DEF Steps
  <2>2. Acts(t)
    BY <1>2, <2>1 DEF Acts, Still
  <2>3. 65535 \in Fds \cup {-1, 0, 65535}
    OBVIOUS
  <2>4. /\ Desc(i)' = 65535 /\ \A k \in FileSlots \ {i} : Desc(k)' = Desc(k)
        /\ \A k \in FileSlots : files_table'[k].name = files_table[k].name
    BY <1>1, <1>9, <2>3, StoreType DEF Desc
  <2>5. PICK d : d = 65535
    OBVIOUS
  <2>6. Desc(i)' = d /\ thread[t].at \in {"stat", "store"}
    BY <1>2, <2>4, <2>5
  <2>7. thread[t].at = "stat" /\ rdonly /\ d = 65535
    BY <1>2, <1>9, <2>5
  <2>. QED
    BY <1>3, <1>6, <1>7, <1>9, <2>1, <2>2, <2>4, <2>6, <2>7, OpenStores
<1>10. CASE /\ UNCHANGED files_table /\ p \in Files
            /\ \/ Got(t, -1) /\ UNCHANGED kernel
               \/ \E fd \in Fds : kernel[fd] = NoPath /\ kernel' = [kernel EXCEPT ![fd] = p] /\ Got(t, fd)
  <2>1. PICK d \in Fds \cup {-1} : /\ Got(t, d)
                                   /\ \/ d = -1 /\ UNCHANGED kernel
                                      \/ d \in Fds /\ kernel[d] = NoPath /\ kernel' = [kernel EXCEPT ![d] = p]
    BY <1>10
  <2>2. d \in Int
    BY NetHostFsAssumption
  <2>3. /\ \A u \in Threads : u # t => thread'[u] = thread[u]
        /\ thread'[t].at = "store" /\ thread'[t].res = d /\ thread'[t].i = i
    BY <1>1, <1>4, <2>1, <2>2, GotFields
  <2>4. Acts(t)
    BY <1>2, <2>3 DEF Acts, Still
  <2>. QED
    BY <1>2, <1>3, <1>6, <1>7, <1>10, <2>1, <2>3, <2>4, OpenReturns
<1>. QED
  BY <1>4, <1>6, <1>8, <1>9, <1>10 DEF OpenFile, Refused

LEMMA StepTables_StoreFile ==
  ASSUME TInv, WInv', NEW t \in Threads, StoreFile(t)
  PROVE  TInv'
<1>1. WInv /\ TablesType /\ thread \in [Threads -> Thread] /\ Opening(t)
  BY DEF TInv, WInv, WiresType, FilesInv
<1>2. UNCHANGED <<Still, to_pc, to_psp, dirs_table, kernel>> /\ thread[t].at = "store"
  BY DEF StoreFile, Rest, Wire, psp, Still, At
<1>3. call[t].op = "open" /\ to_psp[t] = <<>> /\ to_psp'[t] = <<>> /\ Serves(thread[t], call[t])
  BY <1>2, OpAt DEF Still
<1>4. PICK i \in FileSlots : i = thread[t].i
  BY <1>2, <1>3 DEF Serves
<1>5. PICK p : p = call[t].path
  OBVIOUS
<1>6. Desc(i) = -1 /\ p \in Files /\ (thread[t].res = -1 \/ Fresh(t))
  BY <1>1, <1>2, <1>3, <1>4, <1>5 DEF Opening, At
<1>7. PICK d : d = thread[t].res
  OBVIOUS
<1>8. d \in Fds \cup {-1, 0, 65535}
  BY <1>6, <1>7 DEF Fresh
<1>9. Store(i, d) /\ Goto(t, "opened")
  BY <1>4, <1>7 DEF StoreFile
<1>10. /\ Desc(i)' = d /\ \A k \in FileSlots \ {i} : Desc(k)' = Desc(k)
       /\ \A k \in FileSlots : files_table'[k].name = files_table[k].name
  BY <1>1, <1>8, <1>9, StoreType DEF Desc
<1>11. /\ \A u \in Threads : u # t => thread'[u] = thread[u]
       /\ thread'[t].at = "opened" /\ thread'[t].i = i
  BY <1>1, <1>4, <1>9, GotoFields DEF Steps
<1>12. Acts(t)
  BY <1>2, <1>11 DEF Acts, Still
<1>13. UNCHANGED <<dirs_table, kernel>> /\ i = thread[t].i /\ p = call[t].path /\ thread[t].at \in {"stat", "store"}
  BY <1>2, <1>4, <1>5
<1>14. thread[t].at = "store" /\ d = thread[t].res /\ (d = -1 \/ Fresh(t))
  BY <1>2, <1>6, <1>7
<1>. QED
  BY <1>3, <1>6, <1>10, <1>11, <1>12, <1>13, <1>14, OpenStores

(* process_ioclose lets a slot go that has no descriptor (65535, under -r),   *)
(* or whose descriptor it has closed.                                         *)
LEMMA CloseLetsGo ==
  ASSUME TInv, WInv', NEW t \in Threads, Acts(t), call[t].op = "close", UNCHANGED <<dirs_table, kernel>>,
         NEW h \in FileSlots, h = call[t].h, thread'[t].at = "reply",
         Desc(h)' = -1, \A k \in FileSlots \ {h} : Desc(k)' = Desc(k),
         \A k \in FileSlots : files_table'[k].name = files_table[k].name,
         \/ thread[t].at = "close" /\ Desc(h) = 65535
         \/ thread[t].at = "reset"
  PROVE  TInv'
<1>1. /\ WInv /\ FilesInv /\ OneSlot /\ OneClose /\ NoLoss /\ UNCHANGED <<call, handles, logged, rdonly>>
      /\ \A k \in FileSlots : Slot(k) /\ Held(k)
      /\ \A u \in Threads : Closing(u) /\ Opening(u)
      /\ kernel \in [Fds -> Files \cup {NoPath}] /\ Fds \subseteq Nat \ {65535} /\ NoPath \notin Files
  BY FileFacts
<1>2. ToClose(t) /\ ~ToClose(t)'
  BY <1>1 DEF ToClose, Pending, At
<1>3. \A k \in FileSlots \ {h} : Steady(k)' <=> Steady(k)
  BY SteadyElse
<1>4. \A k \in FileSlots : Kept(k) => k # h
  BY <1>2 DEF Kept
<1>5. OneSlot'
  <2>1. \A i \in FileSlots : ~Takes(t, i)'
    BY <1>1 DEF Takes
  <2>. QED
    BY <1>1, <2>1, OneSlotStays
<1>6. ASSUME NEW k \in FileSlots PROVE Slot(k)'
  <2>1. CASE k = h
    BY <2>1 DEF Slot
  <2>2. CASE k # h
    <3>1. Slot(k) /\ Desc(k)' = Desc(k) /\ (Steady(k)' <=> Steady(k))
      BY <1>1, <1>3, <2>2
    <3>2. CASE Desc(k) = -1 \/ (rdonly /\ Desc(k) = 65535)
      BY <1>1, <3>1, <3>2 DEF Slot
    <3>3. CASE /\ Desc(k) \in Fds
               /\ Steady(k) => /\ kernel[Desc(k)] # NoPath
                               /\ \A j \in FileSlots \ {k} : Steady(j) => Desc(j) # Desc(k)
      <4>1. Desc(k) # -1
        BY <1>1, <3>3
      <4>2. Steady(k) => \A j \in FileSlots \ {k} : Steady(j)' => Desc(j)' # Desc(k)
        BY <1>3, <3>3, <4>1
      <4>. QED
        BY <3>1, <3>3, <4>2 DEF Slot
    <3>. QED
      BY <3>1, <3>2, <3>3 DEF Slot
  <2>. QED
    BY <2>1, <2>2
<1>7. NoLoss'
  <2>1. SUFFICES ASSUME NEW f \in Fds, kernel[f] # NoPath
                 PROVE  \/ \E k \in FileSlots : Steady(k)' /\ Desc(k)' = f
                        \/ \E u \in Threads : At(u, "store")' /\ thread'[u].res = f
    BY DEF NoLoss
  <2>2. CASE \E k \in FileSlots : Steady(k) /\ Desc(k) = f
    <3>1. PICK k \in FileSlots : Steady(k) /\ Desc(k) = f
      BY <2>2
    <3>2. k # h
      <4>1. CASE Desc(h) = 65535
        BY <1>1, <3>1, <4>1
      <4>2. CASE thread[t].at = "reset"
        BY <3>1, <4>2 DEF Steady, At
      <4>. QED
        BY <4>1, <4>2
    <3>. QED
      BY <1>3, <3>1, <3>2
  <2>3. CASE \E u \in Threads : At(u, "store") /\ thread[u].res = f
    <3>1. PICK u \in Threads : At(u, "store") /\ thread[u].res = f
      BY <2>3
    <3>2. u # t
      BY <3>1 DEF At
    <3>3. thread'[u] = thread[u]
      BY <3>2 DEF Acts
    <3>. QED
      BY <3>1, <3>3 DEF At
  <2>. QED
    BY <1>1, <2>1, <2>2, <2>3 DEF NoLoss
<1>8. Opening(t)'
  BY <1>1 DEF Opening
<1>9. ASSUME NEW u \in Threads \ {t}, ToClose(u), Desc(call[u].h) # -1 PROVE Desc(call[u].h)' # -1
  <2>1. PICK k \in FileSlots : k = call[u].h
    BY <1>1, <1>9, DirSlotOf
  <2>2. k # h
    BY <1>1, <1>2, <1>9, <2>1 DEF OneClose
  <2>3. Desc(k)' # -1
    BY <1>9, <2>1, <2>2
  <2>4. k = call[u].h'
    BY <1>1, <2>1
  <2>. QED
    BY <2>3, <2>4 DEF Desc
<1>10. ASSUME NEW u \in Threads \ {t}, At(u, "store"), Fresh(u) PROVE Fresh(u)'
  <2>1. thread'[u] = thread[u] /\ thread[u].res \in Fds /\ kernel[thread[u].res] = call[u].path
    BY <1>10 DEF Acts, Fresh
  <2>2. ASSUME NEW k \in FileSlots, Steady(k)' PROVE Desc(k)' # thread[u].res
    <3>1. CASE k = h
      BY <1>1, <2>1, <3>1
    <3>2. CASE k # h
      BY <1>3, <1>10, <2>2, <3>2 DEF Fresh
    <3>. QED
      BY <3>1, <3>2
  <2>3. ASSUME NEW w \in Threads \ {u}, At(w, "store")' PROVE thread'[w].res # thread[u].res
    <3>1. w # t
      BY <2>3 DEF At
    <3>2. thread'[w] = thread[w]
      BY <3>1 DEF Acts
    <3>. QED
      BY <1>10, <2>3, <3>2 DEF At, Fresh
  <2>. QED
    BY <1>1, <2>1, <2>2, <2>3 DEF Fresh
<1>11. \A k \in FileSlots : Desc(k) # -1 /\ Kept(k) => Desc(k)' = Desc(k)
  BY <1>4
<1>12. \A k \in FileSlots : Desc(k) \in Fds /\ Kept(k) => kernel'[Desc(k)] = kernel[Desc(k)]
  OBVIOUS
<1>13. \A u \in Threads \ {t}, k \in FileSlots : Takes(u, k) /\ Desc(k) = -1 => Desc(k)' = -1
  OBVIOUS
<1>. QED
  BY <1>2, <1>5, <1>6, <1>7, <1>8, <1>9, <1>10, <1>11, <1>12, <1>13, FileStep

(* process_ioclose closes a descriptor that the slot still names.             *)
LEMMA CloseCloses ==
  ASSUME TInv, WInv', NEW t \in Threads, Acts(t), call[t].op = "close", UNCHANGED <<files_table, dirs_table>>,
         NEW h \in FileSlots, h = call[t].h, thread[t].at = "close", thread'[t].at = "reset",
         NEW d \in Fds, d = Desc(h), kernel' = [kernel EXCEPT ![d] = NoPath]
  PROVE  TInv'
<1>1. /\ WInv /\ FilesInv /\ OneSlot /\ OneClose /\ NoLoss /\ UNCHANGED <<call, handles, logged, rdonly>>
      /\ \A k \in FileSlots : Slot(k) /\ Held(k)
      /\ \A u \in Threads : Closing(u) /\ Opening(u)
      /\ kernel \in [Fds -> Files \cup {NoPath}] /\ Fds \subseteq Nat \ {65535} /\ NoPath \notin Files
  BY FileFacts
<1>2. ToClose(t)
  BY DEF ToClose, Pending, At
<1>3. \A k \in FileSlots : Desc(k)' = Desc(k)
  BY DEF Desc
<1>4. \A k \in FileSlots \ {h} : Steady(k)' <=> Steady(k)
  BY SteadyElse
<1>5. Steady(h) /\ ~Steady(h)'
  <2>1. ASSUME NEW u \in Threads, At(u, "reset") PROVE call[u].h # h
    <3>1. ToClose(u) /\ u # t
      BY <2>1 DEF ToClose, At
    <3>. QED
      BY <1>1, <1>2, <3>1 DEF OneClose
  <2>2. ~Steady(h)'
    BY <1>1 DEF Steady, At
  <2>. QED
    BY <2>1, <2>2 DEF Steady
<1>6. \A k \in FileSlots \ {h} : Steady(k) => Desc(k) # d
  BY <1>1, <1>5 DEF Slot
<1>7. \A f \in Fds : f # d => kernel'[f] = kernel[f]
  BY <1>1
<1>8. OneSlot'
  <2>1. \A i \in FileSlots : ~Takes(t, i)'
    BY <1>1 DEF Takes
  <2>. QED
    BY <1>1, <2>1, OneSlotStays
<1>9. ASSUME NEW k \in FileSlots PROVE Slot(k)'
  <2>1. CASE k = h
    BY <1>3, <1>5, <2>1 DEF Slot
  <2>2. CASE k # h
    <3>1. Slot(k) /\ Desc(k)' = Desc(k) /\ (Steady(k)' <=> Steady(k))
      BY <1>1, <1>3, <1>4, <2>2
    <3>2. CASE Desc(k) = -1 \/ (rdonly /\ Desc(k) = 65535)
      BY <1>1, <3>1, <3>2 DEF Slot
    <3>3. CASE /\ Desc(k) \in Fds
               /\ Steady(k) => /\ kernel[Desc(k)] # NoPath
                               /\ \A j \in FileSlots \ {k} : Steady(j) => Desc(j) # Desc(k)
      <4>1. Steady(k) => kernel'[Desc(k)] # NoPath
        BY <1>6, <1>7, <2>2, <3>3
      <4>2. Steady(k) => \A j \in FileSlots \ {k} : Steady(j)' => Desc(j)' # Desc(k)
        BY <1>3, <1>4, <1>5, <3>3
      <4>. QED
        BY <3>1, <3>3, <4>1, <4>2 DEF Slot
    <3>. QED
      BY <3>1, <3>2, <3>3 DEF Slot
  <2>. QED
    BY <2>1, <2>2
<1>10. NoLoss'
  <2>1. SUFFICES ASSUME NEW f \in Fds, kernel'[f] # NoPath
                 PROVE  \/ \E k \in FileSlots : Steady(k)' /\ Desc(k)' = f
                        \/ \E u \in Threads : At(u, "store")' /\ thread'[u].res = f
    BY DEF NoLoss
  <2>a. f # d /\ kernel[f] # NoPath
    BY <1>1, <1>7, <2>1
  <2>2. CASE \E k \in FileSlots : Steady(k) /\ Desc(k) = f
    BY <1>3, <1>4, <2>2, <2>a
  <2>3. CASE \E u \in Threads : At(u, "store") /\ thread[u].res = f
    <3>1. PICK u \in Threads : At(u, "store") /\ thread[u].res = f
      BY <2>3
    <3>2. u # t
      BY <3>1 DEF At
    <3>3. thread'[u] = thread[u]
      BY <3>2 DEF Acts
    <3>. QED
      BY <3>1, <3>3 DEF At
  <2>. QED
    BY <1>1, <2>a, <2>2, <2>3 DEF NoLoss
<1>11. Opening(t)'
  BY <1>1 DEF Opening
<1>12. ASSUME NEW u \in Threads \ {t}, At(u, "store"), Fresh(u) PROVE Fresh(u)'
  <2>1. thread'[u] = thread[u] /\ thread[u].res \in Fds /\ kernel[thread[u].res] = call[u].path
    BY <1>12 DEF Acts, Fresh
  <2>2. d # thread[u].res
    BY <1>5, <1>12 DEF Fresh
  <2>3. kernel'[thread[u].res] = call[u].path
    BY <1>7, <2>1, <2>2
  <2>4. ASSUME NEW k \in FileSlots, Steady(k)' PROVE Desc(k)' # thread[u].res
    <3>1. Steady(k)
      BY <1>4, <1>5, <2>4
    <3>. QED
      BY <1>3, <1>12, <3>1 DEF Fresh
  <2>5. ASSUME NEW w \in Threads \ {u}, At(w, "store")' PROVE thread'[w].res # thread[u].res
    <3>1. w # t
      BY <2>5 DEF At
    <3>2. thread'[w] = thread[w]
      BY <3>1 DEF Acts
    <3>. QED
      BY <1>12, <2>5, <3>2 DEF At, Fresh
  <2>. QED
    BY <1>1, <2>1, <2>3, <2>4, <2>5 DEF Fresh
<1>13. ASSUME NEW k \in FileSlots, Desc(k) \in Fds, Kept(k) PROVE kernel'[Desc(k)] = kernel[Desc(k)]
  <2>1. Steady(k) /\ k # h
    BY <1>2, <1>13, SteadyKept DEF Kept
  <2>. QED
    BY <1>6, <1>7, <1>13, <2>1
<1>14. \A u \in Threads \ {t} : ToClose(u) /\ Desc(call[u].h) # -1 => Desc(call[u].h)' # -1
  BY <1>1 DEF Desc
<1>15. Desc(call[t].h)' # -1
  BY <1>1 DEF Desc
<1>16. \A k \in FileSlots : files_table'[k].name = files_table[k].name
  OBVIOUS
<1>. QED
  BY <1>2, <1>3, <1>8, <1>9, <1>10, <1>11, <1>12, <1>13, <1>14, <1>15, <1>16, FileStep

LEMMA StepTables_ioclose ==
  ASSUME TInv, WInv', NEW t \in Threads, process_ioclose(t) \/ ResetFile(t)
  PROVE  TInv'
<1>1. WInv /\ TablesType /\ thread \in [Threads -> Thread]
  BY DEF TInv, WInv, WiresType
<1>2. UNCHANGED <<Still, to_pc, to_psp, dirs_table>> /\ thread[t].at \in {"close", "reset"}
  BY DEF process_ioclose, ResetFile, Rest, Wire, psp, Still, At
<1>3. call[t].op = "close" /\ Serves(thread[t], call[t])
  BY <1>2, OpAt DEF Ops, OnFile
<1>4. PICK h \in FileSlots : h = call[t].h /\ h = Arg(t).h
  BY <1>1, <1>2, <1>3, DirSlotOf DEF OnFile, Serves, Arg
<1>5. CASE thread[t].at = "close" /\ Answer(t, -1) /\ UNCHANGED <<files_table, kernel>>
  BY <1>2, <1>5, AnswerStays
<1>6. CASE Store(h, -1) /\ Answer(t, 0) /\ UNCHANGED kernel /\ (Desc(h) = 65535 \/ thread[t].at = "reset")
  <2>1. (\A u \in Threads : u # t => thread'[u] = thread[u]) /\ thread'[t].at = "reply"
    BY <1>1, <1>6, AnswerFields
  <2>2. Acts(t)
    BY <1>2, <2>1 DEF Acts, Still
  <2>3. -1 \in Fds \cup {-1, 0, 65535}
    OBVIOUS
  <2>4. /\ Desc(h)' = -1 /\ \A k \in FileSlots \ {h} : Desc(k)' = Desc(k)
        /\ \A k \in FileSlots : files_table'[k].name = files_table[k].name
    BY <1>1, <1>6, <2>3, StoreType DEF Desc
  <2>5. UNCHANGED <<dirs_table, kernel>> /\ call[t].op = "close" /\ h = call[t].h
    BY <1>2, <1>3, <1>4, <1>6
  <2>6. \/ thread[t].at = "close" /\ Desc(h) = 65535
        \/ thread[t].at = "reset"
    BY <1>2, <1>6
  <2>. QED
    BY <2>1, <2>2, <2>4, <2>5, <2>6, CloseLetsGo
<1>7. CASE thread[t].at = "close" /\ IsOpen(Desc(h)) /\ kernel' = [kernel EXCEPT ![Desc(h)] = NoPath]
           /\ Goto(t, "reset") /\ UNCHANGED files_table
  <2>1. (\A u \in Threads : u # t => thread'[u] = thread[u]) /\ thread'[t].at = "reset"
    BY <1>1, <1>7, GotoFields DEF Steps
  <2>2. Acts(t)
    BY <1>2, <2>1 DEF Acts, Still
  <2>3. PICK d \in Fds : d = Desc(h)
    BY <1>7 DEF IsOpen
  <2>. QED
    BY <1>2, <1>3, <1>4, <1>7, <2>1, <2>2, <2>3, CloseCloses
<1>8. CASE process_ioclose(t)
  <2>1. thread[t].at = "close" /\ Fd(t) = Desc(h)
    BY <1>4, <1>8 DEF process_ioclose, At, Fd, Desc
  <2>. QED
    BY <1>4, <1>5, <1>6, <1>7, <1>8, <2>1 DEF process_ioclose
<1>9. CASE ResetFile(t)
  <2>1. thread[t].at = "reset" /\ Answer(t, 0) /\ UNCHANGED kernel
    BY <1>9 DEF ResetFile, At
  <2>2. Store(h, -1)
    BY <1>4, <1>9 DEF ResetFile
  <2>3. Store(h, -1) /\ Answer(t, 0) /\ UNCHANGED kernel /\ (Desc(h) = 65535 \/ thread[t].at = "reset")
    BY <2>1, <2>2
  <2>. QED
    BY <1>6, <2>3
<1>. QED
  BY <1>8, <1>9

(* A step on a directory leaves the files alone.                              *)
LEMMA DirStep ==
  ASSUME TInv, WInv', NEW t \in Threads, Acts(t), call[t].op \in {"dopen", "dclose", "dread"},
         thread[t].at \notin {"store", "reset"}, thread'[t].at \notin {"store", "reset"},
         UNCHANGED <<files_table, kernel>>
  PROVE  Login' /\ FilesInv'
<1>1. WInv /\ Login /\ FilesInv
  BY DEF TInv
<1>2. call' = call /\ logged
  BY <1>1, LoggedFor DEF Acts
<1>3. Login'
  BY <1>1, <1>2, LoginLater
<1>4. ~ToClose(t)' /\ Opening(t)' /\ \A i \in FileSlots : ~Takes(t, i)'
  BY <1>2 DEF ToClose, Pending, Opening, Takes, At
<1>5. \A i \in FileSlots : Desc(i)' = Desc(i)
  BY DEF Desc
<1>6. OneSlot'
  BY <1>1, <1>4, OneSlotStays DEF FilesInv
<1>7. \A u \in Threads \ {t} : files_table'[thread[u].i].name = files_table[thread[u].i].name
  OBVIOUS
<1>. QED
  BY <1>1, <1>3, <1>4, <1>5, <1>6, <1>7, FilesActs

(* t alone goes into a slot that nobody is in.                                *)
LEMMA OneDSlotNow ==
  ASSUME OneDSlot, NEW t \in Threads, Acts(t), NEW j, \A i \in DirSlots : DTakes(t, i)' => i = j,
         \A u \in Threads \ {t} : ~DTakes(u, j)
  PROVE  OneDSlot'
<1>1. ASSUME NEW u \in Threads \ {t}, NEW i \in DirSlots, DTakes(u, i)' PROVE DTakes(u, i) /\ i # j
  <2>1. DTakes(u, i)
    BY <1>1, ElsewhereToo
  <2>. QED
    BY <2>1
<1>2. ASSUME NEW u \in Threads, NEW w \in Threads, NEW i \in DirSlots, DTakes(u, i)', DTakes(w, i)' PROVE u = w
  <2>1. CASE u # t /\ w # t
    BY <1>1, <1>2, <2>1 DEF OneDSlot
  <2>2. CASE u = t \/ w = t
    BY <1>1, <1>2, <2>2
  <2>. QED
    BY <2>1, <2>2
<1>. QED
  BY <1>2 DEF OneDSlot

(* What a thread knows of the slot it is in, or has told the PSP of.          *)
LEMMA DTakesKept ==
  ASSUME DirsInv, Running, WInv, NEW u \in Threads, NEW i \in DirSlots, DTakes(u, i)
  PROVE  DKept(i) /\ (At(u, "scandir") \/ Dir(i).entries # NoPath)
<1>1. DOpening(u) /\ call[u].op = "dopen" /\ call[u].path \in Dirs
  BY DirSlotOf DEF DirsInv, DTakes
<1>2. CASE At(u, "scandir") /\ thread[u].i = i
  BY <1>1, <1>2 DEF DOpening
<1>3. CASE Decided(u) /\ Outcome(u) = i
  <2>1. DGiven(i, call[u].path)
    BY <1>1, <1>3 DEF DOpening
  <2>. QED
    BY <1>1, <2>1, NetHostFsAssumption DEF DGiven
<1>. QED
  BY <1>2, <1>3 DEF DTakes

(* An opening or a closing changes a slot the PSP has no handle of, and       *)
(* nobody else is about to use.                                               *)
LEMMA OneDirChanges ==
  ASSUME TInv, WInv', NEW t \in Threads, Acts(t), call[t].op \in {"dopen", "dclose"},
         thread[t].at \notin {"store", "reset"}, thread'[t].at \notin {"store", "reset"},
         UNCHANGED <<files_table, kernel>>,
         NEW h \in DirSlots, dhandles[h] = <<>>,
         \A k \in DirSlots \ {h} : dirs_table'[k] = dirs_table[k],
         DFrees(t)' => DFrees(t), ~Pending(t, "dclose")',
         \A u \in Threads \ {t} : ~DTakes(u, h),
         \A u \in Threads \ {t} : Pending(u, "dclose") => call[u].h # h,
         OneDSlot', DOpening(t)'
  PROVE  TInv'
<1>1. WInv /\ Login /\ FilesInv /\ DirsInv
  BY DEF TInv
<1>2. Running /\ Running' /\ UNCHANGED <<call, dhandles, faults>>
  BY <1>1, RunsOn DEF Acts
<1>3. Login' /\ FilesInv'
  BY DirStep
<1>a. \A u \in Threads : DFrees(u)' => DFrees(u)
  BY ElsewhereToo
<1>4. OneDclose' /\ OneUser'
  BY <1>1, <1>2, <1>a, Zenon DEF DirsInv, OneDclose, OneUser
<1>5. \A k \in DirSlots : k # h => Dir(k)' = Dir(k)
  BY DEF Dir
<1>6. ASSUME NEW k \in DirSlots PROVE DHeld(k)'
  <2>1. SUFFICES ASSUME dhandles[k] # <<>> PROVE DHeld(k)'
    BY <1>2 DEF DHeld
  <2>2. DHeld(k) /\ Dir(k)' = Dir(k)
    BY <1>1, <1>2, <1>5, <2>1 DEF DirsInv
  <2>3. Using({"dread"}, k)' <=> Using({"dread"}, k)
    BY <1>2 DEF Using
  <2>. QED
    BY <1>2, <2>2, <2>3 DEF DHeld
<1>b. \A k : DKept(k) => DKept(k)'
  BY <1>2, <1>a DEF DKept
<1>7. ASSUME NEW u \in Threads PROVE DClosing(u)'
  <2>1. DFrees(u)' => dhandles'[call'[u].h] = <<>>
    BY <1>1, <1>2, <1>a DEF DirsInv, DClosing
  <2>2. ASSUME Pending(u, "dclose")' PROVE Dir(call[u].h)'.entries # NoPath
    <3>1. u # t
      BY <2>2
    <3>2. Pending(u, "dclose")
      BY <2>2, <3>1, Elsewhere DEF Ops, OnDir
    <3>3. PICK k \in DirSlots : k = call[u].h
      BY <1>1, <3>2, DirSlotOf DEF DFrees
    <3>4. Dir(k).entries # NoPath /\ k # h
      BY <1>1, <3>1, <3>2, <3>3 DEF DirsInv, DClosing
    <3>5. Dir(k)'.entries # NoPath /\ k = call'[u].h
      BY <1>2, <1>5, <3>3, <3>4
    <3>. QED
      BY <3>5 DEF Dir
  <2>. QED
    BY <2>1, <2>2 DEF DClosing
<1>8. ASSUME NEW u \in Threads PROVE DOpening(u)'
  <2>1. CASE u = t
    BY <2>1
  <2>2. CASE u # t /\ call[u].op # "dopen"
    BY <1>2, <2>2 DEF DOpening
  <2>3. CASE u # t /\ call[u].op = "dopen"
    <3>1. UNCHANGED <<thread[u], call[u]>> /\ DOpening(u) /\ (Decided(u)' <=> Decided(u)) /\ Outcome(u)' = Outcome(u)
      BY <1>1, <2>3, Elsewhere DEF DirsInv
    <3>2. ASSUME At(u, "scandir") PROVE (Dir(thread[u].i).entries = NoPath /\ DKept(thread[u].i))'
      <4>1. PICK k \in DirSlots : k = thread[u].i
        BY <1>1, <3>2, DirSlotOf
      <4>2. Dir(k).entries = NoPath /\ DKept(k)
        BY <2>3, <3>1, <3>2, <4>1 DEF DOpening
      <4>3. k # h
        BY <2>3, <3>2, <4>1 DEF DTakes
      <4>4. Dir(k)'.entries = NoPath /\ DKept(k)' /\ k = thread'[u].i
        BY <1>5, <1>b, <3>1, <4>1, <4>2, <4>3
      <4>. QED
        BY <4>4 DEF Dir, DKept
    <3>3. ASSUME Decided(u), Outcome(u) \in DirSlots PROVE DGiven(Outcome(u), call[u].path)'
      <4>1. PICK k \in DirSlots : k = Outcome(u)
        BY <3>3
      <4>2. PICK p : p = call[u].path
        OBVIOUS
      <4>3. DGiven(k, p)
        BY <1>2, <2>3, <3>1, <3>3, <4>1, <4>2 DEF DOpening
      <4>4. k # h
        BY <2>3, <3>3, <4>1 DEF DTakes
      <4>5. DGiven(k, p)'
        BY <1>2, <1>5, <1>b, <4>3, <4>4 DEF DGiven
      <4>6. k = Outcome(u)' /\ p = call[u].path'
        BY <3>1, <4>1, <4>2
      <4>. QED
        BY <4>5, <4>6 DEF DGiven, Dir, DKept
    <3>. QED
      BY <3>1, <3>2, <3>3 DEF DOpening, At
  <2>. QED
    BY <2>1, <2>2, <2>3
<1>9. ASSUME NEW u \in Threads PROVE DReading(u)'
  <2>1. SUFFICES ASSUME call[u].op = "dread" PROVE DReading(u)'
    BY <1>2 DEF DReading
  <2>2. u # t
    BY <2>1
  <2>3. (Decided(u)' <=> Decided(u)) /\ Outcome(u)' = Outcome(u) /\ DReading(u)
    BY <1>1, <2>2, Elsewhere DEF DirsInv
  <2>4. PICK k \in DirSlots : k = call[u].h
    BY <1>1, <2>1, DirSlotOf DEF OnDir
  <2>5. Dir(k)' = Dir(k)
    BY <1>5, <2>1, <2>3, <2>4 DEF DReading
  <2>6. k = call'[u].h
    BY <1>2, <2>4
  <2>7. Dir(call[u].h)' = Dir(call[u].h)
    BY <1>2, <2>4, <2>5, <2>6 DEF Dir
  <2>. QED
    BY <1>2, <2>1, <2>3, <2>7 DEF DReading
<1>10. (faults = 0 /\ Running => \A u \in Threads : At(u, "closed") => call[u].op \in {"none", "exit"})'
  <2>1. \A u \in Threads : At(u, "closed")' => At(u, "closed")
    BY DEF Acts, At
  <2>. QED
    BY <1>1, <1>2, <2>1 DEF DirsInv
<1>11. (dhandles \in [DirSlots -> Seq([path : Dirs, got : 0 .. MaxEntries])])'
  BY <1>1, <1>2 DEF DirsInv
<1>12. DirsInv'
  BY <1>4, <1>6, <1>7, <1>8, <1>9, <1>10, <1>11 DEF DirsInv
<1>. QED
  BY <1>3, <1>12 DEF TInv

LEMMA StepTables_FindDir ==
  ASSUME TInv, WInv', NEW t \in Threads, FindDir(t), ~crossed'
  PROVE  TInv'
<1>1. WInv /\ thread \in [Threads -> Thread] /\ Login /\ DirsInv
  BY DEF TInv, WInv, WiresType
<1>2. UNCHANGED <<Still, to_pc, to_psp, files_table, dirs_table, kernel>> /\ thread[t].at = "dopen"
  BY DEF FindDir, Wire, psp, Still, At, tables
<1>3. call[t].op = "dopen" /\ to_psp[t] = <<>> /\ call' = call
  BY <1>2, OpAt DEF Ops, OnDir, Still
<1>4. thread[t].i \in Nat /\ -1 \notin DirSlots
  BY <1>1, NetHostFsAssumption DEF Thread, DirSlots
<1>5. /\ \A u \in Threads \ {t} : thread'[u] = thread[u]
      /\ \/ thread'[t].at = "reply" /\ thread'[t].res = -1
         \/ thread'[t].at = "dopen"
         \/ /\ thread'[t].at = "scandir" /\ thread'[t].i = thread[t].i /\ FreeEntry(thread[t].i)
            /\ thread[t].i < MaxDirs /\ \A u \in Threads \ {t} : ~Busy(u, thread[t].i)
  <2>1. CASE Answer(t, -1)
    BY <1>1, <2>1, AnswerFields
  <2>2. CASE thread' = [thread EXCEPT ![t].i = thread[t].i + 1]
    BY <1>1, <1>2, <2>2 DEF Thread
  <2>3. CASE /\ FreeEntry(thread[t].i) /\ Goto(t, "scandir") /\ thread[t].i < MaxDirs
             /\ crossed' = (crossed \/ \E u \in Threads \ {t} : Busy(u, thread[t].i))
    BY <1>1, <2>3, GotoFields DEF Steps
  <2>. QED
    BY <2>1, <2>2, <2>3 DEF FindDir
<1>6. Acts(t)
  BY <1>2, <1>5 DEF Acts, Still
<1>a. Running /\ ~DFrees(t)' /\ ~Pending(t, "dclose")' /\ ~DFrees(t) /\ DReading(t)'
  BY <1>1, <1>2, <1>3, <1>5, <1>6, RunsOn DEF DReading, DFrees, Pending, At
<1>b. Decided(t)' => Outcome(t)' = -1
  BY <1>2, <1>3, <1>5 DEF Decided, Outcome, At
<1>c. ASSUME thread'[t].at = "scandir"
      PROVE  /\ Dir(thread[t].i).entries = NoPath /\ DKept(thread[t].i)
             /\ \A u \in Threads \ {t} : ~DTakes(u, thread[t].i)
  <2>1. PICK i \in DirSlots : i = thread[t].i
    BY <1>4, <1>5, <1>c, NetHostFsAssumption DEF DirSlots
  <2>2. Dir(i).entries = NoPath /\ \A u \in Threads \ {t} : ~Busy(u, i)
    BY <1>5, <1>c, <2>1 DEF Dir, FreeEntry
  <2>3. ASSUME NEW u \in Threads, DFrees(u) PROVE call[u].h # i
    <3>1. u # t
      BY <1>a, <2>3
    <3>2. CASE Pending(u, "dclose")
      BY <1>1, <2>2, <3>2 DEF DirsInv, DClosing
    <3>3. CASE At(u, "closing")
      <4>1. thread[u].at = "closing"
        BY <3>3 DEF At
      <4>2. Serves(thread[u], call[u])
        BY <4>1, OpAt
      <4>3. Arg(u).h = call[u].h
        BY <4>1, <4>2 DEF Serves, Arg
      <4>. QED
        BY <2>2, <3>1, <3>3, <4>3 DEF Busy
    <3>. QED
      BY <2>3, <3>2, <3>3 DEF DFrees
  <2>4. ASSUME NEW u \in Threads \ {t} PROVE ~DTakes(u, i)
    <3>1. SUFFICES ASSUME DTakes(u, i) PROVE FALSE
      OBVIOUS
    <3>2. At(u, "scandir") \/ Dir(i).entries # NoPath
      BY <1>1, <1>a, <3>1, DTakesKept
    <3>3. At(u, "scandir") => thread[u].i = i
      <4>1. thread[u].at = "scandir" => to_psp[u] = <<>>
        BY OpAt
      <4>2. At(u, "scandir") => ~Decided(u)
        BY <4>1 DEF Decided, At
      <4>. QED
        BY <3>1, <4>2 DEF DTakes
    <3>. QED
      BY <2>2, <3>2, <3>3 DEF Busy
  <2>. QED
    BY <2>1, <2>2, <2>3, <2>4 DEF DKept
<1>d. ASSUME NEW i, DKept(i) PROVE DKept(i)'
  <2>1. \A u \in Threads : DFrees(u)' => DFrees(u)
    BY <1>6, <1>a, ElsewhereToo
  <2>. QED
    BY <1>3, <1>d, <2>1 DEF DKept
<1>7. DOpening(t)'
  <2>1. ASSUME At(t, "scandir")' PROVE (Dir(thread[t].i).entries = NoPath /\ DKept(thread[t].i))'
    <3>1. thread'[t].at = "scandir" /\ thread'[t].i = thread[t].i
      BY <1>5, <2>1 DEF At
    <3>2. PICK i : i = thread[t].i
      OBVIOUS
    <3>3. Dir(i)'.entries = NoPath /\ DKept(i)'
      BY <1>2, <1>c, <1>d, <3>1, <3>2 DEF Dir
    <3>4. i = thread'[t].i
      BY <3>1, <3>2
    <3>. QED
      BY <3>3, <3>4 DEF Dir, DKept
  <2>. QED
    BY <1>4, <1>b, <2>1 DEF DOpening
<1>8. OneDSlot'
  <2>1. \A i \in DirSlots : DTakes(t, i)' => thread'[t].at = "scandir" /\ i = thread[t].i
    BY <1>4, <1>5, <1>b DEF DTakes, At
  <2>2. CASE thread'[t].at = "scandir"
    <3>1. PICK j : j = thread[t].i
      OBVIOUS
    <3>2. \A u \in Threads \ {t} : ~DTakes(u, j)
      BY <1>c, <2>2, <3>1
    <3>3. \A i \in DirSlots : DTakes(t, i)' => i = j
      BY <2>1, <3>1
    <3>. QED
      BY <1>1, <1>6, <3>2, <3>3, OneDSlotNow DEF DirsInv
  <2>3. CASE thread'[t].at # "scandir"
    BY <1>1, <1>6, <2>1, <2>3, OneDSlotStays DEF DirsInv
  <2>. QED
    BY <2>2, <2>3
<1>9. Login' /\ FilesInv'
  BY <1>2, <1>3, <1>5, <1>6, DirStep
<1>10. DirsInv'
  BY <1>1, <1>2, <1>6, <1>7, <1>8, <1>a, DirsActs
<1>. QED
  BY <1>9, <1>10 DEF TInv

LEMMA FirstIn ==
  ASSUME NEW S, NEW q \in Seq(S), Len(q) = 1
  PROVE  q[1] \in S
OBVIOUS

LEMMA StepTables_OpenDir ==
  ASSUME TInv, WInv', NEW t \in Threads, OpenDir(t)
  PROVE  TInv'
<1>1. WInv /\ TablesType /\ thread \in [Threads -> Thread] /\ Login /\ DirsInv
  BY DEF TInv, WInv, WiresType
<1>2. UNCHANGED <<Still, to_pc, to_psp, files_table, kernel>> /\ thread[t].at = "scandir"
  BY DEF OpenDir, Rest, Wire, psp, Still, At
<1>3. call[t].op = "dopen" /\ to_psp[t] = <<>> /\ Serves(thread[t], call[t]) /\ UNCHANGED <<call, dhandles>>
  BY <1>2, OpAt DEF Still
<1>4. PICK i \in DirSlots : i = thread[t].i
  BY <1>2, <1>3 DEF Serves
<1>5. PICK p \in Dirs : p = call[t].path
  BY <1>1, <1>3, DirSlotOf
<1>6. p = Arg(t).path /\ i \in Int /\ -1 \notin DirSlots
  BY <1>2, <1>3, <1>5, NetHostFsAssumption DEF Serves, Arg, DirSlots
<1>7. PICK v \in {-1, i} : Answer(t, v)
  BY <1>4 DEF OpenDir
<1>8. (\A u \in Threads : u # t => thread'[u] = thread[u]) /\ thread'[t].at = "reply" /\ thread'[t].res = v
  BY <1>1, <1>6, <1>7, AnswerFields
<1>9. Acts(t)
  BY <1>2, <1>8 DEF Acts, Still
<1>10. Running /\ Running'
  BY <1>1, <1>9, RunsOn
<1>11. dhandles[i] = <<>>
  <2>1. Dir(i).entries = NoPath
    BY <1>1, <1>2, <1>3, <1>4 DEF DirsInv, DOpening, At
  <2>2. DHeld(i)
    BY <1>1, <1>10 DEF DirsInv
  <2>3. SUFFICES ASSUME dhandles[i] # <<>> PROVE FALSE
    OBVIOUS
  <2>4. Len(dhandles[i]) = 1 /\ dhandles[i][1].path = NoPath
    BY <2>1, <2>2, <2>3 DEF DHeld
  <2>5. dhandles[i] \in Seq([path : Dirs, got : 0 .. MaxEntries])
    BY <1>1 DEF DirsInv
  <2>6. dhandles[i][1] \in [path : Dirs, got : 0 .. MaxEntries]
    BY <2>4, <2>5, FirstIn
  <2>7. dhandles[i][1].path \in Dirs
    BY <2>6
  <2>. QED
    BY <2>4, <2>7, NetHostFsAssumption
<1>12. ~Pending(t, "dclose")' /\ ~DFrees(t)'
  BY <1>3, <1>8 DEF Pending, At, DFrees
<1>13. Outcome(t)' = v
  BY <1>2, <1>3, <1>8 DEF Outcome
<1>14. \A k \in DirSlots \ {i} : dirs_table'[k] = dirs_table[k]
  <2>1. dirs_table' = dirs_table \/ \E x : dirs_table' = [dirs_table EXCEPT ![i] = x]
    <3>1. CASE dirs_table' = [dirs_table EXCEPT ![i].opened = TRUE]
      BY <3>1
    <3>. QED
      BY <1>4, <3>1 DEF OpenDir
  <2>. QED
    BY <1>1, <2>1 DEF TablesType
<1>15. v = -1 \/ /\ Dir(i)'.opened /\ Dir(i)'.entries = p /\ Dir(i)'.pos = 0
                 /\ v = i
  <2>1. SUFFICES ASSUME v # -1
                 PROVE  Dir(i)'.opened /\ Dir(i)'.entries = p /\ Dir(i)'.pos = 0
    BY <1>7
  <2>2. ~Answer(t, -1)
    <3>1. Answer(t, -1) => thread'[t].res = -1
      BY <1>1, AnswerFields
    <3>. QED
      BY <1>8, <2>1, <3>1
  <2>3. PICK idx : dirs_table' = [dirs_table EXCEPT ![i] = [entries |-> p, pos |-> 0, nentries |-> idx, opened |-> TRUE]]
    BY <1>4, <1>6, <2>2 DEF OpenDir
  <2>4. dirs_table'[i] = [entries |-> p, pos |-> 0, nentries |-> idx, opened |-> TRUE]
    BY <1>1, <2>3 DEF TablesType
  <2>. QED
    BY <2>4 DEF Dir
<1>16. DOpening(t)'
  <2>1. SUFFICES ASSUME Outcome(t)' \in DirSlots PROVE DGiven(Outcome(t), call[t].path)'
    BY <1>8 DEF DOpening, At
  <2>4. DKept(i)'
    <3>1. DKept(i)
      BY <1>1, <1>2, <1>3, <1>4 DEF DirsInv, DOpening, At
    <3>2. \A u \in Threads : DFrees(u)' => DFrees(u)
      BY <1>9, <1>12, ElsewhereToo
    <3>. QED
      BY <1>3, <3>1, <3>2 DEF DKept
  <2>2. v = i /\ DGiven(i, p)'
    BY <1>3, <1>6, <1>11, <1>13, <1>15, <2>1, <2>4 DEF DGiven
  <2>3. i = Outcome(t)' /\ p = call[t].path'
    BY <1>3, <1>5, <1>13, <2>2
  <2>. QED
    BY <2>2, <2>3 DEF DGiven, Dir, DKept
<1>17. UNCHANGED <<files_table, kernel>> /\ thread[t].at \notin {"store", "reset"} /\ thread'[t].at \notin {"store", "reset"}
  BY <1>2, <1>8
<1>18. DTakes(t, i)
  BY <1>2, <1>3, <1>4 DEF DTakes, At
<1>19. \A u \in Threads \ {t} : ~DTakes(u, i)
  BY <1>1, <1>18 DEF DirsInv, OneDSlot
<1>20. OneDSlot'
  <2>1. \A k \in DirSlots : DTakes(t, k)' => k = i
    BY <1>6, <1>7, <1>8, <1>13 DEF DTakes, At
  <2>. QED
    BY <1>1, <1>9, <1>19, <2>1, OneDSlotNow DEF DirsInv
<1>21. \A u \in Threads \ {t} : Pending(u, "dclose") => call[u].h # i
  <2>1. Dir(i).entries = NoPath
    BY <1>1, <1>2, <1>3, <1>4 DEF DirsInv, DOpening, At
  <2>. QED
    BY <1>1, <2>1 DEF DirsInv, DClosing
<1>. QED
  BY <1>3, <1>9, <1>11, <1>12, <1>14, <1>16, <1>17, <1>19, <1>20, <1>21, OneDirChanges

LEMMA StepTables_iodclose ==
  ASSUME TInv, WInv', NEW t \in Threads, process_iodclose(t) \/ CloseDir(t)
  PROVE  TInv'
<1>1. WInv /\ TablesType /\ thread \in [Threads -> Thread] /\ DirsInv
  BY DEF TInv, WInv, WiresType
<1>2. UNCHANGED <<Still, to_pc, to_psp, files_table, kernel>> /\ thread[t].at \in {"dclose", "closing"}
  BY DEF process_iodclose, CloseDir, Rest, Wire, psp, Still, At
<1>3. call[t].op = "dclose" /\ to_psp[t] = <<>> /\ Serves(thread[t], call[t]) /\ UNCHANGED <<call, dhandles>>
  BY <1>2, OpAt DEF Ops, OnDir, Still
<1>4. PICK h \in DirSlots : h = call[t].h /\ h = Arg(t).h
  BY <1>1, <1>3, DirSlotOf DEF OnDir, Serves, Arg
<1>5. DFrees(t) /\ Login
  BY <1>2, <1>3 DEF Pending, At, DFrees, TInv
<1>6. dhandles[h] = <<>>
  BY <1>1, <1>4, <1>5 DEF DirsInv, DClosing
<1>7. CASE thread[t].at = "dclose" /\ Answer(t, -1) /\ UNCHANGED dirs_table
  BY <1>2, <1>7, AnswerStays
<1>8. CASE /\ thread'[t].at \in {"closing", "reply"}
           /\ \A u \in Threads \ {t} : thread'[u] = thread[u]
           /\ \A k \in DirSlots \ {h} : dirs_table'[k] = dirs_table[k]
  <2>1. Acts(t)
    BY <1>2, <1>8 DEF Acts, Still
  <2>2. DOpening(t)'
    BY <1>3 DEF DOpening
  <2>3. UNCHANGED <<files_table, kernel>> /\ thread[t].at \notin {"store", "reset"} /\ thread'[t].at \notin {"store", "reset"}
    BY <1>2, <1>8
  <2>4. ~Pending(t, "dclose")' /\ \A i \in DirSlots : ~DTakes(t, i)'
    BY <1>3, <1>8 DEF Pending, At, DTakes
  <2>5. OneDSlot'
    BY <1>1, <2>1, <2>4, OneDSlotStays DEF DirsInv
  <2>6. ASSUME NEW u \in Threads \ {t} PROVE ~DTakes(u, h)
    <3>1. SUFFICES ASSUME DTakes(u, h) PROVE FALSE
      OBVIOUS
    <3>2. DKept(h)
      BY <1>1, <1>5, <2>1, <3>1, RunsOn, DTakesKept
    <3>. QED
      BY <1>4, <1>5, <3>2 DEF DKept
  <2>7. ASSUME NEW u \in Threads \ {t}, Pending(u, "dclose") PROVE call[u].h # h
    <3>1. DFrees(u)
      BY <2>7 DEF DFrees
    <3>. QED
      BY <1>1, <1>4, <1>5, <3>1 DEF DirsInv, OneDclose
  <2>. QED
    BY <1>3, <1>5, <1>6, <1>8, <2>1, <2>2, <2>3, <2>4, <2>5, <2>6, <2>7, OneDirChanges
<1>9. CASE process_iodclose(t) /\ dirs_table' = [dirs_table EXCEPT ![h].entries = NoPath]
           /\ thread' = [thread EXCEPT ![t].again = FALSE, ![t].at = "closing"]
  <2>1. thread'[t] = [thread[t] EXCEPT !.again = FALSE, !.at = "closing"]
    BY <1>1, <1>9
  <2>2. thread'[t].at = "closing"
    BY <1>1, <2>1 DEF Thread
  <2>. QED
    BY <1>1, <1>8, <1>9, <2>2 DEF TablesType
<1>10. CASE CloseDir(t)
  <2>1. dirs_table' = [dirs_table EXCEPT ![h].opened = FALSE] /\ Answer(t, 0)
    BY <1>4, <1>10 DEF CloseDir
  <2>2. thread'[t].at = "reply" /\ \A u \in Threads \ {t} : thread'[u] = thread[u]
    BY <1>1, <2>1, AnswerFields
  <2>. QED
    BY <1>1, <1>8, <2>1, <2>2 DEF TablesType
<1>11. CASE process_iodclose(t)
  BY <1>4, <1>7, <1>9, <1>11 DEF process_iodclose, At
<1>. QED
  BY <1>10, <1>11

LEMMA StepTables_iodread ==
  ASSUME TInv, WInv', NEW t \in Threads, process_iodread(t)
  PROVE  TInv'
<1>1. WInv /\ TablesType /\ thread \in [Threads -> Thread] /\ Login /\ DirsInv /\ DReading(t)
  BY DEF TInv, WInv, WiresType, DirsInv
<1>2. UNCHANGED <<Still, to_pc, to_psp, files_table, kernel>> /\ thread[t].at = "dread"
  BY DEF process_iodread, Rest, Wire, psp, Still, At
<1>3. call[t].op = "dread" /\ to_psp[t] = <<>> /\ Serves(thread[t], call[t]) /\ UNCHANGED <<call, dhandles, faults>>
  BY <1>2, OpAt DEF Ops, OnDir, Still
<1>4. PICK h \in DirSlots : h = call[t].h /\ h = Arg(t).h
  BY <1>1, <1>3, DirSlotOf DEF OnDir, Serves, Arg
<1>5. Running
  BY <1>1, <1>2 DEF Login, At
<1>6. dhandles[h] # <<>> /\ DHeld(h)
  BY <1>1, <1>3, <1>4, <1>5 DEF DReading, DirsInv
<1>7. Dir(h).opened
  BY <1>6 DEF DHeld
<1>8. PICK v : v = IF Exhausted(h) THEN 0 ELSE Dir(h).pos + 1
  OBVIOUS
<1>9. Answer(t, v) /\ dirs_table' = [dirs_table EXCEPT ![h].pos = Moved(h)]
  BY <1>4, <1>7, <1>8 DEF process_iodread, InDirs, Dir
<1>10. dirs_table[h] \in [entries : Paths, pos : 0 .. MaxEntries, nentries : 0 .. MaxEntries, opened : BOOLEAN]
  BY <1>1 DEF TablesType
<1>11. /\ Dir(h).pos \in 0 .. MaxEntries /\ dirs_table[h].nentries \in 0 .. MaxEntries
       /\ MaxEntries \in Nat
  BY <1>10, NetHostFsAssumption DEF Dir
<1>12. v \in 0 .. MaxEntries /\ (v > 0 => v = Moved(h)) /\ (v = 0 => Moved(h) = Dir(h).pos) /\ Moved(h) >= Dir(h).pos
  BY <1>8, <1>11 DEF Exhausted, Moved, Dir
<1>13. (\A u \in Threads : u # t => thread'[u] = thread[u]) /\ thread'[t].at = "reply" /\ thread'[t].res = v
  BY <1>1, <1>9, <1>12, AnswerFields
<1>14. Acts(t)
  BY <1>2, <1>13 DEF Acts, Still
<1>15. Running' /\ Login' /\ FilesInv'
  <2>1. UNCHANGED <<files_table, kernel>> /\ thread[t].at \notin {"store", "reset"} /\ thread'[t].at \notin {"store", "reset"}
    BY <1>2, <1>13
  <2>2. Running'
    BY <1>1, <1>14, RunsOn
  <2>. QED
    BY <1>3, <1>14, <2>1, <2>2, DirStep
<1>16. PICK x : x = [dirs_table[h] EXCEPT !.pos = Moved(h)]
  OBVIOUS
<1>17. x.pos = Moved(h) /\ x.entries = Dir(h).entries /\ x.opened = Dir(h).opened
  BY <1>10, <1>16 DEF Dir
<1>18. dirs_table' = [dirs_table EXCEPT ![h] = x]
  BY <1>9, <1>16
<1>19. dirs_table'[h] = x /\ \A k \in DirSlots \ {h} : dirs_table'[k] = dirs_table[k]
  BY <1>1, <1>18 DEF TablesType
<1>20. /\ Dir(h)'.pos = Moved(h) /\ Dir(h)'.entries = Dir(h).entries /\ Dir(h)'.opened = Dir(h).opened
       /\ \A k \in DirSlots : k # h => Dir(k)' = Dir(k)
  BY <1>17, <1>19 DEF Dir
<1>a. ~DFrees(t)' /\ ~Pending(t, "dclose")' /\ \A i \in DirSlots : ~DTakes(t, i)'
  BY <1>3, <1>13 DEF Pending, At, DFrees, DTakes
<1>b. \A u \in Threads : (DFrees(u)' => DFrees(u)) /\ (Pending(u, "dclose")' => Pending(u, "dclose"))
  BY <1>14, <1>a, Elsewhere, ElsewhereToo DEF Ops, OnDir
<1>c. \A k : DKept(k) => DKept(k)'
  BY <1>3, <1>b DEF DKept
<1>21. OneDSlot' /\ OneDclose' /\ OneUser'
  <2>1. OneDSlot'
    BY <1>1, <1>14, <1>a, OneDSlotStays DEF DirsInv
  <2>2. OneDclose' /\ OneUser'
    BY <1>1, <1>3, <1>b, Zenon DEF DirsInv, OneDclose, OneUser
  <2>. QED
    BY <2>1, <2>2
<1>22. ASSUME NEW k \in DirSlots PROVE DHeld(k)'
  <2>1. Using({"dread"}, k)' <=> Using({"dread"}, k)
    BY <1>3 DEF Using
  <2>2. CASE k # h
    <3>1. DHeld(k) /\ Dir(k)' = Dir(k)
      BY <1>1, <1>5, <1>20, <2>2 DEF DirsInv
    <3>. QED
      BY <1>3, <2>1, <3>1 DEF DHeld
  <2>3. CASE k = h
    <3>1. Using({"dread"}, h)'
      BY <1>3, <1>4, <2>1, <2>3 DEF Using
    <3>2. /\ Len(dhandles[h]) = 1 /\ Dir(h).entries = dhandles[h][1].path
          /\ Dir(h).pos >= dhandles[h][1].got
      BY <1>6 DEF DHeld
    <3>3. dhandles[h][1].got \in Int
      <4>1. dhandles[h] \in Seq([path : Dirs, got : 0 .. MaxEntries])
        BY <1>1 DEF DirsInv
      <4>2. dhandles[h][1] \in [path : Dirs, got : 0 .. MaxEntries]
        BY <3>2, <4>1, FirstIn
      <4>. QED
        BY <4>2, NetHostFsAssumption
    <3>4. Dir(h)'.pos >= dhandles[h][1].got
      <4>1. Moved(h) \in Int
        BY <1>11 DEF Moved, Dir
      <4>. QED
        BY <1>11, <1>12, <1>20, <3>2, <3>3, <4>1
    <3>. QED
      BY <1>3, <1>7, <1>20, <2>3, <3>1, <3>2, <3>4 DEF DHeld
  <2>. QED
    BY <2>2, <2>3
<1>23. ASSUME NEW u \in Threads PROVE DClosing(u)'
  <2>1. DFrees(u)' => dhandles'[call'[u].h] = <<>>
    BY <1>1, <1>3, <1>b DEF DirsInv, DClosing
  <2>2. ASSUME Pending(u, "dclose")' PROVE Dir(call[u].h)'.entries # NoPath
    <3>1. PICK k \in DirSlots : k = call[u].h
      BY <1>1, <1>b, <2>2, DirSlotOf DEF DFrees
    <3>2. Dir(k).entries # NoPath
      BY <1>1, <1>b, <2>2, <3>1 DEF DirsInv, DClosing
    <3>3. Dir(k)'.entries # NoPath /\ k = call'[u].h
      BY <1>3, <1>20, <3>1, <3>2
    <3>. QED
      BY <3>3 DEF Dir
  <2>. QED
    BY <2>1, <2>2 DEF DClosing
<1>24. ASSUME NEW u \in Threads PROVE DOpening(u)'
  <2>1. SUFFICES ASSUME call[u].op = "dopen" PROVE DOpening(u)'
    BY <1>3 DEF DOpening
  <2>2. u # t
    BY <1>3, <2>1
  <2>3. (Decided(u)' <=> Decided(u)) /\ Outcome(u)' = Outcome(u) /\ thread'[u] = thread[u] /\ DOpening(u)
    BY <1>1, <1>14, <2>2, Elsewhere DEF DirsInv
  <2>4. At(u, "scandir") => thread[u].i \in DirSlots
    BY <1>1, DirSlotOf
  <2>5. At(u, "scandir")' => (Dir(thread[u].i).entries = NoPath /\ DKept(thread[u].i))'
    <3>1. SUFFICES ASSUME At(u, "scandir") PROVE (Dir(thread[u].i).entries = NoPath /\ DKept(thread[u].i))'
      BY <2>3 DEF At
    <3>2. PICK k \in DirSlots : k = thread[u].i
      BY <2>4, <3>1
    <3>3. Dir(k).entries = NoPath /\ DKept(k)
      BY <2>1, <2>3, <3>1, <3>2 DEF DOpening
    <3>4. Dir(k)'.entries = NoPath /\ DKept(k)'
      BY <1>20, <1>c, <3>3
    <3>5. k = thread'[u].i
      BY <2>3, <3>2
    <3>. QED
      BY <3>4, <3>5 DEF Dir, DKept
  <2>6. Decided(u)' /\ Outcome(u)' \in DirSlots => DGiven(Outcome(u), call[u].path)'
    <3>1. SUFFICES ASSUME Decided(u), Outcome(u) \in DirSlots PROVE DGiven(Outcome(u), call[u].path)'
      BY <2>3
    <3>2. PICK k \in DirSlots : k = Outcome(u)
      BY <3>1
    <3>3. PICK p : p = call[u].path
      OBVIOUS
    <3>4. DGiven(k, p)
      BY <1>5, <2>1, <2>3, <3>1, <3>2, <3>3 DEF DOpening
    <3>5. k # h
      BY <1>6, <3>4 DEF DGiven
    <3>6. DGiven(k, p)'
      BY <1>3, <1>20, <1>c, <3>4, <3>5 DEF DGiven
    <3>7. k = Outcome(u)' /\ p = call[u].path'
      BY <1>3, <2>3, <3>2, <3>3
    <3>. QED
      BY <3>6, <3>7 DEF DGiven, Dir, DKept
  <2>. QED
    BY <2>5, <2>6 DEF DOpening
<1>25. ASSUME NEW u \in Threads PROVE DReading(u)'
  <2>1. SUFFICES ASSUME call[u].op = "dread" PROVE DReading(u)'
    BY <1>3 DEF DReading
  <2>2. CASE u = t
    <3>1. Outcome(t)' = v /\ ~Decided(t) /\ Decided(t)'
      BY <1>2, <1>3, <1>13, NoCallType DEF Outcome, Decided, At, Still
    <3>2. faults = 0 => Dir(h).pos = dhandles[h][1].got
      BY <1>1, <1>3, <1>4, <1>5, <3>1 DEF DReading
    <3>3. v > 0 \/ v = 0
      BY <1>11, <1>12
    <3>4. /\ v \in -1 .. MaxEntries /\ (v > 0 => v = Dir(h)'.pos)
          /\ faults = 0 /\ ~(v > 0) => Dir(h)'.pos = dhandles[h][1].got
      BY <1>11, <1>12, <1>20, <3>2, <3>3
    <3>5. h = call'[t].h /\ dhandles' = dhandles /\ faults' = faults
      BY <1>3, <1>4
    <3>. QED
      BY <1>6, <2>2, <3>1, <3>4, <3>5 DEF DReading, Dir
  <2>3. CASE u # t
    <3>1. (Decided(u)' <=> Decided(u)) /\ Outcome(u)' = Outcome(u) /\ DReading(u)
      BY <1>1, <1>14, <2>3, Elsewhere DEF DirsInv
    <3>2. PICK k \in DirSlots : k = call[u].h
      BY <1>1, <2>1, DirSlotOf DEF OnDir
    <3>3. k # h
      BY <1>1, <1>3, <1>4, <2>1, <2>3, <3>2 DEF DirsInv, OneUser, OnDir
    <3>4. Dir(k)' = Dir(k) /\ k = call'[u].h
      BY <1>3, <1>20, <3>2, <3>3
    <3>5. Dir(call[u].h)' = Dir(call[u].h)
      BY <3>2, <3>4 DEF Dir
    <3>. QED
      BY <1>3, <1>5, <2>1, <3>1, <3>5 DEF DReading
  <2>. QED
    BY <2>2, <2>3
<1>26. (faults = 0 /\ Running => \A u \in Threads : At(u, "closed") => call[u].op \in {"none", "exit"})'
  <2>1. \A u \in Threads : At(u, "closed")' => At(u, "closed")
    BY <1>13 DEF At
  <2>. QED
    BY <1>1, <1>3, <1>5, <2>1 DEF DirsInv
<1>27. (dhandles \in [DirSlots -> Seq([path : Dirs, got : 0 .. MaxEntries])])'
  BY <1>1, <1>3 DEF DirsInv
<1>28. DirsInv'
  BY <1>21, <1>22, <1>23, <1>24, <1>25, <1>26, <1>27 DEF DirsInv
<1>. QED
  BY <1>15, <1>28 DEF TInv

LEMMA TablesInit == Init => TInv
<1>1. SUFFICES ASSUME Init PROVE TInv
  OBVIOUS
<1>2. WInv
  BY <1>1, TypesInit
<1>3. /\ \A t \in Threads : call[t].op = "none" /\ call[t] = NoCall /\ thread[t].at = "cmd" /\ to_pc[t] = <<>>
      /\ handles = [i \in FileSlots |-> <<>>] /\ dhandles = [i \in DirSlots |-> <<>>]
      /\ kernel = [f \in Fds |-> NoPath] /\ dirs_table = [i \in DirSlots |-> FreeDir] /\ ~logged
  BY <1>1, NoCallType DEF Init
<1>4. Running
  BY <1>3, NetHostFsAssumption DEF Running
<1>5. Login
  BY <1>3, <1>4 DEF Login, Untouched
<1>6. FilesInv
  <2>1. handles \in [FileSlots -> Seq(Files)]
    BY <1>3, EmptySeq
  <2>2. NoLoss
    BY <1>3 DEF NoLoss
  <2>3. OneSlot /\ OneClose
    BY <1>3 DEF OneSlot, OneClose, ToClose, Pending, Takes, At
  <2>4. (\A i \in FileSlots : Held(i)) /\ \A t \in Threads : Closing(t) /\ Opening(t)
    BY <1>3 DEF Held, Closing, Opening, ToClose, Pending, At
  <2>. QED
    BY <1>3, <2>1, <2>2, <2>3, <2>4 DEF FilesInv
<1>7. DirsInv
  <2>1. dhandles \in [DirSlots -> Seq([path : Dirs, got : 0 .. MaxEntries])]
    BY <1>3, EmptySeq
  <2>2. OneDSlot /\ OneDclose /\ OneUser
    BY <1>3 DEF OneDSlot, OneDclose, OneUser, DTakes, DFrees, Pending, At
  <2>3. \A h \in DirSlots : DHeld(h)
    BY <1>3 DEF DHeld
  <2>4. \A t \in Threads : DOpening(t) /\ DClosing(t) /\ DReading(t)
    BY <1>3 DEF DOpening, DClosing, DReading, DFrees, Pending, At
  <2>5. \A t \in Threads : ~At(t, "closed")
    BY <1>3 DEF At
  <2>. QED
    BY <2>1, <2>2, <2>3, <2>4, <2>5 DEF DirsInv
<1>. QED
  BY <1>2, <1>5, <1>6, <1>7 DEF TInv

LEMMA TablesStutter == TInv /\ UNCHANGED vars /\ WInv' => TInv'
<1>1. SUFFICES ASSUME TInv, UNCHANGED vars, WInv' PROVE TInv'
  OBVIOUS
<1>2. UNCHANGED <<rdonly, files_table, dirs_table, thread, kernel, to_pc, to_psp, call, logged, handles, dhandles, faults>>
  BY <1>1 DEF vars, server, tables, psp
<1>a. \A t \in Threads : /\ Decided(t)' <=> Decided(t)
                         /\ Outcome(t)' = Outcome(t)
                         /\ ToClose(t)' <=> ToClose(t)
                         /\ DFrees(t)' <=> DFrees(t)
                         /\ Pending(t, "dclose")' <=> Pending(t, "dclose")
  BY <1>2 DEF Decided, Outcome, ToClose, DFrees, Pending, At, Reply
<1>b. /\ \A i : Desc(i)' = Desc(i) /\ Dir(i)' = Dir(i)
      /\ \A i : Steady(i)' <=> Steady(i)
      /\ \A t, at : At(t, at)' <=> At(t, at)
      /\ Running' <=> Running
  BY <1>2 DEF Desc, Dir, Steady, At, Running
<1>c. (\A i : Kept(i)' <=> Kept(i)) /\ (\A i : DKept(i)' <=> DKept(i))
  BY <1>2, <1>a DEF Kept, DKept
<1>3. Login'
  BY <1>1, <1>2, <1>a, <1>b DEF TInv, Login, Untouched
<1>4. FilesInv'
  <2>1. NoLoss' /\ (\A i \in FileSlots : (Slot(i)' <=> Slot(i)) /\ (Held(i)' <=> Held(i)))
    BY <1>1, <1>2, <1>b DEF TInv, FilesInv, NoLoss, Slot, Held
  <2>2. OneSlot' /\ OneClose'
    <3>1. \A t \in Threads, i \in FileSlots : Takes(t, i)' <=> Takes(t, i)
      BY <1>2, <1>a DEF Takes, Filling
    <3>2. OneSlot'
      BY <1>1, <3>1 DEF TInv, FilesInv, OneSlot
    <3>3. OneClose'
      BY <1>1, <1>2, <1>a DEF TInv, FilesInv, OneClose
    <3>. QED
      BY <3>2, <3>3
  <2>3. ASSUME NEW t \in Threads PROVE Closing(t)' /\ Opening(t)'
    <3>1. Closing(t)'
      BY <1>1, <1>2, <1>a, <1>b DEF TInv, FilesInv, Closing
    <3>2. Fresh(t)' <=> Fresh(t)
      BY <1>2, <1>b DEF Fresh
    <3>3. \A i, p : Given(i, p)' <=> Given(i, p)
      BY <1>2, <1>b, <1>c DEF Given
    <3>4. Opening(t)
      BY <1>1 DEF TInv, FilesInv
    <3>5. Opening(t)'
      BY <1>2, <1>a, <1>b, <1>c, <3>2, <3>4 DEF Opening, Arg, Given
    <3>. QED
      BY <3>1, <3>5
  <2>. QED
    BY <1>1, <1>2, <1>b, <2>1, <2>2, <2>3 DEF TInv, FilesInv
<1>5. DirsInv'
  <2>1. OneUser' /\ (\A h \in DirSlots : DHeld(h)' <=> DHeld(h))
    BY <1>1, <1>2, <1>b DEF TInv, DirsInv, OneUser, DHeld, Using
  <2>2. OneDSlot' /\ OneDclose'
    <3>1. \A t \in Threads, i \in DirSlots : DTakes(t, i)' <=> DTakes(t, i)
      BY <1>2, <1>a, <1>b DEF DTakes
    <3>2. OneDSlot'
      BY <1>1, <3>1 DEF TInv, DirsInv, OneDSlot
    <3>3. OneDclose'
      BY <1>1, <1>2, <1>a DEF TInv, DirsInv, OneDclose
    <3>. QED
      BY <3>2, <3>3
  <2>3. ASSUME NEW t \in Threads PROVE DOpening(t)' /\ DClosing(t)' /\ DReading(t)'
    <3>1. DOpening(t) /\ DClosing(t) /\ DReading(t)
      BY <1>1 DEF TInv, DirsInv
    <3>2. DOpening(t)'
      BY <1>2, <1>a, <1>b, <1>c, <3>1 DEF DOpening, DGiven
    <3>3. DClosing(t)'
      BY <1>2, <1>a, <1>b, <3>1 DEF DClosing
    <3>4. DReading(t)'
      BY <1>2, <1>a, <1>b, <3>1 DEF DReading
    <3>. QED
      BY <3>2, <3>3, <3>4
  <2>. QED
    BY <1>1, <1>2, <1>b, <2>1, <2>2, <2>3 DEF TInv, DirsInv
<1>. QED
  BY <1>1, <1>3, <1>4, <1>5 DEF TInv

LEMMA TInvInductive == ASSUME ~ChmodFails PROVE TInv /\ [Next]_vars /\ ~crossed' => TInv'
<1>1. SUFFICES ASSUME TInv, [Next]_vars, ~crossed' PROVE TInv'
  OBVIOUS
<1>2. WInv'
  BY <1>1, WInvInductive DEF TInv
<1>3. CASE UNCHANGED vars
  BY <1>1, <1>2, <1>3, TablesStutter
<1>4. CASE Next
  <2>1. PICK t \in Threads :
            \/ \E r \in Requests : Call(t, r)
            \/ Receive(t) \/ Lose(t) \/ process_thread(t) \/ SocketFails(t)
    BY <1>4 DEF Next
  <2>2. CASE \E r \in Requests : Call(t, r)
    <3>1. PICK r \in Requests : Call(t, r)
      BY <2>2
    <3>2. Login' /\ FilesInv' /\ DirsInv'
      BY <1>1, <3>1, StepTables_Call_Login, StepTables_Call_Files, StepTables_Call_Dirs
    <3>. QED
      BY <1>2, <3>2 DEF TInv
  <2>3. CASE Receive(t) \/ Lose(t)
    BY <1>1, <1>2, <2>3, StepTables_Receive, StepTables_Lose
  <2>4. CASE SocketFails(t) \/ process_ioexit(t)
    BY <1>1, <1>2, <2>4, StepTables_Ends
  <2>5. CASE process_cmd(t) \/ SendReturn(t) \/ process_ioinit(t)
    BY <1>1, <1>2, <2>5, StepTables_cmd, StepTables_SendReturn, StepTables_ioinit
  <2>6. CASE FindFile(t) \/ MakePath(t) \/ OpenFile(t) \/ StoreFile(t)
    BY <1>1, <1>2, <2>6, StepTables_FindFile, StepTables_MakePath, StepTables_OpenFile, StepTables_StoreFile
  <2>7. CASE Opened(t) \/ process_ioclose(t) \/ ResetFile(t)
    BY <1>1, <1>2, <2>7, StepTables_Opened, StepTables_ioclose
  <2>8. CASE process_ioread(t) \/ WriteFile(t)
    BY <1>1, <1>2, <2>8, StepTables_ioread, StepTables_WriteFile
  <2>9. CASE ReadSend(t) \/ process_iowrite(t) \/ WriteRecv(t) \/ process_iochstat(t)
    BY <1>1, <1>2, <2>9, StepTables_Transfers
  <2>10. CASE FindDir(t) \/ OpenDir(t)
    BY <1>1, <1>2, <2>10, StepTables_FindDir, StepTables_OpenDir
  <2>11. CASE process_iodclose(t) \/ CloseDir(t) \/ process_iodread(t)
    BY <1>1, <1>2, <2>11, StepTables_iodclose, StepTables_iodread
  <2>12. CASE Query(t) \/ Change(t) \/ process_iorename(t) \/ process_iolseek(t)
    BY <1>1, <1>2, <2>12, StepTables_Plain
  <2>. QED
    BY <2>1, <2>2, <2>3, <2>4, <2>5, <2>6, <2>7, <2>8, <2>9, <2>10, <2>11, <2>12 DEF process_thread
<1>. QED
  BY <1>1, <1>3, <1>4

(* What the PSP remembers has its type also after two threads have met.       *)
HInv ==
    /\ handles \in [FileSlots -> Seq(Files \cup Dirs)]
    /\ dhandles \in [DirSlots -> Seq(Listing)]
    /\ crossed \in BOOLEAN
    /\ \A t \in Threads : call[t].op = "dread" => dhandles[call[t].h] # <<>>

LEMMA HInvInit == Init => HInv
<1>1. SUFFICES ASSUME Init PROVE HInv
  OBVIOUS
<1>2. \A t \in Threads : call[t].op = "none"
  BY <1>1, NoCallType DEF Init
<1>3. /\ handles = [i \in FileSlots |-> <<>>] /\ dhandles = [i \in DirSlots |-> <<>>]
      /\ crossed = FALSE
  BY <1>1 DEF Init
<1>. QED
  BY <1>2, <1>3, EmptySeq DEF HInv

(* A step of the server leaves the PSP alone, and nothing undoes crossed.     *)
LEMMA ServerLeaves ==
  ASSUME NEW t \in Threads, process_thread(t) \/ SocketFails(t), crossed \in BOOLEAN
  PROVE  UNCHANGED <<call, handles, dhandles>> /\ crossed' \in BOOLEAN /\ (crossed => crossed')
<1>1. CASE FindFile(t) \/ FindDir(t)
  BY <1>1 DEF FindFile, FindDir, psp
<1>2. CASE process_cmd(t) \/ SendReturn(t) \/ ReadSend(t) \/ WriteRecv(t)
  BY <1>2 DEF process_cmd, SendReturn, ReadSend, WriteRecv, psp
<1>3. CASE SocketFails(t) \/ process_ioexit(t)
  BY <1>3 DEF SocketFails, process_ioexit, End, psp
<1>4. CASE process_ioinit(t) \/ MakePath(t) \/ OpenFile(t) \/ StoreFile(t) \/ Opened(t) \/ process_ioclose(t) \/ ResetFile(t)
  BY <1>4 DEF process_ioinit, MakePath, OpenFile, StoreFile, Opened, process_ioclose, ResetFile, Rest, psp
<1>5. CASE process_ioread(t) \/ process_iowrite(t) \/ WriteFile(t) \/ process_iolseek(t) \/ OpenDir(t)
  BY <1>5 DEF process_ioread, process_iowrite, WriteFile, process_iolseek, OpenDir, Rest, psp
<1>6. CASE \/ process_iodclose(t) \/ CloseDir(t) \/ process_iodread(t) \/ Query(t) \/ Change(t)
           \/ process_iorename(t) \/ process_iochstat(t)
  BY <1>6 DEF process_iodclose, CloseDir, process_iodread, Query, Change, process_iorename, process_iochstat, Rest, psp
<1>. QED
  BY <1>1, <1>2, <1>3, <1>4, <1>5, <1>6 DEF process_thread

LEMMA AdvancedListing ==
  ASSUME NEW q \in Seq(Listing), q # <<>>, NEW g \in Nat
  PROVE  Advanced(q, g) # <<>> /\ Advanced(q, g) \in Seq(Listing)
<1>1. Len(q) \in Nat /\ Head(q) \in Listing /\ Tail(q) \in Seq(Listing)
  BY HeadTailProperties
<1>2. PICK e : e = [Head(q) EXCEPT !.got = g]
  OBVIOUS
<1>3. e \in Listing
  BY <1>1, <1>2 DEF Listing
<1>4. <<e>> \in Seq(Listing) /\ Len(<<e>>) = 1
  BY <1>3
<1>5. PICK s : s = <<e>> \o Tail(q)
  OBVIOUS
<1>6. s \in Seq(Listing) /\ Len(s) = 1 + Len(Tail(q)) /\ Len(Tail(q)) \in Nat
  BY <1>1, <1>4, <1>5, ConcatProperties
<1>7. s = Advanced(q, g)
  BY <1>2, <1>5, Zenon DEF Advanced
<1>8. s # <<>>
  BY <1>6, EmptySeq
<1>. QED
  BY <1>6, <1>7, <1>8

LEMMA TailStays ==
  ASSUME NEW S, NEW q \in Seq(S), q # <<>>
  PROVE  Tail(q) \in Seq(S)
BY HeadTailProperties

LEMMA HInvCall ==
  ASSUME WInv, HInv, NEW t \in Threads, NEW r \in Requests, Call(t, r)
  PROVE  HInv'
<1>1. /\ call \in [Threads -> Request] /\ call[t] = NoCall /\ Legal(r) /\ UNCHANGED crossed
      /\ call'[t] = r /\ \A u \in Threads \ {t} : call'[u] = call[u]
  BY DEF Call, WInv, WiresType, server
<1>2. /\ r.op \in OnFile => r.h \in FileSlots /\ handles[r.h] # <<>>
      /\ r.op \in OnDir => r.h \in DirSlots /\ dhandles[r.h] # <<>>
  BY <1>1, RequestsType DEF Legal
<1>3. handles' \in [FileSlots -> Seq(Files \cup Dirs)]
  <2>1. CASE r.op = "close"
    <3>1. PICK h \in FileSlots : h = r.h /\ handles[h] # <<>>
      BY <1>2, <2>1 DEF OnFile
    <3>2. PICK s : s = Tail(handles[h])
      OBVIOUS
    <3>3. s \in Seq(Files \cup Dirs)
      BY <3>1, <3>2, TailStays DEF HInv
    <3>4. handles' = [handles EXCEPT ![h] = s]
      BY <2>1, <3>1, <3>2 DEF Call
    <3>. QED
      BY <3>3, <3>4 DEF HInv
  <2>2. CASE r.op # "close"
    BY <2>2 DEF Call, HInv
  <2>. QED
    BY <2>1, <2>2
<1>4. /\ dhandles' \in [DirSlots -> Seq(Listing)]
      /\ \A k \in DirSlots : dhandles'[k] = dhandles[k] \/ (r.op = "dclose" /\ r.h = k)
  <2>1. CASE r.op = "dclose"
    <3>1. PICK h \in DirSlots : h = r.h /\ dhandles[h] # <<>>
      BY <1>2, <2>1 DEF OnDir
    <3>2. PICK s : s = Tail(dhandles[h])
      OBVIOUS
    <3>3. s \in Seq(Listing)
      BY <3>1, <3>2, TailStays DEF HInv
    <3>4. dhandles' = [dhandles EXCEPT ![h] = s]
      BY <2>1, <3>1, <3>2 DEF Call
    <3>. QED
      BY <2>1, <3>1, <3>3, <3>4 DEF HInv
  <2>2. CASE r.op # "dclose"
    BY <2>2 DEF Call, HInv
  <2>. QED
    BY <2>1, <2>2
<1>5. ASSUME NEW u \in Threads, call'[u].op = "dread" PROVE dhandles'[call'[u].h] # <<>>
  <2>1. CASE u = t
    <3>1. r.op = "dread" /\ r.h \in DirSlots /\ dhandles[r.h] # <<>>
      BY <1>1, <1>2, <1>5, <2>1 DEF OnDir
    <3>. QED
      BY <1>1, <1>4, <2>1, <3>1
  <2>2. CASE u # t
    <3>1. call[u].op = "dread" /\ call'[u] = call[u] /\ call[u].h \in DirSlots
      BY <1>1, <1>5, <2>2, DirSlotOf DEF OnDir
    <3>2. r.op = "dclose" => r.h # call[u].h
      BY <1>1, <3>1 DEF Legal, Using, OnDir
    <3>. QED
      BY <1>4, <3>1, <3>2 DEF HInv
  <2>. QED
    BY <2>1, <2>2
<1>. QED
  BY <1>1, <1>3, <1>4, <1>5 DEF HInv

LEMMA HInvReceive ==
  ASSUME WInv, HInv, NEW t \in Threads, Receive(t)
  PROVE  HInv'
<1>1. /\ call \in [Threads -> Request] /\ UNCHANGED crossed /\ to_psp[t] # <<>>
      /\ call[t] # NoCall /\ call'[t] = NoCall /\ \A u \in Threads \ {t} : call'[u] = call[u]
      /\ to_psp[t] \in Seq([op : Ops \cup {"data"}, n : Int])
  BY DEF Receive, WInv, WiresType, server
<1>2. call[t] \in Requests /\ call'[t].op = "none"
  BY <1>1, NoCallType DEF WInv, Wired
<1>3. Reply(t).n \in Int
  <2>1. Reply(t) \in [op : Ops \cup {"data"}, n : Int]
    BY <1>1, HeadTailProperties, Zenon DEF Reply
  <2>. QED
    BY <2>1
<1>4. handles' \in [FileSlots -> Seq(Files \cup Dirs)]
  <2>1. CASE call[t].op = "open" /\ Reply(t).n \in FileSlots
    <3>1. PICK n \in FileSlots : n = Reply(t).n
      BY <2>1
    <3>2. PICK p \in Files \cup Dirs : p = call[t].path
      BY <1>2, <2>1, RequestsType
    <3>3. PICK s : s = Append(handles[n], p)
      OBVIOUS
    <3>4. s \in Seq(Files \cup Dirs)
      BY <3>3, OneMore DEF HInv
    <3>5. handles' = [handles EXCEPT ![n] = s]
      BY <2>1, <3>1, <3>2, <3>3 DEF Receive
    <3>. QED
      BY <3>4, <3>5 DEF HInv
  <2>2. CASE ~(call[t].op = "open" /\ Reply(t).n \in FileSlots)
    BY <2>2 DEF Receive, HInv
  <2>. QED
    BY <2>1, <2>2
<1>5. /\ dhandles' \in [DirSlots -> Seq(Listing)]
      /\ \A k \in DirSlots : dhandles[k] # <<>> => dhandles'[k] # <<>>
  <2>1. CASE call[t].op = "dopen" /\ Reply(t).n \in DirSlots
    <3>1. PICK n \in DirSlots : n = Reply(t).n
      BY <2>1
    <3>2. PICK e : e = [path |-> call[t].path, got |-> 0]
      OBVIOUS
    <3>3. e \in Listing
      BY <1>2, <2>1, <3>2, RequestsType DEF Listing
    <3>4. PICK s : s = Append(dhandles[n], e)
      OBVIOUS
    <3>5. s \in Seq(Listing) /\ s # <<>>
      BY <3>3, <3>4, OneMore DEF HInv
    <3>6. dhandles' = [dhandles EXCEPT ![n] = s]
      BY <2>1, <3>1, <3>2, <3>4 DEF Receive
    <3>. QED
      BY <3>5, <3>6 DEF HInv
  <2>2. CASE call[t].op = "dread" /\ Reply(t).n > 0
    <3>1. PICK n \in DirSlots : n = call[t].h /\ dhandles[n] # <<>>
      BY <1>2, <2>2, RequestsType DEF HInv, OnDir
    <3>2. PICK g \in Nat : g = Reply(t).n
      BY <1>3, <2>2
    <3>3. PICK q : q = dhandles[n]
      OBVIOUS
    <3>4. q \in Seq(Listing) /\ q # <<>>
      BY <3>1, <3>3 DEF HInv
    <3>5. PICK s : s = Advanced(q, g)
      OBVIOUS
    <3>6. s \in Seq(Listing) /\ s # <<>>
      BY <3>4, <3>5, AdvancedListing
    <3>7. dhandles' = [dhandles EXCEPT ![n] = s]
      BY <2>2, <3>1, <3>2, <3>3, <3>5 DEF Receive, Advanced
    <3>. QED
      BY <3>6, <3>7 DEF HInv
  <2>3. CASE ~(call[t].op = "dopen" /\ Reply(t).n \in DirSlots) /\ ~(call[t].op = "dread" /\ Reply(t).n > 0)
    BY <2>3 DEF Receive, HInv
  <2>. QED
    BY <2>1, <2>2, <2>3
<1>6. ASSUME NEW u \in Threads, call'[u].op = "dread" PROVE dhandles'[call'[u].h] # <<>>
  <2>1. u # t /\ call'[u] = call[u] /\ call[u].op = "dread"
    BY <1>1, <1>2, <1>6
  <2>2. call[u].h \in DirSlots /\ dhandles[call[u].h] # <<>>
    BY <2>1, DirSlotOf DEF HInv, OnDir
  <2>. QED
    BY <1>5, <2>1, <2>2
<1>. QED
  BY <1>1, <1>4, <1>5, <1>6 DEF HInv

LEMMA HInvInductive ==
  ASSUME WInv, HInv, [Next]_vars
  PROVE  HInv' /\ (crossed => crossed')
<1>1. CASE UNCHANGED vars
  BY <1>1 DEF vars, server, psp, HInv
<1>2. CASE Next
  <2>1. PICK t \in Threads :
            \/ \E r \in Requests : Call(t, r)
            \/ Receive(t) \/ Lose(t) \/ process_thread(t) \/ SocketFails(t)
    BY <1>2 DEF Next
  <2>2. CASE \E r \in Requests : Call(t, r)
    <3>1. UNCHANGED crossed
      BY <2>2 DEF Call, server
    <3>. QED
      BY <2>2, <3>1, HInvCall
  <2>3. CASE Receive(t)
    <3>1. UNCHANGED crossed
      BY <2>3 DEF Receive, server
    <3>. QED
      BY <2>3, <3>1, HInvReceive
  <2>4. CASE Lose(t)
    <3>1. /\ UNCHANGED <<crossed, handles, dhandles>> /\ call[t] # NoCall
          /\ call'[t] = NoCall /\ \A u \in Threads \ {t} : call'[u] = call[u]
      BY <2>4 DEF Lose, server, WInv, WiresType
    <3>2. \A u \in Threads : call'[u].op = "dread" => u # t
      BY <3>1, NoCallType
    <3>. QED
      BY <3>1, <3>2 DEF HInv
  <2>5. CASE process_thread(t) \/ SocketFails(t)
    BY <2>5, ServerLeaves DEF HInv
  <2>. QED
    BY <2>1, <2>2, <2>3, <2>4, <2>5
<1>. QED
  BY <1>1, <1>2

(* The invariant: the files and directories are as they should be until two   *)
(* threads meet in a slot.                                                    *)
CInv == WInv /\ HInv /\ (~crossed => TInv)

LEMMA CInvInductive == ASSUME ~ChmodFails PROVE CInv /\ [Next]_vars => CInv'
<1>1. SUFFICES ASSUME CInv, [Next]_vars PROVE CInv'
  OBVIOUS
<1>2. WInv'
  BY <1>1, WInvInductive DEF CInv
<1>3. HInv' /\ (crossed => crossed')
  BY <1>1, HInvInductive DEF CInv
<1>4. ~crossed' => TInv'
  BY <1>1, <1>3, TInvInductive DEF CInv
<1>. QED
  BY <1>2, <1>3, <1>4 DEF CInv

LEMMA TablesFollow == CInv => TablesRight
<1>1. SUFFICES ASSUME CInv PROVE TablesRight
  OBVIOUS
<1>2. WInv /\ HInv
  BY <1>1 DEF CInv
<1>3. TypeOK
  <2>1. {rdonly, g_login, written, crossed, logged} \subseteq BOOLEAN
    BY <1>2 DEF WInv, TablesType, WiresType, HInv
  <2>2. /\ files_table \in [FileSlots -> [name : Paths, fd : Fds \cup {-1, 0, 65535}]]
        /\ dirs_table \in [DirSlots -> [entries : Paths, pos : 0 .. MaxEntries, nentries : 0 .. MaxEntries, opened : BOOLEAN]]
        /\ kernel \in [Fds -> Files \cup {NoPath}]
    BY <1>2 DEF WInv, TablesType
  <2>3. /\ thread \in [Threads -> Thread]
        /\ to_pc \in [Threads -> Seq(Request)]
        /\ call \in [Threads -> Request]
        /\ calls \in 0 .. MaxCalls
        /\ faults \in 0 .. MaxFaults
    BY <1>2 DEF WInv, WiresType
  <2>4. handles \in [FileSlots -> Seq(Files \cup Dirs)] /\ dhandles \in [DirSlots -> Seq(Listing)]
    BY <1>2 DEF HInv
  <2>5. to_psp \in [Threads -> Seq([op : Ops \cup {"data"}, n : Int])]
    BY <1>2 DEF WInv, WiresType
  <2>6. to_psp \in [Threads -> Seq(Message)]
    BY <2>5, Zenon DEF Message
  <2>. QED
    BY <2>1, <2>2, <2>3, <2>4, <2>6 DEF TypeOK
<1>4. HandlesLive
  <2>1. SUFFICES ASSUME Running, ~crossed, NEW h \in FileSlots, handles[h] # <<>>
                 PROVE  /\ Len(handles[h]) = 1
                        /\ Settled(h)
                        /\ \/ rdonly /\ Desc(h) = 65535
                           \/ /\ Desc(h) \in Fds
                              /\ kernel[Desc(h)] = handles[h][1]
                              /\ \A k \in FileSlots \ {h} : Settled(k) => Desc(k) # Desc(h)
    BY DEF HandlesLive, Desc
  <2>a. TInv /\ Login /\ FilesInv
    BY <1>1, <2>1 DEF CInv, TInv
  <2>2. logged
    BY <2>1, <2>a DEF Login, Untouched
  <2>3. Slot(h) /\ Held(h) /\ \A u \in Threads : Closing(u)
    BY <2>1, <2>2, <2>a DEF FilesInv
  <2>b. \A k : Settled(k) <=> Steady(k)
    <3>1. ASSUME NEW u \in Threads, At(u, "reset") PROVE Arg(u).h = call[u].h
      <4>1. thread[u].at = "reset"
        BY <3>1 DEF At
      <4>2. Serves(thread[u], call[u])
        BY <2>a, <4>1, OpAt
      <4>. QED
        BY <4>2 DEF Serves, Arg
    <3>. QED
      BY <3>1 DEF Settled, Steady
  <2>c. Steady(h)
    BY <2>1, <2>3, SteadyKept
  <2>4. Len(handles[h]) = 1 /\ Desc(h) # -1 /\ (Desc(h) # 65535 => kernel[Desc(h)] = handles[h][1])
    BY <2>1, <2>3 DEF Held
  <2>5. Desc(h) \in Fds => Desc(h) # 65535
    BY NetHostFsAssumption
  <2>6. Settled(h)
    BY <2>b, <2>c
  <2>7. \/ rdonly /\ Desc(h) = 65535
        \/ /\ Desc(h) \in Fds
           /\ kernel[Desc(h)] = handles[h][1]
           /\ \A k \in FileSlots \ {h} : Steady(k) => Desc(k) # Desc(h)
    BY <2>3, <2>4, <2>5, <2>c DEF Slot
  <2>. QED
    BY <2>4, <2>6, <2>7, <2>b
<1>5. DirsLive
  <2>1. Running /\ ~crossed => \A h \in DirSlots : DHeld(h)
    BY <1>1 DEF CInv, TInv, DirsInv
  <2>. QED
    BY <2>1 DEF DHeld, DirsLive, Dir
<1>6. NoLeak
  <2>1. ~crossed => NoLoss
    BY <1>1 DEF CInv, TInv, FilesInv
  <2>. QED
    BY <2>1 DEF NoLoss, NoLeak, Desc
<1>. QED
  BY <1>3, <1>4, <1>5, <1>6 DEF TablesRight

(* The tables of open files and directories agree with the kernel of the PC   *)
(* and with what the PSP holds, for any number of connections that open and   *)
(* close at the same time: process_ioopen looks for a free slot, opens the    *)
(* file, stores its descriptor and looks at the slot again in steps of its    *)
(* own, process_ioclose closes a descriptor (which another open may be given  *)
(* at once) before it resets the slot, and likewise for directories.  They    *)
(* stop to agree only when a thread finds a slot that another is still        *)
(* filling or freeing, which nothing in the code prevents.                    *)
THEOREM TablesAgree == ASSUME ~ChmodFails PROVE Spec => []TablesRight
<1>1. Init => CInv
  BY TablesInit, HInvInit DEF CInv, TInv
<1>2. CInv /\ [Next]_vars => CInv'
  BY CInvInductive
<1>3. CInv => TablesRight
  BY TablesFollow
<1>. QED
  BY <1>1, <1>2, <1>3, PTL DEF Spec
==============================================================================
