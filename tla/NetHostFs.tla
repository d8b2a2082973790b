------------------------------ MODULE NetHostFs ------------------------------
(* A child of the PC server (extras/nethostfs_pc/main.c): one process_thread  *)
(* per connection of a PSP, all of them working on the tables of open files   *)
(* and directories without a lock.  The file system of the PC and the PSP are *)
(* external; the PSP uses the handles it was given, one call at a time each.  *)
EXTENDS Integers, Sequences

CONSTANTS
    Threads,      \* the connections of a session, TOTAL_NETSESSIONS (4)
    Last,         \* the thread that was created last and is joined
    MaxFiles,     \* MAX_OPENED_FILES (1024)
    MaxDirs,      \* MAX_OPENED_DIRS (256)
    Files, Dirs,  \* what there is below rootdir
    NoPath,       \* an empty name, entries = NULL
    Fds,          \* descriptors the process may have open
    Limit,        \* the 32 MB of a transfer, in units
    blk_size,     \* -b, in units
    MaxEntries,   \* entries of a directory
    ChmodFails,   \* chmod may fail
    MaxCalls,     \* bound on the calls of the PSP
    MaxFaults     \* bound on the sends and receives that fail

ASSUME NetHostFsAssumption ==
    /\ Last \in Threads
    /\ {MaxFiles, MaxDirs, Limit, blk_size} \subseteq Nat \ {0}
    /\ {MaxEntries, MaxCalls, MaxFaults} \subseteq Nat
    /\ ChmodFails \in BOOLEAN
    /\ Fds \subseteq Nat \ {65535}
    /\ Files \cap Dirs = {} /\ NoPath \notin Files \cup Dirs

VARIABLES
    rdonly,       \* -r
    g_login,      \* 0 until the password was right, when -l asks for one
    files_table, dirs_table,
    thread,       \* where each process_thread is
    kernel,       \* the file each descriptor is open on
    written,      \* something below rootdir was created, changed or removed
    crossed,      \* a slot was found that another thread was filling or freeing
    to_pc,        \* sent by the PSP on a connection and not received
    to_psp,       \* replies and data the PSP has still to receive
    call,         \* the request the PSP waits for on a connection
    logged,       \* the PSP's IOINIT was answered with 0
    handles,      \* per slot, the files the PSP was given it for
    dhandles,     \* per slot, the directories and the last entry it was given
    calls, faults

tables == <<files_table, dirs_table>>
server == <<rdonly, g_login, files_table, dirs_table, thread, kernel, written, crossed>>
psp    == <<call, logged, handles, dhandles, calls>>
vars   == <<server, to_pc, to_psp, psp, faults>>

FileSlots == 0 .. MaxFiles - 1
DirSlots  == 0 .. MaxDirs - 1
Paths     == Files \cup Dirs \cup {NoPath}

Least(a, b) == IF a < b THEN a ELSE b

OnFile == {"close", "read", "write", "lseek"}
OnDir  == {"dclose", "dread"}
Ops    == {"hello", "init", "exit", "open", "dopen", "change", "rename", "chstat", "getstat"} \cup OnFile \cup OnDir

(* w: the flags hold PSP_O_WRONLY, PSP_O_CREAT or PSP_O_TRUNC; for init, the  *)
(* response to the challenge is right; for rename, the old path is absolute   *)
(* and the new one is not.                                                    *)
Request == [op : Ops \cup {"none", "data"}, h : Nat, path : Paths, w : BOOLEAN, len : 0 .. Limit]
Req(op) == [op |-> op, h |-> 0, path |-> NoPath, w |-> FALSE, len |-> 0]
NoCall  == Req("none")

(* i: the slot looked at; res: the result so far; left: what is still to be   *)
(* sent or received; again: one more reply follows.                           *)
Steps  == Ops \cup {"cmd", "path", "stat", "store", "opened", "reset", "scandir", "closing",
                    "send", "recv", "reply", "closed"}
Thread == [at : Steps, req : Request, i : Nat, res : Int, left : Nat, again : BOOLEAN]
Ready  == [at |-> "cmd", req |-> NoCall, i |-> 0, res |-> 0, left |-> 0, again |-> FALSE]
Closed == [Ready EXCEPT !.at = "closed"]

(* What a reply starts with; "data" is a unit of what a read sends after it.  *)
Message == [op : Ops \cup {"data"}, n : Int]

(* What the PSP knows of a directory it opened.                               *)
Listing == [path : Dirs, got : Nat]

TypeOK ==
    /\ {rdonly, g_login, written, crossed, logged} \subseteq BOOLEAN
    /\ files_table \in [FileSlots -> [name : Paths, fd : Fds \cup {-1, 0, 65535}]]
    /\ dirs_table \in [DirSlots -> [entries : Paths, pos : 0 .. MaxEntries, nentries : 0 .. MaxEntries, opened : BOOLEAN]]
    /\ thread \in [Threads -> Thread]
    /\ kernel \in [Fds -> Files \cup {NoPath}]
    /\ to_pc \in [Threads -> Seq(Request)]
    /\ to_psp \in [Threads -> Seq(Message)]
    /\ call \in [Threads -> Request]
    /\ handles \in [FileSlots -> Seq(Files \cup Dirs)]
    /\ dhandles \in [DirSlots -> Seq(Listing)]
    /\ calls \in 0 .. MaxCalls
    /\ faults \in 0 .. MaxFaults

(* The child has just been forked: its tables are zero.                       *)
FreeDir == [entries |-> NoPath, pos |-> 0, nentries |-> 0, opened |-> FALSE]

Init ==
    /\ rdonly \in BOOLEAN
    /\ g_login \in BOOLEAN
    /\ files_table = [i \in FileSlots |-> [name |-> NoPath, fd |-> 0]]
    /\ dirs_table = [i \in DirSlots |-> FreeDir]
    /\ thread = [t \in Threads |-> Ready]
    /\ kernel = [f \in Fds |-> NoPath]
    /\ written = FALSE
    /\ crossed = FALSE
    /\ to_pc = [t \in Threads |-> <<>>]
    /\ to_psp = [t \in Threads |-> <<>>]
    /\ call = [t \in Threads |-> NoCall]
    /\ logged = FALSE
    /\ handles = [i \in FileSlots |-> <<>>]
    /\ dhandles = [i \in DirSlots |-> <<>>]
    /\ calls = 0
    /\ faults = 0

----------------------------------------------------------------------------
(* The PSP                                                                    *)

Calling(ops) == \E u \in Threads : call[u].op \in ops
Using(ops, h) == \E u \in Threads : call[u].op \in ops /\ call[u].h = h

OpenReq(path, w) == [Req("open") EXCEPT !.path = path, !.w = w]
DataReq(op, h, n) == [Req(op) EXCEPT !.h = h, !.len = n]

Requests ==
    {Req(op) : op \in {"hello", "exit", "change", "chstat", "getstat"}}
    \cup {[Req(op) EXCEPT !.w = b] : op \in {"init", "rename"}, b \in BOOLEAN}
    \cup {OpenReq(p, w) : p \in Files \cup Dirs, w \in BOOLEAN}
    \cup {[Req("dopen") EXCEPT !.path = p] : p \in Dirs}
    \cup {[Req(op) EXCEPT !.h = h] : op \in {"close", "lseek"}, h \in FileSlots}
    \cup {DataReq(op, h, n) : op \in {"read", "write"}, h \in FileSlots, n \in 1 .. Limit}
    \cup {[Req(op) EXCEPT !.h = h] : op \in OnDir, h \in DirSlots}

Legal(r) ==
    /\ logged \/ r.op \in {"hello", "init"}
    /\ r.op = "init" => ~logged /\ ~Calling(Ops)
    /\ r.op \in OnFile => handles[r.h] # <<>> /\ ~Using(OnFile \ {"close"}, r.h)
    /\ r.op \in OnDir => dhandles[r.h] # <<>> /\ ~Using(OnDir \ {"dclose"}, r.h)

(* wifiIo*: a request and, for a write, its data.  A handle is gone when it   *)
(* is closed.                                                                 *)
Call(t, r) ==
    /\ calls < MaxCalls
    /\ call[t] = NoCall
    /\ thread[t].at # "closed"
    /\ Legal(r)
    /\ call' = [call EXCEPT ![t] = r]
    /\ to_pc' = [to_pc EXCEPT ![t] = @ \o <<r>> \o [i \in 1 .. IF r.op = "write" THEN r.len ELSE 0 |-> Req("data")]]
    /\ handles' = IF r.op = "close" THEN [handles EXCEPT ![r.h] = Tail(@)] ELSE handles
    /\ dhandles' = IF r.op = "dclose" THEN [dhandles EXCEPT ![r.h] = Tail(@)] ELSE dhandles
    /\ calls' = calls + 1
    /\ UNCHANGED <<server, to_psp, logged, faults>>

Reply(t) == Head(to_psp[t])
ReplyLen(t) == IF call[t].op = "read" /\ Reply(t).n > 0 THEN 1 + Reply(t).n ELSE 1

(* The reply, with the data of a read, ends the call.                         *)
Receive(t) ==
    /\ call[t] # NoCall
    /\ to_psp[t] # <<>>
    /\ Len(to_psp[t]) >= ReplyLen(t)
    /\ LET op == call[t].op
           n  == Reply(t).n
       IN  /\ logged' = (logged \/ (op = "init" /\ n = 0))
           /\ handles' = IF op = "open" /\ n \in FileSlots
                         THEN [handles EXCEPT ![n] = Append(@, call[t].path)] ELSE handles
           /\ dhandles' = IF op = "dopen" /\ n \in DirSlots
                          THEN [dhandles EXCEPT ![n] = Append(@, [path |-> call[t].path, got |-> 0])]
                          ELSE IF op = "dread" /\ n > 0
                          THEN [dhandles EXCEPT ![call[t].h] = <<[Head(@) EXCEPT !.got = n]>> \o Tail(@)]
                          ELSE dhandles
    /\ to_psp' = [to_psp EXCEPT ![t] = SubSeq(@, ReplyLen(t) + 1, Len(@))]
    /\ call' = [call EXCEPT ![t] = NoCall]
    /\ UNCHANGED <<server, to_pc, calls, faults>>

(* The connection was closed before the whole reply.                          *)
Lose(t) ==
    /\ call[t] # NoCall
    /\ thread[t].at = "closed"
    /\ to_psp[t] # <<>> => Len(to_psp[t]) < ReplyLen(t)
    /\ call' = [call EXCEPT ![t] = NoCall]
    /\ UNCHANGED <<server, to_pc, to_psp, logged, handles, dhandles, calls, faults>>

----------------------------------------------------------------------------
(* The server: a step of a thread between two looks at the tables             *)

At(t, at) == thread[t].at = at
Goto(t, at) == thread' = [thread EXCEPT ![t].at = at]
Answer(t, v) == thread' = [thread EXCEPT ![t].at = "reply", ![t].res = v]
Arg(t) == thread[t].req
Wire == <<to_pc, to_psp>>
Rest == <<Wire, psp, faults, crossed>>
Modify(done) == written' = (written \/ done)

(* process_cmd: without a login anything else than HELLO and IOINIT is        *)
(* dropped.                                                                   *)
process_cmd(t) ==
    /\ At(t, "cmd")
    /\ to_pc[t] # <<>>
    /\ LET r == Head(to_pc[t])
       IN  thread' = [thread EXCEPT ![t] = [Ready EXCEPT
               !.req = r, !.at = IF g_login \/ r.op \in {"hello", "init"} THEN r.op ELSE "cmd"]]
    /\ to_pc' = [to_pc EXCEPT ![t] = Tail(@)]
    /\ UNCHANGED <<rdonly, g_login, tables, kernel, written, to_psp, psp, faults, crossed>>

(* process_ioinit: once somebody has logged in the response does not matter.  *)
process_ioinit(t) ==
    /\ At(t, "init")
    /\ IF ~g_login /\ ~Arg(t).w
       THEN Answer(t, -2) /\ UNCHANGED <<g_login, tables>>
       ELSE /\ g_login' = TRUE
            /\ files_table' = [i \in FileSlots |-> [name |-> NoPath, fd |-> -1]]
            /\ dirs_table' = [i \in DirSlots |-> FreeDir]
            /\ Answer(t, 0)
    /\ UNCHANGED <<rdonly, kernel, written, Rest>>

(* process_ioopen: one look at the table at a time.                           *)
FreeFile(i) == files_table[i].fd < 0

(* A thread is between finding file slot i and its last look at it.           *)
Filling(t, i) == thread[t].at \in {"path", "stat", "store", "opened"} /\ thread[t].i = i

FindFile(t) ==
    /\ At(t, "open")
    /\ LET i == thread[t].i
       IN  \/ /\ i = MaxFiles
              /\ Answer(t, -1)
              /\ UNCHANGED <<files_table, crossed>>
           \/ /\ i < MaxFiles /\ ~FreeFile(i)
              /\ thread' = [thread EXCEPT ![t].i = i + 1]
              /\ UNCHANGED <<files_table, crossed>>
           \/ /\ i < MaxFiles /\ FreeFile(i)
              /\ files_table' = [files_table EXCEPT ![i].name = Arg(t).path]
              /\ crossed' = (crossed \/ \E u \in Threads \ {t} : Filling(u, i))
              /\ Goto(t, "path")
    /\ UNCHANGED <<rdonly, g_login, dirs_table, kernel, written, Wire, psp, faults>>

(* MAKE_PATH takes the name from the table.                                   *)
MakePath(t) ==
    /\ At(t, "path")
    /\ thread' = [thread EXCEPT ![t].at = "stat", ![t].req.path = files_table[thread[t].i].name]
    /\ UNCHANGED <<rdonly, g_login, tables, kernel, written, Rest>>

(* Mutant: -r is not looked at.                                               *)
RefusedNever(r) == FALSE

Refused(r) == rdonly /\ r.w

Store(i, fd) == files_table' = [files_table EXCEPT ![i].fd = fd]

(* What open returned, before it is in the table.                             *)
Got(t, fd) == thread' = [thread EXCEPT ![t].at = "store", ![t].res = fd]

(* A directory leaves the slot as it is; -r opens nothing that could be       *)
(* changed; open fails or takes the lowest descriptor that is free.           *)
OpenFile(t) ==
    /\ At(t, "stat")
    /\ LET i    == thread[t].i
           path == Arg(t).path
       IN  \/ /\ path \in Dirs
              /\ Goto(t, "opened")
              /\ UNCHANGED <<files_table, kernel, written>>
           \/ /\ path \in Files /\ Refused(Arg(t))
              /\ Store(i, 65535)
              /\ Goto(t, "opened")
              /\ UNCHANGED <<kernel, written>>
           \/ /\ path \in Files /\ ~Refused(Arg(t))
              /\ Got(t, -1)
              /\ UNCHANGED <<files_table, kernel, written>>
           \/ /\ path \in Files /\ ~Refused(Arg(t))
              /\ \E fd \in Fds : /\ kernel[fd] = NoPath
                                 /\ \A e \in Fds : kernel[e] = NoPath => fd <= e
                                 /\ kernel' = [kernel EXCEPT ![fd] = path]
                                 /\ Got(t, fd)
              /\ Modify(Arg(t).w)
              /\ UNCHANGED files_table
    /\ UNCHANGED <<rdonly, g_login, dirs_table, Rest>>

StoreFile(t) ==
    /\ At(t, "store")
    /\ Store(thread[t].i, thread[t].res)
    /\ Goto(t, "opened")
    /\ UNCHANGED <<rdonly, g_login, dirs_table, kernel, written, Rest>>

(* The answer looks at the slot again.                                        *)
Opened(t) ==
    /\ At(t, "opened")
    /\ LET i == thread[t].i
       IN  Answer(t, IF FreeFile(i) THEN files_table[i].fd ELSE i)
    /\ UNCHANGED <<rdonly, g_login, tables, kernel, written, Rest>>

Fd(t) == files_table[Arg(t).h].fd
InFiles(h) == h \in FileSlots
IsOpen(fd) == fd \in Fds /\ kernel[fd] # NoPath

(* Under -r, 65535 is no descriptor and is not given to close.  A descriptor  *)
(* is closed before the slot lets it go.                                      *)
process_ioclose(t) ==
    /\ At(t, "close")
    /\ LET h == Arg(t).h
       IN  \/ /\ InFiles(h) /\ rdonly /\ Fd(t) = 65535
              /\ Store(h, -1)
              /\ Answer(t, 0)
              /\ UNCHANGED kernel
           \/ /\ InFiles(h) /\ ~(rdonly /\ Fd(t) = 65535) /\ IsOpen(Fd(t))
              /\ kernel' = [kernel EXCEPT ![Fd(t)] = NoPath]
              /\ Goto(t, "reset")
              /\ UNCHANGED files_table
           \/ /\ InFiles(h) => ~(rdonly /\ Fd(t) = 65535) /\ ~IsOpen(Fd(t))
              /\ Answer(t, -1)
              /\ UNCHANGED <<files_table, kernel>>
    /\ UNCHANGED <<rdonly, g_login, dirs_table, written, Rest>>

(* Mutant: the slot keeps a descriptor that is closed.                        *)
ResetFileNever(t) ==
    /\ At(t, "reset")
    /\ Answer(t, 0)
    /\ UNCHANGED <<rdonly, g_login, tables, kernel, written, Rest>>

ResetFile(t) ==
    /\ At(t, "reset")
    /\ Store(Arg(t).h, -1)
    /\ Answer(t, 0)
    /\ UNCHANGED <<rdonly, g_login, dirs_table, kernel, written, Rest>>

(* read and write return -1 (no memory for the buffer, or an error) or some   *)
(* of what was asked for.                                                     *)
Transferred(fd, n) == {-1} \cup (IF IsOpen(fd) THEN 0 .. n ELSE {})

(* Mutant: a read that is too long is refused without a reply.                *)
process_ioreadSilent(t) ==
    /\ At(t, "read")
    /\ IF Arg(t).len >= Limit THEN thread' = [thread EXCEPT ![t] = Ready]
       ELSE \E n \in Transferred(Fd(t), Arg(t).len) : Answer(t, n)
    /\ UNCHANGED <<rdonly, g_login, tables, kernel, written, Rest>>

process_ioread(t) ==
    /\ At(t, "read")
    /\ \E n \in IF Arg(t).len >= Limit THEN {-1}
                ELSE IF Arg(t).len <= 0 THEN {0}
                ELSE IF ~InFiles(Arg(t).h) \/ FreeFile(Arg(t).h) THEN {-1}
                ELSE Transferred(Fd(t), Arg(t).len) : Answer(t, n)
    /\ UNCHANGED <<rdonly, g_login, tables, kernel, written, Rest>>

(* The loop that sends what was read, in blocks which may be sent partly.     *)
ReadSend(t) ==
    /\ At(t, "send")
    /\ \E x \in 1 .. Least(blk_size, thread[t].left) :
           /\ to_psp' = [to_psp EXCEPT ![t] = @ \o [k \in 1 .. x |-> [op |-> "data", n |-> 0]]]
           /\ thread' = [thread EXCEPT ![t] = IF x = @.left THEN Ready ELSE [@ EXCEPT !.left = thread[t].left - x]]
    /\ UNCHANGED <<rdonly, g_login, tables, kernel, written, to_pc, psp, faults, crossed>>

(* Mutant: what cannot be written is refused at once.                         *)
process_iowriteUndrained(t) ==
    /\ At(t, "write")
    /\ IF Arg(t).len >= Limit \/ ~InFiles(Arg(t).h) \/ FreeFile(Arg(t).h) THEN Answer(t, -1)
       ELSE thread' = [thread EXCEPT ![t].at = "recv", ![t].left = Arg(t).len, ![t].res = 0]
    /\ UNCHANGED <<rdonly, g_login, tables, kernel, written, Rest>>

(* process_iowrite receives the data also when it has no use for it.          *)
process_iowrite(t) ==
    /\ At(t, "write")
    /\ LET error == \/ Arg(t).len >= Limit
                    \/ ~InFiles(Arg(t).h)
                    \/ FreeFile(Arg(t).h)
       IN  IF Arg(t).len <= 0 THEN Answer(t, 0)
           ELSE thread' = [thread EXCEPT ![t].at = "recv", ![t].left = Arg(t).len,
                                         ![t].res = IF error THEN -1 ELSE 0]
    /\ UNCHANGED <<rdonly, g_login, tables, kernel, written, Rest>>

WriteRecv(t) ==
    /\ At(t, "recv")
    /\ \E x \in 1 .. Least(blk_size, thread[t].left) :
           /\ x <= Len(to_pc[t])
           /\ to_pc' = [to_pc EXCEPT ![t] = SubSeq(@, x + 1, Len(@))]
           /\ thread' = [thread EXCEPT ![t].left = @ - x]
    /\ UNCHANGED <<rdonly, g_login, tables, kernel, written, to_psp, psp, faults, crossed>>

WriteFile(t) ==
    /\ At(t, "recv")
    /\ thread[t].left = 0
    /\ \E n \in IF thread[t].res < 0 THEN {-1}
                ELSE IF rdonly THEN {Arg(t).len}
                ELSE Transferred(Fd(t), Arg(t).len) :
           /\ Answer(t, n)
           /\ Modify(~rdonly /\ n > 0)
    /\ UNCHANGED <<rdonly, g_login, tables, kernel, Rest>>

process_iolseek(t) ==
    /\ At(t, "lseek")
    /\ \E n \in IF ~InFiles(Arg(t).h) \/ FreeFile(Arg(t).h) \/ ~IsOpen(Fd(t)) THEN {-1} ELSE {-1, 0} :
           Answer(t, n)
    /\ UNCHANGED <<rdonly, g_login, tables, kernel, written, Rest>>

(* process_iodopen.  A directory without entries, or without memory for them, *)
(* leaves the slot to be found again.                                         *)
FreeEntry(i) == dirs_table[i].entries = NoPath

(* A thread is between finding directory slot i and its entries, or between   *)
(* freeing its entries and resetting opened.                                  *)
Busy(t, i) == \/ At(t, "scandir") /\ thread[t].i = i
              \/ At(t, "closing") /\ Arg(t).h = i

FindDir(t) ==
    /\ At(t, "dopen")
    /\ LET i == thread[t].i
       IN  \/ i = MaxDirs /\ Answer(t, -1) /\ UNCHANGED crossed
           \/ i < MaxDirs /\ ~FreeEntry(i) /\ thread' = [thread EXCEPT ![t].i = i + 1] /\ UNCHANGED crossed
           \/ /\ i < MaxDirs /\ FreeEntry(i)
              /\ Goto(t, "scandir")
              /\ crossed' = (crossed \/ \E u \in Threads \ {t} : Busy(u, i))
    /\ UNCHANGED <<rdonly, g_login, tables, kernel, written, Wire, psp, faults>>

(* n entries, "." and ".." among them, of which idx could be looked at.       *)
OpenDir(t) ==
    /\ At(t, "scandir")
    /\ LET i == thread[t].i
       IN  \/ Answer(t, -1) /\ UNCHANGED dirs_table
           \/ /\ dirs_table' = [dirs_table EXCEPT ![i].opened = TRUE]
              /\ Answer(t, -1)
           \/ \E idx \in 0 .. MaxEntries :
                  /\ dirs_table' = [dirs_table EXCEPT ![i] =
                         [entries |-> Arg(t).path, pos |-> 0, nentries |-> idx, opened |-> TRUE]]
                  /\ Answer(t, i)
    /\ UNCHANGED <<rdonly, g_login, files_table, kernel, written, Rest>>

InDirs(h) == h \in DirSlots

Exhausted(h) == FreeEntry(h) \/ dirs_table[h].pos >= dirs_table[h].nentries

Moved(h) == IF Exhausted(h) THEN dirs_table[h].pos ELSE dirs_table[h].pos + 1

(* process_iodclose frees the entries before it resets opened.                *)
process_iodclose(t) ==
    /\ At(t, "dclose")
    /\ LET h == Arg(t).h
       IN  IF ~InDirs(h) \/ ~dirs_table[h].opened
           THEN Answer(t, -1) /\ UNCHANGED dirs_table
           ELSE /\ dirs_table' = [dirs_table EXCEPT ![h].entries = NoPath]
                /\ thread' = [thread EXCEPT ![t].again = FALSE, ![t].at = "closing"]
    /\ UNCHANGED <<rdonly, g_login, files_table, kernel, written, Rest>>

CloseDir(t) ==
    /\ At(t, "closing")
    /\ dirs_table' = [dirs_table EXCEPT ![Arg(t).h].opened = FALSE]
    /\ Answer(t, 0)
    /\ UNCHANGED <<rdonly, g_login, files_table, kernel, written, Rest>>

process_iodread(t) ==
    /\ At(t, "dread")
    /\ LET h == Arg(t).h
       IN  IF ~InDirs(h) \/ ~dirs_table[h].opened
           THEN Answer(t, -1) /\ UNCHANGED dirs_table
           ELSE /\ Answer(t, IF Exhausted(h) THEN 0 ELSE dirs_table[h].pos + 1)
                /\ dirs_table' = [dirs_table EXCEPT ![h].pos = Moved(h)]
    /\ UNCHANGED <<rdonly, g_login, files_table, kernel, written, Rest>>

(* process_hello, process_iogetstat.                                          *)
Query(t) ==
    /\ thread[t].at \in {"hello", "getstat"}
    /\ \E v \in IF At(t, "hello") THEN {0} ELSE {-1, 0} : Answer(t, v)
    /\ UNCHANGED <<rdonly, g_login, tables, kernel, written, Rest>>

(* process_ioremove, process_iomkdir, process_iormdir.                        *)
Change(t) ==
    /\ At(t, "change")
    /\ \E v \in IF rdonly THEN {0} ELSE {-1, 0} :
           Answer(t, v) /\ Modify(~rdonly /\ v = 0)
    /\ UNCHANGED <<rdonly, g_login, tables, kernel, Rest>>

(* Any other pair of paths renames the old path to itself.                    *)
process_iorename(t) ==
    /\ At(t, "rename")
    /\ \E v \in IF rdonly THEN {0} ELSE {-1, 0} :
           Answer(t, v) /\ Modify(~rdonly /\ v = 0 /\ Arg(t).w)
    /\ UNCHANGED <<rdonly, g_login, tables, kernel, Rest>>

(* When chmod fails, -1 and then 0 are sent.                                  *)
process_iochstat(t) ==
    /\ At(t, "chstat")
    /\ \E ok \in {TRUE, rdonly \/ ~ChmodFails} :
           /\ thread' = [thread EXCEPT ![t].at = "reply", ![t].res = IF ok THEN 0 ELSE -1, ![t].again = ~ok]
           /\ Modify(~rdonly /\ ok)
    /\ UNCHANGED <<rdonly, g_login, tables, kernel, Rest>>

(* SEND_RETURN and SEND_RESULT.                                               *)
SendReturn(t) ==
    /\ At(t, "reply")
    /\ to_psp' = [to_psp EXCEPT ![t] = Append(@, [op |-> Arg(t).op, n |-> thread[t].res])]
    /\ thread' = [thread EXCEPT ![t] =
           IF @.again THEN [@ EXCEPT !.again = FALSE, !.res = 0]
           ELSE IF Arg(t).op = "read" /\ @.res > 0 THEN [@ EXCEPT !.at = "send", !.left = thread[t].res]
           ELSE Ready]
    /\ UNCHANGED <<rdonly, g_login, tables, kernel, written, to_pc, psp, faults, crossed>>

(* process_thread closes the connection; main joined the last thread, and     *)
(* exit(0) ends the others wherever they are.                                 *)
End(ended) ==
    /\ thread' = [u \in Threads |-> IF u \in ended \/ Last \in ended THEN Closed ELSE thread[u]]
    /\ kernel' = IF Last \in ended THEN [f \in Fds |-> NoPath] ELSE kernel
    /\ UNCHANGED <<rdonly, g_login, tables, written, crossed, Wire, psp>>

process_ioexit(t) == At(t, "exit") /\ End({t}) /\ UNCHANGED faults

(* A send or a receive that fails, or moves a part of what has no loop, and   *)
(* no memory for the data of a write.  A send to a connection the PSP has     *)
(* reset is a SIGPIPE, which nobody handles.                                  *)
SocketFails(t) ==
    /\ faults < MaxFaults
    /\ \/ thread[t].at \in {"cmd", "reply", "send", "recv"} /\ End({t})
       \/ thread[t].at \in {"reply", "send"} /\ End(Threads)
    /\ faults' = faults + 1

process_thread(t) ==
    \/ process_cmd(t) \/ SendReturn(t) \/ process_ioinit(t) \/ process_ioexit(t)
    \/ FindFile(t) \/ MakePath(t) \/ OpenFile(t) \/ StoreFile(t) \/ Opened(t)
    \/ process_ioclose(t) \/ ResetFile(t)
    \/ process_ioread(t) \/ ReadSend(t) \/ process_iowrite(t) \/ WriteRecv(t) \/ WriteFile(t)
    \/ process_iolseek(t) \/ FindDir(t) \/ OpenDir(t) \/ process_iodclose(t) \/ CloseDir(t)
    \/ process_iodread(t) \/ Query(t) \/ Change(t)
    \/ process_iorename(t) \/ process_iochstat(t)

Next == \E t \in Threads :
    \/ \E r \in Requests : Call(t, r)
    \/ Receive(t) \/ Lose(t)
    \/ process_thread(t)
    \/ SocketFails(t)

Spec == Init /\ [][Next]_vars

(* Threads of the PC and of the PSP run; nobody has to call or to fail.       *)
FairSpec == Spec /\ \A t \in Threads : WF_vars(process_thread(t)) /\ WF_vars(Receive(t) \/ Lose(t))

----------------------------------------------------------------------------
(* Properties                                                                 *)

Running == thread[Last].at # "closed"

(* A slot that is not going to be reset: its descriptor is not closed.        *)
Settled(i) == \A u \in Threads : ~(At(u, "reset") /\ Arg(u).h = i)

(* As long as no two threads have met in a slot, a handle the PSP holds is    *)
(* one file's only, and its slot has a descriptor of its own that is open on  *)
(* the file that was asked for (or stands for it under -r), whatever is       *)
(* opened and closed beside it: process_ioopen, process_ioclose.              *)
HandlesLive == Running /\ ~crossed =>
    \A h \in FileSlots : handles[h] # <<>> =>
        /\ Len(handles[h]) = 1
        /\ Settled(h)
        /\ \/ rdonly /\ files_table[h].fd = 65535
           \/ /\ files_table[h].fd \in Fds
              /\ kernel[files_table[h].fd] = handles[h][1]
              /\ \A k \in FileSlots \ {h} : Settled(k) => files_table[k].fd # files_table[h].fd

(* Likewise a directory handle the PSP holds is one directory's only, its     *)
(* slot is opened on it, and its position is the entry the PSP was given      *)
(* last, unless a call is under way or its reply was lost: process_iodopen,   *)
(* process_iodclose, process_iodread.                                         *)
DirsLive == Running /\ ~crossed =>
    \A h \in DirSlots : dhandles[h] # <<>> =>
        /\ Len(dhandles[h]) = 1
        /\ dirs_table[h].opened
        /\ dirs_table[h].entries = dhandles[h][1].path
        /\ dirs_table[h].pos >= dhandles[h][1].got
        /\ faults = 0 /\ ~Using({"dread"}, h) => dirs_table[h].pos = dhandles[h][1].got

(* Likewise no descriptor is open that no slot remembers and no thread has    *)
(* just been given: process_ioopen.                                           *)
NoLeak == ~crossed => \A fd \in Fds : kernel[fd] # NoPath =>
    \/ \E i \in FileSlots : files_table[i].fd = fd
    \/ \E t \in Threads : At(t, "store") /\ thread[t].res = fd

(* The tables of open files and directories agree with the PC's kernel and    *)
(* with what the PSP holds, until two threads have met in a slot.             *)
TablesRight == TypeOK /\ HandlesLive /\ DirsLive /\ NoLeak

(* A connection on which the PSP waits for nothing is empty in both           *)
(* directions, and what is under way answers the call the PSP waits for.      *)
InStep == \A t \in Threads : thread[t].at # "closed" =>
    /\ call[t] = NoCall => At(t, "cmd") /\ to_pc[t] = <<>> /\ to_psp[t] = <<>>
    /\ call[t] # NoCall /\ to_psp[t] # <<>> => Reply(t).op = call[t].op
    /\ At(t, "cmd") /\ to_pc[t] # <<>> => Head(to_pc[t]) = call[t]

(* Under -r nothing below rootdir is created, changed or removed.             *)
ReadOnly == rdonly => ~written

(* Every call of the PSP is answered, or ends with its connection.            *)
CallReturns == \A t \in Threads : (call[t] # NoCall) ~> (call[t] = NoCall)
==============================================================================
