-------------------------------- MODULE Ftpd --------------------------------
(* cfe_ftpd, the FTP server on the PSP: ftpdLoop accepts connections and      *)
(* starts a thread for each, which reads commands and dispatches them, and    *)
(* mftpExitHandler ends everything when CIRCLE is pressed.  The exit handler  *)
(* and the loop (priority 8) run ahead of the sessions (0x18), which take     *)
(* turns where they block.  The clients, the socket layer and the file system *)
(* are external.  Texts are left out: a command is its name and its argument, *)
(* a directory the sequence of its names, a file the number of units in it.   *)
EXTENDS Integers, Sequences, SequencesExt, FiniteSetsExt

CONSTANTS
    MaxSession,   \* bound: connections accepted
    MaxCommands,  \* bound: commands of all connections
    Commands,     \* the commands the clients send
    Names,        \* names of files, in the arguments of the commands
    NewNames,     \* names of files, in the argument of RNTO
    Walks,        \* arguments of CWD: sequences of steps, the first "/" or not
    MaxNumber,    \* bound: socket numbers
    Chunks,       \* what a recv can return, in units
    WriteBuffer,  \* TRANSFER_WRITE_BUFFER_SIZE, in units
    MaxFile       \* bound: units of a file a client sends

Session == 1 .. MaxSession

ASSUME FtpdAssumption ==
    /\ {MaxSession, MaxCommands, MaxNumber, WriteBuffer, MaxFile} \subseteq Nat \ {0}
    /\ Chunks \subseteq 1 .. WriteBuffer
    /\ \A w \in Walks : w \in Seq(Range(w)) /\ \A i \in 2 .. Len(w) : w[i] # "/"

VARIABLES
    con,      \* the MftpConnection of a session and where its thread is
    sock,     \* the socket behind a number
    list,     \* mftp_thread_head: the sessions that registered
    mem,      \* memid, memid2 and the blocks that are allocated
    pasvPort,
    files,    \* what the memory stick holds by path: units of a file or Folder
    srv       \* ftpdLoop and mftpExitHandler; overlap, late: history

ftpdVars == <<con, sock, list, mem, pasvPort, files, srv>>

Free == [who |-> -1, port |-> 0, waiting |-> 0]
Owned(s) == [who |-> s, port |-> 0, waiting |-> 0]
ListensOn(s, p) == [who |-> s, port |-> p, waiting |-> 0]

NoPath == <<>>

Numbers == 1 .. MaxNumber

(* told: the port PASV told the client, while it has not used it; got, buffer *)
(* and fd: a STOR under way.                                                  *)
NewCon ==
    [at |-> "none", op |-> "none", cmd |-> 0, data |-> 0, pasv |-> 0, passive |-> FALSE, dir |-> <<>>,
     from |-> NoPath, arg |-> NoPath, told |-> 0, got |-> 0, buffer |-> 0, fd |-> FALSE]

(* ftpdLoop listens on port 21.                                               *)
FtpdInit ==
    /\ con = [s \in Session |-> NewCon]
    /\ sock = [n \in Numbers |-> IF n = 1 THEN ListensOn(0, 21) ELSE Free]
    /\ list = {}
    /\ mem = [memid |-> 0, memid2 |-> 0, nodes |-> {}, blocks |-> {}]
    /\ pasvPort = 59735
    /\ files = [p \in {} |-> 0]
    /\ srv = [loop |-> "accept", listen |-> 1, exit |-> "wait", count |-> 0, commands |-> 0, overlap |-> FALSE, late |-> {}]

Alive(s) == con[s].at \notin {"none", "dead", "killed"}

Close(k, n) == IF n \in Numbers THEN [k EXCEPT ![n] = Free] ELSE k

(* The socket layer hands out the lowest number that is free; MaxNumber is    *)
(* high enough for every step that takes one.                                 *)
FreeNumbers == {n \in Numbers : sock[n].who = -1}
NewNumber == Min(FreeNumbers)

------------------------------------------------------------------------------
(* ftpd.c                                                                     *)

(* A round of ftpdLoop: the socket and the block of a new connection.         *)
AcceptClient ==
    /\ srv.loop = "accept"
    /\ srv.count < MaxSession
    /\ sock[srv.listen].port = 21 /\ FreeNumbers # {}
    /\ LET s == srv.count + 1
       IN  /\ sock' = [sock EXCEPT ![NewNumber] = Owned(s)]
           /\ con' = [con EXCEPT ![s] = [@ EXCEPT !.at = "started", !.cmd = NewNumber]]
           /\ mem' = [mem EXCEPT !.memid2 = s, !.blocks = @ \cup {s}]
           /\ srv' = [srv EXCEPT !.count = s, !.overlap = @ \/ \E t \in Session : Alive(t)]
    /\ UNCHANGED <<list, pasvPort, files>>

(* The listening socket has been closed: done closes its number once more.    *)
AcceptFails ==
    /\ srv.loop = "accept"
    /\ sock[srv.listen].port # 21
    /\ sock' = Close(sock, srv.listen)
    /\ srv' = [srv EXCEPT !.loop = "done"]
    /\ UNCHANGED <<con, list, mem, pasvPort, files>>

mftpAddThread(s) == list \cup {s}

(* Mutant: sockData and sockPASV keep what the memory held.                   *)
StartSessionDirty(s) ==
    /\ con[s].at = "started"
    /\ list' = mftpAddThread(s)
    /\ mem' = [mem EXCEPT !.memid = s, !.nodes = @ \cup {s}]
    /\ \E n \in Numbers :
          con' = [con EXCEPT ![s] = [NewCon EXCEPT !.at = "recv", !.cmd = con[s].cmd, !.data = n]]
    /\ UNCHANGED <<sock, pasvPort, files, srv>>

(* Head of mftpClientHandler.                                                 *)
StartSession(s) ==
    /\ con[s].at = "started"
    /\ list' = mftpAddThread(s)
    /\ mem' = [mem EXCEPT !.memid = s, !.nodes = @ \cup {s}]
    /\ con' = [con EXCEPT ![s] = [NewCon EXCEPT !.at = "recv", !.cmd = con[s].cmd]]
    /\ UNCHANGED <<sock, pasvPort, files, srv>>

(* mftpDelThread frees the node allocated last, whichever it unlinks.         *)
Unlinked(m, s) == IF s \in list THEN [m EXCEPT !.nodes = @ \ {m.memid}] ELSE m

(* Mutant: the block of the connection goes before the last command is done.  *)
EndSessionEarly(s) ==
    /\ con[s].at = "recv"
    /\ sock' = sock
    /\ mem' = Unlinked([mem EXCEPT !.blocks = @ \ {mem.memid2}], s)
    /\ list' = list \ {s}
    /\ con' = [con EXCEPT ![s].at = "ending"]
    /\ UNCHANGED <<pasvPort, files, srv>>

(* Tail of mftpClientHandler: it frees the connection allocated last.         *)
EndSession(s) ==
    /\ con[s].at = "ending"
    /\ sock' = Close(sock, con[s].cmd)
    /\ mem' = Unlinked([mem EXCEPT !.blocks = @ \ {mem.memid2}], s)
    /\ list' = list \ {s}
    /\ con' = [con EXCEPT ![s] = [NewCon EXCEPT !.at = "dead"]]
    /\ UNCHANGED <<pasvPort, files, srv>>

(* Mutant: only the newest thread is terminated, the next node being gone.    *)
ExitNewest ==
    /\ srv.exit = "wait"
    /\ sock' = Close(sock, srv.listen)
    /\ con' = [s \in Session |-> IF list # {} /\ s = mem.memid THEN [NewCon EXCEPT !.at = "killed"] ELSE con[s]]
    /\ list' = {}
    /\ mem' = [mem EXCEPT !.nodes = @ \ {mem.memid}, !.blocks = @ \ {mem.memid2}]
    /\ srv' = [srv EXCEPT !.exit = "done", !.late = {s \in Session : Alive(s)} \ list]
    /\ UNCHANGED <<pasvPort, files>>

(* CIRCLE: the listening socket is closed, every listed thread is terminated  *)
(* where it is; a session that has not registered yet is not on the list.     *)
mftpExitHandler ==
    /\ srv.exit = "wait"
    /\ sock' = Close(sock, srv.listen)
    /\ con' = [s \in Session |-> IF s \in list THEN [NewCon EXCEPT !.at = "killed"] ELSE con[s]]
    /\ list' = {}
    /\ mem' = [mem EXCEPT !.nodes = @ \ {mem.memid}, !.blocks = @ \ {mem.memid2}]
    /\ srv' = [srv EXCEPT !.exit = "done", !.late = {s \in Session : Alive(s)} \ list]
    /\ UNCHANGED <<pasvPort, files>>

------------------------------------------------------------------------------
(* ftp.c: commands that need no data connection                               *)

FilePath(s, name) == con[s].dir \o <<name>>

Folder == -2
Content(p) == IF p \in DOMAIN files THEN files[p] ELSE -1
IsFile(p) == Content(p) >= 0
Without(fs, p) == [q \in DOMAIN fs \ {p} |-> fs[q]]
With(fs, p, n) == [q \in DOMAIN fs \cup {p} |-> IF q = p THEN n ELSE fs[q]]

(* mftpCreateDirIfNeeded makes the folders a path lies in, unless one of them *)
(* is the name of a file.                                                     *)
Parents(p) == {SubSeq(p, 1, k) : k \in 1 .. Len(p) - 1}
Blocked(p) == \E q \in Parents(p) : IsFile(q)
mftpCreateDirIfNeeded(p) == [q \in DOMAIN files \cup Parents(p) |-> IF q \in DOMAIN files THEN files[q] ELSE Folder]

(* mftpDispatch of a line: the handler's result and renameFrom, which every   *)
(* command but RNFR takes back.                                               *)
Dispatched(r, from) == [r EXCEPT !.from = from]

(* Mutant: ".." leaves the last name.                                         *)
WalkStepFlat(d, step) ==
    CASE step = "/"           -> [d EXCEPT !.dir = <<>>]
      [] step \in {".", ".."} -> d
      [] OTHER                -> [d EXCEPT !.dir = Append(@, step)]

(* One component of the argument of CWD; "up" from the root ends the walk.    *)
WalkStep(d, step) ==
    CASE step = "/"  -> [d EXCEPT !.dir = <<>>]
      [] step = "."  -> d
      [] step = ".." -> [d EXCEPT !.dir = IF @ = <<>> THEN <<>> ELSE Front(@), !.stop = d.dir = <<>>]
      [] OTHER       -> [d EXCEPT !.dir = Append(@, step)]

(* Where the walk is after each component.                                    *)
Walk(dir, walk) ==
    LET d[i \in 0 .. Len(walk)] ==
            IF i = 0 THEN [dir |-> dir, stop |-> FALSE]
            ELSE IF d[i - 1].stop THEN d[i - 1] ELSE WalkStep(d[i - 1], walk[i])
    IN  d

Walked(dir, walk) == Walk(dir, walk)[Len(walk)].dir

mftpCommandCWD(s) ==
    \E w \in Walks :
        /\ con' = [con EXCEPT ![s] = Dispatched([@ EXCEPT !.dir = Walked(con[s].dir, w)], NoPath)]
        /\ UNCHANGED <<sock, files, pasvPort>>

mftpCommandDELE(s) ==
    \E name \in Names :
        /\ files' = IF IsFile(FilePath(s, name)) THEN Without(files, FilePath(s, name)) ELSE files
        /\ con' = [con EXCEPT ![s] = Dispatched(@, NoPath)]
        /\ UNCHANGED <<sock, pasvPort>>

mftpCommandRMD(s) ==
    \E name \in Names :
        LET p == FilePath(s, name)
            empty == \A q \in DOMAIN files : p \notin Parents(q)
        IN  /\ files' = IF Content(p) = Folder /\ empty THEN Without(files, p) ELSE files
            /\ con' = [con EXCEPT ![s] = Dispatched(@, NoPath)]
            /\ UNCHANGED <<sock, pasvPort>>

mftpCommandMKD(s) ==
    \E name \in Names :
        LET p == FilePath(s, name)
        IN  /\ files' = IF Blocked(p) \/ IsFile(p) THEN files ELSE With(mftpCreateDirIfNeeded(p), p, Folder)
            /\ con' = [con EXCEPT ![s] = Dispatched(@, NoPath)]
            /\ UNCHANGED <<sock, pasvPort>>

mftpCommandRNFR(s) ==
    \E name \in Names :
        LET p == FilePath(s, name)
        IN  /\ con' = [con EXCEPT ![s] = Dispatched(@, p)]
            /\ UNCHANGED <<sock, files, pasvPort>>

(* sceIoRename is refused when there is nothing to rename, something in the   *)
(* way or no folder to put it in; the reply is the same.  A folder takes      *)
(* along what it holds.                                                       *)
Renames(from, to) ==
    /\ Content(from) # -1 /\ Content(to) = -1 /\ ~IsPrefix(from, to)
    /\ \A q \in Parents(to) : Content(q) = Folder
Renamed(from, to) ==
    LET New(q) == IF IsPrefix(from, q) THEN to \o SubSeq(q, Len(from) + 1, Len(q)) ELSE q
    IN  [p \in {New(q) : q \in DOMAIN files} |-> files[CHOOSE q \in DOMAIN files : New(q) = p]]
mftpCommandRNTO(s) ==
    \E name \in NewNames :
        LET to == FilePath(s, name)
            from == con[s].from
        IN  /\ files' = IF from # NoPath /\ Renames(from, to) THEN Renamed(from, to) ELSE files
            /\ con' = [con EXCEPT ![s] = Dispatched(@, NoPath)]
            /\ UNCHANGED <<sock, pasvPort>>

(* A good PORT turns passive mode off and forgets the socket it listened on.  *)
mftpCommandPORT(s) ==
    /\ con' = [con EXCEPT ![s] = Dispatched([@ EXCEPT !.passive = FALSE, !.told = 0], NoPath)]
    /\ UNCHANGED <<sock, files, pasvPort>>

(* The commands that only reply: PWD, SIZE, HELP, SITE, TYPE, SYST, NOOP and, *)
(* as mftpRestrictedCommand lets every command pass, USER and PASS.           *)
ReplyOnly(s) ==
    /\ con' = [con EXCEPT ![s] = Dispatched(@, NoPath)]
    /\ UNCHANGED <<sock, files, pasvPort>>

(* PASV tells the port first, ...                                             *)
mftpCommandPASV(s) ==
    /\ con' = [con EXCEPT ![s] = Dispatched([@ EXCEPT !.at = "pasv", !.told = pasvPort], NoPath)]
    /\ UNCHANGED <<sock, files, pasvPort>>

InUse(p) == \E n \in Numbers : sock[n].port = p

NextPort(p) == (p + 1) % 65536
(* Mutant: the port that is bound is not the one that was announced.          *)
PortToBindNext == NextPort(pasvPort)

PortToBind == pasvPort

(* ... and binds it then: openDataConnectionPASV.  Nothing tells the client   *)
(* when that fails, and the port stays.                                       *)
openDataConnectionPASV(s) ==
    /\ con[s].at = "pasv" /\ FreeNumbers # {}
    /\ con' = [con EXCEPT ![s] = [@ EXCEPT !.at = "recv", !.passive = TRUE, !.pasv = NewNumber]]
    /\ sock' = [sock EXCEPT ![NewNumber] = IF InUse(PortToBind) THEN Owned(s) ELSE ListensOn(s, PortToBind)]
    /\ pasvPort' = IF InUse(PortToBind) THEN pasvPort ELSE NextPort(pasvPort)
    /\ UNCHANGED <<list, mem, files, srv>>

(* closeDataConnection closes the numbers it finds, open or not.              *)
closeDataConnection(s) ==
    IF con[s].passive THEN Close(Close(sock, con[s].data), con[s].pasv) ELSE Close(sock, con[s].data)

mftpCommandQUIT(s) ==
    /\ sock' = closeDataConnection(s)
    /\ con' = [con EXCEPT ![s] = Dispatched([@ EXCEPT !.at = "ending"], NoPath)]
    /\ UNCHANGED <<files, pasvPort>>

------------------------------------------------------------------------------
(* ftp.c: commands with a data connection                                     *)

(* LIST, NLST, RETR and STOR begin with openDataConnection.                   *)
Transfer(s, op) ==
    \E name \in IF op = "STOR" THEN Names ELSE {"any"} :
        /\ con' = [con EXCEPT ![s] = Dispatched([@ EXCEPT !.at = "open", !.op = op, !.arg = FilePath(s, name)],
                                                NoPath)]
        /\ UNCHANGED <<sock, files, pasvPort>>

Command(s, c) ==
    CASE c = "CWD"  -> mftpCommandCWD(s)
      [] c = "DELE" -> mftpCommandDELE(s)
      [] c = "RMD"  -> mftpCommandRMD(s)
      [] c = "MKD"  -> mftpCommandMKD(s)
      [] c = "RNFR" -> mftpCommandRNFR(s)
      [] c = "RNTO" -> mftpCommandRNTO(s)
      [] c = "PORT" -> mftpCommandPORT(s)
      [] c = "PASV" -> mftpCommandPASV(s)
      [] c = "QUIT" -> mftpCommandQUIT(s)
      [] c = "NOOP" -> ReplyOnly(s)
      [] OTHER      -> Transfer(s, c)

(* A client that keeps to the protocol asks for a transfer after PORT or PASV.*)
Polite(s, c) == c \in {"LIST", "STOR"} => ~con[s].passive \/ con[s].told # 0

mftpDispatch(s) ==
    /\ con[s].at = "recv"
    /\ srv.commands < MaxCommands
    /\ \E c \in Commands : Polite(s, c) /\ Command(s, c)
    /\ srv' = [srv EXCEPT !.commands = @ + 1]
    /\ UNCHANGED <<list, mem>>

(* recv returns nothing: the client has gone.                                 *)
ClientGone(s) ==
    /\ con[s].at = "recv"
    /\ con' = [con EXCEPT ![s].at = "ending"]
    /\ UNCHANGED <<sock, list, mem, pasvPort, files, srv>>

(* The client connects to the port it was told, which may be refused.         *)
Heard(n, s) == IF sock[n].port = con[s].told THEN [sock[n] EXCEPT !.waiting = s] ELSE sock[n]
ClientConnects(s) ==
    /\ con[s].at \in {"pasv", "recv", "open"} /\ con[s].told # 0
    /\ ~\E n \in Numbers : sock[n].port = con[s].told /\ sock[n].waiting = s
    /\ IF InUse(con[s].told)
       THEN sock' = [n \in Numbers |-> Heard(n, s)] /\ UNCHANGED con
       ELSE con' = [con EXCEPT ![s].told = 0] /\ UNCHANGED sock
    /\ UNCHANGED <<list, mem, pasvPort, files, srv>>

Finished(s) ==
    [con[s] EXCEPT !.at = "recv", !.op = "none", !.arg = NoPath, !.told = 0, !.got = 0, !.buffer = 0, !.fd = FALSE]

(* openDataConnection: accept on the passive socket waits for the client; a   *)
(* socket that does not listen, and a connect that fails, is a 425.           *)
openDataConnection(s) ==
    /\ con[s].at = "open"
    /\ LET p == con[s].pasv
       IN  \/ /\ con[s].passive /\ p \in Numbers /\ sock[p].port # 0 /\ sock[p].waiting # 0 /\ FreeNumbers # {}
              /\ sock' = [sock EXCEPT ![NewNumber] = Owned(s), ![p].waiting = 0]
              /\ con' = [con EXCEPT ![s] = [@ EXCEPT !.at = "data", !.data = NewNumber, !.told = 0]]
           \/ /\ con[s].passive /\ (p \notin Numbers \/ sock[p].port = 0)
              /\ con' = [con EXCEPT ![s] = Finished(s)]
              /\ UNCHANGED sock
           \/ /\ ~con[s].passive /\ FreeNumbers # {}
              /\ sock' = [sock EXCEPT ![NewNumber] = Owned(s)]
              /\ \/ con' = [con EXCEPT ![s] = [@ EXCEPT !.at = "data", !.data = NewNumber]]
                 \/ con' = [con EXCEPT ![s] = [Finished(s) EXCEPT !.data = NewNumber]]
    /\ UNCHANGED <<list, mem, pasvPort, files, srv>>

(* LIST, NLST and RETR send what they find and close.                         *)
SendData(s) ==
    /\ con[s].at = "data" /\ con[s].op = "LIST"
    /\ sock' = closeDataConnection(s)
    /\ con' = [con EXCEPT ![s] = Finished(s)]
    /\ UNCHANGED <<list, mem, pasvPort, files, srv>>

(* STOR makes the folders, which may be refused (552: the connection is left  *)
(* open), and opens the file, which may fail: the data is received all the    *)
(* same.                                                                      *)
StoreOpen(s) ==
    /\ con[s].at = "data" /\ con[s].op = "STOR"
    /\ LET p == con[s].arg
       IN  IF Blocked(p)
           THEN con' = [con EXCEPT ![s] = Finished(s)] /\ UNCHANGED files
           ELSE \E opened \in BOOLEAN :
                   /\ opened => Content(p) # Folder
                   /\ con' = [con EXCEPT ![s] = [@ EXCEPT !.at = "store", !.fd = opened]]
                   /\ files' = IF opened THEN With(mftpCreateDirIfNeeded(p), p, 0) ELSE mftpCreateDirIfNeeded(p)
    /\ UNCHANGED <<sock, list, mem, pasvPort, srv>>

(* A file removed or renamed under its descriptor takes no more data.         *)
Appended(s, n) ==
    LET p == con[s].arg IN IF con[s].fd /\ IsFile(p) THEN With(files, p, files[p] + n) ELSE files

(* Mutant: the buffer is written out when it is full already.                 *)
FlushesLate(s, c) == con[s].buffer >= WriteBuffer

(* A chunk goes into the write buffer, which is written out first when the    *)
(* chunk would fill it.                                                       *)
Flushes(s, c) == con[s].buffer + c >= WriteBuffer

StoreChunk(s) ==
    /\ con[s].at = "store"
    /\ \E c \in Chunks :
          /\ con[s].got + c <= MaxFile
          /\ con' = [con EXCEPT ![s] = [@ EXCEPT !.got = con[s].got + c,
                                               !.buffer = IF Flushes(s, c) THEN c ELSE con[s].buffer + c]]
          /\ files' = IF Flushes(s, c) THEN Appended(s, con[s].buffer) ELSE files
    /\ UNCHANGED <<sock, list, mem, pasvPort, srv>>

StoreEnd(s) ==
    /\ con[s].at = "store"
    /\ files' = Appended(s, con[s].buffer)
    /\ sock' = closeDataConnection(s)
    /\ con' = [con EXCEPT ![s] = Finished(s)]
    /\ UNCHANGED <<list, mem, pasvPort, srv>>

------------------------------------------------------------------------------
Handler(s) ==
    \/ StartSession(s) \/ openDataConnectionPASV(s) \/ openDataConnection(s) \/ SendData(s)
    \/ StoreOpen(s) \/ StoreChunk(s) \/ StoreEnd(s) \/ EndSession(s)

FtpdNext ==
    \/ AcceptClient \/ AcceptFails \/ mftpExitHandler
    \/ \E s \in Session : Handler(s) \/ mftpDispatch(s) \/ ClientGone(s) \/ ClientConnects(s)

FtpdSpec == FtpdInit /\ [][FtpdNext]_ftpdVars

(* The threads are scheduled, a client connects to the port it was told.      *)
FtpdFairSpec ==
    /\ FtpdSpec
    /\ WF_ftpdVars(AcceptFails)
    /\ \A s \in Session : WF_ftpdVars(Handler(s)) /\ WF_ftpdVars(ClientConnects(s))

Ports == {p \in Nat : p < 65536}

FtpdTypeOK ==
    /\ \A s \in Session :
          /\ con[s].at \in {"none", "started", "recv", "pasv", "open", "data", "store", "ending", "dead", "killed"}
          /\ {con[s].cmd, con[s].data, con[s].pasv} \subseteq Numbers \cup {0}
    /\ \A n \in Numbers : sock[n].who \in {-1, 0} \cup Session /\ sock[n].waiting \in {0} \cup Session
    /\ list \cup mem.nodes \cup mem.blocks \cup srv.late \subseteq Session
    /\ {mem.memid, mem.memid2, srv.count} \subseteq {0} \cup Session
    /\ pasvPort \in Ports

(* The server serves one client at a time and CIRCLE has not been pressed.    *)
Orderly == ~srv.overlap /\ srv.exit = "wait"

(* A session that runs has its memory: as long as the connections come one    *)
(* after the other, the globals memid and memid2 name its own node and block  *)
(* when it ends (lines 29, 57, 169 and 221 of ftpd.c).                        *)
MemoryLive ==
    /\ FtpdTypeOK
    /\ Orderly =>
         /\ \A s \in Session : Alive(s) => s \in mem.blocks
         /\ list \subseteq mem.nodes

(* A session's sockets are closed by steps of that session only, and nothing  *)
(* but the end of the server closes its own: the numbers closeDataConnection  *)
(* closes again on QUIT (lines 155 to 158 of ftp.c) are nobody else's.        *)
OwnSockets ==
    [][Orderly /\ Orderly' =>
         \A n \in Numbers : sock[n].who # -1 /\ sock'[n].who = -1 =>
             sock[n].who \in Session /\ con[sock[n].who] # con'[sock[n].who]]_ftpdVars

(* What 226 acknowledges is in the file, whatever the chunks were, and the    *)
(* write buffer never holds more than its size (lines 426 to 447 of ftp.c).   *)
StoreWhole ==
    [][\A s \in Session :
         /\ con'[s].buffer <= WriteBuffer
         /\ Orderly /\ con[s].at = "store" /\ con'[s].at = "recv" /\ con[s].fd =>
                files'[con[s].arg] = con[s].got]_ftpdVars

(* A client that connects to the port it was told gets its transfer: the      *)
(* handler does not wait in accept for ever (lines 118 to 149 and 795 to 817  *)
(* of ftp.c), as long as no second session was told the same port.            *)
Waiting == \E s \in Session : con[s].at = "open"
TransferEnds == Waiting ~> (~Waiting \/ ~Orderly)

(* After CIRCLE the loop ends and no session runs but one that had not yet    *)
(* put itself on the list (lines 64 to 92 of ftpd.c).                         *)
ExitEnds ==
    srv.exit = "done" ~> (srv.loop = "done" /\ \A s \in Session : Alive(s) => s \in srv.late)

(* CWD resolves a path as one would expect, "." and ".." included, unless the *)
(* path climbs above the root: then ".." is left in front of it (lines 187 to *)
(* 229 of ftp.c).                                                             *)
Up(d) == IF d = <<>> \/ Last(d) = ".." THEN Append(d, "..") ELSE Front(d)
Resolutions(dir, walk) ==
    LET d[i \in 0 .. Len(walk)] ==
            IF i = 0 THEN dir
            ELSE CASE walk[i] = "/"  -> <<>>
                   [] walk[i] = "."  -> d[i - 1]
                   [] walk[i] = ".." -> Up(d[i - 1])
                   [] OTHER          -> Append(d[i - 1], walk[i])
    IN  d
Resolved(dir, walk) == Resolutions(dir, walk)[Len(walk)]
WalkRight ==
    \A s \in Session, w \in Walks :
        LET d == Resolved(con[s].dir, w) IN (d = <<>> \/ Head(d) # "..") => Walked(con[s].dir, w) = d

==============================================================================
