# CFE (Custom Firmware Extender) in TLA+

TLA+ models of CFE 3.0, a plugin for the PSP, with TLC configurations that check
them on small instances and TLAPS proofs for all values of the constants. Paths
below are relative to the repository.

## 1. Inventory

Every action of a model is one operation, handler or step of the code.

| Component | Sources | State it keeps | Operations | Modules |
|---|---|---|---|---|
| Async channels | `cfe_redirect/usbhostfs/main.c`, `usbasync.h` | `g_async_chan`, ring buffers, `g_asyncevent` | register, unregister, fill, read, flush | `AsyncPipe`, `AsyncChan` |
| USB bus | `cfe_redirect/usbhostfs/main.c` | `g_mainsema`, `g_transevent`, `g_mainevent`, `g_connected`, three requests | `command_xchg`, `send_async`, `usbWriteBulkData`, `usbLockBus`, `usb_thread`, cable callbacks | `UsbBus` |
| Host driver | `cfe_redirect/usbhostfs/host_driver.c` | the PC's handle in every descriptor | `io_*` over `command_xchg`, reads and writes in blocks | `HostDriver` |
| Redirection | `cfe_redirect/main.c` | `records`, `d_records`, `host_mode`, `host_drv`, patched driver functions | `msIo*_new`, `redirect`, `patchIoDrv`, `restoreIoDrv`, reboots | `Redirect`, `RedirectMode` |
| Host start and stop | `cfe_redirect/usbhost.c`, `wifihost.c`, `wifiuser/main.c` | modules and drivers started, `ctrl_opts->inited`, disabled functions | `startUsbHost`, `stopUsbHost`, `startWifiHost`, `stopWifiHost`, `main_thread` | `HostStart` |
| WiFi driver | `cfe_redirect/wifihost.c`, `.h`, `conf.c` | pool of four `SocketOpts` | `wifiIo*`, `getIdleSock` | `WifiHost` |
| WiFi threads | `cfe_redirect/wifiuser/main.c` | a thread, a buffer and a semaphore per socket | `sock_thread`, `connectSocket` | `WifiHost`, `HostStart` |
| PC server | `extras/nethostfs_pc/main.c` | tables of open files and directories, login | `process_*` | `NetHostFs`, `WifiHost` (one connection) |
| Time Machine | `cfe_main/gui/menu_tmachine.c`, `cfe_main/main.c`, `utils.c` | `config.txt`, `config.txt.back`, `tm_reboot` | choose a firmware, `copy_file`, `restore_tm_config` | `TimeMachine` |
| Main thread | `cfe_main/main.c`, `gui/menu_main.c`, `screenshot.c` | lists of suspended threads, flags of the menus, active USB driver | `pauseGame`, `resumeGame`, `menu_load`, `menu_main`, `threadMain` | `CfeMain` |
| File browser | `cfe_main/gui/filer.c` | path, list, cursor of every level | enter, leave, move, choose | `Filer` (in `CfeMain`) |
| CFE configuration | `cfe_main/conf.c` | `vsh.cfg` | `read_config`, `write_config` | `Conf` |
| Music player | `cfe_main/music/music.c`, `gui/menu_music.c` | the `Playlist` record between thread, menu and decoder | `playlist_thread`, `main_music`, keys, restart | `Music` |
| Decoders | `cfe_main/music/hw*.c` | file, offset, codec memory | open, header, frames, resume, clean-up | `Music` |
| FTP server | `cfe_ftpd/ftpd.c`, `ftp.c` | list of client threads, blocks of memory, sockets, passive port | accept, session, commands, exit | `Ftpd` |
| UMD, syspatch, mem | `cfe_redirect/umd.c`, `syspatch.c`, `utils.c`, `mem.c` | patched firmware code | patches | not modelled |
| Menus, drawing | `cfe_main/gui`, `graphic.c`, `blit.c`, `tinyui.c` | what is on the screen | draw, move between items | actions in `CfeMain`; drawing not modelled |
| Controls | `cfe_main/ctrl.c`, `mem.c`, `translateButtons.c`, `cfe_redirect/ctrl.c` | button masks | map buttons | not modelled |
| Loader | `cfe_loader/main.c` | none | load a module | not modelled |
| `snprintf.c`, `scr_printf.c`, `include`, `lib` | vendored | | | not modelled |

How they interact. A game or the VSH calls the memory stick's driver, whose table
of functions `patchMsDrv` replaced; `msIo*_new` falls back to the driver `host`,
which is either the USB host driver (through `command_xchg` over the bus
semaphore) or the WiFi driver (through a socket of the pool, whose thread does
the transfer in user mode). `usb_thread` follows the cable by events and shares
the requests with the exchanges. The asynchronous channels carry what the PC
sends unasked. cfe_main switches the redirection on from its menu, stops the
game's threads while the menu is shown, and starts the music player, whose
thread, decoder and menu share one record. The menu of Time Machine writes files
which the next start of CFE reads, in another boot. The FTP server is a module of
its own.

What is hard:

* interrupt-disabled sections, semaphores and event flags are mixed with state
  read outside of them (`usbAsyncReadWithTimeout`, `usb_thread`, `getIdleSock`);
* transfers end short, fail, or are cancelled when the cable is pulled;
* drivers are patched, started, stopped and carried through reboots while callers
  are inside them;
* stream sockets deliver parts;
* the threads of the PC server, the FTP sessions and the music player share their
  state without a lock;
* threads are suspended wherever they are;
* power goes between two writes of the files Time Machine depends on.

What makes the components correct, in a sentence each: a channel is a FIFO queue
and no reader sleeps on data; one thread at a time is in an exchange, it always
gives the bus back and reads its own response; a transfer moves what it says, in
order; every handle is routed to the driver that gave it, and a call that goes to
the host finds it there; a socket has one user, goes back clean, and a call
returns its own reply; a handle of the PC server stays on its file and no
descriptor is forgotten; the user's `config.txt` is never lost; after the menu
nobody is left suspended; a pause is silent and every key of the player ends in
the right song; a session's memory and sockets are its own, and a stored file is
whole.

## 2. The modules

### AsyncPipe and AsyncChan

`AsyncPipe` is the promise: an endpoint is a bounded queue of bytes; a packet
that does not fit loses its tail, a read takes the oldest bytes, a flush or a
registration empties it. `AsyncChan` is the code: `chan` is `g_async_chan`,
`ring[e]` the `AsyncEndpoint` with `read_pos`, `write_pos` and `size`,
`asyncevent` the bits of `g_asyncevent`, `call[t]` where a thread is. A section
with interrupts disabled is one action; the wait between two of them is not, so a
reader passes through `waiting` and `woken`. `SetEvent` is the kernel's rule: the
bit releases one waiter, which clears it, and stays only when nobody waits.
`PipeSpec` maps the bytes from `read_pos` on to the queue.

### UsbBus

One record per thread says where it is in an exchange: `lock`, `put`, `putwait`,
`get`, `getwait`, `getcheck`, `unlock`, with the transfer (`stage`) it is in.
`Put`/`PutDone` are `set_bulkin_req` and the loop of `write_data` or
`write_data_large`, `Get`/`GetDone`/`GetCheck` those of `read_data`; the check of
a response is a choice when foreign units could pass it. `usb_thread` is one
action per event it handles, in the code's order: async, detach, attach. The
controller and the PC are external: they complete requests wholly or short, fail
them, cancel them when the cable is out, answer commands in order. Payloads are
counted in units. The PC never offers more extra data than the caller has room
for, an assumption the code makes too (`TODO`, `usbhostfs/main.c:556`).

### HostDriver

`call[t]` is a call of a thread between two exchanges, `host.open` what the PC
has open by handle with its position, `desc` the kernel's descriptors, `link`
the connection. `io_read` and `io_write` exchange one command per
`HOSTFS_MAX_BLOCK`; between two of them other threads call, and the connection
may be lost and begin anew, in which case the PC has closed everything. Every
exchange may fail. `moved`, `from` and `sole` are history: where the units of a
transfer came from and went to, and whether nobody else used the handle
meanwhile. Names, dates and the contents of answers are left out.

### Redirect

`records` and `d_records` are sequences of the first `count` and `d_count`
entries, `slots` and `d_slots` what is allocated; `files` is what callers hold.
Calls of the two drivers are steps of their own, since they wait. Reads, seeks
and ioctls only look an entry up and change none of this state; the routing they
depend on is `Routed`.

### HostStart and RedirectMode

`HostStart` is what stands behind a mode: `startUsbHost` and `stopUsbHost` with
the drivers they start (`up`), `startWifiHost` and `stopWifiHost` with the
modules, the driver and the functions they disable (`terms`), and `user`, the
main thread of wifiuser, which connects and ends in its own time; `inited` is
`ctrl_opts->inited`, the only thing both sides look at.

`RedirectMode` composes it with `Redirect`: `redirect`, `patchMsDrv`,
`patchHostDrv`, `restoreIoDrv`, the launcher, `module_start` in a game and the
exit are actions; calls wait in the loops `while( host_mode && !host_drv )`.
`Careless` names what callers may do that the code does not guard against: call
before the host is there ("early"), redirect a second time ("again"), be inside a
call while the driver is restored ("end"). The actions allow all of it, and
`careless` is history: what of it has happened since the boot. `HostThere` fails
then (section 5); `HostReady` says that it holds until then. cfe_main does the second
never, by the only call that is not commented out (`cfe_main/main.c:417`). A LoadExec that arrives while `redirect` is still starting the host is
not modelled. One thread calls in the instance.

### WifiHost

`sock[s]` is a `SocketOpts` with its thread; `client[c]` the `wifiIo*` call a
thread is inside. A call is `getIdleSock`, `Take` (busy and the request), then
one action per return of `wifiSend` or `wifiRecv`. The calls are five shapes:
`open` (reads the reply, then frees the socket: open, dopen), `cmd` (frees it,
then reads the reply: seek, close, remove, mkdir, rmdir, dclose, chstat,
rename), `stat` (a reply longer than a number: getstat, dread), `read`, `write`.
`to_pc` and `to_psp` are the two directions of the connection; a unit stands for
a part of the stream that is not cut further, and requests, which are shorter
than a segment, are one unit. `session` is `process_thread` on the PC. With
`Preemptive = TRUE` the clients, the thread that removes the driver and the socket
threads interleave as they like, as threads of different priorities do; without, `MayRun` is the
kernel's scheduling of threads of one priority: a client runs until it blocks. `met` is
history: `getIdleSock` or `wifiIoExit` has come to a socket that is not busy although
another thread is on it, between its own look and the store of `busy` or between the
clearing of `busy` and its read of the reply, or although `wifiIoExit` has used it
(which never marks a socket). The sockets go wrong from there on (section 5), and
`OneUser`, `PoolClean` and `DataIntact` say that they are right until then: that
nothing else but this gap lets two threads have one socket.

`readConf` is in this module because the block size comes from it.

### NetHostFs

`thread[t]` is a `process_thread` inside `process_cmd`: `at` is the point of the
handler it has reached, named after the command at its beginning. A handler is
cut where it looks at a table another thread may write: the loop for a free slot
looks at one entry per step, the name is written, read back by `MAKE_PATH`, the
descriptor returned by `open` and then stored, and the slot looked at again for the
answer; `close` closes the descriptor and then resets the slot, `dclose` frees
the entries and then resets `opened`. `kernel` says which file a descriptor is
open on. `to_pc` and `to_psp` are the connections, `call`, `handles` and
`dhandles` the PSP's side. Contents, dates, names and the challenge are
abstracted, `written` remembers that something below `rootdir` changed.
`SocketFails` is every `return -1` of the macros and loops; the end of the thread
that is joined, or a SIGPIPE, ends the child.

The PSP is assumed to use handles it has, one call at a time each; opens and closes
interleave as they like. `crossed` is history: a thread has found a slot that another
one was still filling (between its look for a free slot and its answer) or freeing
(between the entries of a directory and `opened`). The tables are wrong from there on
(section 5), and `TablesRight` says that they are right until then. `ChmodFails` says
that `chmod` may fail; `InStep` holds without.

### TimeMachine

The three files, `at` for the step of the menu, of `copy_file` or of
`restore_tm_config`, and `PowerLost`, which may interrupt each. Files are
sequences of blocks: `config.txt` is opened without `O_TRUNC`, so a shorter file
written over a longer one keeps its tail. `torn` remembers whether the first
writing of the backup was disturbed.

### Music

`music` is the shared `Playlist` record; `pl`, `dec` and `ui` are where
`playlist_thread`, the decoder and the main thread are. The first two have a
higher priority than the third: their steps reach from one blocking call to the
next, and the menu can be interrupted between any two of its accesses. A song is
a header at 0 and frames 1 to `Frames`; `Kind` chooses the decoder thread, and an
omg file of no known type is one that `playlist_thread` skips. `StickOut` and
`StickIn` are the memory stick going away, files open on it with it; a decoder
then leaves its offset and `resume` behind. `module_reboot_before` and the second
`main_music` are the restart from the music menu. `want`, `lost`, `late` and
`heard` are history. Volume and the cursor of the menu are drawing; a song that is
deleted while it is tried is not modelled; `loop` never has another value than
the first.

### Ftpd

`con[s]` is a `MftpConnection` and where its thread is, `sock` the socket layer
(the lowest free number is handed out; with `MaxNumber` in use nothing more is
opened), `list` the sessions on `mftp_thread_head`, in no order, `mem` the
globals `memid` and `memid2` beside the blocks that are really allocated.
`ftpdLoop` and `mftpExitHandler` run ahead of the sessions. Every command that
changes state is modelled: the data connection in both modes, `LIST` and `RETR`
as one that sends, `STOR` chunk by chunk with its second buffer, `CWD` step by
step (`Walked`), `RNFR`/`RNTO`, `DELE`, `MKD`, `RMD`, `QUIT`; those that only
answer are `NOOP`. The clients connect, send and go away as they like.

### CfeMain, Filer and Conf

`CfeMain` is the vsh build. `thr` are the threads created after cfe_main, which
begin, end, suspend each other and resume each other whenever they run; `pause`
is `pauseuid`, `thread_buf_now` and what is left of the walk of `pauseGame` or
`resumeGame`, which go thread by thread; `ui` is where the main thread is and its
flags, `usb` the flags of the menu beside the driver that is really active. With
ms0: redirected, a file access of the menu needs `g_mainsema`, which a thread may
hold when it is suspended. A failed allocation of the menu's heap is a choice.

`Filer` is the file browser that is open inside the menu: a path is a sequence of
names with a length in characters, so that `MAXPATH`, `MAXDEPTH` and `MAXDIRNUM`
cut where the code cuts. A path for which `now_path` has no room overruns what the
link has put behind it; the model notes that it happened (`over`), and the browser's
properties say nothing from there on.

`Conf` stands alone: `config` are the two folders as they lie in memory, the
screenshots' buffer right before the one of the music; `file` is what `vsh.cfg` holds
of them. A choice copies a folder into its buffer (`CaptureCopied` runs on into the
next one), `write_config` removes the file and writes it line by line, with a loss of
power possible before each (`Reboot`), and `read_config` takes the text apart
character by character: pieces of at most `LineMax` (`read_line`), tokens
(`get_tokens`), the string of a setting (`get_string`). A string ends at the first 0:
a full `capture_folder` has none and goes on in the music's (`capture_folder`).

## 3. The runs

| Run | Checks | Bounds |
|---|---|---|
| `MCAsyncChan` | ring positions, no lost wake-up, refinement of the queue | 2 threads, 2 endpoints on one channel, ring of 2 bytes, packets of 1 and 3 bytes: both wrap and both overflow the ring |
| `MCUsbBus` | `BusOK` one owner; `FollowsCable` connection flag, async request armed; `BothInSync` frames whole at the PC, responses matched; `InIntact` bulk-in request untouched | 2 clients and `usb_thread`, payload of 2 units, short transfers, the cable pulled at any moment |
| `MCUsbLive` | every call returns, plug and unplug are followed | 1 client and `usb_thread`, 2 pluggings, 1 fault |
| `MCHostDriver` | `Transferred` transfers in order, in place and counted right; `HandlesKnown` no forgotten handle | 2 threads, 2 descriptors, blocks of 2 units, transfers of 0, 2 and 5, a file of 5 units, 5 calls, 1 lost connection |
| `MCRedirect` | `ModeAccounted` handles routed and accounted for; `HostReady` tables in bounds and a host behind every call; `HostReached` waiting calls get on | both modes, both boots, 2 memory stick and 3 host handles, tables growing by 2: each is full and grows; 1 caller, who is not careless |
| `MCWifiHost` | `OneUser`; `PoolClean` clean sockets and own replies; `DataIntact` | 2 clients that preempt each other and the removal of the driver, 2 sockets, 2 units, everything cut into parts; not beyond a state in which two threads have met (`NotMet`), where the three properties say nothing |
| `MCWifiLive` | calls return, `wifiIoExit` ends | 2 clients, 3 sockets, 1 failure |
| `MCNetHostFs` | `TablesRight` handles on their files, directories at their entry, no leaked descriptor, until two threads met in a slot; `InStep` replies in step; `ReadOnly` `-r` changes nothing | 2 connections, 2 files, 1 directory, a table of 2 files and 1 directory, transfers of 1 to 3 units in blocks of 1, 4 calls, 1 failure |
| `MCNetHostLive` | every call is answered or ends with its connection | the same with 1 file |
| `MCMusic` | `PauseTrue` paused means silent and shown; `RightSong` the song that is due, none twice in a random round; `Resumed` the place that is due; `TrackHandled` keys taken up | 3 songs (mp3, aa3, unknown) of 2 frames, 1 absence of the stick or restart |
| `MCMusic`, Time Machine | `UserFileKept`, `Restored` | 3 firmwares, a file of 2 blocks, 2 losses of power, 1 failed open |
| `MCFtpd` | `MemoryLive`, `OwnSockets`, `StoreWhole`, `WalkRight`, `TransferEnds`, `ExitEnds` | 2 connections, 3 commands, 8 socket numbers, chunks of 1 and 2 units into a buffer of 2, files of 3 units |
| `MCCfeMain` | `NotLeftAsleep`, `GameRuns`, `FlagsTrue`, `PlaceRight` | 2 threads and an exempt one, 3 keys, 1 failed heap; a tree three deep with paths at and beyond `MAXPATH` |
| `MCCfeMain`, settings | `FoldersKept` the folders last chosen, or the ones saved, are in force | 4 folders with `#`, `;`, `=` and spaces in their names: one short of a buffer of 3, one that fills it, one that ends with a line of 11, and one whose line is cut so that its rest reads as a line of its own |

`MCMusic` holds two models, of the player and of Time Machine, and `MCCfeMain` two, of
the main thread and of the settings. They share no variable, and a behaviour of such a
module moves one of the two while the other stays at its beginning.

A type invariant is a conjunct of one property of each run (`HostReady`,
`PoolClean`, `TablesRight`, `PauseTrue`, `MemoryLive`, `Transferred`,
`NotLeftAsleep`); all of them are proved.

Why the bounds are enough. The ring code treats every slot alike and sees a
wrap-around, an empty and a full ring with two slots; two readers and a writer
are all a wake-up can be lost between. Each step of the bus concerns its holder
and one contender; a payload of two units is cut in every way a request can be.
Five units in blocks of two are a first, a middle and a short last block. The
redirection's tables are indexed uniformly and the interesting event is the entry
that fills them; every transition between modes and boots is reachable with one
caller, who can be in every call. A read of two units has a first, a middle and a
last block. Four calls of the PC server are a login, an open, and two more: a
slot that is used again, a table that is full, a close beside another call; a
transfer of 3 units is one too long, of 2 units one of several blocks. Two losses
of power interrupt the recovery of the first. Three songs are a previous, a
current and a next one, and one of them is skipped; two frames are a place to
resume that is not the beginning. Two FTP connections overlap in every order, and
three commands are a mode, a transfer and one after it; three units do not fit
the write buffer. Two threads are one that is suspended and one that acts on it;
three keys open the menu, start one driver and then another. What the instances
cannot show is proved (section 4).

`CHECK_DEADLOCK FALSE` is set where the system may stop: `MCAsyncChan` (a flush
that raced unregistration faults), `MCUsbLive` (the cable is out for good),
`MCNetHostFs`, `MCNetHostLive` and `MCHostDriver` (the child ended, or the calls are used up),
`MCWifiHost` and `MCWifiLive` (the driver was removed, or the pool is exhausted
after failures), `MCRedirect` (a game whose host failed to start waits for ever),
`MCMusic` (nothing plays and no key is pressed), `MCFtpd` (CIRCLE was pressed),
`MCCfeMain` (the PSP reboots or is switched off).

Fairness. The kernel runs every ready thread, and semaphores created with
attribute 0 serve their waiters first come first served: strong fairness of
`WaitSema` and of the menu's access to a redirected file, weak fairness of the
rest of a thread. The controller and the PC complete what was asked of them. The
threads of the PC server run, and the PSP takes the replies that arrive. Nobody
has to plug, unplug, fail a transfer or send an async packet. Ready WiFi clients
of one priority run in the order they became ready, though `getIdleSock` polls:
strong fairness of a client's steps. Main thread and host run, the network
answers one way or the other (`RedirectMode`). The stick comes back (`Music`): the
player waits for it. An FTP client connects to the port it was told. The user
leaves the browser and the menu in the end (`CfeMain`); no key else is fair.

Conditions of the properties. `CallReturns` of `UsbBus` is stated for one plugging
and no failed transfer. `WifiHost`'s is checked with a socket for every caller
besides the one a failed call may keep, and `ExitEnds` for calls that do not
fail. `Transferred` counts for a handle that one thread uses at a time.
`HostReached` leaves out a failed `patchHostDrv`, `TrackHandled` a user who
presses Random for ever, `GameRuns` a menu that waits for a file whose bus a
suspended thread holds. `MemoryLive`, `OwnSockets`, `StoreWhole` and
`TransferEnds` of the FTP server are about sessions one after another before
CIRCLE (`Orderly`). Section 5 says what happens otherwise.

## 4. The proofs

`AsyncChanProofs`: `TypeCorrect`, `RingCorrect`, `NoDataLost` and `Refinement`,
for any threads, endpoints, channels, packets and buffer size. The inductive
invariant adds to types that `size` is the distance from `read_pos` to
`write_pos` modulo the buffer, and that an endpoint is registered once; the ring
arithmetic (a push appends, a pop drops, modulo a variable size) is stated as
lemmas on integers, and each action is mapped to a step of the queue.

`UsbBusProofs`: `TypeCorrect`, `BusCorrect`, `InCorrect`, `CableTracked`
(`FollowsCable`) and `FramesInSync` (`BothInSync`), for any clients and sizes. The inductive
invariant says that the semaphore is down exactly when some thread holds the
bus, that only one does, and that the bulk-in request is outstanding only under a
thread at `putwait` which has not taken the bit; without the last part a next
write could not be known to reset a finished request. `CableTracked` adds `CableInv`:
`g_connected` and the CONNECT bit agree whenever `usb_thread` waits, and while it
handles an event the bit it will look at next is in `g_mainevent` or on its way.
`FramesInSync` is about one plugging and no failed transfer. Its invariant relates the
two ends: the PC has taken as many units of a frame as its owner has sent (`InFrame`),
the units that come back belong to the thread in the exchange and are of the stage it
reads, and nothing but the magic word of a new connection is on the wire while nobody
transfers (`Quiet`); `Phase` says that the magic word is read before any client may
transfer. It assumes that nothing is sent by `usbWriteBulkData` or that the PC takes
bulk-in requests whole: `write_data_large` takes a short one for all of it (section 5).

`WifiHostProofs`: `SocketsExclusive` (`OneUser`), `PoolStaysClean` (`PoolClean`) and
`DataWhole` (`DataIntact`), for any clients of whatever priorities, any sockets, sizes,
blocks, cut-up sends and receives and faults; nothing is assumed about who preempts
whom. What they say holds until two threads have met at a socket that neither had
marked (`met`, which never becomes false again: `MetStays`), and the induction follows
every step up to there. A client in the middle of `getIdleSock`, or one that has given its
socket back and not read the reply yet, is on a socket without a mark (`Bare`); the
invariant `IInv` says that it is alone there, that a blocked call's socket is marked and
its own, and that nobody is bare on the socket `wifiIoExit` sends on. So a mark keeps every
other thread off (`MarkedAlone`), and only a look at an unmarked socket can bring two
together, which is what `met` notes. For what goes over the sockets, `WireInv` says where each blocked call is with its socket
thread (waiting, or answered with a result) and how far the PC is with its request:
asked, in a write of which so many units have come, or served. A socket in the pool
is `Clean`. One that a failed call has kept may still have a request or a part of a
write on the way, and no call is ever given it again (`Kept`); one that `wifiIoExit`
is done with is `Gone`; and a session that has finished a write has all of it
(`Whole`).

`TimeMachine`, in `MenuProofs`: `TmTypeCorrect`, `BackupNeverTouched`, `UserFileSurvives` and
`ChoiceUndone` (`Restored`), for
any file, any menu and any number of losses of power. The invariant says that
the target of `copy_file` is the beginning of its source, and that a file CFE
leaves is none, a beginning of the user's, or one that starts with a firmware's
line: so a finished copy is the original and no later copy can extend it.
`ChoiceUndone` adds where the original is at each step (`Placed`): in the backup from
the end of its copy to the restore, in config.txt before and after; and a start that
finds no marker has nothing to restore.

`CfeMainProofs`: `NobodyLeftAsleep`, for any threads, whatever they do to each
other meanwhile. The invariant says that a thread which sleeps without the game's
doing is in `thread_buf_now` and not exempt while a pause is on, and on what is
left of the walk once `resumeGame` has begun; that `pauseGame` walks only inside a
pause; and that a thread never ends while it is suspended, without which one could
be missed by the walk. `FlagsCorrect`: the flags of the menu name the driver the bus
serves after any sequence of choices and failures; the invariant adds that a load a
choice has asked for (`usbhost_load`) is done before the keys are read again.
`PlaceKnown` (`PlaceRight`), for any stick, names and limits above the length of
"ms0:/" (`RootFits`): the cursor is inside the list and on the screen, and CIRCLE leads
to the parent, the cursor on the directory that was left. The invariant (`Kept`) says
that the path is never longer than the depth, since CIRCLE may cut more than one name
(`CutFacts`), and that as long as it is exactly as long, the place kept for every level
names the directory the path goes on with (`Traced`): the one that is cut is then found
again at that place of the parent's list. Lists are cut by `MAXDIRNUM` and may come
back empty.

`FoldersSurvive` (`FoldersKept`), for any folders and any size of line and buffers.
The invariant (`SInv`) says that the folder the user knows of is the one in its buffer,
shorter than the buffer for the screenshots, and that reading the file, as far as it
has been written, gives the folders that were saved (`Agree`). `get_tokens` is followed
character by character (`Climbs`, an induction over the line): the key up to the first
quote (`ScanBegins`), the folder with every `#`, `;`, `=` and blank in it
(`ScanInside`), and at the closing quote the two tokens (`QuoteEnds`). A line that fits
is read in one or two pieces, the second the semicolon alone (`FittingRead`), and
changes no folder but its own, whatever is between its quotes (`OtherKept`). Two
assumptions carry it. A name has no quote in it, which the file system of the stick
does not allow. And no folder fills the 256 characters of `cfgLine` or of
`music_folder`, which `strcpy` and `sprintf` overrun. For the proof, `get_tokens` and
the reading of a text are recursive functions.

`NetHostFsProofs`: `ConnectionsInStep` (`InStep`), for any threads, paths, sizes of
the tables and lengths, assumes `~ChmodFails`. The invariant says of every connection
(`Wired`) which of four things it is in the middle of: nothing; a request, of which
what is still on the wire is what the handler has yet to take; a handler at work; or
an answer, of which what is on the wire and what is still to be sent make up the one
the call expects. That a request before the login is refused needs `LoggedIn` beside
it: nobody but hello and init is answered otherwise before `g_login`. `ReadOnlyKept`
(`ReadOnly`): the handlers test `rdonly` themselves, and it never changes. `TablesAgree`
(`TablesRight`) assumes `~ChmodFails` alone: opens and closes of any number of threads
interleave, and the induction follows them for as long as no two have met in a slot
(`crossed`, which never becomes false again).
The property alone is not inductive, and `TInv` adds to `Wired` and `LoggedIn`: that
nothing is open before the login, and the process lives (`Login`); that the descriptor in a
slot is open and in no other slot, that the slot an open has found stays free until it
stores its own, that a descriptor a thread has just been given is in no slot that is
not about to be reset, and that the handle of a slot being closed is gone from the PSP
(`FilesInv`); and that the position of a directory is the entry the PSP has got to,
the one in a reply under way included, with one opener or closer of each slot and one
user of each handle (`DirsInv`).

`RedirectModeProofs`: `RoutingKept` (`ModeAccounted`) and `HostAlwaysReady`
(`HostReady`), for any handles, modes and growth of the arrays, assume one caller
(`Threads = {p}`), since with two `records` goes wrong without a lock. Callers may be
careless in all three ways; each breaks `HostThere` (section 5), and the theorems say
what holds until the first time, and from the next boot on again, whatever state the
carelessness has left behind (`CInv`; `Named` is what a reboot relies on even then).
The invariant has four parts. `Life` says what redirect and main_thread have set by the
place they are at: above all that a mode ends only on the way to a reboot, so that
no record outlives the arrays it was written for. `HostSafe` says that the driver
is in the list only while the network is up, at every step of the starting and the
stopping. `Allocated` says that there are arrays only while the host is `Live`, and
that before, nothing was written and no call got past its wait (`Cold`). `Calls`
says what the call under way has in hand: an index that still finds its entry, a
handle that is closed to the caller and open in its driver, and an array with room
for one more, a full one being replaced before the call returns. The searches of
`isRedirected` and `isCombinated` return a least index, which exists by
well-foundedness.

`HostDriverProofs`: `TransfersTold` (`Transferred`) and `HandlesNotForgotten`
(`HandlesKnown`), for any threads, descriptors, lengths, block sizes and any place
where the connection is lost. The invariant follows a transfer nobody disturbs
(`Undisturbed`): the position on the PC, the caller's memory and the count grow
together, block by block, so that what was moved is in order and without a gap, and
a failure in the middle reports what was moved before it. A new handle is one the PC
has not open: among finitely many open ones a number is free, by the pigeonhole
principle, and a smallest free one by well-foundedness.

`MenuProofs` holds the proofs about three programs that share nothing but the plugin:
`Music`, `Ftpd` and `TimeMachine`. Because it extends all of them, the definitions that
every module has carry a prefix in the latter two (`FtpdInit`, `TmNext`).

`Music`: `Paused` (`PauseTrue`), `ResumedRight` (`Resumed`) and `SongsInOrder`
(`RightSong`), for any number of songs and frames, any codec of each song and any number
of absences of the stick and restarts. None of the three is inductive, and one invariant
carries all: where decoder and playlist thread are when (`Placed`), and that the codec is
set up before anything plays (`Codec`); that the menu's flag agrees with the `pause` field
at every step of a key, also between the read and the write of it (`Agreed`); that a song
whose name is not known yet is never opened (`HasName`); that in turn `index` is one song
ahead of the name (`Ordered`), and at random the songs of a round are distinct
(`RoundDistinct`); which of `index`, `file` and the thread's own variable holds the song
that is owed, at each step between a key and the next open (`Owed`); and that `offset` is
a place in the song that has its name, or 0 (`Offsets`). The attempt showed that the type
invariant was false for one song: PREV then takes `index` below 0, because `Count` is
added once and `index` was taken back by two (`music.c:333-339`). The three songs of the
instance cannot show it; `Indices` now says what is true.

`Ftpd`: `SessionsKeepMemory` (`MemoryLive`), `SocketsStayOwn` (`OwnSockets`) and
`StoresWhole` (`StoreWhole`), for any number of connections, commands and sockets, any
chunks and any write buffer. The first two hold while the connections come one after
the other and CIRCLE has not been pressed (`Orderly`), which is what they state; the
invariant says that then the only session alive is the newest, with its block in
`memid2` and its node in `memid`, the listening socket is the server's, and a number a
connection remembers, stale ones included, is free or its own (`Served`). Since
`closeDataConnection` closes numbers again that it keeps, this is the fact
`OwnSockets` rests on: a number that was closed is not handed to anyone else as long
as one session is alive. For `StoresWhole`, what came in is what the file holds and what
is still in the buffer (`Stored`), chunk by chunk. `WalksRight` (`WalkRight`) is about
every path a client can send, of any length, and every directory: by induction over the
components (the least one at which walk and path disagree, `WalkFollows`), the walk of
`CWD` is where the path leads until a `..` at the root ends it, and from then on the path
begins with `..`; the directory of a session never holds a `/`, `.` or `..` as a name
(`Plain`). The attempt showed that `Resolved` was wrong: it forgot a climb above the
root when a second `..` followed, so that `../../d` refuted `WalkRight`. None of the
walks of the instance had two; one of them now does.

Assumptions are the named `ASSUME`s of the modules; TLC evaluates them on each
run.

Only model-checked: liveness (`GameRuns`, `TransferEnds`, `ExitEnds`, `TrackHandled`,
`CallReturns`, `HostReached` and the like), which is out of the prover's reach. Every
invariant and action property of the runs is proved.

## 5. What the models showed of the code

Apart from the restart of the music, which `README.md:52` promises to be proper, no
document of the repository speaks of the following. Some have a configuration of
their own, which is not one of the runs: TLC ends it with the counterexample
(`MCRedirectCareless.cfg` excepted, which passes).

| Configuration | Module | Violated | What it shows |
|---|---|---|---|
| `MCAsyncFault.cfg` | `MCAsyncChan` | `ReadReturns` | a reader woken after its endpoint was unregistered dereferences NULL (`usbhostfs/main.c:823`) |
| `MCRedirectDir.cfg` | `MCRedirect` | `HostAccounted` | the host's handle of a directory open on both sides stays open (`cfe_redirect/main.c:352`) |
| `MCRedirectEarly.cfg` | `MCRedirect` | `HostThere` | ms0: is patched before the host: opening an existing directory, or chdir, in that window goes through `hostfs_drv`, `host_drv` or `d_records` while they are NULL |
| `MCRedirectAgain.cfg` | `MCRedirect` | `HostThere` | `host_drv` and the tables are never reset: after a second `redirect` a call takes the stale driver or the freed tables |
| `MCRedirectEnd.cfg` | `MCRedirect` | `HostThere` | `restoreIoDrv` frees the tables under a call |
| `MCRedirectCareless.cfg` | `MCRedirect` | none: `HostReady` holds | callers who do all three: the host is ready until the first time, and again from the next boot on |
| `MCHostStart.cfg` | `MCRedirect` | `UserEnded` | after a failed connection `inited` is -1 already, so that `stopWifiHost` unloads wifiuser while its thread is in `net_term` |
| `MCHostTerms.cfg` | `MCRedirect` | `TermsRestored` | a failed start calls `stopWifiHost` before `disableFunc` saved anything: zeros are written over the functions (`wifihost.c:672`) |
| `MCWifiConf.cfg` | `MCWifiHost` | `NoError` | without "Block Size" every read and write fails (`conf.c:91` tests `entry` twice) |
| `MCTmBackup.cfg` | `MCTimeMachine` | `BackupOriginal` | power lost while the backup is written |
| `MCMusicRestart.cfg` | `MCMusic` | `CodecHeld` | starting again frees the codec's memory while `hw_init` stays 1: the next song is decoded into freed memory |

The USB and WiFi drivers and the PC server:

* A second plugging: `usb_thread` reads the magic outside `g_mainsema`
  (`usbhostfs/main.c:1038`) and `set_bulkout_req` clears the event bit; a client
  whose read was cancelled by the unplugging and has not run yet waits for ever
  with the bus held. `CallReturns` without `Undisturbed`, `MaxAttach = 2`.
* Attach and detach bits that are set together are handled detach first
  (lines 1025-1050): after a quick unplug and replug, or the reverse,
  `usb_thread` may believe the wrong one. `PlugSeen`, `MaxAttach = 2`.
* A failed async transfer is not re-armed while the cable stays in (line 1018).
* `write_data` and `write_data_large` ignore a refused request and wait for it
  (lines 406, 434, 471). `CallReturns`, `Rejects = TRUE`.
* `write_data_large` takes any positive size for all of it (lines 475-490): with
  `Ops = {"bulk"}` and `ShortIn = TRUE`, `HostInSync` fails.
* `usbWaitForConnect` returns 1 once connected (line 992).
* Two threads opening and closing files interleave on `records`
  (`cfe_redirect/main.c:201-228`): `Routed` with two threads.
* `usb_thread` reads the attach magic outside `g_mainsema`, so a transfer may be
  outstanding while a client holds the bus by `usbLockBus`.
* PC server, two opens at once: both may find one slot (`crossed`,
  `nethostfs_pc/main.c:339`); the PSP gets one handle for two files, or a file
  under the other's name, and a descriptor is open that no slot remembers:
  `HandlesLive`, `NoLeak` without `~crossed`. Between `close` and the reset of a slot
  (lines 429-432) another thread may be given the same descriptor; the slot is reset
  before anyone uses it. The comment on lines 11-13 of the file knows that the
  threads are not synchronised. A directory closed while another is opened
  (lines 1105-1106) leaves the new one closed: `DirsLive`.
* A `chmod` that fails is answered twice (lines 1208, 1212), and every later
  reply on that connection belongs to the call before: `InStep`,
  `ChmodFails = TRUE`.
* `process_iorename` renames a file to itself unless the old path is absolute and
  the new one is not (line 1244); a file opened for reading and writing is opened
  for writing only (lines 356-360), and cannot be read.
* A failed WiFi call keeps its socket busy (`wifihost.c:56-80`); so does a
  directory entry or a status that arrives in two parts. When every socket is
  taken, by failures or by callers, `getIdleSock` spins without blocking, and the
  thread that would give one back, of the same priority, never runs.
  `CallReturns` with 2 clients and 1 socket, or with `Ops = {"stat"}`.
* With clients of different priorities two calls may take one socket between the look
  at `busy` and the store of it (`wifihost.c:85`), read each other's reply after it is
  cleared (line 300), or take a socket that `wifiIoExit` is sending on, which it does not
  mark (line 170): `OneUser` and `PoolClean` without `~met`.
* `restore_tm_config` removes its marker first (`cfe_main/main.c:245`): power
  lost after it leaves the chosen firmware's file for good, the backup being
  intact. `Restored` without `crashes = 0`.
* `wifiIoRead` returns -1 at the end of a file (`wifihost.c:238`).
* Host driver: -1 after a failed block though earlier blocks were moved; two
  threads' transfers on one handle interleave block by block; a handle kept over a
  reconnection may name another file; an open whose answer is lost stays open on
  the PC; `io_chstat` takes minute and second of the access time from `st_mtime`
  (`host_driver.c:793-794`).
* A failed `patchHostDrv` is reported to nobody: who waits for `host_drv` waits for
  ever, and a later `restoreIoDrv` writes through a NULL `hostfs_drv`.
  `main_thread` ignores the result of `startHost`. A failed start leaves modules
  loaded, `connectApctl` has no timeout.

Music:

* A song that ends as a pause arrives is followed by the next one, playing, while
  `pause` says PAUSED (`music.c:408-462`).
* NEXT pressed when a read has just failed is lost; keys are not looked at while
  only files of no known type come.
* A restart does not reset `music_is_paused`, so the menu and the player disagree.
* at3 and aa3 resume at offset 0 as if the header were a frame, and the song is
  skipped. `GetOMGFileType` leaks its descriptor. A thread that cannot be created
  leaves the player waiting. `PowerCallback` is never registered.

FTP server:

* Two sessions at once: the first end frees the second's memory, older blocks leak
  (`ftpd.c:221`); both may be told one passive port, so that one bind fails and the
  other takes the wrong client; a client that connects between the reply 227 and
  the listen is refused.
* The 552 answer, a failed active connection and a repeated PASV or PORT leak
  sockets; `RETR` of a missing file and `STOR` of one that cannot be opened answer
  226; `CWD ".."` at the root ignores the rest of the path.
* A session not yet on the list survives CIRCLE; `mftpExitHandler` reads the next
  pointer of a node it freed (`ftpd.c:82`).
* After the passive port wraps, binds on ports in use fail.

Main thread, browser and configuration:

* `pauseGame` suspends every thread created later than cfe_main and not exempt, the
  USB and WiFi host threads and cfe_display among them; threads created during the
  walk run on, and those the game itself had suspended are resumed.
* A thread suspended inside an exchange holds the bus: a menu that then uses a
  redirected file waits for ever (`Stuck`).
* The screenshot of the menu frees graphics and heap, which `menu_load` frees again
  (`menu_main.c:368`), and leaves a directory open. A heap that fails after the
  music combination leaves its flag set.
* `unloadUsbhost` does not clear `usbhost_active`, and `cfe_redirect_loaded` stays:
  the menu says "Usb already remaped" while ms0: is redirected to no driver.
* Browser: entering a directory writes past `now_path` when the path with its 0 exceeds
  21 characters, and CIRCLE may then cut more than one level. SQUARE in an empty
  directory chooses what `Get_DirList` passed over last, `.` or `..`.
* Settings: a screenshot folder of exactly 64 characters fills `capture_folder`, and the
  0 of `strcpy` wipes the music folder behind it (`filer.c:295`, `conf.h:19`); a music
  folder that is chosen next, or read by `read_config`, is then appended to it, since
  `get_string` leaves a folder of 64 without a 0 as well (`conf.c:157`). A longer one
  overwrites the music folder. A folder whose line exceeds 127 characters is lost on
  reload, and what is left of the line is read as another. `write_config` removes the
  file before it writes it line by line. Saving without a file writes CPU speed and
  brightness 0.

## 6. Not modelled, and the plan

Not modelled: patches of firmware code (`umd.c`, `syspatch.c`, `mem.c`), whose
effect the firmware defines; drawing and moving in the menus, which have one
thread and no state but the picture; the keys for CPU speed and brightness and the
mapping of buttons, conversions without a second actor; `start_func` and
`stop_func` of the USB driver, which the firmware's bus driver calls;
`disconnectSocket` under a running call; the accept loop of nethostfs_pc; PSP
start-up of the FTP server; the loaders; vendored code.

What is left, in this order:

1. `NetSessions`: the accept loop, the client table and the children it starts and
   kills (`extras/nethostfs_pc/main.c`, `main`).
2. `disconnectSocket` and `stop_func` under running calls, as steps of `WifiHost`
   and `UsbBus`.
3. The controls: `translateButtons.c` and the buttons of `menu_cfg.c`.
