------------------------------ MODULE Redirect ------------------------------
(* The redirection layer of cfe_redirect (src/cfe_redirect/main.c): the fatms *)
(* driver's functions are replaced by msIo*_new, which fall back to the PC    *)
(* (the "host" driver) for what the memory stick does not have.  records      *)
(* lists the handles that belong to the host driver, d_records the directories *)
(* that are open on both.                                                     *)
EXTENDS Integers, Sequences, SequencesExt, FiniteSets

CONSTANTS
    Threads,      \* threads doing I/O on ms0:
    MsHandles,    \* handles the fatms driver gives
    HostHandles,  \* handles the host driver gives
    NoHandle,     \* no handle
    Chunk         \* entries the arrays grow by (32)

ASSUME RedirectAssumption ==
    /\ Chunk \in Nat \ {0}
    /\ NoHandle \notin MsHandles \cup HostHandles
    /\ MsHandles \cap HostHandles = {}

VARIABLES
    records,      \* the first count entries of records
    slots,        \* entries allocated for records
    d_records,    \* the first d_count entries of d_records
    d_slots,      \* entries allocated for d_records
    msopen,       \* handles open in the fatms driver
    hostopen,     \* handles open in the host driver
    files,        \* files[h]: what a caller holds as handle h
    th            \* th[p]: the msIo*_new call thread p is inside

vars == <<records, slots, d_records, d_slots, msopen, hostopen, files, th>>

Handles == MsHandles \cup HostHandles
Kinds == {"closed", "file", "dir"}

(* kind: open or dopen; arg: the handle in arg->arg; num: the index isRedirected *)
(* or isCombinated found.                                                     *)
Call == [at : {"idle", "host_open", "host_dopen", "append", "grow", "d_dopen", "d_grow",
               "host_close", "remove", "host_dclose", "d_remove", "ms_close",
               "host_dread", "host_io", "host_stat", "host_chdir"},
         kind : Kinds, arg : Handles \cup {NoHandle}, num : Nat]
Idle == [at |-> "idle", kind |-> "closed", arg |-> NoHandle, num |-> 0]

DRecord == [ms_arg : MsHandles, host_arg : HostHandles, read_end : BOOLEAN]

TypeOK ==
    /\ records \in Seq(Handles)
    /\ slots \in Nat
    /\ d_records \in Seq(DRecord)
    /\ d_slots \in Nat
    /\ msopen \subseteq MsHandles
    /\ hostopen \subseteq HostHandles
    /\ files \in [Handles -> Kinds]
    /\ th \in [Threads -> Call]

(* No call under way, nothing open; both arrays of n entries.                 *)
Fresh(n) ==
    /\ records = <<>>
    /\ slots = n
    /\ d_records = <<>>
    /\ d_slots = n
    /\ msopen = {}
    /\ hostopen = {}
    /\ files = [h \in Handles |-> "closed"]
    /\ th = [p \in Threads |-> Idle]

Goto(p, at, kind, arg, num) ==
    th' = [th EXCEPT ![p] = [at |-> at, kind |-> kind, arg |-> arg, num |-> num]]
Return(p) == th' = [th EXCEPT ![p] = Idle]

records_vars == <<records, slots>>
d_records_vars == <<d_records, d_slots>>

(* isRedirected and isCombinated: the first entry with this handle.           *)
isRedirected(h) == \E i \in 1 .. Len(records) : records[i] = h
isCombinated(h) == \E i \in 1 .. Len(d_records) : d_records[i].ms_arg = h
RecordOf(h) == SelectInSeq(records, LAMBDA x : x = h)
DRecordOf(h) == SelectInSeq(d_records, LAMBDA x : x.ms_arg = h)

(* Handles no thread is using.                                                *)
Free(h) == \A p \in Threads : th[p].arg # h

------------------------------------------------------------------------------
(* msIoOpen_new.  The memory stick has the file, or the call is refused (a    *)
(* path with /SAVEDATA, a write): only a read of a missing file goes on.      *)
MsOpen(p) ==
    /\ th[p].at = "idle"
    /\ \E m \in MsHandles \ msopen :
         /\ msopen' = msopen \cup {m}
         /\ files' = [files EXCEPT ![m] = "file"]
    /\ UNCHANGED <<records_vars, d_records_vars, hostopen, th>>

MsOpenFails(p) ==
    /\ th[p].at = "idle"
    /\ Goto(p, "host_open", "file", NoHandle, 0)
    /\ UNCHANGED <<records_vars, d_records_vars, msopen, hostopen, files>>

(* hostfsIoOpen, or hostfs_drv's IoDopen, at a handle the PC picks.           *)
HostOpen(p) ==
    /\ th[p].at \in {"host_open", "host_dopen"}
    /\ \/ \E h \in HostHandles \ hostopen :
            /\ hostopen' = hostopen \cup {h}
            /\ Goto(p, "append", th[p].kind, h, 0)
       \/ Return(p) /\ UNCHANGED hostopen
    /\ UNCHANGED <<records_vars, d_records_vars, msopen, files>>

(* records[count ++] = arg->arg                                               *)
AddRecord(p) ==
    LET count == Len(records) + 1
    IN  /\ th[p].at = "append"
        /\ records' = Append(records, th[p].arg)
        /\ IF count % Chunk = 0
           THEN Goto(p, "grow", th[p].kind, th[p].arg, 0) /\ UNCHANGED files
           ELSE Return(p) /\ files' = [files EXCEPT ![th[p].arg] = th[p].kind]
        /\ UNCHANGED <<slots, d_records_vars, msopen, hostopen>>

(* A full array is replaced by one with Chunk entries more.                   *)
Grow(p) ==
    /\ th[p].at = "grow"
    /\ slots' = Len(records) + Chunk
    /\ Return(p)
    /\ files' = [files EXCEPT ![th[p].arg] = th[p].kind]
    /\ UNCHANGED <<records, d_records_vars, msopen, hostopen>>

(* msIoDopen_new: a directory missing on the memory stick is opened on the    *)
(* host, one that exists is opened on both.                                   *)
MsDopen(p) ==
    /\ th[p].at = "idle"
    /\ \/ \E m \in MsHandles \ msopen :
            msopen' = msopen \cup {m} /\ Goto(p, "d_dopen", "dir", m, 0)
       \/ Goto(p, "host_dopen", "dir", NoHandle, 0) /\ UNCHANGED msopen
    /\ UNCHANGED <<records_vars, d_records_vars, hostopen, files>>

HostDopen(p) ==
    LET m == th[p].arg
        d_count == Len(d_records) + 1
        opened == files' = [files EXCEPT ![m] = "dir"]
    IN  /\ th[p].at = "d_dopen"
        /\ \/ \E h \in HostHandles \ hostopen :
                /\ hostopen' = hostopen \cup {h}
                /\ d_records' = Append(d_records,
                                       [ms_arg |-> m, host_arg |-> h, read_end |-> FALSE])
                /\ IF d_count % Chunk = 0
                   THEN Goto(p, "d_grow", "dir", m, 0) /\ UNCHANGED files
                   ELSE Return(p) /\ opened
           \/ Return(p) /\ opened /\ UNCHANGED <<hostopen, d_records>>
        /\ UNCHANGED <<records_vars, d_slots, msopen>>

DGrow(p) ==
    /\ th[p].at = "d_grow"
    /\ d_slots' = Len(d_records) + Chunk
    /\ Return(p)
    /\ files' = [files EXCEPT ![th[p].arg] = "dir"]
    /\ UNCHANGED <<records_vars, d_records, msopen, hostopen>>

------------------------------------------------------------------------------
(* msIoClose_new and msIoDclose_new: the record is looked up first ...        *)
Close(p) ==
    /\ th[p].at = "idle"
    /\ \E h \in Handles :
         /\ files[h] # "closed" /\ Free(h)
         /\ files' = [files EXCEPT ![h] = "closed"]
         /\ CASE isRedirected(h) -> Goto(p, "host_close", files[h], h, RecordOf(h))
              [] files[h] = "dir" /\ ~isRedirected(h) /\ isCombinated(h) ->
                   Goto(p, "host_dclose", "dir", h, DRecordOf(h))
              [] OTHER -> Goto(p, "ms_close", files[h], h, 0)
    /\ UNCHANGED <<records_vars, d_records_vars, msopen, hostopen>>

(* ... the host's handle is closed ...                                        *)
HostClose(p) ==
    /\ th[p].at = "host_close"
    /\ hostopen' = hostopen \ {th[p].arg}
    /\ th' = [th EXCEPT ![p].at = "remove"]
    /\ UNCHANGED <<records_vars, d_records_vars, msopen, files>>

(* ... for a directory open on both by a call that is given arg, the memory   *)
(* stick's handle, so that the host driver closes nothing it has open ...     *)
HostDclose(p) ==
    /\ th[p].at = "host_dclose"
    /\ hostopen' = hostopen \ {th[p].arg}
    /\ th' = [th EXCEPT ![p].at = "d_remove"]
    /\ UNCHANGED <<records_vars, d_records_vars, msopen, files>>

(* ... and count -- and memcpy close the gap.                                 *)
RemoveLastRecord(p) ==                                             \* mutant
    /\ th[p].at = "remove"
    /\ records' = SubSeq(records, 1, Len(records) - 1)
    /\ Return(p)
    /\ UNCHANGED <<slots, d_records_vars, msopen, hostopen, files>>

RemoveRecord(p) ==
    /\ th[p].at = "remove"
    /\ records' = RemoveAt(records, th[p].num)
    /\ Return(p)
    /\ UNCHANGED <<slots, d_records_vars, msopen, hostopen, files>>

RemoveDRecord(p) ==
    /\ th[p].at = "d_remove"
    /\ d_records' = RemoveAt(d_records, th[p].num)
    /\ th' = [th EXCEPT ![p].at = "ms_close"]
    /\ UNCHANGED <<records_vars, d_slots, msopen, hostopen, files>>

MsClose(p) ==
    /\ th[p].at = "ms_close"
    /\ msopen' = msopen \ {th[p].arg}
    /\ Return(p)
    /\ UNCHANGED <<records_vars, d_records_vars, hostopen, files>>

------------------------------------------------------------------------------
(* msIoDread_new on a directory open on both: the host's entries come first;  *)
(* when they end (or the host fails) read_end is set and the memory stick's   *)
(* follow.                                                                    *)
Dread(p) ==
    /\ th[p].at = "idle"
    /\ \E h \in Handles :
         /\ files[h] = "dir" /\ Free(h)
         /\ ~isRedirected(h) /\ isCombinated(h)
         /\ ~d_records[DRecordOf(h)].read_end
         /\ Goto(p, "host_dread", "dir", h, DRecordOf(h))
    /\ UNCHANGED <<records_vars, d_records_vars, msopen, hostopen, files>>

HostDread(p) ==
    /\ th[p].at = "host_dread"
    /\ \/ UNCHANGED d_records
       \/ d_records' = [d_records EXCEPT ![th[p].num].read_end = TRUE]
    /\ Return(p)
    /\ UNCHANGED <<records_vars, d_slots, msopen, hostopen, files>>

------------------------------------------------------------------------------
(* msIoRead_new, msIoLseek_new, msIoIoctl_new: a handle with a record goes to *)
(* the host, any other to the memory stick at once.                           *)
Use(p) ==
    /\ th[p].at = "idle"
    /\ \E h \in Handles :
         /\ files[h] = "file" /\ Free(h)
         /\ isRedirected(h)
         /\ Goto(p, "host_io", "file", h, 0)
    /\ UNCHANGED <<records_vars, d_records_vars, msopen, hostopen, files>>

(* msIoGetstat_new asks the host about what the memory stick does not have,   *)
(* msIoChdir_new always changes the folder of both.                           *)
Query(p) ==
    /\ th[p].at = "idle"
    /\ \E at \in {"host_stat", "host_chdir"} : Goto(p, at, "closed", NoHandle, 0)
    /\ UNCHANGED <<records_vars, d_records_vars, msopen, hostopen, files>>

HostAnswers(p) ==
    /\ th[p].at \in {"host_io", "host_stat", "host_chdir"}
    /\ Return(p)
    /\ UNCHANGED <<records_vars, d_records_vars, msopen, hostopen, files>>

------------------------------------------------------------------------------
ThreadStep(p) ==
    \/ MsOpen(p) \/ MsOpenFails(p) \/ HostOpen(p) \/ AddRecord(p) \/ Grow(p)
    \/ MsDopen(p) \/ HostDopen(p) \/ DGrow(p)
    \/ Close(p) \/ HostClose(p) \/ HostDclose(p) \/ RemoveRecord(p) \/ RemoveDRecord(p) \/ MsClose(p)
    \/ Dread(p) \/ HostDread(p) \/ Use(p) \/ Query(p) \/ HostAnswers(p)

------------------------------------------------------------------------------
(* A handle a caller holds is open in the driver that gave it, and its calls  *)
(* are routed there: removals from the middle of records and reuse of handles *)
(* never attach an entry to another handle.                                   *)
Routed ==
    \A h \in Handles :
        files[h] # "closed" =>
            /\ h \in msopen \cup hostopen
            /\ isRedirected(h) <=> h \in HostHandles

(* An entry is written inside its array: records[count] on a successful open, *)
(* d_records[d_count] before every open of a directory on the host.           *)
InBounds == TypeOK /\
    \A p \in Threads :
        /\ th[p].at = "append" => Len(records) < slots
        /\ th[p].at = "d_dopen" => Len(d_records) < d_slots

Quiet == \A p \in Threads : th[p].at = "idle"

(* Nothing stays open on the memory stick that no caller holds.               *)
MsAccounted == Quiet => msopen = {m \in MsHandles : files[m] # "closed"}

(* The log of msIoDclose_new says it closes the host's handle of a directory  *)
(* open on both: no host handle stays open that no caller can reach.          *)
HostAccounted ==
    Quiet => hostopen = {h \in HostHandles : files[h] # "closed"}
                        \cup {d_records[i].host_arg : i \in 1 .. Len(d_records)}

==============================================================================
