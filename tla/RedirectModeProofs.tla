------------------------- MODULE RedirectModeProofs -------------------------
(* Theorems about RedirectMode: the calls of one caller at a time are routed  *)
(* to the driver that gave their handle, and one that goes to the host finds  *)
(* it there, through every mode, failure and reboot.                          *)
EXTENDS RedirectMode, FiniteSetTheorems, WellFoundedInduction, SequenceTheorems, TLAPS

(* What a call that was sent to the host needs: the driver, the arrays and a  *)
(* redirection that has not begun to end.                                     *)
Live ==
    /\ hostfs_drv /\ "host" \in up
    /\ slots > 0 /\ d_slots > 0
    /\ main.at \in {"poison", "on", "launch", "game", "restore"}

(* The host has never been used.                                              *)
Before == main.at \in {"off", "refused", "start", "patch_ms", "patch_host"}
Cold ==
    /\ records = <<>> /\ d_records = <<>>
    /\ \A h \in HostHandles : files[h] = "closed"
    /\ \A p \in Threads : th[p].at \in {"idle", "ms_close", "host_open", "host_dopen", "host_stat"}

(* The modes: where redirect and main_thread are says what has been set, and  *)
(* where the starting or stopping thread can be.                              *)
Life ==
    /\ main.at = "off" => up = {}
    /\ main.at \in {"off", "refused"} <=> host_mode = "OFF"
    /\ main.at \in {"off", "refused", "patch_ms", "stop", "reload"} => ~patched
    /\ main.at = "start" => (patched <=> init_key = "GAME")
    /\ main.at \in {"patch_host", "poison", "on", "launch", "game", "restore"} => patched
    /\ main.at \in {"game", "restore", "stop", "reload"} => main.ori = host_mode
    /\ main.at \notin {"start", "stop"} => hs = "idle"
    /\ main.at = "start" /\ hs = "idle" => up = {}
    /\ Before \/ main.at = "poison" => ~host_drv

(* The host: connected whenever its driver is there.                          *)
HostSafe ==
    /\ hs = "usb" => host_mode = "USB"
    /\ hs \in {"wifi", "connecting", "add", "undo", "undo_wait", "stop_wait"} => "host" \notin up
    /\ hs \in {"connecting", "add"} /\ inited = 1 => user = "asleep"
    /\ hs = "add" => inited = 1 /\ terms = "disabled"
    /\ host_mode = "WIF" /\ "host" \in up => user = "asleep" /\ terms = "disabled"

(* The arrays: allocated together, while the host is there, and until then    *)
(* nothing was written.                                                       *)
Allocated ==
    /\ slots > 0 \/ d_slots > 0 => Live
    /\ Before \/ (patched /\ slots = 0) => Cold
    /\ main.at = "poison" \/ (host_drv /\ patched) => slots > 0
    /\ Before /\ ~patched => Quiet
    /\ \A p \in Threads : ~patched => th[p].at = "idle" \/ Waits(p)

(* What the call of thread p has in hand.                                     *)
OnMs == {"d_dopen", "d_grow", "host_dclose", "d_remove", "ms_close"}
OnHost == {"append", "grow", "host_close", "remove"}
InHand(p) ==
    LET c == th[p]
    IN  /\ c.at \in {"host_open", "host_dopen", "append", "grow"} => c.kind # "closed"
        /\ c.at \in OnMs => c.arg \in MsHandles /\ files[c.arg] = "closed"
        /\ c.at \in OnHost => c.arg \in HostHandles /\ files[c.arg] = "closed"
        /\ c.at \in {"append", "grow"} => c.arg \in hostopen
        /\ c.at = "grow" => isRedirected(c.arg)
        /\ c.at \in {"host_close", "remove"} =>
               c.num \in 1 .. Len(records) /\ records[c.num] = c.arg
        /\ c.at \in {"host_dclose", "d_remove", "host_dread"} => c.num \in 1 .. Len(d_records)
        /\ \A m \in MsHandles : m \in msopen <=> files[m] # "closed" \/ (c.at \in OnMs /\ c.arg = m)

(* Records and files.                                                         *)
Recorded ==
    /\ records \in Seq(HostHandles)
    /\ \A h \in HostHandles : files[h] # "closed" => h \in hostopen /\ isRedirected(h)

(* An array has room for one more, unless the call that filled it is about to *)
(* replace it.                                                                *)
Room(at, n, size) ==
    /\ size % Chunk = 0
    /\ at => n % Chunk = 0
    /\ size > 0 => n < size \/ (at /\ n <= size)
Roomy ==
    \A p \in Threads :
        /\ Room(th[p].at = "grow", Len(records), slots)
        /\ Room(th[p].at = "d_grow", Len(d_records), d_slots)

Calls == Recorded /\ Roomy /\ \A p \in Threads : InHand(p)

Types == TypeOK /\ HostTypeOK /\ ModeTypeOK
IInv == Types /\ Life /\ HostSafe /\ Allocated /\ Calls

------------------------------------------------------------------------------
(* A set of numbers that is not empty has a least one.                        *)
LEMMA LeastNumber ==
  ASSUME NEW S \in SUBSET Nat, S # {}
  PROVE  Min(S) \in S /\ \A x \in S : Min(S) <= x
<1>. DEFINE Below(n) == {k \in Nat : k < n}
            T == {Below(n) : n \in S}
<1>1. T \subseteq FiniteSubsetsOf(Nat) /\ T # {}
  <2>1. SUFFICES ASSUME NEW n \in S PROVE Below(n) \in FiniteSubsetsOf(Nat)
    OBVIOUS
  <2>2. Below(n) \in SUBSET Nat /\ \A k \in Below(n) : k <= n
    OBVIOUS
  <2>3. IsFiniteSet(Below(n))
    BY <2>2, FS_BoundedSetOfNaturals
  <2>. QED
    BY <2>2, <2>3 DEF FiniteSubsetsOf
<1>2. PICK B \in T : \A C \in T : <<C, B>> \notin StrictSubsetOrdering(Nat)
  <2>1. IsWellFoundedOn(StrictSubsetOrdering(Nat), FiniteSubsetsOf(Nat))
    BY FS_StrictSubsetOrderingWellFounded
  <2>. HIDE DEF T
  <2>. QED
    BY <1>1, <2>1, WFMin
<1>3. PICK m \in S : B = Below(m)
  OBVIOUS
<1>4. ASSUME NEW x \in S, x < m PROVE FALSE
  <2>1. Below(x) \in T /\ Below(x) \subseteq Nat /\ Below(m) \subseteq Nat
    OBVIOUS
  <2>2. Below(x) \subseteq Below(m)
    BY <1>4
  <2>3. x \in Below(m) /\ x \notin Below(x)
    BY <1>4
  <2>4. <<Below(x), B>> \in StrictSubsetOrdering(Nat)
    BY <1>3, <2>1, <2>2, <2>3 DEF StrictSubsetOrdering
  <2>. QED
    BY <1>2, <2>1, <2>4
<1>5. \A x \in S : m <= x
  BY <1>4
<1>. QED
  BY <1>5 DEF Min

(* Both searches return the place of an entry with the handle, when there is  *)
(* one.                                                                       *)
LEMMA RecordFound ==
  ASSUME records \in Seq(Handles), NEW h, isRedirected(h)
  PROVE  RecordOf(h) \in 1 .. Len(records) /\ records[RecordOf(h)] = h
<1>. DEFINE I == {i \in 1 .. Len(records) : records[i] = h}
<1>1. I \in SUBSET Nat /\ I # {}
  BY DEF isRedirected
<1>2. Min(I) \in I
  <2>. HIDE DEF I
  <2>. QED
    BY <1>1, LeastNumber
<1>3. RecordOf(h) = Min(I)
  BY <1>1, Zenon DEF RecordOf, SelectInSeq
<1>. QED
  BY <1>2, <1>3

LEMMA DRecordFound ==
  ASSUME Len(d_records) \in Nat, NEW h, isCombinated(h)
  PROVE  DRecordOf(h) \in 1 .. Len(d_records)
<1>. DEFINE I == {i \in 1 .. Len(d_records) : d_records[i].ms_arg = h}
<1>1. I \in SUBSET Nat /\ I # {}
  BY DEF isCombinated
<1>2. Min(I) \in I
  <2>. HIDE DEF I
  <2>. QED
    BY <1>1, LeastNumber
<1>3. DRecordOf(h) = Min(I)
  BY <1>1, Zenon DEF DRecordOf, SelectInSeq
<1>. QED
  BY <1>2, <1>3

(* An entry taken out: the others stay, in order.                             *)
LEMMA Removed ==
  ASSUME NEW S, NEW s \in Seq(S), NEW i \in 1 .. Len(s)
  PROVE  /\ RemoveAt(s, i) \in Seq(S)
         /\ Len(RemoveAt(s, i)) = Len(s) - 1
         /\ \A j \in 1 .. Len(s) - 1 : RemoveAt(s, i)[j] = s[IF j < i THEN j ELSE j + 1]
<1>1. Len(s) \in Nat /\ i \in Nat
  OBVIOUS
<1>2. PICK a : a = SubSeq(s, 1, i - 1)
  OBVIOUS
<1>3. PICK b : b = SubSeq(s, i + 1, Len(s))
  OBVIOUS
<1>4. a \in Seq(S) /\ Len(a) = i - 1 /\ \A j \in 1 .. i - 1 : a[j] = s[j]
  BY <1>1, <1>2, SubSeqProperties
<1>5. b \in Seq(S) /\ Len(b) = Len(s) - i /\ \A j \in 1 .. Len(s) - i : b[j] = s[i + j]
  BY <1>1, <1>3, SubSeqProperties
<1>6. RemoveAt(s, i) = a \o b
  BY <1>2, <1>3, Zenon DEF RemoveAt
<1>7. /\ a \o b \in Seq(S) /\ Len(a \o b) = Len(a) + Len(b)
      /\ \A j \in 1 .. Len(a) + Len(b) : (a \o b)[j] = IF j <= Len(a) THEN a[j] ELSE b[j - Len(a)]
  BY <1>4, <1>5, ConcatProperties
<1>8. ASSUME NEW j \in 1 .. Len(s) - 1 PROVE (a \o b)[j] = s[IF j < i THEN j ELSE j + 1]
  BY <1>1, <1>4, <1>5, <1>7
<1>. QED
  BY <1>1, <1>4, <1>5, <1>6, <1>7, <1>8

(* The sizes of the arrays are multiples of Chunk.                            *)
LEMMA Divided ==
  ASSUME NEW n \in Nat, NEW c \in Nat \ {0}
  PROVE  n = c * (n \div c) + (n % c)
OBVIOUS

LEMMA DividedInt ==
  ASSUME NEW n \in Nat, NEW c \in Nat \ {0}
  PROVE  n \div c \in Int
OBVIOUS

LEMMA Multiple ==
  ASSUME NEW q \in Int, NEW c \in Nat \ {0}
  PROVE  (c * q) % c = 0
OBVIOUS

LEMMA NextChunk ==
  ASSUME NEW n \in Nat, NEW c \in Nat \ {0}, n % c = 0
  PROVE  (n + c) % c = 0
<1>1. n = c * (n \div c) + (n % c)
  BY Divided
<1>2. PICK q \in Int : q = n \div c
  BY DividedInt
<1>3. n = c * q + 0
  BY <1>1, <1>2, Zenon
<1>4. n + c = c * (q + 1) /\ q + 1 \in Int
  BY <1>3
<1>5. (c * (q + 1)) % c = 0
  BY <1>4, Multiple
<1>. QED
  BY <1>4, <1>5, Zenon

LEMMA OneChunk ==
  ASSUME NEW c \in Nat \ {0}
  PROVE  c % c = 0 /\ 0 % c = 0
OBVIOUS

------------------------------------------------------------------------------
(* What an assignment does to the call of a thread and to the files.          *)
LEMMA Returned ==
  ASSUME th \in [Threads -> Call], NEW p \in Threads, Return(p)
  PROVE  th' \in [Threads -> Call] /\ th'[p].at = "idle" /\ th'[p].arg = NoHandle
<1>1. Idle \in Call /\ Idle.at = "idle" /\ Idle.arg = NoHandle
  BY DEF Idle, Call, Kinds
<1>. QED
  BY <1>1 DEF Return

LEMMA Turned ==
  ASSUME th \in [Threads -> Call], NEW p \in Threads, NEW at, th' = [th EXCEPT ![p].at = at],
         at \in {"remove", "d_remove", "ms_close"}
  PROVE  /\ th' \in [Threads -> Call] /\ th'[p].at = at
         /\ th'[p].kind = th[p].kind /\ th'[p].arg = th[p].arg /\ th'[p].num = th[p].num
<1>1. th[p] \in Call
  OBVIOUS
<1>2. PICK c : c = [th[p] EXCEPT !.at = at]
  OBVIOUS
<1>3. c \in Call /\ c.at = at /\ c.kind = th[p].kind /\ c.arg = th[p].arg /\ c.num = th[p].num
  BY <1>1, <1>2 DEF Call
<1>4. th' = [th EXCEPT ![p] = c]
  BY <1>2, Zenon
<1>. QED
  BY <1>3, <1>4

LEMMA Filed ==
  ASSUME files \in [Handles -> Kinds], NEW h \in Handles, NEW k \in Kinds,
         files' = [files EXCEPT ![h] = k]
  PROVE  /\ files' \in [Handles -> Kinds] /\ files'[h] = k
         /\ \A x \in Handles : x # h => files'[x] = files[x]
OBVIOUS

------------------------------------------------------------------------------
(* One call at a time: what is known of it, and what has to be shown again.   *)
LEMMA Known ==
  ASSUME NEW p, Threads = {p}, TypeOK, Calls
  PROVE  /\ th \in [Threads -> Call] /\ files \in [Handles -> Kinds]
         /\ th[p].kind \in Kinds /\ th[p].arg \in Handles \cup {NoHandle} /\ th[p].num \in Nat
         /\ Len(records) \in Nat /\ Len(d_records) \in Nat
         /\ slots \in Nat /\ d_slots \in Nat
         /\ InHand(p) /\ Room(th[p].at = "grow", Len(records), slots)
         /\ Room(th[p].at = "d_grow", Len(d_records), d_slots)
<1>1. th[p] \in Call
  BY DEF TypeOK
<1>. QED
  BY <1>1 DEF TypeOK, Calls, Roomy, Call

LEMMA Shown ==
  ASSUME NEW p, Threads = {p}, TypeOK', Recorded', InHand(p)',
         Room(th[p].at = "grow", Len(records), slots)',
         Room(th[p].at = "d_grow", Len(d_records), d_slots)'
  PROVE  TypeOK' /\ Calls'
BY DEF Calls, Roomy

(* The open of a file of the memory stick.                                    *)
LEMMA MsOpenKeeps ==
  ASSUME NEW p, Threads = {p}, TypeOK, Calls, MsOpen(p)
  PROVE  TypeOK' /\ Calls'
<1>1. /\ th \in [Threads -> Call] /\ files \in [Handles -> Kinds]
      /\ th[p].kind \in Kinds /\ th[p].arg \in Handles \cup {NoHandle} /\ th[p].num \in Nat
      /\ Len(records) \in Nat /\ Len(d_records) \in Nat
      /\ slots \in Nat /\ d_slots \in Nat
      /\ InHand(p) /\ Room(th[p].at = "grow", Len(records), slots)
      /\ Room(th[p].at = "d_grow", Len(d_records), d_slots)
  BY Known
<1>2. PICK m \in MsHandles \ msopen : msopen' = msopen \cup {m} /\ files' = [files EXCEPT ![m] = "file"]
  BY DEF MsOpen
<1>3. th' \in [Threads -> Call] /\ th' = th
  BY <1>1, Zenon DEF MsOpen
<1>4. files' \in [Handles -> Kinds] /\ files'[m] = "file"
      /\ \A x \in Handles : x # m => files'[x] = files[x]
  BY <1>1, <1>2, Filed DEF Handles, Kinds
<1>5. TypeOK'
  BY <1>1, <1>3, <1>4, <1>2, RedirectAssumption DEF TypeOK, Handles, MsOpen, records_vars,
     d_records_vars
<1>6. Recorded'
  BY <1>1, <1>3, <1>4, <1>2, RedirectAssumption DEF Calls, Recorded, isRedirected, InHand,
     Handles, Kinds, OnMs, OnHost, MsOpen, records_vars, d_records_vars
<1>7. InHand(p)'
  BY <1>1, <1>3, <1>4, <1>2, RedirectAssumption DEF InHand, isRedirected, Handles, Kinds, OnMs,
     OnHost, MsOpen, records_vars, d_records_vars
<1>8. /\ Room(th[p].at = "grow", Len(records), slots)'
      /\ Room(th[p].at = "d_grow", Len(d_records), d_slots)'
  BY <1>1, <1>3, <1>4, <1>2, RedirectAssumption DEF Room, MsOpen, records_vars, d_records_vars
<1>. QED
  BY <1>5, <1>6, <1>7, <1>8, Shown

LEMMA MsOpenFailsKeeps ==
  ASSUME NEW p, Threads = {p}, TypeOK, Calls, MsOpenFails(p)
  PROVE  TypeOK' /\ Calls'
<1>1. /\ th \in [Threads -> Call] /\ files \in [Handles -> Kinds]
      /\ th[p].kind \in Kinds /\ th[p].arg \in Handles \cup {NoHandle} /\ th[p].num \in Nat
      /\ Len(records) \in Nat /\ Len(d_records) \in Nat
      /\ slots \in Nat /\ d_slots \in Nat
      /\ InHand(p) /\ Room(th[p].at = "grow", Len(records), slots)
      /\ Room(th[p].at = "d_grow", Len(d_records), d_slots)
  BY Known
<1>3. /\ th' \in [Threads -> Call]
      /\ th'[p].at = "host_open" /\ th'[p].kind = "file" /\ th'[p].arg = NoHandle /\ th'[p].num = 0
  BY <1>1, 0 \in Nat DEF MsOpenFails, Goto, Call, Kinds, Handles
<1>5. TypeOK'
  BY <1>1, <1>3, RedirectAssumption DEF TypeOK, Handles, MsOpenFails, records_vars, d_records_vars
<1>6. Recorded'
  BY <1>1, <1>3, RedirectAssumption DEF Calls, Recorded, isRedirected, InHand, Handles, Kinds,
     OnMs, OnHost, MsOpenFails, records_vars, d_records_vars
<1>7. InHand(p)'
  BY <1>1, <1>3, RedirectAssumption DEF InHand, isRedirected, Handles, Kinds, OnMs, OnHost,
     MsOpenFails, records_vars, d_records_vars
<1>8. /\ Room(th[p].at = "grow", Len(records), slots)'
      /\ Room(th[p].at = "d_grow", Len(d_records), d_slots)'
  BY <1>1, <1>3, RedirectAssumption DEF Room, MsOpenFails, records_vars, d_records_vars
<1>. QED
  BY <1>5, <1>6, <1>7, <1>8, Shown

(* An open on the host: at a handle it has not open; or it fails.             *)
LEMMA HostOpenedKeeps ==
  ASSUME NEW p, Threads = {p}, TypeOK, Calls, th[p].at \in {"host_open", "host_dopen"},
         NEW h \in HostHandles \ hostopen, hostopen' = hostopen \cup {h},
         Goto(p, "append", th[p].kind, h, 0),
         UNCHANGED <<records_vars, d_records_vars, msopen, files>>
  PROVE  TypeOK' /\ Calls'
<1>1. /\ th \in [Threads -> Call] /\ files \in [Handles -> Kinds]
      /\ th[p].kind \in Kinds /\ th[p].arg \in Handles \cup {NoHandle} /\ th[p].num \in Nat
      /\ Len(records) \in Nat /\ Len(d_records) \in Nat
      /\ slots \in Nat /\ d_slots \in Nat
      /\ InHand(p) /\ Room(th[p].at = "grow", Len(records), slots)
      /\ Room(th[p].at = "d_grow", Len(d_records), d_slots)
  BY Known
<1>2. files[h] = "closed" /\ th[p].kind # "closed"
  BY <1>1 DEF Calls, Recorded, InHand, Handles
<1>3. /\ th' \in [Threads -> Call]
      /\ th'[p].at = "append" /\ th'[p].kind = th[p].kind /\ th'[p].arg = h /\ th'[p].num = 0
  BY <1>1, 0 \in Nat DEF Goto, Call, Kinds, Handles
<1>5. TypeOK'
  BY <1>1, <1>3, <1>2, RedirectAssumption DEF TypeOK, Handles, records_vars, d_records_vars
<1>6. Recorded'
  BY <1>1, <1>3, <1>2, RedirectAssumption DEF Calls, Recorded, isRedirected, InHand, Handles,
     Kinds, OnMs, OnHost, records_vars, d_records_vars
<1>7. InHand(p)'
  BY <1>1, <1>3, <1>2, RedirectAssumption DEF InHand, isRedirected, Handles, Kinds, OnMs,
     OnHost, records_vars, d_records_vars
<1>8. /\ Room(th[p].at = "grow", Len(records), slots)'
      /\ Room(th[p].at = "d_grow", Len(d_records), d_slots)'
  BY <1>1, <1>3, <1>2, RedirectAssumption DEF Room, records_vars, d_records_vars
<1>. QED
  BY <1>5, <1>6, <1>7, <1>8, Shown

LEMMA HostAnswered ==
  ASSUME NEW p, Threads = {p}, TypeOK, Calls,
         th[p].at \in {"host_open", "host_dopen", "host_io", "host_stat", "host_chdir"},
         Return(p),
         UNCHANGED <<records_vars, d_records_vars, msopen, hostopen, files>>
  PROVE  TypeOK' /\ Calls'
<1>1. /\ th \in [Threads -> Call] /\ files \in [Handles -> Kinds]
      /\ th[p].kind \in Kinds /\ th[p].arg \in Handles \cup {NoHandle} /\ th[p].num \in Nat
      /\ Len(records) \in Nat /\ Len(d_records) \in Nat
      /\ slots \in Nat /\ d_slots \in Nat
      /\ InHand(p) /\ Room(th[p].at = "grow", Len(records), slots)
      /\ Room(th[p].at = "d_grow", Len(d_records), d_slots)
  BY Known
<1>3. th' \in [Threads -> Call] /\ th'[p].at = "idle" /\ th'[p].arg = NoHandle
  BY <1>1, Returned
<1>5. TypeOK'
  BY <1>1, <1>3, RedirectAssumption DEF TypeOK, Handles, records_vars, d_records_vars
<1>6. Recorded'
  BY <1>1, <1>3, RedirectAssumption DEF Calls, Recorded, isRedirected, InHand, Handles, Kinds,
     OnMs, OnHost, records_vars, d_records_vars
<1>7. InHand(p)'
  BY <1>1, <1>3, RedirectAssumption DEF InHand, isRedirected, Handles, Kinds, OnMs, OnHost,
     records_vars, d_records_vars
<1>8. /\ Room(th[p].at = "grow", Len(records), slots)'
      /\ Room(th[p].at = "d_grow", Len(d_records), d_slots)'
  BY <1>1, <1>3, RedirectAssumption DEF Room, records_vars, d_records_vars
<1>. QED
  BY <1>5, <1>6, <1>7, <1>8, Shown

(* The entry fills the array; or not.                                         *)
LEMMA AddRecordFull ==
  ASSUME NEW p, Threads = {p}, TypeOK, Calls, AddRecord(p), (Len(records) + 1) % Chunk = 0
  PROVE  TypeOK' /\ Calls'
<1>1. /\ th \in [Threads -> Call] /\ files \in [Handles -> Kinds]
      /\ th[p].kind \in Kinds /\ th[p].arg \in Handles \cup {NoHandle} /\ th[p].num \in Nat
      /\ Len(records) \in Nat /\ Len(d_records) \in Nat
      /\ slots \in Nat /\ d_slots \in Nat
      /\ InHand(p) /\ Room(th[p].at = "grow", Len(records), slots)
      /\ Room(th[p].at = "d_grow", Len(d_records), d_slots)
  BY Known
<1>2. /\ th[p].arg \in HostHandles /\ th[p].arg \in Handles /\ files[th[p].arg] = "closed"
      /\ th[p].arg \in hostopen /\ th[p].kind # "closed"
      /\ Recorded
  BY <1>1 DEF InHand, OnHost, Calls, Handles, AddRecord, Grow
<1>21. /\ Append(records, th[p].arg) \in Seq(HostHandles) /\ Append(records, th[p].arg) \in Seq(Handles)
       /\ Len(Append(records, th[p].arg)) = Len(records) + 1
       /\ \A i \in 1 .. Len(records) : Append(records, th[p].arg)[i] = records[i]
       /\ Append(records, th[p].arg)[Len(records) + 1] = th[p].arg
  BY <1>1, <1>2 DEF Recorded, TypeOK
<1>22. records' = Append(records, th[p].arg)
  BY DEF AddRecord
<1>231. /\ \A i \in 1 .. Len(records) : records'[i] = records[i]
        /\ records'[Len(records) + 1] = th[p].arg /\ Len(records') = Len(records) + 1
  BY <1>21, <1>22, Zenon
<1>230. PICK a : a = th[p].arg
  OBVIOUS
<1>232. isRedirected(a)'
  BY <1>1, <1>230, <1>231 DEF isRedirected
<1>233. ASSUME NEW h, isRedirected(h) PROVE isRedirected(h)'
  BY <1>1, <1>231, <1>233 DEF isRedirected
<1>23. isRedirected(a)' /\ a = th[p].arg /\ \A h : isRedirected(h) => isRedirected(h)'
  BY <1>230, <1>232, <1>233
<1>24. records' \in Seq(HostHandles) /\ records' \in Seq(Handles) /\ Len(records') = Len(records) + 1
  BY <1>21, <1>22, Zenon
<1>3. /\ th' \in [Threads -> Call]
      /\ th'[p].at = "grow" /\ th'[p].kind = th[p].kind /\ th'[p].arg = th[p].arg /\ th'[p].num = 0
  BY <1>1, 0 \in Nat DEF Goto, Call, Kinds, Handles, AddRecord
<1>5. TypeOK'
  BY <1>1, <1>3, <1>2, <1>23, <1>24, RedirectAssumption DEF TypeOK, Handles, AddRecord,
     records_vars, d_records_vars
<1>6. Recorded'
  BY <1>1, <1>3, <1>2, <1>23, <1>24, RedirectAssumption DEF Calls, Recorded, InHand, Handles,
     Kinds, OnMs, OnHost, AddRecord, records_vars, d_records_vars
<1>7. InHand(p)'
  BY <1>1, <1>3, <1>2, <1>23, <1>24, RedirectAssumption DEF InHand, Handles, Kinds, OnMs,
     OnHost, AddRecord, records_vars, d_records_vars
<1>8. /\ Room(th[p].at = "grow", Len(records), slots)'
      /\ Room(th[p].at = "d_grow", Len(d_records), d_slots)'
  BY <1>1, <1>3, <1>2, <1>23, <1>24, RedirectAssumption DEF Room, AddRecord, records_vars,
     d_records_vars
<1>. QED
  BY <1>5, <1>6, <1>7, <1>8, Shown

LEMMA AddRecordDone ==
  ASSUME NEW p, Threads = {p}, TypeOK, Calls, AddRecord(p), (Len(records) + 1) % Chunk # 0
  PROVE  TypeOK' /\ Calls'
<1>1. /\ th \in [Threads -> Call] /\ files \in [Handles -> Kinds]
      /\ th[p].kind \in Kinds /\ th[p].arg \in Handles \cup {NoHandle} /\ th[p].num \in Nat
      /\ Len(records) \in Nat /\ Len(d_records) \in Nat
      /\ slots \in Nat /\ d_slots \in Nat
      /\ InHand(p) /\ Room(th[p].at = "grow", Len(records), slots)
      /\ Room(th[p].at = "d_grow", Len(d_records), d_slots)
  BY Known
<1>2. /\ th[p].arg \in HostHandles /\ th[p].arg \in Handles /\ files[th[p].arg] = "closed"
      /\ th[p].arg \in hostopen /\ th[p].kind # "closed"
      /\ Recorded
  BY <1>1 DEF InHand, OnHost, Calls, Handles, AddRecord, Grow
<1>21. /\ Append(records, th[p].arg) \in Seq(HostHandles) /\ Append(records, th[p].arg) \in Seq(Handles)
       /\ Len(Append(records, th[p].arg)) = Len(records) + 1
       /\ \A i \in 1 .. Len(records) : Append(records, th[p].arg)[i] = records[i]
       /\ Append(records, th[p].arg)[Len(records) + 1] = th[p].arg
  BY <1>1, <1>2 DEF Recorded, TypeOK
<1>22. records' = Append(records, th[p].arg)
  BY DEF AddRecord
<1>231. /\ \A i \in 1 .. Len(records) : records'[i] = records[i]
        /\ records'[Len(records) + 1] = th[p].arg /\ Len(records') = Len(records) + 1
  BY <1>21, <1>22, Zenon
<1>230. PICK a : a = th[p].arg
  OBVIOUS
<1>232. isRedirected(a)'
  BY <1>1, <1>230, <1>231 DEF isRedirected
<1>233. ASSUME NEW h, isRedirected(h) PROVE isRedirected(h)'
  BY <1>1, <1>231, <1>233 DEF isRedirected
<1>23. isRedirected(a)' /\ a = th[p].arg /\ \A h : isRedirected(h) => isRedirected(h)'
  BY <1>230, <1>232, <1>233
<1>24. records' \in Seq(HostHandles) /\ records' \in Seq(Handles) /\ Len(records') = Len(records) + 1
  BY <1>21, <1>22, Zenon
<1>3. th' \in [Threads -> Call] /\ th'[p].at = "idle" /\ th'[p].arg = NoHandle
  BY <1>1, Returned DEF AddRecord
<1>4. files' \in [Handles -> Kinds] /\ files'[th[p].arg] = th[p].kind
      /\ \A x \in Handles : x # th[p].arg => files'[x] = files[x]
  BY <1>1, <1>2, Filed DEF AddRecord
<1>5. TypeOK'
  BY <1>1, <1>3, <1>4, <1>2, <1>23, <1>24, RedirectAssumption DEF TypeOK, Handles, AddRecord,
     records_vars, d_records_vars
<1>6. Recorded'
  BY <1>1, <1>3, <1>4, <1>2, <1>23, <1>24, RedirectAssumption DEF Calls, Recorded, InHand,
     Handles, Kinds, OnMs, OnHost, AddRecord, records_vars, d_records_vars
<1>7. InHand(p)'
  BY <1>1, <1>3, <1>4, <1>2, <1>23, <1>24, RedirectAssumption DEF InHand, Handles, Kinds, OnMs,
     OnHost, AddRecord, records_vars, d_records_vars
<1>8. /\ Room(th[p].at = "grow", Len(records), slots)'
      /\ Room(th[p].at = "d_grow", Len(d_records), d_slots)'
  BY <1>1, <1>3, <1>4, <1>2, <1>23, <1>24, RedirectAssumption DEF Room, AddRecord, records_vars,
     d_records_vars
<1>. QED
  BY <1>5, <1>6, <1>7, <1>8, Shown

LEMMA GrowKeeps ==
  ASSUME NEW p, Threads = {p}, TypeOK, Calls, Grow(p)
  PROVE  TypeOK' /\ Calls'
<1>1. /\ th \in [Threads -> Call] /\ files \in [Handles -> Kinds]
      /\ th[p].kind \in Kinds /\ th[p].arg \in Handles \cup {NoHandle} /\ th[p].num \in Nat
      /\ Len(records) \in Nat /\ Len(d_records) \in Nat
      /\ slots \in Nat /\ d_slots \in Nat
      /\ InHand(p) /\ Room(th[p].at = "grow", Len(records), slots)
      /\ Room(th[p].at = "d_grow", Len(d_records), d_slots)
  BY Known
<1>2. /\ th[p].arg \in HostHandles /\ th[p].arg \in Handles /\ files[th[p].arg] = "closed"
      /\ th[p].arg \in hostopen /\ th[p].kind # "closed"
      /\ Recorded
  BY <1>1 DEF InHand, OnHost, Calls, Handles, AddRecord, Grow
<1>21. (Len(records) + Chunk) % Chunk = 0
  BY <1>1, NextChunk, RedirectAssumption DEF Room, Grow
<1>3. th' \in [Threads -> Call] /\ th'[p].at = "idle" /\ th'[p].arg = NoHandle
  BY <1>1, Returned DEF Grow
<1>4. files' \in [Handles -> Kinds] /\ files'[th[p].arg] = th[p].kind
      /\ \A x \in Handles : x # th[p].arg => files'[x] = files[x]
  BY <1>1, <1>2, Filed DEF Grow
<1>5. TypeOK'
  BY <1>1, <1>3, <1>4, <1>2, <1>21, RedirectAssumption DEF TypeOK, Handles, Grow, records_vars,
     d_records_vars
<1>6. Recorded'
  BY <1>1, <1>3, <1>4, <1>2, <1>21, RedirectAssumption DEF Calls, Recorded, isRedirected,
     InHand, Handles, Kinds, OnMs, OnHost, Grow, records_vars, d_records_vars
<1>7. InHand(p)'
  BY <1>1, <1>3, <1>4, <1>2, <1>21, RedirectAssumption DEF InHand, isRedirected, Handles, Kinds,
     OnMs, OnHost, Grow, records_vars, d_records_vars
<1>8. /\ Room(th[p].at = "grow", Len(records), slots)'
      /\ Room(th[p].at = "d_grow", Len(d_records), d_slots)'
  BY <1>1, <1>3, <1>4, <1>2, <1>21, RedirectAssumption DEF Room, Grow, records_vars,
     d_records_vars
<1>. QED
  BY <1>5, <1>6, <1>7, <1>8, Shown

(* A directory of the memory stick; one that only the host may have.          *)
LEMMA MsDopenedKeeps ==
  ASSUME NEW p, Threads = {p}, TypeOK, Calls, th[p].at = "idle", NEW m \in MsHandles \ msopen,
         msopen' = msopen \cup {m}, Goto(p, "d_dopen", "dir", m, 0),
         UNCHANGED <<records_vars, d_records_vars, hostopen, files>>
  PROVE  TypeOK' /\ Calls'
<1>1. /\ th \in [Threads -> Call] /\ files \in [Handles -> Kinds]
      /\ th[p].kind \in Kinds /\ th[p].arg \in Handles \cup {NoHandle} /\ th[p].num \in Nat
      /\ Len(records) \in Nat /\ Len(d_records) \in Nat
      /\ slots \in Nat /\ d_slots \in Nat
      /\ InHand(p) /\ Room(th[p].at = "grow", Len(records), slots)
      /\ Room(th[p].at = "d_grow", Len(d_records), d_slots)
  BY Known
<1>3. /\ th' \in [Threads -> Call]
      /\ th'[p].at = "d_dopen" /\ th'[p].kind = "dir" /\ th'[p].arg = m /\ th'[p].num = 0
  BY <1>1, 0 \in Nat DEF Goto, Call, Kinds, Handles
<1>5. TypeOK'
  BY <1>1, <1>3, RedirectAssumption DEF TypeOK, Handles, records_vars, d_records_vars
<1>6. Recorded'
  BY <1>1, <1>3, RedirectAssumption DEF Calls, Recorded, isRedirected, InHand, Handles, Kinds,
     OnMs, OnHost, records_vars, d_records_vars
<1>7. InHand(p)'
  BY <1>1, <1>3, RedirectAssumption DEF InHand, isRedirected, Handles, Kinds, OnMs, OnHost,
     records_vars, d_records_vars
<1>8. /\ Room(th[p].at = "grow", Len(records), slots)'
      /\ Room(th[p].at = "d_grow", Len(d_records), d_slots)'
  BY <1>1, <1>3, RedirectAssumption DEF Room, records_vars, d_records_vars
<1>. QED
  BY <1>5, <1>6, <1>7, <1>8, Shown

LEMMA MsDopenMissing ==
  ASSUME NEW p, Threads = {p}, TypeOK, Calls, th[p].at = "idle",
         Goto(p, "host_dopen", "dir", NoHandle, 0),
         UNCHANGED <<records_vars, d_records_vars, msopen, hostopen, files>>
  PROVE  TypeOK' /\ Calls'
<1>1. /\ th \in [Threads -> Call] /\ files \in [Handles -> Kinds]
      /\ th[p].kind \in Kinds /\ th[p].arg \in Handles \cup {NoHandle} /\ th[p].num \in Nat
      /\ Len(records) \in Nat /\ Len(d_records) \in Nat
      /\ slots \in Nat /\ d_slots \in Nat
      /\ InHand(p) /\ Room(th[p].at = "grow", Len(records), slots)
      /\ Room(th[p].at = "d_grow", Len(d_records), d_slots)
  BY Known
<1>3. /\ th' \in [Threads -> Call]
      /\ th'[p].at = "host_dopen" /\ th'[p].kind = "dir" /\ th'[p].arg = NoHandle /\ th'[p].num = 0
  BY <1>1, 0 \in Nat DEF Goto, Call, Kinds, Handles
<1>5. TypeOK'
  BY <1>1, <1>3, RedirectAssumption DEF TypeOK, Handles, records_vars, d_records_vars
<1>6. Recorded'
  BY <1>1, <1>3, RedirectAssumption DEF Calls, Recorded, isRedirected, InHand, Handles, Kinds,
     OnMs, OnHost, records_vars, d_records_vars
<1>7. InHand(p)'
  BY <1>1, <1>3, RedirectAssumption DEF InHand, isRedirected, Handles, Kinds, OnMs, OnHost,
     records_vars, d_records_vars
<1>8. /\ Room(th[p].at = "grow", Len(records), slots)'
      /\ Room(th[p].at = "d_grow", Len(d_records), d_slots)'
  BY <1>1, <1>3, RedirectAssumption DEF Room, records_vars, d_records_vars
<1>. QED
  BY <1>5, <1>6, <1>7, <1>8, Shown

(* A directory of both is opened on the host as well.                         *)
LEMMA HostDopenFull ==
  ASSUME NEW p, Threads = {p}, TypeOK, Calls, th[p].at = "d_dopen",
         NEW h \in HostHandles \ hostopen,
         hostopen' = hostopen \cup {h},
         d_records' = Append(d_records, [ms_arg |-> th[p].arg, host_arg |-> h,
         read_end |-> FALSE]),
         UNCHANGED <<records_vars, d_slots, msopen>>,
         (Len(d_records) + 1) % Chunk = 0, Goto(p, "d_grow", "dir", th[p].arg, 0),
         UNCHANGED files
  PROVE  TypeOK' /\ Calls'
<1>1. /\ th \in [Threads -> Call] /\ files \in [Handles -> Kinds]
      /\ th[p].kind \in Kinds /\ th[p].arg \in Handles \cup {NoHandle} /\ th[p].num \in Nat
      /\ Len(records) \in Nat /\ Len(d_records) \in Nat
      /\ slots \in Nat /\ d_slots \in Nat
      /\ InHand(p) /\ Room(th[p].at = "grow", Len(records), slots)
      /\ Room(th[p].at = "d_grow", Len(d_records), d_slots)
  BY Known
<1>2. th[p].arg \in MsHandles /\ th[p].arg \in Handles /\ files[th[p].arg] = "closed"
  BY <1>1 DEF InHand, OnMs, Handles
<1>20. PICK d : d = [ms_arg |-> th[p].arg, host_arg |-> h, read_end |-> FALSE]
  OBVIOUS
<1>21. d \in DRecord
  BY <1>2, <1>20 DEF DRecord
<1>22. d_records \in Seq(DRecord) /\ d_records' = Append(d_records, d)
  BY <1>20, Zenon DEF TypeOK
<1>23. Append(d_records, d) \in Seq(DRecord) /\ Len(Append(d_records, d)) = Len(d_records) + 1
  BY <1>21, <1>22
<1>24. d_records' \in Seq(DRecord) /\ Len(d_records') = Len(d_records) + 1
  BY <1>22, <1>23, Zenon
<1>3. /\ th' \in [Threads -> Call]
      /\ th'[p].at = "d_grow" /\ th'[p].kind = "dir" /\ th'[p].arg = th[p].arg /\ th'[p].num = 0
  BY <1>1, 0 \in Nat DEF Goto, Call, Kinds, Handles
<1>5. TypeOK'
  BY <1>1, <1>3, <1>2, <1>24, RedirectAssumption DEF TypeOK, Handles, records_vars, d_records_vars
<1>6. Recorded'
  BY <1>1, <1>3, <1>2, <1>24, RedirectAssumption DEF Calls, Recorded, isRedirected, InHand,
     Handles, Kinds, OnMs, OnHost, records_vars, d_records_vars
<1>7. InHand(p)'
  BY <1>1, <1>3, <1>2, <1>24, RedirectAssumption DEF InHand, isRedirected, Handles, Kinds, OnMs,
     OnHost, records_vars, d_records_vars
<1>8. /\ Room(th[p].at = "grow", Len(records), slots)'
      /\ Room(th[p].at = "d_grow", Len(d_records), d_slots)'
  BY <1>1, <1>3, <1>2, <1>24, RedirectAssumption DEF Room, records_vars, d_records_vars
<1>. QED
  BY <1>5, <1>6, <1>7, <1>8, Shown

LEMMA HostDopenDone ==
  ASSUME NEW p, Threads = {p}, TypeOK, Calls, th[p].at = "d_dopen",
         NEW h \in HostHandles \ hostopen,
         hostopen' = hostopen \cup {h},
         d_records' = Append(d_records, [ms_arg |-> th[p].arg, host_arg |-> h,
         read_end |-> FALSE]),
         UNCHANGED <<records_vars, d_slots, msopen>>,
         (Len(d_records) + 1) % Chunk # 0, Return(p),
         files' = [files EXCEPT ![th[p].arg] = "dir"]
  PROVE  TypeOK' /\ Calls'
<1>1. /\ th \in [Threads -> Call] /\ files \in [Handles -> Kinds]
      /\ th[p].kind \in Kinds /\ th[p].arg \in Handles \cup {NoHandle} /\ th[p].num \in Nat
      /\ Len(records) \in Nat /\ Len(d_records) \in Nat
      /\ slots \in Nat /\ d_slots \in Nat
      /\ InHand(p) /\ Room(th[p].at = "grow", Len(records), slots)
      /\ Room(th[p].at = "d_grow", Len(d_records), d_slots)
  BY Known
<1>2. th[p].arg \in MsHandles /\ th[p].arg \in Handles /\ files[th[p].arg] = "closed"
  BY <1>1 DEF InHand, OnMs, Handles
<1>20. PICK d : d = [ms_arg |-> th[p].arg, host_arg |-> h, read_end |-> FALSE]
  OBVIOUS
<1>21. d \in DRecord
  BY <1>2, <1>20 DEF DRecord
<1>22. d_records \in Seq(DRecord) /\ d_records' = Append(d_records, d)
  BY <1>20, Zenon DEF TypeOK
<1>23. Append(d_records, d) \in Seq(DRecord) /\ Len(Append(d_records, d)) = Len(d_records) + 1
  BY <1>21, <1>22
<1>24. d_records' \in Seq(DRecord) /\ Len(d_records') = Len(d_records) + 1
  BY <1>22, <1>23, Zenon
<1>3. th' \in [Threads -> Call] /\ th'[p].at = "idle" /\ th'[p].arg = NoHandle
  BY <1>1, Returned
<1>4. files' \in [Handles -> Kinds] /\ files'[th[p].arg] = "dir"
      /\ \A x \in Handles : x # th[p].arg => files'[x] = files[x]
  BY <1>1, <1>2, Filed DEF Kinds
<1>5. TypeOK'
  BY <1>1, <1>3, <1>4, <1>2, <1>24, RedirectAssumption DEF TypeOK, Handles, records_vars,
     d_records_vars
<1>6. Recorded'
  BY <1>1, <1>3, <1>4, <1>2, <1>24, RedirectAssumption DEF Calls, Recorded, isRedirected,
     InHand, Handles, Kinds, OnMs, OnHost, records_vars, d_records_vars
<1>7. InHand(p)'
  BY <1>1, <1>3, <1>4, <1>2, <1>24, RedirectAssumption DEF InHand, isRedirected, Handles, Kinds,
     OnMs, OnHost, records_vars, d_records_vars
<1>8. /\ Room(th[p].at = "grow", Len(records), slots)'
      /\ Room(th[p].at = "d_grow", Len(d_records), d_slots)'
  BY <1>1, <1>3, <1>4, <1>2, <1>24, RedirectAssumption DEF Room, records_vars, d_records_vars
<1>. QED
  BY <1>5, <1>6, <1>7, <1>8, Shown

LEMMA HostDopenFails ==
  ASSUME NEW p, Threads = {p}, TypeOK, Calls, th[p].at = "d_dopen", Return(p),
         files' = [files EXCEPT ![th[p].arg] = "dir"],
         UNCHANGED <<records_vars, d_records_vars, msopen, hostopen>>
  PROVE  TypeOK' /\ Calls'
<1>1. /\ th \in [Threads -> Call] /\ files \in [Handles -> Kinds]
      /\ th[p].kind \in Kinds /\ th[p].arg \in Handles \cup {NoHandle} /\ th[p].num \in Nat
      /\ Len(records) \in Nat /\ Len(d_records) \in Nat
      /\ slots \in Nat /\ d_slots \in Nat
      /\ InHand(p) /\ Room(th[p].at = "grow", Len(records), slots)
      /\ Room(th[p].at = "d_grow", Len(d_records), d_slots)
  BY Known
<1>2. th[p].arg \in MsHandles /\ th[p].arg \in Handles /\ files[th[p].arg] = "closed"
  BY <1>1 DEF InHand, OnMs, Handles
<1>3. th' \in [Threads -> Call] /\ th'[p].at = "idle" /\ th'[p].arg = NoHandle
  BY <1>1, Returned
<1>4. files' \in [Handles -> Kinds] /\ files'[th[p].arg] = "dir"
      /\ \A x \in Handles : x # th[p].arg => files'[x] = files[x]
  BY <1>1, <1>2, Filed DEF Kinds
<1>5. TypeOK'
  BY <1>1, <1>3, <1>4, <1>2, RedirectAssumption DEF TypeOK, Handles, records_vars, d_records_vars
<1>6. Recorded'
  BY <1>1, <1>3, <1>4, <1>2, RedirectAssumption DEF Calls, Recorded, isRedirected, InHand,
     Handles, Kinds, OnMs, OnHost, records_vars, d_records_vars
<1>7. InHand(p)'
  BY <1>1, <1>3, <1>4, <1>2, RedirectAssumption DEF InHand, isRedirected, Handles, Kinds, OnMs,
     OnHost, records_vars, d_records_vars
<1>8. /\ Room(th[p].at = "grow", Len(records), slots)'
      /\ Room(th[p].at = "d_grow", Len(d_records), d_slots)'
  BY <1>1, <1>3, <1>4, <1>2, RedirectAssumption DEF Room, records_vars, d_records_vars
<1>. QED
  BY <1>5, <1>6, <1>7, <1>8, Shown

LEMMA DGrowKeeps ==
  ASSUME NEW p, Threads = {p}, TypeOK, Calls, DGrow(p)
  PROVE  TypeOK' /\ Calls'
<1>1. /\ th \in [Threads -> Call] /\ files \in [Handles -> Kinds]
      /\ th[p].kind \in Kinds /\ th[p].arg \in Handles \cup {NoHandle} /\ th[p].num \in Nat
      /\ Len(records) \in Nat /\ Len(d_records) \in Nat
      /\ slots \in Nat /\ d_slots \in Nat
      /\ InHand(p) /\ Room(th[p].at = "grow", Len(records), slots)
      /\ Room(th[p].at = "d_grow", Len(d_records), d_slots)
  BY Known
<1>2. th[p].arg \in MsHandles /\ th[p].arg \in Handles /\ files[th[p].arg] = "closed"
  BY <1>1 DEF DGrow, InHand, OnMs, Handles
<1>21. (Len(d_records) + Chunk) % Chunk = 0
  BY <1>1, NextChunk, RedirectAssumption DEF Room, DGrow
<1>3. th' \in [Threads -> Call] /\ th'[p].at = "idle" /\ th'[p].arg = NoHandle
  BY <1>1, Returned DEF DGrow
<1>4. files' \in [Handles -> Kinds] /\ files'[th[p].arg] = "dir"
      /\ \A x \in Handles : x # th[p].arg => files'[x] = files[x]
  BY <1>1, <1>2, Filed DEF DGrow, Kinds
<1>5. TypeOK'
  BY <1>1, <1>3, <1>4, <1>2, <1>21, RedirectAssumption DEF TypeOK, Handles, DGrow, records_vars,
     d_records_vars
<1>6. Recorded'
  BY <1>1, <1>3, <1>4, <1>2, <1>21, RedirectAssumption DEF Calls, Recorded, isRedirected,
     InHand, Handles, Kinds, OnMs, OnHost, DGrow, records_vars, d_records_vars
<1>7. InHand(p)'
  BY <1>1, <1>3, <1>4, <1>2, <1>21, RedirectAssumption DEF InHand, isRedirected, Handles, Kinds,
     OnMs, OnHost, DGrow, records_vars, d_records_vars
<1>8. /\ Room(th[p].at = "grow", Len(records), slots)'
      /\ Room(th[p].at = "d_grow", Len(d_records), d_slots)'
  BY <1>1, <1>3, <1>4, <1>2, <1>21, RedirectAssumption DEF Room, DGrow, records_vars,
     d_records_vars
<1>. QED
  BY <1>5, <1>6, <1>7, <1>8, Shown

(* A close, by what isRedirected and isCombinated find.                       *)
LEMMA CloseRedirected ==
  ASSUME NEW p, Threads = {p}, TypeOK, Calls, th[p].at = "idle", NEW h \in Handles,
         files[h] # "closed", files' = [files EXCEPT ![h] = "closed"],
         UNCHANGED <<records_vars, d_records_vars, msopen, hostopen>>,
         isRedirected(h), Goto(p, "host_close", files[h], h, RecordOf(h))
  PROVE  TypeOK' /\ Calls'
<1>1. /\ th \in [Threads -> Call] /\ files \in [Handles -> Kinds]
      /\ th[p].kind \in Kinds /\ th[p].arg \in Handles \cup {NoHandle} /\ th[p].num \in Nat
      /\ Len(records) \in Nat /\ Len(d_records) \in Nat
      /\ slots \in Nat /\ d_slots \in Nat
      /\ InHand(p) /\ Room(th[p].at = "grow", Len(records), slots)
      /\ Room(th[p].at = "d_grow", Len(d_records), d_slots)
  BY Known
<1>2. h \in HostHandles <=> isRedirected(h)
  BY RedirectAssumption DEF Calls, Recorded, isRedirected, Handles
<1>3a. RecordOf(h) \in 1 .. Len(records) /\ records[RecordOf(h)] = h /\ RecordOf(h) \in Nat
  BY <1>1, RecordFound DEF TypeOK
<1>3. /\ th' \in [Threads -> Call]
      /\ th'[p].at = "host_close" /\ th'[p].kind = files[h] /\ th'[p].arg = h /\ th'[p].num = RecordOf(h)
  BY <1>1, <1>3a DEF Goto, Call, Kinds, Handles
<1>4. files' \in [Handles -> Kinds] /\ files'[h] = "closed"
      /\ \A x \in Handles : x # h => files'[x] = files[x]
  BY <1>1, Filed DEF Kinds
<1>5. TypeOK'
  BY <1>1, <1>3, <1>4, <1>2, <1>3a, RedirectAssumption DEF TypeOK, Handles, records_vars,
     d_records_vars
<1>6. Recorded'
  BY <1>1, <1>3, <1>4, <1>2, <1>3a, RedirectAssumption DEF Calls, Recorded, isRedirected,
     InHand, Handles, Kinds, OnMs, OnHost, records_vars, d_records_vars
<1>7. InHand(p)'
  BY <1>1, <1>3, <1>4, <1>2, <1>3a, RedirectAssumption DEF InHand, isRedirected, Handles, Kinds,
     OnMs, OnHost, records_vars, d_records_vars
<1>8. /\ Room(th[p].at = "grow", Len(records), slots)'
      /\ Room(th[p].at = "d_grow", Len(d_records), d_slots)'
  BY <1>1, <1>3, <1>4, <1>2, <1>3a, RedirectAssumption DEF Room, records_vars, d_records_vars
<1>. QED
  BY <1>5, <1>6, <1>7, <1>8, Shown

LEMMA CloseCombinated ==
  ASSUME NEW p, Threads = {p}, TypeOK, Calls, th[p].at = "idle", NEW h \in Handles,
         files[h] # "closed", files' = [files EXCEPT ![h] = "closed"],
         UNCHANGED <<records_vars, d_records_vars, msopen, hostopen>>,
         ~isRedirected(h), isCombinated(h), Goto(p, "host_dclose", "dir", h, DRecordOf(h))
  PROVE  TypeOK' /\ Calls'
<1>1. /\ th \in [Threads -> Call] /\ files \in [Handles -> Kinds]
      /\ th[p].kind \in Kinds /\ th[p].arg \in Handles \cup {NoHandle} /\ th[p].num \in Nat
      /\ Len(records) \in Nat /\ Len(d_records) \in Nat
      /\ slots \in Nat /\ d_slots \in Nat
      /\ InHand(p) /\ Room(th[p].at = "grow", Len(records), slots)
      /\ Room(th[p].at = "d_grow", Len(d_records), d_slots)
  BY Known
<1>2. h \in HostHandles <=> isRedirected(h)
  BY RedirectAssumption DEF Calls, Recorded, isRedirected, Handles
<1>3a. DRecordOf(h) \in 1 .. Len(d_records) /\ DRecordOf(h) \in Nat
  BY <1>1, DRecordFound
<1>3. /\ th' \in [Threads -> Call]
      /\ th'[p].at = "host_dclose" /\ th'[p].kind = "dir" /\ th'[p].arg = h /\ th'[p].num = DRecordOf(h)
  BY <1>1, <1>3a DEF Goto, Call, Kinds, Handles
<1>4. files' \in [Handles -> Kinds] /\ files'[h] = "closed"
      /\ \A x \in Handles : x # h => files'[x] = files[x]
  BY <1>1, Filed DEF Kinds
<1>5. TypeOK'
  BY <1>1, <1>3, <1>4, <1>2, <1>3a, RedirectAssumption DEF TypeOK, Handles, records_vars,
     d_records_vars
<1>6. Recorded'
  BY <1>1, <1>3, <1>4, <1>2, <1>3a, RedirectAssumption DEF Calls, Recorded, isRedirected,
     InHand, Handles, Kinds, OnMs, OnHost, records_vars, d_records_vars
<1>7. InHand(p)'
  BY <1>1, <1>3, <1>4, <1>2, <1>3a, RedirectAssumption DEF InHand, isRedirected, Handles, Kinds,
     OnMs, OnHost, records_vars, d_records_vars
<1>8. /\ Room(th[p].at = "grow", Len(records), slots)'
      /\ Room(th[p].at = "d_grow", Len(d_records), d_slots)'
  BY <1>1, <1>3, <1>4, <1>2, <1>3a, RedirectAssumption DEF Room, records_vars, d_records_vars
<1>. QED
  BY <1>5, <1>6, <1>7, <1>8, Shown

LEMMA CloseMs ==
  ASSUME NEW p, Threads = {p}, TypeOK, Calls, th[p].at = "idle", NEW h \in Handles,
         files[h] # "closed", files' = [files EXCEPT ![h] = "closed"],
         UNCHANGED <<records_vars, d_records_vars, msopen, hostopen>>,
         ~isRedirected(h), Goto(p, "ms_close", files[h], h, 0)
  PROVE  TypeOK' /\ Calls'
<1>1. /\ th \in [Threads -> Call] /\ files \in [Handles -> Kinds]
      /\ th[p].kind \in Kinds /\ th[p].arg \in Handles \cup {NoHandle} /\ th[p].num \in Nat
      /\ Len(records) \in Nat /\ Len(d_records) \in Nat
      /\ slots \in Nat /\ d_slots \in Nat
      /\ InHand(p) /\ Room(th[p].at = "grow", Len(records), slots)
      /\ Room(th[p].at = "d_grow", Len(d_records), d_slots)
  BY Known
<1>2. h \in HostHandles <=> isRedirected(h)
  BY RedirectAssumption DEF Calls, Recorded, isRedirected, Handles
<1>3. /\ th' \in [Threads -> Call]
      /\ th'[p].at = "ms_close" /\ th'[p].kind = files[h] /\ th'[p].arg = h /\ th'[p].num = 0
  BY <1>1, 0 \in Nat DEF Goto, Call, Kinds, Handles
<1>4. files' \in [Handles -> Kinds] /\ files'[h] = "closed"
      /\ \A x \in Handles : x # h => files'[x] = files[x]
  BY <1>1, Filed DEF Kinds
<1>5. TypeOK'
  BY <1>1, <1>3, <1>4, <1>2, RedirectAssumption DEF TypeOK, Handles, records_vars, d_records_vars
<1>6. Recorded'
  BY <1>1, <1>3, <1>4, <1>2, RedirectAssumption DEF Calls, Recorded, isRedirected, InHand,
     Handles, Kinds, OnMs, OnHost, records_vars, d_records_vars
<1>7. InHand(p)'
  BY <1>1, <1>3, <1>4, <1>2, RedirectAssumption DEF InHand, isRedirected, Handles, Kinds, OnMs,
     OnHost, records_vars, d_records_vars
<1>8. /\ Room(th[p].at = "grow", Len(records), slots)'
      /\ Room(th[p].at = "d_grow", Len(d_records), d_slots)'
  BY <1>1, <1>3, <1>4, <1>2, RedirectAssumption DEF Room, records_vars, d_records_vars
<1>. QED
  BY <1>5, <1>6, <1>7, <1>8, Shown

LEMMA HostCloseKeeps ==
  ASSUME NEW p, Threads = {p}, TypeOK, Calls, HostClose(p)
  PROVE  TypeOK' /\ Calls'
<1>1. /\ th \in [Threads -> Call] /\ files \in [Handles -> Kinds]
      /\ th[p].kind \in Kinds /\ th[p].arg \in Handles \cup {NoHandle} /\ th[p].num \in Nat
      /\ Len(records) \in Nat /\ Len(d_records) \in Nat
      /\ slots \in Nat /\ d_slots \in Nat
      /\ InHand(p) /\ Room(th[p].at = "grow", Len(records), slots)
      /\ Room(th[p].at = "d_grow", Len(d_records), d_slots)
  BY Known
<1>3. th' \in [Threads -> Call] /\ th'[p].at = "remove"
      /\ th'[p].kind = th[p].kind /\ th'[p].arg = th[p].arg /\ th'[p].num = th[p].num
  BY <1>1, Turned DEF HostClose
<1>5. TypeOK'
  BY <1>1, <1>3, RedirectAssumption DEF TypeOK, Handles, HostClose, records_vars, d_records_vars
<1>6. Recorded'
  BY <1>1, <1>3, RedirectAssumption DEF Calls, Recorded, isRedirected, InHand, Handles, Kinds,
     OnMs, OnHost, HostClose, records_vars, d_records_vars
<1>7. InHand(p)'
  BY <1>1, <1>3, RedirectAssumption DEF InHand, isRedirected, Handles, Kinds, OnMs, OnHost,
     HostClose, records_vars, d_records_vars
<1>8. /\ Room(th[p].at = "grow", Len(records), slots)'
      /\ Room(th[p].at = "d_grow", Len(d_records), d_slots)'
  BY <1>1, <1>3, RedirectAssumption DEF Room, HostClose, records_vars, d_records_vars
<1>. QED
  BY <1>5, <1>6, <1>7, <1>8, Shown

LEMMA HostDcloseKeeps ==
  ASSUME NEW p, Threads = {p}, TypeOK, Calls, HostDclose(p)
  PROVE  TypeOK' /\ Calls'
<1>1. /\ th \in [Threads -> Call] /\ files \in [Handles -> Kinds]
      /\ th[p].kind \in Kinds /\ th[p].arg \in Handles \cup {NoHandle} /\ th[p].num \in Nat
      /\ Len(records) \in Nat /\ Len(d_records) \in Nat
      /\ slots \in Nat /\ d_slots \in Nat
      /\ InHand(p) /\ Room(th[p].at = "grow", Len(records), slots)
      /\ Room(th[p].at = "d_grow", Len(d_records), d_slots)
  BY Known
<1>3. th' \in [Threads -> Call] /\ th'[p].at = "d_remove"
      /\ th'[p].kind = th[p].kind /\ th'[p].arg = th[p].arg /\ th'[p].num = th[p].num
  BY <1>1, Turned DEF HostDclose
<1>5. TypeOK'
  BY <1>1, <1>3, RedirectAssumption DEF TypeOK, Handles, HostDclose, records_vars, d_records_vars
<1>6. Recorded'
  BY <1>1, <1>3, RedirectAssumption DEF Calls, Recorded, isRedirected, InHand, Handles, Kinds,
     OnMs, OnHost, HostDclose, records_vars, d_records_vars
<1>7. InHand(p)'
  BY <1>1, <1>3, RedirectAssumption DEF InHand, isRedirected, Handles, Kinds, OnMs, OnHost,
     HostDclose, records_vars, d_records_vars
<1>8. /\ Room(th[p].at = "grow", Len(records), slots)'
      /\ Room(th[p].at = "d_grow", Len(d_records), d_slots)'
  BY <1>1, <1>3, RedirectAssumption DEF Room, HostDclose, records_vars, d_records_vars
<1>. QED
  BY <1>5, <1>6, <1>7, <1>8, Shown

LEMMA RemoveRecordKeeps ==
  ASSUME NEW p, Threads = {p}, TypeOK, Calls, RemoveRecord(p)
  PROVE  TypeOK' /\ Calls'
<1>1. /\ th \in [Threads -> Call] /\ files \in [Handles -> Kinds]
      /\ th[p].kind \in Kinds /\ th[p].arg \in Handles \cup {NoHandle} /\ th[p].num \in Nat
      /\ Len(records) \in Nat /\ Len(d_records) \in Nat
      /\ slots \in Nat /\ d_slots \in Nat
      /\ InHand(p) /\ Room(th[p].at = "grow", Len(records), slots)
      /\ Room(th[p].at = "d_grow", Len(d_records), d_slots)
  BY Known
<1>2. /\ th[p].num \in 1 .. Len(records) /\ records[th[p].num] = th[p].arg
      /\ th[p].arg \in HostHandles /\ files[th[p].arg] = "closed"
      /\ records \in Seq(HostHandles)
      /\ \A h \in HostHandles : files[h] # "closed" => h \in hostopen /\ isRedirected(h)
  BY <1>1 DEF InHand, OnHost, RemoveRecord, Calls, Recorded
<1>20. records' = RemoveAt(records, th[p].num)
  BY DEF RemoveRecord
<1>21. /\ records' \in Seq(HostHandles) /\ Len(records') = Len(records) - 1
       /\ \A j \in 1 .. Len(records) - 1 : records'[j] = records[IF j < th[p].num THEN j ELSE j + 1]
  <2>1. PICK i \in 1 .. Len(records) : i = th[p].num
    BY <1>2
  <2>2. /\ RemoveAt(records, i) \in Seq(HostHandles) /\ Len(RemoveAt(records, i)) = Len(records) - 1
        /\ \A j \in 1 .. Len(records) - 1 : RemoveAt(records, i)[j] = records[IF j < i THEN j ELSE j + 1]
    BY <1>2, Removed
  <2>3. records' = RemoveAt(records, i)
    BY <1>20, <2>1, Zenon
  <2>. QED
    BY <2>1, <2>2, <2>3, Zenon
<1>22. ASSUME NEW h \in HostHandles, files[h] # "closed" PROVE isRedirected(h)'
  <2>1. PICK i \in 1 .. Len(records) : records[i] = h /\ i # th[p].num
    BY <1>2, <1>22 DEF isRedirected
  <2>2. CASE i < th[p].num
    <3>1. i \in 1 .. Len(records) - 1
      BY <1>1, <1>2, <2>1, <2>2
    <3>. QED
      BY <1>21, <2>1, <2>2, <3>1 DEF isRedirected
  <2>3. CASE ~(i < th[p].num)
    <3>1. i - 1 \in 1 .. Len(records) - 1 /\ ~(i - 1 < th[p].num) /\ (i - 1) + 1 = i
      BY <1>1, <1>2, <2>1, <2>3
    <3>. QED
      BY <1>21, <2>1, <3>1 DEF isRedirected
  <2>. QED
    BY <2>2, <2>3
<1>23. records' \in Seq(Handles)
  BY <1>21 DEF Handles
<1>24. records' \in Seq(HostHandles) /\ Len(records') = Len(records) - 1
  BY <1>21
<1>3. th' \in [Threads -> Call] /\ th'[p].at = "idle" /\ th'[p].arg = NoHandle
  BY <1>1, Returned DEF RemoveRecord
<1>5. TypeOK'
  BY <1>1, <1>3, <1>2, <1>22, <1>23, <1>24, RedirectAssumption DEF TypeOK, Handles,
     RemoveRecord, records_vars, d_records_vars
<1>6. Recorded'
  BY <1>1, <1>3, <1>2, <1>22, <1>23, <1>24, RedirectAssumption DEF Calls, Recorded, InHand,
     Handles, Kinds, OnMs, OnHost, RemoveRecord, records_vars, d_records_vars
<1>7. InHand(p)'
  BY <1>1, <1>3, <1>2, <1>22, <1>23, <1>24, RedirectAssumption DEF InHand, Handles, Kinds, OnMs,
     OnHost, RemoveRecord, records_vars, d_records_vars
<1>8. /\ Room(th[p].at = "grow", Len(records), slots)'
      /\ Room(th[p].at = "d_grow", Len(d_records), d_slots)'
  BY <1>1, <1>3, <1>2, <1>22, <1>23, <1>24, RedirectAssumption DEF Room, RemoveRecord,
     records_vars, d_records_vars
<1>. QED
  BY <1>5, <1>6, <1>7, <1>8, Shown

LEMMA RemoveDRecordKeeps ==
  ASSUME NEW p, Threads = {p}, TypeOK, Calls, RemoveDRecord(p)
  PROVE  TypeOK' /\ Calls'
<1>1. /\ th \in [Threads -> Call] /\ files \in [Handles -> Kinds]
      /\ th[p].kind \in Kinds /\ th[p].arg \in Handles \cup {NoHandle} /\ th[p].num \in Nat
      /\ Len(records) \in Nat /\ Len(d_records) \in Nat
      /\ slots \in Nat /\ d_slots \in Nat
      /\ InHand(p) /\ Room(th[p].at = "grow", Len(records), slots)
      /\ Room(th[p].at = "d_grow", Len(d_records), d_slots)
  BY Known
<1>2. th[p].num \in 1 .. Len(d_records) /\ d_records \in Seq(DRecord)
  BY <1>1 DEF InHand, RemoveDRecord, TypeOK
<1>20. d_records' = RemoveAt(d_records, th[p].num)
  BY DEF RemoveDRecord
<1>21. d_records' \in Seq(DRecord) /\ Len(d_records') = Len(d_records) - 1
  <2>1. RemoveAt(d_records, th[p].num) \in Seq(DRecord) /\ Len(RemoveAt(d_records, th[p].num)) = Len(d_records) - 1
    BY <1>2, Removed
  <2>. QED
    BY <1>20, <2>1, Zenon
<1>3. th' \in [Threads -> Call] /\ th'[p].at = "ms_close"
      /\ th'[p].kind = th[p].kind /\ th'[p].arg = th[p].arg /\ th'[p].num = th[p].num
  BY <1>1, Turned DEF RemoveDRecord
<1>5. TypeOK'
  BY <1>1, <1>3, <1>2, <1>21, RedirectAssumption DEF TypeOK, Handles, RemoveDRecord,
     records_vars, d_records_vars
<1>6. Recorded'
  BY <1>1, <1>3, <1>2, <1>21, RedirectAssumption DEF Calls, Recorded, isRedirected, InHand,
     Handles, Kinds, OnMs, OnHost, RemoveDRecord, records_vars, d_records_vars
<1>7. InHand(p)'
  BY <1>1, <1>3, <1>2, <1>21, RedirectAssumption DEF InHand, isRedirected, Handles, Kinds, OnMs,
     OnHost, RemoveDRecord, records_vars, d_records_vars
<1>8. /\ Room(th[p].at = "grow", Len(records), slots)'
      /\ Room(th[p].at = "d_grow", Len(d_records), d_slots)'
  BY <1>1, <1>3, <1>2, <1>21, RedirectAssumption DEF Room, RemoveDRecord, records_vars,
     d_records_vars
<1>. QED
  BY <1>5, <1>6, <1>7, <1>8, Shown

LEMMA MsCloseKeeps ==
  ASSUME NEW p, Threads = {p}, TypeOK, Calls, MsClose(p)
  PROVE  TypeOK' /\ Calls'
<1>1. /\ th \in [Threads -> Call] /\ files \in [Handles -> Kinds]
      /\ th[p].kind \in Kinds /\ th[p].arg \in Handles \cup {NoHandle} /\ th[p].num \in Nat
      /\ Len(records) \in Nat /\ Len(d_records) \in Nat
      /\ slots \in Nat /\ d_slots \in Nat
      /\ InHand(p) /\ Room(th[p].at = "grow", Len(records), slots)
      /\ Room(th[p].at = "d_grow", Len(d_records), d_slots)
  BY Known
<1>3. th' \in [Threads -> Call] /\ th'[p].at = "idle" /\ th'[p].arg = NoHandle
  BY <1>1, Returned DEF MsClose
<1>5. TypeOK'
  BY <1>1, <1>3, RedirectAssumption DEF TypeOK, Handles, MsClose, records_vars, d_records_vars
<1>6. Recorded'
  BY <1>1, <1>3, RedirectAssumption DEF Calls, Recorded, isRedirected, InHand, Handles, Kinds,
     OnMs, OnHost, MsClose, records_vars, d_records_vars
<1>7. InHand(p)'
  BY <1>1, <1>3, RedirectAssumption DEF InHand, isRedirected, Handles, Kinds, OnMs, OnHost,
     MsClose, records_vars, d_records_vars
<1>8. /\ Room(th[p].at = "grow", Len(records), slots)'
      /\ Room(th[p].at = "d_grow", Len(d_records), d_slots)'
  BY <1>1, <1>3, RedirectAssumption DEF Room, MsClose, records_vars, d_records_vars
<1>. QED
  BY <1>5, <1>6, <1>7, <1>8, Shown

LEMMA DreadKeeps ==
  ASSUME NEW p, Threads = {p}, TypeOK, Calls, Dread(p)
  PROVE  TypeOK' /\ Calls'
<1>1. /\ th \in [Threads -> Call] /\ files \in [Handles -> Kinds]
      /\ th[p].kind \in Kinds /\ th[p].arg \in Handles \cup {NoHandle} /\ th[p].num \in Nat
      /\ Len(records) \in Nat /\ Len(d_records) \in Nat
      /\ slots \in Nat /\ d_slots \in Nat
      /\ InHand(p) /\ Room(th[p].at = "grow", Len(records), slots)
      /\ Room(th[p].at = "d_grow", Len(d_records), d_slots)
  BY Known
<1>2. PICK h \in Handles : isCombinated(h) /\ Goto(p, "host_dread", "dir", h, DRecordOf(h))
  BY DEF Dread
<1>3a. DRecordOf(h) \in 1 .. Len(d_records) /\ DRecordOf(h) \in Nat
  BY <1>1, <1>2, DRecordFound
<1>3. th' \in [Threads -> Call] /\ th'[p].at = "host_dread" /\ th'[p].num = DRecordOf(h)
  BY <1>1, <1>2, <1>3a DEF Goto, Call, Kinds, Handles
<1>5. TypeOK'
  BY <1>1, <1>3, <1>2, <1>3a, RedirectAssumption DEF TypeOK, Handles, Dread, records_vars,
     d_records_vars
<1>6. Recorded'
  BY <1>1, <1>3, <1>2, <1>3a, RedirectAssumption DEF Calls, Recorded, isRedirected, InHand,
     Handles, Kinds, OnMs, OnHost, Dread, records_vars, d_records_vars
<1>7. InHand(p)'
  BY <1>1, <1>3, <1>2, <1>3a, RedirectAssumption DEF InHand, isRedirected, Handles, Kinds, OnMs,
     OnHost, Dread, records_vars, d_records_vars
<1>8. /\ Room(th[p].at = "grow", Len(records), slots)'
      /\ Room(th[p].at = "d_grow", Len(d_records), d_slots)'
  BY <1>1, <1>3, <1>2, <1>3a, RedirectAssumption DEF Room, Dread, records_vars, d_records_vars
<1>. QED
  BY <1>5, <1>6, <1>7, <1>8, Shown

LEMMA HostDreadKeeps ==
  ASSUME NEW p, Threads = {p}, TypeOK, Calls, HostDread(p)
  PROVE  TypeOK' /\ Calls'
<1>1. /\ th \in [Threads -> Call] /\ files \in [Handles -> Kinds]
      /\ th[p].kind \in Kinds /\ th[p].arg \in Handles \cup {NoHandle} /\ th[p].num \in Nat
      /\ Len(records) \in Nat /\ Len(d_records) \in Nat
      /\ slots \in Nat /\ d_slots \in Nat
      /\ InHand(p) /\ Room(th[p].at = "grow", Len(records), slots)
      /\ Room(th[p].at = "d_grow", Len(d_records), d_slots)
  BY Known
<1>2. th[p].num \in 1 .. Len(d_records) /\ d_records \in Seq(DRecord)
  BY <1>1 DEF InHand, HostDread, TypeOK
<1>21. d_records' \in Seq(DRecord) /\ Len(d_records') = Len(d_records)
  <2>1. CASE UNCHANGED d_records
    BY <1>2, <2>1
  <2>2. CASE d_records' = [d_records EXCEPT ![th[p].num].read_end = TRUE]
    <3>1. d_records[th[p].num] \in DRecord
      BY <1>2
    <3>2. PICK d : d = [d_records[th[p].num] EXCEPT !.read_end = TRUE]
      OBVIOUS
    <3>3. d \in DRecord
      BY <3>1, <3>2 DEF DRecord
    <3>4. d_records' = [d_records EXCEPT ![th[p].num] = d]
      BY <2>2, <3>2, Zenon
    <3>. QED
      BY <1>2, <3>3, <3>4
  <2>. QED
    BY <2>1, <2>2 DEF HostDread
<1>3. th' \in [Threads -> Call] /\ th'[p].at = "idle" /\ th'[p].arg = NoHandle
  BY <1>1, Returned DEF HostDread
<1>5. TypeOK'
  BY <1>1, <1>3, <1>2, <1>21, RedirectAssumption DEF TypeOK, Handles, HostDread, records_vars,
     d_records_vars
<1>6. Recorded'
  BY <1>1, <1>3, <1>2, <1>21, RedirectAssumption DEF Calls, Recorded, isRedirected, InHand,
     Handles, Kinds, OnMs, OnHost, HostDread, records_vars, d_records_vars
<1>7. InHand(p)'
  BY <1>1, <1>3, <1>2, <1>21, RedirectAssumption DEF InHand, isRedirected, Handles, Kinds, OnMs,
     OnHost, HostDread, records_vars, d_records_vars
<1>8. /\ Room(th[p].at = "grow", Len(records), slots)'
      /\ Room(th[p].at = "d_grow", Len(d_records), d_slots)'
  BY <1>1, <1>3, <1>2, <1>21, RedirectAssumption DEF Room, HostDread, records_vars, d_records_vars
<1>. QED
  BY <1>5, <1>6, <1>7, <1>8, Shown

LEMMA UseKeeps ==
  ASSUME NEW p, Threads = {p}, TypeOK, Calls, Use(p)
  PROVE  TypeOK' /\ Calls'
<1>1. /\ th \in [Threads -> Call] /\ files \in [Handles -> Kinds]
      /\ th[p].kind \in Kinds /\ th[p].arg \in Handles \cup {NoHandle} /\ th[p].num \in Nat
      /\ Len(records) \in Nat /\ Len(d_records) \in Nat
      /\ slots \in Nat /\ d_slots \in Nat
      /\ InHand(p) /\ Room(th[p].at = "grow", Len(records), slots)
      /\ Room(th[p].at = "d_grow", Len(d_records), d_slots)
  BY Known
<1>3. th' \in [Threads -> Call] /\ th'[p].at = "host_io"
  BY <1>1, 0 \in Nat DEF Use, Goto, Call, Kinds, Handles
<1>5. TypeOK'
  BY <1>1, <1>3, RedirectAssumption DEF TypeOK, Handles, Use, records_vars, d_records_vars
<1>6. Recorded'
  BY <1>1, <1>3, RedirectAssumption DEF Calls, Recorded, isRedirected, InHand, Handles, Kinds,
     OnMs, OnHost, Use, records_vars, d_records_vars
<1>7. InHand(p)'
  BY <1>1, <1>3, RedirectAssumption DEF InHand, isRedirected, Handles, Kinds, OnMs, OnHost, Use,
     records_vars, d_records_vars
<1>8. /\ Room(th[p].at = "grow", Len(records), slots)'
      /\ Room(th[p].at = "d_grow", Len(d_records), d_slots)'
  BY <1>1, <1>3, RedirectAssumption DEF Room, Use, records_vars, d_records_vars
<1>. QED
  BY <1>5, <1>6, <1>7, <1>8, Shown

LEMMA QueryKeeps ==
  ASSUME NEW p, Threads = {p}, TypeOK, Calls, Query(p)
  PROVE  TypeOK' /\ Calls'
<1>1. /\ th \in [Threads -> Call] /\ files \in [Handles -> Kinds]
      /\ th[p].kind \in Kinds /\ th[p].arg \in Handles \cup {NoHandle} /\ th[p].num \in Nat
      /\ Len(records) \in Nat /\ Len(d_records) \in Nat
      /\ slots \in Nat /\ d_slots \in Nat
      /\ InHand(p) /\ Room(th[p].at = "grow", Len(records), slots)
      /\ Room(th[p].at = "d_grow", Len(d_records), d_slots)
  BY Known
<1>3. th' \in [Threads -> Call] /\ th'[p].at \in {"host_stat", "host_chdir"}
  BY <1>1, 0 \in Nat DEF Query, Goto, Call, Kinds, Handles
<1>5. TypeOK'
  BY <1>1, <1>3, RedirectAssumption DEF TypeOK, Handles, Query, records_vars, d_records_vars
<1>6. Recorded'
  BY <1>1, <1>3, RedirectAssumption DEF Calls, Recorded, isRedirected, InHand, Handles, Kinds,
     OnMs, OnHost, Query, records_vars, d_records_vars
<1>7. InHand(p)'
  BY <1>1, <1>3, RedirectAssumption DEF InHand, isRedirected, Handles, Kinds, OnMs, OnHost,
     Query, records_vars, d_records_vars
<1>8. /\ Room(th[p].at = "grow", Len(records), slots)'
      /\ Room(th[p].at = "d_grow", Len(d_records), d_slots)'
  BY <1>1, <1>3, RedirectAssumption DEF Room, Query, records_vars, d_records_vars
<1>. QED
  BY <1>5, <1>6, <1>7, <1>8, Shown

(* Not redirected: the memory stick's handle is closed at once.               *)
LEMMA DirectClose ==
  ASSUME NEW p, Threads = {p}, TypeOK, Calls, th[p].at = "idle", NEW m \in MsHandles,
         files' = [files EXCEPT ![m] = "closed"], msopen' = msopen \ {m},
         UNCHANGED <<records_vars, d_records_vars, hostopen, th>>
  PROVE  TypeOK' /\ Calls'
<1>1. /\ th \in [Threads -> Call] /\ files \in [Handles -> Kinds]
      /\ th[p].kind \in Kinds /\ th[p].arg \in Handles \cup {NoHandle} /\ th[p].num \in Nat
      /\ Len(records) \in Nat /\ Len(d_records) \in Nat
      /\ slots \in Nat /\ d_slots \in Nat
      /\ InHand(p) /\ Room(th[p].at = "grow", Len(records), slots)
      /\ Room(th[p].at = "d_grow", Len(d_records), d_slots)
  BY Known
<1>3. th' \in [Threads -> Call] /\ th' = th
  BY <1>1, Zenon
<1>4. files' \in [Handles -> Kinds] /\ files'[m] = "closed"
      /\ \A x \in Handles : x # m => files'[x] = files[x]
  BY <1>1, Filed DEF Handles, Kinds
<1>5. TypeOK'
  BY <1>1, <1>3, <1>4, RedirectAssumption DEF TypeOK, Handles, records_vars, d_records_vars
<1>6. Recorded'
  BY <1>1, <1>3, <1>4, RedirectAssumption DEF Calls, Recorded, isRedirected, InHand, Handles,
     Kinds, OnMs, OnHost, records_vars, d_records_vars
<1>7. InHand(p)'
  BY <1>1, <1>3, <1>4, RedirectAssumption DEF InHand, isRedirected, Handles, Kinds, OnMs,
     OnHost, records_vars, d_records_vars
<1>8. /\ Room(th[p].at = "grow", Len(records), slots)'
      /\ Room(th[p].at = "d_grow", Len(d_records), d_slots)'
  BY <1>1, <1>3, <1>4, RedirectAssumption DEF Room, records_vars, d_records_vars
<1>. QED
  BY <1>5, <1>6, <1>7, <1>8, Shown

------------------------------------------------------------------------------
(* A step of a redirected call.                                               *)
LEMMA OpensKeep ==
  ASSUME NEW p, Threads = {p}, TypeOK, Calls,
         HostOpen(p) \/ AddRecord(p) \/ HostDopen(p) \/ MsDopen(p) \/ HostAnswers(p)
  PROVE  TypeOK' /\ Calls'
<1>1. CASE HostOpen(p)
  <2>1. \/ \E h \in HostHandles \ hostopen :
              hostopen' = hostopen \cup {h} /\ Goto(p, "append", th[p].kind, h, 0)
        \/ Return(p) /\ UNCHANGED hostopen
    BY <1>1 DEF HostOpen
  <2>. QED
    BY <1>1, <2>1, HostOpenedKeeps, HostAnswered DEF HostOpen
<1>2. CASE AddRecord(p)
  BY <1>2, AddRecordFull, AddRecordDone
<1>3. CASE HostDopen(p)
  <2>1. \/ \E h \in HostHandles \ hostopen :
              /\ hostopen' = hostopen \cup {h}
              /\ d_records' = Append(d_records, [ms_arg |-> th[p].arg, host_arg |-> h, read_end |-> FALSE])
              /\ \/ (Len(d_records) + 1) % Chunk = 0 /\ Goto(p, "d_grow", "dir", th[p].arg, 0)
                    /\ UNCHANGED files
                 \/ (Len(d_records) + 1) % Chunk # 0 /\ Return(p)
                    /\ files' = [files EXCEPT ![th[p].arg] = "dir"]
        \/ Return(p) /\ files' = [files EXCEPT ![th[p].arg] = "dir"] /\ UNCHANGED <<hostopen, d_records>>
    BY <1>3, Zenon DEF HostDopen
  <2>2. th[p].at = "d_dopen" /\ UNCHANGED <<records_vars, d_slots, msopen>>
    BY <1>3 DEF HostDopen
  <2>3. CASE Return(p) /\ files' = [files EXCEPT ![th[p].arg] = "dir"] /\ UNCHANGED <<hostopen, d_records>>
    <3>1. UNCHANGED <<records_vars, d_records_vars, msopen, hostopen>>
      BY <2>2, <2>3 DEF d_records_vars
    <3>. QED
      BY <2>2, <2>3, <3>1, HostDopenFails
  <2>. QED
    BY <2>1, <2>2, <2>3, HostDopenFull, HostDopenDone
<1>4. CASE MsDopen(p)
  BY <1>4, MsDopenedKeeps, MsDopenMissing DEF MsDopen
<1>5. CASE HostAnswers(p)
  BY <1>5, HostAnswered DEF HostAnswers
<1>. QED
  BY <1>1, <1>2, <1>3, <1>4, <1>5

LEMMA CloseKeeps ==
  ASSUME NEW p, Threads = {p}, TypeOK, Calls, Close(p)
  PROVE  TypeOK' /\ Calls'
<1>1. PICK h \in Handles :
        /\ files[h] # "closed"
        /\ files' = [files EXCEPT ![h] = "closed"]
        /\ CASE isRedirected(h) -> Goto(p, "host_close", files[h], h, RecordOf(h))
             [] files[h] = "dir" /\ ~isRedirected(h) /\ isCombinated(h) ->
                  Goto(p, "host_dclose", "dir", h, DRecordOf(h))
             [] OTHER -> Goto(p, "ms_close", files[h], h, 0)
  BY Zenon DEF Close
<1>2. th[p].at = "idle" /\ UNCHANGED <<records_vars, d_records_vars, msopen, hostopen>>
  BY DEF Close
<1>3. CASE isRedirected(h) /\ Goto(p, "host_close", files[h], h, RecordOf(h))
  BY <1>1, <1>2, <1>3, CloseRedirected
<1>4. CASE ~isRedirected(h) /\ isCombinated(h) /\ Goto(p, "host_dclose", "dir", h, DRecordOf(h))
  BY <1>1, <1>2, <1>4, CloseCombinated
<1>5. CASE ~isRedirected(h) /\ Goto(p, "ms_close", files[h], h, 0)
  BY <1>1, <1>2, <1>5, CloseMs
<1>. QED
  BY <1>1, <1>3, <1>4, <1>5

LEMMA StepKeeps ==
  ASSUME NEW p, Threads = {p}, TypeOK, Calls, ThreadStep(p)
  PROVE  TypeOK' /\ Calls'
BY OpensKeep, CloseKeeps, MsOpenKeeps, MsOpenFailsKeeps, GrowKeeps, DGrowKeeps, HostCloseKeeps,
   HostDcloseKeeps, RemoveRecordKeeps, RemoveDRecordKeeps, MsCloseKeeps, DreadKeeps, HostDreadKeeps,
   UseKeeps, QueryKeeps, Zenon DEF ThreadStep

LEMMA DirectKeeps ==
  ASSUME NEW p, Threads = {p}, TypeOK, Calls, Direct(p)
  PROVE  TypeOK' /\ Calls'
<1>1. CASE MsOpen(p)
  BY <1>1, MsOpenKeeps
<1>2. CASE ~MsOpen(p)
  BY <1>2, DirectClose DEF Direct
<1>. QED
  BY <1>1, <1>2

(* While the host has never been used, no call gets past its wait.            *)
LEMMA ColdStep ==
  ASSUME NEW p, Threads = {p}, TypeOK, Cold, d_slots = 0, ~Waits(p), ~host_drv,
         host_mode # "OFF",
         ThreadStep(p), Unwaited(th'[p]) => d_slots > 0
  PROVE  Cold' /\ UNCHANGED <<slots, d_slots>>
<1>1. th[p].at \in {"idle", "ms_close"}
  BY DEF Cold, Waits
<1>2. /\ th \in [Threads -> Call] /\ files \in [Handles -> Kinds]
      /\ \A h : ~isRedirected(h) /\ ~isCombinated(h)
      /\ \A h \in HostHandles : files[h] = "closed"
  BY DEF TypeOK, Cold, isRedirected, isCombinated
<1>3. ~Unwaited(th'[p])
  OBVIOUS
<1>4. SUFFICES /\ UNCHANGED <<records, d_records, slots, d_slots>>
               /\ \A h \in HostHandles : files'[h] = "closed"
               /\ th'[p].at \in {"idle", "ms_close", "host_open", "host_dopen", "host_stat"}
  BY DEF Cold
<1>. USE DEF records_vars, d_records_vars, Goto, Return, Idle
<1>5. CASE MsOpen(p)
  BY <1>1, <1>2, <1>5, RedirectAssumption DEF MsOpen, Handles
<1>6. CASE MsOpenFails(p)
  BY <1>1, <1>2, <1>6 DEF MsOpenFails
<1>7. CASE MsDopen(p)
  BY <1>1, <1>2, <1>3, <1>7 DEF MsDopen, Unwaited
<1>8. CASE Close(p)
  <2>1. PICK h \in Handles :
          /\ files[h] # "closed"
          /\ files' = [files EXCEPT ![h] = "closed"]
          /\ CASE isRedirected(h) -> Goto(p, "host_close", files[h], h, RecordOf(h))
               [] files[h] = "dir" /\ ~isRedirected(h) /\ isCombinated(h) ->
                    Goto(p, "host_dclose", "dir", h, DRecordOf(h))
               [] OTHER -> Goto(p, "ms_close", files[h], h, 0)
    BY <1>8, Zenon DEF Close
  <2>2. Goto(p, "ms_close", files[h], h, 0)
    BY <1>2, <2>1, Zenon
  <2>3. th'[p].at = "ms_close"
    BY <1>2, <2>2
  <2>4. \A x \in HostHandles : files'[x] = "closed"
    BY <1>2, <2>1 DEF Handles
  <2>. QED
    BY <1>8, <2>3, <2>4 DEF Close
<1>9. CASE MsClose(p)
  BY <1>2, <1>9 DEF MsClose
<1>10. CASE Query(p)
  BY <1>2, <1>3, <1>10 DEF Query, Unwaited
<1>11. CASE Dread(p) \/ Use(p)
  BY <1>2, <1>11 DEF Dread, Use
<1>. QED
  BY <1>1, <1>5, <1>6, <1>7, <1>8, <1>9, <1>10, <1>11
     DEF ThreadStep, HostOpen, AddRecord, Grow, HostDopen, DGrow, HostClose, HostDclose, RemoveRecord,
         RemoveDRecord, HostDread, HostAnswers

(* Arrays that are there stay, and grow.                                      *)
LEMMA ArraysGrow ==
  ASSUME NEW p, Threads = {p}, TypeOK, slots > 0, d_slots > 0, ThreadStep(p)
  PROVE  slots' > 0 /\ d_slots' > 0
<1>1. /\ Len(records) \in Nat /\ Len(d_records) \in Nat /\ slots \in Nat /\ d_slots \in Nat
      /\ Chunk \in Nat \ {0}
  BY RedirectAssumption DEF TypeOK
<1>2. slots' \in {slots, Len(records) + Chunk} /\ d_slots' \in {d_slots, Len(d_records) + Chunk}
  BY DEF ThreadStep, MsOpen, MsOpenFails, HostOpen, AddRecord, Grow, MsDopen, HostDopen, DGrow,
     Close,
         HostClose, HostDclose, RemoveRecord, RemoveDRecord, MsClose, Dread, HostDread, Use,
         Query,
         HostAnswers, records_vars, d_records_vars
<1>. QED
  BY <1>1, <1>2

------------------------------------------------------------------------------
(* A step of a caller, redirected or not.                                     *)
LEMMA CallerStep ==
  ASSUME NEW p, Threads = {p}, careless' = {}, IInv, Redirected(p) \/ Direct(p)
  PROVE  IInv'
<1>1. /\ TypeOK /\ HostTypeOK /\ ModeTypeOK /\ Life /\ HostSafe /\ Allocated /\ Calls
  BY DEF IInv, Types
<1>2. TypeOK' /\ Calls'
  BY <1>1, StepKeeps, DirectKeeps, Zenon DEF Redirected
<1>3. UNCHANGED <<hs, up, inited, user, terms, init_key, host_mode, host_drv, hostfs_drv, patched, main>>
  BY DEF Redirected, Direct, host_vars, mode_vars
<1>4. HostTypeOK' /\ ModeTypeOK' /\ Life' /\ HostSafe'
  <2>1. HostTypeOK'
    BY <1>1, <1>3 DEF HostTypeOK
  <2>2. ModeTypeOK'
    BY <1>1, <1>3 DEF ModeTypeOK
  <2>3. Life'
    BY <1>1, <1>3 DEF Life, Before
  <2>4. HostSafe'
    BY <1>1, <1>3 DEF HostSafe
  <2>. QED
    BY <2>1, <2>2, <2>3, <2>4
<1>5. slots \in Nat /\ d_slots \in Nat
  BY <1>1 DEF TypeOK
<1>6. Allocated'
  <2>1. CASE Direct(p)
    <3>1. UNCHANGED <<slots, d_slots, records, d_records, th>>
      BY <2>1 DEF Direct, MsOpen, records_vars, d_records_vars
    <3>2. \A h \in HostHandles : files[h] = "closed" => files'[h] = "closed"
      BY <1>1, <2>1, RedirectAssumption DEF Direct, MsOpen, TypeOK, Handles
    <3>3. Cold => Cold'
      BY <3>1, <3>2 DEF Cold
    <3>. QED
      BY <1>1, <1>3, <3>1, <3>3 DEF Allocated, Live, Before, Quiet, Waits
  <2>2. CASE Redirected(p)
    <3>1. ThreadStep(p) /\ ~Waits(p) /\ (Unwaited(th'[p]) => d_slots > 0)
      BY <2>2 DEF Redirected, Carelessly
    <3>2. patched
      BY <1>1, <2>2 DEF Redirected, Allocated
    <3>3. host_mode # "OFF"
      BY <1>1, <3>2 DEF Life
    <3>4. CASE slots > 0 \/ d_slots > 0
      <4>1. Live
        BY <1>1, <3>4 DEF Allocated
      <4>2. slots' > 0 /\ d_slots' > 0
        BY <1>1, <3>1, <4>1, ArraysGrow DEF Live
      <4>3. Live'
        BY <1>3, <4>1, <4>2 DEF Live
      <4>4. slots' # 0 /\ ~Before'
        BY <1>2, <4>2, <4>3 DEF Live, Before, TypeOK
      <4>. QED
        BY <1>3, <3>2, <4>2, <4>3, <4>4 DEF Allocated, Before
    <3>5. CASE ~(slots > 0 \/ d_slots > 0)
      <4>1. slots = 0 /\ d_slots = 0
        BY <1>5, <3>5
      <4>2. Cold /\ ~host_drv
        BY <1>1, <3>2, <4>1 DEF Allocated
      <4>3. Cold' /\ UNCHANGED <<slots, d_slots>>
        BY <1>1, <3>1, <3>3, <4>1, <4>2, ColdStep
      <4>. QED
        BY <1>3, <3>2, <3>5, <4>2, <4>3, <1>1 DEF Allocated, Live
    <3>. QED
      BY <3>4, <3>5
  <2>. QED
    BY <2>1, <2>2
<1>. QED
  BY <1>2, <1>4, <1>6 DEF IInv, Types

------------------------------------------------------------------------------
(* The life of the redirection.                                               *)
Places == {"off", "refused", "start", "patch_ms", "patch_host", "poison", "on",
           "launch", "game", "restore", "stop", "reload"}

LEMMA Moved ==
  ASSUME ModeTypeOK, NEW at \in Places, At(at)
  PROVE  /\ main' \in [at : Places, ori : {"OFF"} \cup Modes]
         /\ main'.at = at /\ main'.ori = main.ori
BY DEF ModeTypeOK, Places, At

LEMMA Untouched ==
  ASSUME TypeOK, Calls, UNCHANGED vars
  PROVE  TypeOK' /\ Calls' /\ (Cold' <=> Cold) /\ UNCHANGED <<slots, d_slots, th>>
<1>1. UNCHANGED <<records, slots, d_records, d_slots, msopen, hostopen, files, th>>
  BY DEF vars
<1>2. TypeOK'
  BY <1>1 DEF TypeOK
<1>3. Calls'
  BY <1>1 DEF Calls, Recorded, Roomy, InHand, isRedirected
<1>. QED
  BY <1>1, <1>2, <1>3 DEF Cold

LEMMA redirectStep ==
  ASSUME NEW p, Threads = {p}, careless' = {}, IInv, redirect
  PROVE  IInv'
<1>1. /\ TypeOK /\ HostTypeOK /\ ModeTypeOK /\ Life /\ HostSafe /\ Allocated /\ Calls
      /\ slots \in Nat /\ d_slots \in Nat
  BY DEF IInv, Types, TypeOK
<1>2. /\ main' \in [at : Places, ori : {"OFF"} \cup Modes]
      /\ main'.at = "start" /\ main'.ori = "OFF" /\ main.at = "off"
  BY <1>1 DEF redirect, Carelessly, Life, Places, ModeTypeOK
<1>3. TypeOK' /\ Calls' /\ (Cold' <=> Cold) /\ UNCHANGED <<slots, d_slots, th>>
  BY <1>1, Untouched DEF redirect
<1>4. HostTypeOK'
  BY <1>1, <1>2, <1>3 DEF HostTypeOK, redirect, host_vars, mode_vars
<1>5. ModeTypeOK'
  BY <1>1, <1>2, <1>3 DEF ModeTypeOK, Life, Places, redirect, host_vars, mode_vars
<1>6. Life'
  BY <1>1, <1>2, <1>3 DEF Life, Before, HostTypeOK, redirect, host_vars, mode_vars
<1>7. HostSafe'
  BY <1>1, <1>2, <1>3 DEF HostSafe, Life, redirect, host_vars, mode_vars
<1>8. Allocated'
  BY <1>1, <1>2, <1>3 DEF Allocated, Life, Live, Before, Quiet, Waits, redirect, host_vars,
     mode_vars
<1>. QED
  BY <1>3, <1>4, <1>5, <1>6, <1>7, <1>8 DEF IInv, Types

LEMMA startHostStep ==
  ASSUME NEW p, Threads = {p}, careless' = {}, IInv, startHost
  PROVE  IInv'
<1>1. /\ TypeOK /\ HostTypeOK /\ ModeTypeOK /\ Life /\ HostSafe /\ Allocated /\ Calls
      /\ slots \in Nat /\ d_slots \in Nat
  BY DEF IInv, Types, TypeOK
<1>2. main' = main
  BY DEF startHost, mode_vars
<1>3. TypeOK' /\ Calls' /\ (Cold' <=> Cold) /\ UNCHANGED <<slots, d_slots, th>>
  BY <1>1, Untouched DEF startHost
<1>4. HostTypeOK'
  BY <1>1, <1>2, <1>3 DEF HostTypeOK, startHost, host_vars, mode_vars
<1>5. ModeTypeOK'
  BY <1>1, <1>2, <1>3 DEF ModeTypeOK, Life, Places, startHost, host_vars, mode_vars
<1>6. Life'
  BY <1>1, <1>2, <1>3 DEF Life, Before, HostTypeOK, startHost, host_vars, mode_vars
<1>7. HostSafe'
  BY <1>1, <1>2, <1>3 DEF HostSafe, Life, startHost, host_vars, mode_vars
<1>8. Allocated'
  BY <1>1, <1>2, <1>3 DEF Allocated, Life, Live, Before, Quiet, Waits, startHost, host_vars,
     mode_vars
<1>. QED
  BY <1>3, <1>4, <1>5, <1>6, <1>7, <1>8 DEF IInv, Types

LEMMA HostStartedStep ==
  ASSUME NEW p, Threads = {p}, careless' = {}, IInv, HostStarted
  PROVE  IInv'
<1>1. /\ TypeOK /\ HostTypeOK /\ ModeTypeOK /\ Life /\ HostSafe /\ Allocated /\ Calls
      /\ slots \in Nat /\ d_slots \in Nat
  BY DEF IInv, Types, TypeOK
<1>2. /\ main' \in [at : Places, ori : {"OFF"} \cup Modes]
      /\ main'.at = (IF init_key = "VSH" /\ hs = "failed" THEN "refused" ELSE IF init_key = "VSH" THEN "patch_ms" ELSE "patch_host")
      /\ main'.ori = main.ori
  BY <1>1 DEF HostStarted, At, Places, ModeTypeOK
<1>3. TypeOK' /\ Calls' /\ (Cold' <=> Cold) /\ UNCHANGED <<slots, d_slots, th>>
  BY <1>1, Untouched DEF HostStarted
<1>4. HostTypeOK'
  BY <1>1, <1>2, <1>3 DEF HostTypeOK, HostStarted, host_vars, mode_vars
<1>5. ModeTypeOK'
  BY <1>1, <1>2, <1>3 DEF ModeTypeOK, Life, Places, HostStarted, host_vars, mode_vars
<1>6. Life'
  BY <1>1, <1>2, <1>3 DEF Life, Before, HostTypeOK, HostStarted, host_vars, mode_vars
<1>7. HostSafe'
  BY <1>1, <1>2, <1>3 DEF HostSafe, Life, HostStarted, host_vars, mode_vars
<1>8. Allocated'
  BY <1>1, <1>2, <1>3 DEF Allocated, Life, Live, Before, Quiet, Waits, HostStarted, host_vars,
     mode_vars
<1>. QED
  BY <1>3, <1>4, <1>5, <1>6, <1>7, <1>8 DEF IInv, Types

LEMMA patchMsDrvStep ==
  ASSUME NEW p, Threads = {p}, careless' = {}, IInv, patchMsDrv
  PROVE  IInv'
<1>1. /\ TypeOK /\ HostTypeOK /\ ModeTypeOK /\ Life /\ HostSafe /\ Allocated /\ Calls
      /\ slots \in Nat /\ d_slots \in Nat
  BY DEF IInv, Types, TypeOK
<1>2. /\ main' \in [at : Places, ori : {"OFF"} \cup Modes]
      /\ main'.at = "patch_host" /\ main'.ori = main.ori
  BY <1>1, Moved DEF patchMsDrv, Places
<1>3. TypeOK' /\ Calls' /\ (Cold' <=> Cold) /\ UNCHANGED <<slots, d_slots, th>>
  BY <1>1, Untouched DEF patchMsDrv
<1>4. HostTypeOK'
  BY <1>1, <1>2, <1>3 DEF HostTypeOK, patchMsDrv, host_vars, mode_vars
<1>5. ModeTypeOK'
  BY <1>1, <1>2, <1>3 DEF ModeTypeOK, Life, Places, patchMsDrv, host_vars, mode_vars
<1>6. Life'
  BY <1>1, <1>2, <1>3 DEF Life, Before, HostTypeOK, patchMsDrv, host_vars, mode_vars
<1>7. HostSafe'
  BY <1>1, <1>2, <1>3 DEF HostSafe, Life, patchMsDrv, host_vars, mode_vars
<1>8. Allocated'
  BY <1>1, <1>2, <1>3 DEF Allocated, Life, Live, Before, Quiet, Waits, patchMsDrv, host_vars,
     mode_vars
<1>. QED
  BY <1>3, <1>4, <1>5, <1>6, <1>7, <1>8 DEF IInv, Types

LEMMA PoisonStep ==
  ASSUME NEW p, Threads = {p}, careless' = {}, IInv, Poison
  PROVE  IInv'
<1>1. /\ TypeOK /\ HostTypeOK /\ ModeTypeOK /\ Life /\ HostSafe /\ Allocated /\ Calls
      /\ slots \in Nat /\ d_slots \in Nat
  BY DEF IInv, Types, TypeOK
<1>2. /\ main' \in [at : Places, ori : {"OFF"} \cup Modes]
      /\ main'.at = (IF init_key = "VSH" THEN "on" ELSE "launch") /\ main'.ori = main.ori
  BY <1>1 DEF Poison, Patched, At, Places, ModeTypeOK
<1>3. TypeOK' /\ Calls' /\ (Cold' <=> Cold) /\ UNCHANGED <<slots, d_slots, th>>
  BY <1>1, Untouched DEF Poison
<1>4. HostTypeOK'
  BY <1>1, <1>2, <1>3 DEF HostTypeOK, Poison, host_vars, mode_vars
<1>5. ModeTypeOK'
  BY <1>1, <1>2, <1>3 DEF ModeTypeOK, Life, Places, Poison, host_vars, mode_vars
<1>6. Life'
  BY <1>1, <1>2, <1>3 DEF Life, Before, HostTypeOK, Poison, host_vars, mode_vars
<1>7. HostSafe'
  BY <1>1, <1>2, <1>3 DEF HostSafe, Life, Poison, host_vars, mode_vars
<1>8. Allocated'
  BY <1>1, <1>2, <1>3 DEF Allocated, Life, Live, Before, Quiet, Waits, Poison, host_vars,
     mode_vars
<1>. QED
  BY <1>3, <1>4, <1>5, <1>6, <1>7, <1>8 DEF IInv, Types

LEMMA LaunchStep ==
  ASSUME NEW p, Threads = {p}, careless' = {}, IInv, Launch
  PROVE  IInv'
<1>1. /\ TypeOK /\ HostTypeOK /\ ModeTypeOK /\ Life /\ HostSafe /\ Allocated /\ Calls
      /\ slots \in Nat /\ d_slots \in Nat
  BY DEF IInv, Types, TypeOK
<1>2. /\ main' \in [at : Places, ori : {"OFF"} \cup Modes]
      /\ main'.at \in {"game", "restore"} /\ main'.ori = host_mode
  BY <1>1 DEF Launch, Places, ModeTypeOK
<1>3. TypeOK' /\ Calls' /\ (Cold' <=> Cold) /\ UNCHANGED <<slots, d_slots, th>>
  BY <1>1, Untouched DEF Launch
<1>4. HostTypeOK'
  BY <1>1, <1>2, <1>3 DEF HostTypeOK, Launch, host_vars, mode_vars
<1>5. ModeTypeOK'
  BY <1>1, <1>2, <1>3 DEF ModeTypeOK, Life, Places, Launch, host_vars, mode_vars
<1>6. Life'
  BY <1>1, <1>2, <1>3 DEF Life, Before, HostTypeOK, Launch, host_vars, mode_vars
<1>7. HostSafe'
  BY <1>1, <1>2, <1>3 DEF HostSafe, Life, Launch, host_vars, mode_vars
<1>8. Allocated'
  BY <1>1, <1>2, <1>3 DEF Allocated, Life, Live, Before, Quiet, Waits, Launch, host_vars,
     mode_vars
<1>. QED
  BY <1>3, <1>4, <1>5, <1>6, <1>7, <1>8 DEF IInv, Types

LEMMA exitCallbackStep ==
  ASSUME NEW p, Threads = {p}, careless' = {}, IInv, exitCallback
  PROVE  IInv'
<1>1. /\ TypeOK /\ HostTypeOK /\ ModeTypeOK /\ Life /\ HostSafe /\ Allocated /\ Calls
      /\ slots \in Nat /\ d_slots \in Nat
  BY DEF IInv, Types, TypeOK
<1>2. /\ main' \in [at : Places, ori : {"OFF"} \cup Modes]
      /\ main'.at = "restore" /\ main'.ori = main.ori
  BY <1>1, Moved DEF exitCallback, Places
<1>3. TypeOK' /\ Calls' /\ (Cold' <=> Cold) /\ UNCHANGED <<slots, d_slots, th>>
  BY <1>1, Untouched DEF exitCallback
<1>4. HostTypeOK'
  BY <1>1, <1>2, <1>3 DEF HostTypeOK, exitCallback, host_vars, mode_vars
<1>5. ModeTypeOK'
  BY <1>1, <1>2, <1>3 DEF ModeTypeOK, Life, Places, exitCallback, host_vars, mode_vars
<1>6. Life'
  BY <1>1, <1>2, <1>3 DEF Life, Before, HostTypeOK, exitCallback, host_vars, mode_vars
<1>7. HostSafe'
  BY <1>1, <1>2, <1>3 DEF HostSafe, Life, exitCallback, host_vars, mode_vars
<1>8. Allocated'
  BY <1>1, <1>2, <1>3 DEF Allocated, Life, Live, Before, Quiet, Waits, exitCallback, host_vars,
     mode_vars
<1>. QED
  BY <1>3, <1>4, <1>5, <1>6, <1>7, <1>8 DEF IInv, Types

LEMMA stopHostStep ==
  ASSUME NEW p, Threads = {p}, careless' = {}, IInv, stopHost
  PROVE  IInv'
<1>1. /\ TypeOK /\ HostTypeOK /\ ModeTypeOK /\ Life /\ HostSafe /\ Allocated /\ Calls
      /\ slots \in Nat /\ d_slots \in Nat
  BY DEF IInv, Types, TypeOK
<1>2. main' = main
  BY DEF stopHost, mode_vars
<1>3. TypeOK' /\ Calls' /\ (Cold' <=> Cold) /\ UNCHANGED <<slots, d_slots, th>>
  BY <1>1, Untouched DEF stopHost
<1>4. HostTypeOK'
  BY <1>1, <1>2, <1>3 DEF HostTypeOK, stopHost, host_vars, mode_vars
<1>5. ModeTypeOK'
  BY <1>1, <1>2, <1>3 DEF ModeTypeOK, Life, Places, stopHost, host_vars, mode_vars
<1>6. Life'
  BY <1>1, <1>2, <1>3 DEF Life, Before, HostTypeOK, stopHost, host_vars, mode_vars
<1>7. HostSafe'
  BY <1>1, <1>2, <1>3 DEF HostSafe, Life, stopHost, host_vars, mode_vars
<1>8. Allocated'
  BY <1>1, <1>2, <1>3 DEF Allocated, Life, Live, Before, Quiet, Waits, stopHost, host_vars,
     mode_vars
<1>. QED
  BY <1>3, <1>4, <1>5, <1>6, <1>7, <1>8 DEF IInv, Types

LEMMA HostStoppedStep ==
  ASSUME NEW p, Threads = {p}, careless' = {}, IInv, HostStopped
  PROVE  IInv'
<1>1. /\ TypeOK /\ HostTypeOK /\ ModeTypeOK /\ Life /\ HostSafe /\ Allocated /\ Calls
      /\ slots \in Nat /\ d_slots \in Nat
  BY DEF IInv, Types, TypeOK
<1>2. /\ main' \in [at : Places, ori : {"OFF"} \cup Modes]
      /\ main'.at = "reload" /\ main'.ori = main.ori
  BY <1>1 DEF HostStopped, At, Life, Places, ModeTypeOK
<1>3. TypeOK' /\ Calls' /\ (Cold' <=> Cold) /\ UNCHANGED <<slots, d_slots, th>>
  BY <1>1, Untouched DEF HostStopped
<1>4. HostTypeOK'
  BY <1>1, <1>2, <1>3 DEF HostTypeOK, HostStopped, host_vars, mode_vars
<1>5. ModeTypeOK'
  BY <1>1, <1>2, <1>3 DEF ModeTypeOK, Life, Places, HostStopped, host_vars, mode_vars
<1>6. Life'
  BY <1>1, <1>2, <1>3 DEF Life, Before, HostTypeOK, HostStopped, host_vars, mode_vars
<1>7. HostSafe'
  BY <1>1, <1>2, <1>3 DEF HostSafe, Life, HostStopped, host_vars, mode_vars
<1>8. Allocated'
  BY <1>1, <1>2, <1>3 DEF Allocated, Life, Live, Before, Quiet, Waits, HostStopped, host_vars,
     mode_vars
<1>. QED
  BY <1>3, <1>4, <1>5, <1>6, <1>7, <1>8 DEF IInv, Types

(* A reboot: everything begins again, with the mode it is given.              *)
LEMMA StartedAgain ==
  ASSUME NEW p, Threads = {p}, NEW key \in {"VSH", "GAME"}, NEW mode \in {"OFF"} \cup Modes,
         mode = "OFF" <=> key = "VSH", module_start(key, mode)
  PROVE  IInv'
<1>1. /\ records' = <<>> /\ slots' = 0 /\ d_records' = <<>> /\ d_slots' = 0
      /\ msopen' = {} /\ hostopen' = {}
      /\ files' = [h \in Handles |-> "closed"] /\ th' = [q \in Threads |-> Idle]
  BY DEF module_start
<1>2. Idle \in Call /\ Idle.at = "idle" /\ Idle.arg = NoHandle
  BY DEF Idle, Call, Kinds
<1>3. th'[p].at = "idle" /\ th'[p].arg = NoHandle
  BY <1>1, <1>2
<1>4. TypeOK'
  BY <1>1, <1>2 DEF TypeOK, Kinds
<1>5. Recorded' /\ InHand(p)'
  BY <1>1, <1>3 DEF Recorded, InHand, OnMs, OnHost, Handles
<1>6. Roomy'
  BY <1>1, <1>3, OneChunk, RedirectAssumption DEF Roomy, Room
<1>7. Calls'
  BY <1>5, <1>6 DEF Calls
<1>8. Cold' /\ Quiet'
  BY <1>1, <1>3 DEF Cold, Quiet, Handles
<1>9. HostTypeOK'
  BY DEF module_start, HostTypeOK
<1>10. /\ main' = [at |-> IF key = "GAME" THEN "start" ELSE "off", ori |-> "OFF"]
       /\ host_mode' = mode /\ init_key' = key /\ ~host_drv' /\ ~hostfs_drv' /\ patched' = (key = "GAME")
       /\ hs' = "idle" /\ up' = {}
  BY DEF module_start
<1>11. ModeTypeOK'
  <2>1. PICK at \in Places : at = IF key = "GAME" THEN "start" ELSE "off"
    BY DEF Places
  <2>2. main' = [at |-> at, ori |-> "OFF"]
    BY <1>10, <2>1
  <2>3. main' \in [at : Places, ori : {"OFF"} \cup Modes]
    BY <2>2
  <2>4. host_drv' = FALSE /\ hostfs_drv' = FALSE
    BY DEF module_start
  <2>5. patched' \in BOOLEAN
    BY <1>10
  <2>6. careless' = {}
    BY DEF module_start
  <2>. QED
    BY <1>10, <2>3, <2>4, <2>5, <2>6 DEF ModeTypeOK, Places
<1>12. Life'
  BY <1>10 DEF Life, Before
<1>13. HostSafe'
  BY <1>10 DEF HostSafe
<1>14. Allocated'
  BY <1>1, <1>3, <1>8, <1>10 DEF Allocated, Before
<1>. QED
  BY <1>4, <1>7, <1>9, <1>11, <1>12, <1>13, <1>14 DEF IInv, Types

LEMMA LoadExecStep ==
  ASSUME NEW p, Threads = {p}, careless' = {}, IInv, LoadExec
  PROVE  IInv'
<1>1. CASE module_start("VSH", "OFF")
  BY <1>1, StartedAgain
<1>2. CASE /\ main' = [at |-> "restore", ori |-> host_mode] /\ host_mode # "OFF"
           /\ UNCHANGED <<vars, host_vars, init_key, host_mode, host_drv, hostfs_drv, patched>>
  <2>1. /\ TypeOK /\ HostTypeOK /\ ModeTypeOK /\ Life /\ HostSafe /\ Allocated /\ Calls
    BY DEF IInv, Types
  <2>2. main.at = "on"
    BY <1>2, <2>1 DEF LoadExec, Life
  <2>3. TypeOK' /\ Calls' /\ (Cold' <=> Cold) /\ UNCHANGED <<slots, d_slots, th>>
    BY <1>2, <2>1, Untouched
  <2>4. HostTypeOK'
    BY <1>2, <2>1 DEF HostTypeOK, host_vars
  <2>5. ModeTypeOK'
    BY <1>2, <2>1 DEF ModeTypeOK
  <2>6. Life'
    BY <1>2, <2>1, <2>2 DEF Life, Before, host_vars
  <2>7. HostSafe'
    BY <1>2, <2>1 DEF HostSafe, host_vars
  <2>8. Allocated'
    BY <1>2, <2>1, <2>2, <2>3 DEF Allocated, Life, Live, Before, Quiet, Waits, host_vars
  <2>. QED
    BY <2>3, <2>4, <2>5, <2>6, <2>7, <2>8 DEF IInv, Types
<1>. QED
  BY <1>1, <1>2 DEF LoadExec

LEMMA ReloadStep ==
  ASSUME NEW p, Threads = {p}, careless' = {}, IInv, Reload
  PROVE  IInv'
<1>1. host_mode \in {"OFF"} \cup Modes /\ host_mode # "OFF"
  BY DEF IInv, Types, ModeTypeOK, Life, Reload
<1>2. PICK mode \in {"OFF"} \cup Modes : mode = host_mode /\ mode # "OFF"
  BY <1>1
<1>3. module_start("GAME", mode) \/ module_start("VSH", "OFF")
  BY <1>2, Zenon DEF Reload
<1>. QED
  BY <1>2, <1>3, StartedAgain

(* The arrays are made, empty as the host has never been used.                *)
LEMMA patchHostDrvStep ==
  ASSUME NEW p, Threads = {p}, careless' = {}, IInv, patchHostDrv
  PROVE  IInv'
<1>1. /\ TypeOK /\ HostTypeOK /\ ModeTypeOK /\ Life /\ HostSafe /\ Allocated /\ Calls
  BY DEF IInv, Types
<1>2. Cold /\ main.at = "patch_host" /\ patched /\ ~host_drv
  BY <1>1 DEF patchHostDrv, Allocated, Before, Life
<1>3. slots = 0 /\ d_slots = 0
  BY <1>1, <1>2 DEF Allocated, Live, TypeOK
<1>4. /\ records' = records /\ d_records' = d_records
      /\ UNCHANGED <<msopen, hostopen, files, th>>
  BY <1>2 DEF patchHostDrv, Cold, records_vars, d_records_vars
<1>5. \/ "host" \in up /\ slots' = Chunk /\ d_slots' = Chunk /\ At("poison")
      \/ slots' = 0 /\ d_slots' = 0 /\ Patched
  BY <1>3 DEF patchHostDrv, records_vars, d_records_vars
<1>6. Chunk \in Nat \ {0} /\ Chunk % Chunk = 0 /\ 0 % Chunk = 0
  BY RedirectAssumption, OneChunk
<1>7. TypeOK'
  BY <1>1, <1>4, <1>5, <1>6 DEF TypeOK
<1>8. Recorded' /\ InHand(p)'
  BY <1>1, <1>4 DEF Calls, Recorded, InHand, isRedirected
<1>9. th[p].at \notin {"grow", "d_grow"} /\ Len(records) = 0 /\ Len(d_records) = 0
  BY <1>2 DEF Cold
<1>10. Roomy'
  BY <1>4, <1>5, <1>6, <1>9 DEF Roomy, Room
<1>11. Calls'
  BY <1>8, <1>10 DEF Calls
<1>12. Cold'
  BY <1>2, <1>4 DEF Cold
<1>13. /\ UNCHANGED <<hs, up, inited, user, terms, init_key, host_mode, host_drv, patched>>
       /\ hostfs_drv' = ("host" \in up)
  BY DEF patchHostDrv, host_vars
<1>14. /\ main' \in [at : Places, ori : {"OFF"} \cup Modes] /\ main'.ori = main.ori
       /\ \/ main'.at = "poison" /\ "host" \in up /\ slots' = Chunk /\ d_slots' = Chunk
          \/ main'.at \in {"on", "launch"} /\ slots' = 0 /\ d_slots' = 0
  BY <1>1, <1>5 DEF At, Patched, Places, ModeTypeOK
<1>15. HostTypeOK'
  BY <1>1, <1>13 DEF HostTypeOK
<1>16. ModeTypeOK'
  BY <1>1, <1>13, <1>14 DEF ModeTypeOK, Places
<1>17. Life'
  BY <1>1, <1>2, <1>13, <1>14 DEF Life, Before
<1>18. HostSafe'
  BY <1>1, <1>13 DEF HostSafe
<1>19. Allocated'
  <2>1. CASE main'.at = "poison"
    <3>0. "host" \in up /\ slots' = Chunk /\ d_slots' = Chunk
      BY <1>14, <2>1
    <3>1. slots' > 0 /\ d_slots' > 0 /\ "host" \in up' /\ hostfs_drv'
      <4>1. slots' > 0 /\ d_slots' > 0
        BY <1>6, <3>0
      <4>2. "host" \in up'
        BY <1>13, <3>0
      <4>3. hostfs_drv'
        BY <1>13, <3>0, Zenon
      <4>. QED
        BY <4>1, <4>2, <4>3
    <3>. QED
      BY <1>2, <1>12, <1>13, <2>1, <3>1 DEF Allocated, Live, Before
  <2>2. CASE main'.at # "poison"
    <3>1. slots' = 0 /\ d_slots' = 0 /\ main'.at \in {"on", "launch"}
      BY <1>14, <2>2
    <3>. QED
      BY <1>2, <1>12, <1>13, <3>1 DEF Allocated, Before
  <2>. QED
    BY <2>1, <2>2
<1>. QED
  BY <1>7, <1>11, <1>15, <1>16, <1>17, <1>18, <1>19 DEF IInv, Types

(* The arrays are freed, when nobody is on the way to them.                   *)
LEMMA restoreIoDrvStep ==
  ASSUME NEW p, Threads = {p}, careless' = {}, IInv, restoreIoDrv
  PROVE  IInv'
<1>1. /\ TypeOK /\ HostTypeOK /\ ModeTypeOK /\ Life /\ HostSafe /\ Allocated /\ Calls
  BY DEF IInv, Types
<1>2. /\ slots' = 0 /\ d_slots' = 0 /\ patched' = FALSE
      /\ UNCHANGED <<records, d_records, msopen, hostopen, files, th>>
      /\ UNCHANGED <<hs, up, inited, user, terms, init_key, host_mode, host_drv, hostfs_drv>>
      /\ At("stop") /\ main.at = "restore"
  BY DEF restoreIoDrv, host_vars
<1>3. th[p].at = "idle" \/ Waits(p)
  BY DEF restoreIoDrv, Undisturbed, Carelessly
<1>4. th[p].at \notin {"grow", "d_grow"}
  BY <1>3 DEF Waits
<1>5. TypeOK'
  BY <1>1, <1>2 DEF TypeOK
<1>6. Recorded' /\ InHand(p)'
  BY <1>1, <1>2 DEF Calls, Recorded, InHand, isRedirected
<1>7. Roomy'
  BY <1>2, <1>4, OneChunk, RedirectAssumption DEF Roomy, Room
<1>8. Calls'
  BY <1>6, <1>7 DEF Calls
<1>9. main' \in [at : Places, ori : {"OFF"} \cup Modes] /\ main'.at = "stop" /\ main'.ori = main.ori
  BY <1>1, <1>2, Moved DEF Places
<1>10. HostTypeOK'
  BY <1>1, <1>2 DEF HostTypeOK
<1>11. ModeTypeOK'
  BY <1>1, <1>2, <1>9 DEF ModeTypeOK, Places
<1>12. Life'
  BY <1>1, <1>2, <1>9 DEF Life, Before
<1>13. HostSafe'
  BY <1>1, <1>2 DEF HostSafe
<1>14. Allocated'
  BY <1>1, <1>2, <1>3, <1>9 DEF Allocated, Before, Waits
<1>. QED
  BY <1>5, <1>8, <1>10, <1>11, <1>12, <1>13, <1>14 DEF IInv, Types

------------------------------------------------------------------------------
(* The starting and stopping of the host, and wifiuser's thread: only while   *)
(* redirect or main_thread waits for it is the driver touched.                *)
LEMMA HostMoves ==
  ASSUME HostTypeOK, HostSafe, HostStep \/ UserStep, UNCHANGED <<init_key, host_mode>>
  PROVE  /\ HostTypeOK' /\ HostSafe'
         /\ (hs = "idle" => UNCHANGED <<hs, up>>) /\ (hs # "idle" => hs' # "idle")
<1>1. CASE startUsbHost
  <2>1. Missing(UsbParts) = {} => "host" \in up
    BY DEF Missing, UsbParts
  <2>2. CASE StartPart(UsbParts)
    <3>1. PICK i \in Missing(UsbParts) :
            \/ up' = up \cup {UsbParts[i]} /\ UNCHANGED hs
            \/ hs' = "failed" /\ UNCHANGED up
      BY <2>2 DEF StartPart
    <3>2. UsbParts[i] \in ToSet(UsbParts)
      BY DEF Missing, ToSet
    <3>. QED
      BY <1>1, <3>1, <3>2 DEF startUsbHost, HostTypeOK, HostSafe
  <2>3. CASE ~StartPart(UsbParts)
    BY <1>1, <2>3 DEF startUsbHost, HostTypeOK, HostSafe
  <2>. QED
    BY <2>2, <2>3
<1>2. CASE WifiLoad
  <2>1. CASE StartPart(WifiParts) /\ UNCHANGED <<inited, user>>
    <3>1. PICK i \in Missing(WifiParts) :
            \/ up' = up \cup {WifiParts[i]} /\ UNCHANGED hs
            \/ hs' = "failed" /\ UNCHANGED up
      BY <2>1 DEF StartPart
    <3>2. WifiParts[i] \in ToSet(WifiParts)
      BY DEF Missing, ToSet
    <3>3. WifiParts[i] # "host"
      BY DEF Missing, WifiParts
    <3>. QED
      BY <1>2, <2>1, <3>1, <3>2, <3>3 DEF WifiLoad, HostTypeOK, HostSafe
  <2>2. CASE ~(StartPart(WifiParts) /\ UNCHANGED <<inited, user>>)
    BY <1>2, <2>2 DEF WifiLoad, HostTypeOK, HostSafe
  <2>. QED
    BY <2>1, <2>2
<1>3. CASE WifiConnected
  BY <1>3 DEF WifiConnected, HostTypeOK, HostSafe
<1>4. CASE AddDrv
  <2>1. "host" \in ToSet(UsbParts)
    BY DEF ToSet, UsbParts
  <2>. QED
    BY <1>4, <2>1 DEF AddDrv, HostTypeOK, HostSafe
<1>5. CASE WifiStop
  BY <1>5 DEF WifiStop, HostTypeOK, HostSafe
<1>6. CASE WifiKill
  BY <1>6 DEF WifiKill, HostTypeOK, HostSafe
<1>7. CASE stopUsbHost
  BY <1>7 DEF stopUsbHost, HostTypeOK, HostSafe
<1>8. CASE UserInit
  BY <1>8 DEF UserInit, HostTypeOK, HostSafe
<1>9. CASE UserConnect
  BY <1>9 DEF UserConnect, HostTypeOK, HostSafe
<1>10. CASE UserTerm
  BY <1>10 DEF UserTerm, HostTypeOK, HostSafe
<1>. QED
  BY <1>1, <1>2, <1>3, <1>4, <1>5, <1>6, <1>7, <1>8, <1>9, <1>10 DEF HostStep, UserStep

LEMMA HostRunsStep ==
  ASSUME NEW p, Threads = {p}, careless' = {}, IInv, HostRuns
  PROVE  IInv'
<1>1. /\ TypeOK /\ HostTypeOK /\ ModeTypeOK /\ Life /\ HostSafe /\ Allocated /\ Calls
  BY DEF IInv, Types
<1>2. UNCHANGED <<init_key, host_mode, host_drv, hostfs_drv, patched, main>> /\ UNCHANGED vars
  BY DEF HostRuns, mode_vars
<1>3. /\ HostTypeOK' /\ HostSafe'
      /\ (hs = "idle" => UNCHANGED <<hs, up>>) /\ (hs # "idle" => hs' # "idle")
  BY <1>1, <1>2, HostMoves DEF HostRuns
<1>4. TypeOK' /\ Calls' /\ (Cold' <=> Cold) /\ UNCHANGED <<slots, d_slots, th>>
  BY <1>1, <1>2, Untouched
<1>5. ModeTypeOK'
  BY <1>1, <1>2 DEF ModeTypeOK
<1>6. Life'
  BY <1>1, <1>2, <1>3 DEF Life, Before
<1>7. Allocated'
  BY <1>1, <1>2, <1>3, <1>4 DEF Allocated, Life, Live, Before, Quiet, Waits
<1>. QED
  BY <1>3, <1>4, <1>5, <1>6, <1>7 DEF IInv, Types

------------------------------------------------------------------------------
LEMMA CarefulStep ==
  ASSUME NEW p, Threads = {p}, careless' = {}, IInv, [ModeNext]_allVars
  PROVE  IInv'
<1>1. CASE MainStep
  BY <1>1, startHostStep, HostStartedStep, patchMsDrvStep, patchHostDrvStep, PoisonStep,
     LaunchStep,
     restoreIoDrvStep, stopHostStep, HostStoppedStep, ReloadStep, Zenon DEF MainStep
<1>2. CASE Users
  BY <1>2, redirectStep, exitCallbackStep, LoadExecStep, Zenon DEF Users
<1>3. CASE HostRuns
  BY <1>3, HostRunsStep
<1>4. ASSUME NEW q \in Threads, Redirected(q) \/ Direct(q) PROVE IInv'
  <2>1. q = p
    OBVIOUS
  <2>. QED
    BY <1>4, <2>1, CallerStep, Zenon
<1>5. CASE UNCHANGED allVars
  <2>1. /\ TypeOK /\ HostTypeOK /\ ModeTypeOK /\ Life /\ HostSafe /\ Allocated /\ Calls
    BY DEF IInv, Types
  <2>2. /\ UNCHANGED vars
        /\ UNCHANGED <<hs, up, inited, user, terms, init_key>>
        /\ UNCHANGED <<host_mode, host_drv, hostfs_drv, patched, main>>
    BY <1>5 DEF allVars, host_vars, mode_vars
  <2>3. TypeOK' /\ Calls' /\ (Cold' <=> Cold) /\ UNCHANGED <<slots, d_slots, th>>
    BY <2>1, <2>2, Untouched
  <2>4. HostTypeOK' /\ HostSafe'
    BY <2>1, <2>2 DEF HostTypeOK, HostSafe
  <2>5. ModeTypeOK' /\ Life'
    BY <2>1, <2>2 DEF ModeTypeOK, Life, Before
  <2>6. Allocated'
    BY <2>1, <2>2, <2>3 DEF Allocated, Live, Before, Quiet, Waits
  <2>. QED
    BY <2>3, <2>4, <2>5, <2>6 DEF IInv, Types
<1>. QED
  BY <1>1, <1>2, <1>3, <1>4, <1>5 DEF ModeNext, Lifecycle

(* What holds after carelessness as well: a reboot is given a mode.           *)
Named ==
    /\ init_key \in {"VSH", "GAME"}
    /\ host_mode \in {"OFF"} \cup Modes
    /\ main \in [at : Places, ori : {"OFF"} \cup Modes]
    /\ init_key = "GAME" => host_mode # "OFF"
    /\ main.at = "launch" => init_key = "GAME"
    /\ main.at \in {"game", "restore", "stop"} => main.ori # "OFF"
    /\ main.at = "reload" => host_mode # "OFF"

LEMMA Restarted ==
  ASSUME Named, module_start("VSH", "OFF") \/ (main.at = "reload" /\ module_start("GAME", host_mode))
  PROVE  Named'
<1>1. PICK at \in Places, key \in {"VSH", "GAME"} :
        /\ main' = [at |-> at, ori |-> "OFF"] /\ at \in {"off", "start"}
        /\ init_key' = key /\ host_mode' \in {"OFF"} \cup Modes
        /\ key = "GAME" => host_mode' # "OFF"
  <2>1. {"VSH", "GAME"} = {"VSH"} \cup {"GAME"} /\ "off" \in Places /\ "start" \in Places
    BY DEF Places
  <2>2. CASE module_start("VSH", "OFF")
    BY <2>1, <2>2 DEF module_start
  <2>3. CASE main.at = "reload" /\ module_start("GAME", host_mode)
    BY <2>1, <2>3 DEF module_start, Named
  <2>. QED
    BY <2>2, <2>3
<1>. QED
  BY <1>1 DEF Named

LEMMA NamedStep ==
  ASSUME Named, [ModeNext]_allVars
  PROVE  Named'
<1>. USE DEF Named, Places, At, mode_vars
<1>1. CASE redirect
  BY <1>1 DEF redirect
<1>2. CASE startHost
  BY <1>2 DEF startHost
<1>3. CASE HostStarted
  BY <1>3 DEF HostStarted
<1>4. CASE patchMsDrv
  BY <1>4 DEF patchMsDrv
<1>5. CASE patchHostDrv
  BY <1>5 DEF patchHostDrv, Patched
<1>6. CASE Poison
  BY <1>6 DEF Poison, Patched
<1>7. CASE Launch
  BY <1>7 DEF Launch
<1>8. CASE exitCallback
  BY <1>8 DEF exitCallback
<1>9. CASE LoadExec
  <2>1. CASE module_start("VSH", "OFF")
    BY <2>1, Restarted
  <2>2. CASE ~module_start("VSH", "OFF")
    BY <1>9, <2>2 DEF LoadExec
  <2>. QED
    BY <2>1, <2>2
<1>10. CASE restoreIoDrv
  BY <1>10 DEF restoreIoDrv
<1>11. CASE stopHost
  BY <1>11 DEF stopHost
<1>12. CASE HostStopped
  BY <1>12 DEF HostStopped
<1>13. CASE Reload
  BY <1>13, Restarted, Zenon DEF Reload
<1>14. CASE HostRuns
  BY <1>14 DEF HostRuns
<1>15. CASE \E p \in Threads : Redirected(p) \/ Direct(p)
  BY <1>15 DEF Redirected, Direct
<1>16. CASE UNCHANGED allVars
  BY <1>16 DEF allVars
<1>. QED
  BY <1>1, <1>2, <1>3, <1>4, <1>5, <1>6, <1>7, <1>8, <1>9, <1>10, <1>11, <1>12, <1>13, <1>14,
     <1>15, <1>16, Zenon DEF ModeNext, Lifecycle, MainStep, Users

(* Only a reboot forgets what happened.                                       *)
Again == module_start("VSH", "OFF") \/ (main.at = "reload" /\ module_start("GAME", host_mode))

LEMMA Remembered ==
  ASSUME [ModeNext]_allVars, careless' = {}, careless # {}
  PROVE  Again
<1>. USE DEF mode_vars, Carelessly
<1>1. CASE MainStep
  BY <1>1, Zenon DEF MainStep, startHost, HostStarted, patchMsDrv, patchHostDrv, Poison, Launch,
     restoreIoDrv, stopHost, HostStopped, Reload, Again
<1>2. CASE Users
  BY <1>2, Zenon DEF Users, redirect, exitCallback, LoadExec, Again
<1>3. CASE HostRuns
  BY <1>3 DEF HostRuns
<1>4. CASE \E p \in Threads : Redirected(p) \/ Direct(p)
  BY <1>4 DEF Redirected, Direct
<1>5. CASE UNCHANGED allVars
  BY <1>5 DEF allVars
<1>. QED
  BY <1>1, <1>2, <1>3, <1>4, <1>5 DEF ModeNext, Lifecycle

(* As long as nobody was careless since the boot, the invariant holds.        *)
CInv == Named /\ (careless = {} => IInv)

LEMMA EveryStep ==
  ASSUME NEW p, Threads = {p}, CInv, [ModeNext]_allVars
  PROVE  CInv'
<1>1. Named'
  BY NamedStep DEF CInv
<1>2. ASSUME careless' = {} PROVE IInv'
  <2>1. CASE careless = {}
    BY <1>2, <2>1, CarefulStep DEF CInv
  <2>2. CASE careless # {}
    <3>1. Again
      BY <1>2, <2>2, Remembered
    <3>2. CASE module_start("VSH", "OFF")
      BY <3>2, StartedAgain
    <3>3. CASE main.at = "reload" /\ module_start("GAME", host_mode)
      <4>1. PICK mode \in {"OFF"} \cup Modes : mode = host_mode /\ mode # "OFF"
        BY <3>3 DEF CInv, Named
      <4>2. module_start("GAME", mode)
        BY <3>3, <4>1, Zenon
      <4>. QED
        BY <4>1, <4>2, StartedAgain
    <3>. QED
      BY <3>1, <3>2, <3>3 DEF Again
  <2>. QED
    BY <2>1, <2>2
<1>. QED
  BY <1>1, <1>2 DEF CInv

LEMMA Beginning ==
  ASSUME NEW p, Threads = {p}, ModeInit
  PROVE  CInv
<1>1. /\ records = <<>> /\ slots = 0 /\ d_records = <<>> /\ d_slots = 0
      /\ msopen = {} /\ hostopen = {}
      /\ files = [h \in Handles |-> "closed"] /\ th = [q \in Threads |-> Idle]
  BY DEF ModeInit, Fresh
<1>2. Idle \in Call /\ Idle.at = "idle" /\ Idle.arg = NoHandle
  BY DEF Idle, Call, Kinds
<1>3. th[p].at = "idle" /\ th[p].arg = NoHandle
  BY <1>1, <1>2
<1>4. TypeOK
  BY <1>1, <1>2 DEF TypeOK, Kinds
<1>5. Recorded /\ InHand(p)
  BY <1>1, <1>3 DEF Recorded, InHand, OnMs, OnHost, Handles
<1>6. Roomy
  BY <1>1, <1>3, OneChunk, RedirectAssumption DEF Roomy, Room
<1>7. Cold /\ Quiet
  BY <1>1, <1>3 DEF Cold, Quiet, Handles
<1>8. HostTypeOK /\ ModeTypeOK
  BY DEF ModeInit, HostInit, HostTypeOK, ModeTypeOK
<1>9. Life /\ HostSafe
  BY DEF ModeInit, HostInit, Life, HostSafe, Before
<1>10. Allocated
  BY <1>1, <1>3, <1>7 DEF Allocated, ModeInit, Before
<1>11. Named
  BY DEF ModeInit, Named, Places
<1>. QED
  BY <1>11, <1>4, <1>5, <1>6, <1>8, <1>9, <1>10 DEF CInv, IInv, Types, Calls

(* The inductive invariant gives both properties.                             *)
LEMMA Accounted ==
  ASSUME NEW p, Threads = {p}, CInv, careless = {}
  PROVE  MsAccounted /\ Routed
<1>1. /\ files \in [Handles -> Kinds] /\ msopen \subseteq MsHandles /\ InHand(p) /\ Recorded
  BY DEF CInv, IInv, Types, TypeOK, Calls
<1>2. MsAccounted
  BY <1>1 DEF MsAccounted, Quiet, InHand, OnMs
<1>3. ASSUME NEW h \in Handles, files[h] # "closed"
      PROVE  h \in msopen \cup hostopen /\ (isRedirected(h) <=> h \in HostHandles)
  <2>1. isRedirected(h) => h \in HostHandles
    BY <1>1 DEF Recorded, isRedirected
  <2>2. CASE h \in HostHandles
    BY <1>1, <1>3, <2>1, <2>2 DEF Recorded
  <2>3. CASE h \in MsHandles
    BY <1>1, <1>3, <2>1, <2>3, RedirectAssumption DEF InHand
  <2>. QED
    BY <2>2, <2>3 DEF Handles
<1>. QED
  BY <1>2, <1>3 DEF Routed

LEMMA Ready ==
  ASSUME NEW p, Threads = {p}, CInv, careless = {}
  PROVE  HostThere
<1>1. /\ TypeOK /\ HostTypeOK /\ ModeTypeOK /\ Life /\ HostSafe /\ Allocated /\ Calls
      /\ slots \in Nat /\ d_slots \in Nat
  BY DEF CInv, IInv, Types, TypeOK
<1>2. ASSUME UsesHost(p) PROVE Live
  <2>1. patched
    BY <1>1, <1>2 DEF Allocated, UsesHost
  <2>2. host_mode # "OFF"
    BY <1>1, <2>1 DEF Life
  <2>3. slots # 0
    <3>1. SUFFICES ASSUME slots = 0 PROVE FALSE
      OBVIOUS
    <3>2. Cold /\ ~host_drv
      BY <1>1, <2>1, <3>1 DEF Allocated
    <3>. QED
      BY <1>2, <2>2, <3>2 DEF Cold, UsesHost, Waits
  <2>. QED
    BY <1>1, <2>3 DEF Allocated
<1>3. UsesHost(p) =>
        /\ hostfs_drv /\ "host" \in up /\ slots > 0 /\ d_slots > 0
        /\ host_mode = "WIF" => user = "asleep" /\ terms = "disabled"
  BY <1>1, <1>2 DEF Live, HostSafe
<1>4. th[p].at \in {"append", "d_dopen"} => slots > 0 /\ d_slots > 0
  BY <1>3 DEF UsesHost, Waits
<1>5. InBounds
  BY <1>1, <1>4 DEF InBounds, Calls, Roomy, Room
<1>. QED
  BY <1>1, <1>3, <1>5 DEF HostThere

(* For one caller at a time: until a call is made that does not wait for the  *)
(* host, redirect is called a second time in a boot, or the driver is         *)
(* restored under a call, the callers and the drivers agree on what is open   *)
(* and where; and again from the next boot on.                                *)
THEOREM RoutingKept ==
  ASSUME NEW p, Threads = {p}
  PROVE  ModeSpec => []ModeAccounted
<1>1. ModeInit => CInv
  BY Beginning
<1>2. CInv /\ [ModeNext]_allVars => CInv'
  BY EveryStep
<1>3. CInv => ModeAccounted
  BY Accounted DEF ModeAccounted
<1>. QED
  BY <1>1, <1>2, <1>3, PTL DEF ModeSpec

(* And as long a call that goes to the host finds the driver, room in the     *)
(* arrays and, over WiFi, a network nobody has begun to end.                  *)
THEOREM HostAlwaysReady ==
  ASSUME NEW p, Threads = {p}
  PROVE  ModeSpec => []HostReady
<1>1. ModeInit => CInv
  BY Beginning
<1>2. CInv /\ [ModeNext]_allVars => CInv'
  BY EveryStep
<1>3. CInv => HostReady
  BY Ready DEF HostReady
<1>. QED
  BY <1>1, <1>2, <1>3, PTL DEF ModeSpec

==============================================================================
