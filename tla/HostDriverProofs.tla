--------------------------- MODULE HostDriverProofs --------------------------
(* Theorems about HostDriver: what a transfer says it moved is what the PC    *)
(* moved, and no handle is forgotten.  The invariant follows a transfer that  *)
(* no other thread disturbs (its history sole): the position of the PC, the   *)
(* caller's memory and the count go on together, block by block.              *)
EXTENDS HostDriver, FiniteSetTheorems, WellFoundedInduction, SequenceTheorems, TLAPS

(* A unit as a transfer records it; a handle; the state of a call.            *)
Unit == [mem : Int, pos : Int]
Handle == [kind : Kinds, n : Int]
Transfers ==
    [at : {"idle", "move", "done"}, handle : Handle, blocks : Nat, residual : Nat, data : Nat, ret : Int,
     moved : Seq(Unit), from : Int, sole : BOOLEAN]

(* The positions on the PC, the descriptors, the calls.                       *)
HostType ==
    /\ DOMAIN host = {"open"}
    /\ host.open \in [DOMAIN host.open -> 0 .. FileSize]
    /\ IsFiniteSet(DOMAIN host.open)
    /\ \A h \in DOMAIN host.open : h \in Handle /\ h.n \in Nat
DescType ==
    /\ desc \in [Descriptor -> [open : BOOLEAN, handle : Handle, current : BOOLEAN]]
    /\ \A d \in Descriptor : desc[d].open <=> desc[d].handle # NoHandle
CallType ==
    /\ call \in [Thread -> Transfers]
    /\ \A t \in Thread : call[t].ret \in {Error, -1} \cup Nat
    /\ \A t \in Thread : call[t].at = "move" => call[t].ret \in Nat
LinkType == link \in [up : BOOLEAN, lost : BOOLEAN, mishaps : 0 .. MaxMishaps, calls : 0 .. MaxCalls]

(* A transfer nobody disturbed: the PC is where the units end, and so is the  *)
(* caller's memory while it goes on.                                          *)
Undisturbed(t) ==
    LET c == call[t]
    IN  c.sole =>
            /\ c.at # "idle" /\ c.handle.kind = "file"
            /\ Live(c.handle) /\ host.open[c.handle] = c.from + Len(c.moved)
            /\ \A i \in 1 .. Len(c.moved) : c.moved[i] = [mem |-> i - 1, pos |-> c.from + i - 1]
            /\ c.at = "move" => c.data = Len(c.moved) /\ c.ret = Len(c.moved)
            /\ c.at = "done" /\ c.ret >= 0 => c.ret = Len(c.moved)
            /\ c.at = "done" /\ c.ret = Error => c.moved = <<>>

Types == HostType /\ DescType /\ CallType /\ LinkType
IInv == Types /\ HandlesKnown /\ \A t \in Thread : Undisturbed(t)

------------------------------------------------------------------------------
(* A set of numbers that is not empty has a least one.                        *)
LEMMA LeastNumber ==
  ASSUME NEW S \in SUBSET Nat, S # {}
  PROVE  Min(S) \in S /\ \A x \in S : Min(S) <= x
<1>. DEFINE Below(n) == {k \in Nat : k < n}
            T == {Below(n) : n \in S}
<1>1. T \subseteq FiniteSubsetsOf(Nat) /\ T # {}
  <2>1. SUFFICES ASSUME NEW n \in S PROVE Below(n) \in FiniteSubsetsOf(Nat)
    OBVIOUS
  <2>2. Below(n) \in SUBSET Nat /\ \A k \in Below(n) : k <= n
    OBVIOUS
  <2>3. IsFiniteSet(Below(n))
    BY <2>2, FS_BoundedSetOfNaturals
  <2>. QED
    BY <2>2, <2>3 DEF FiniteSubsetsOf
<1>2. PICK B \in T : \A C \in T : <<C, B>> \notin StrictSubsetOrdering(Nat)
  <2>1. IsWellFoundedOn(StrictSubsetOrdering(Nat), FiniteSubsetsOf(Nat))
    BY FS_StrictSubsetOrderingWellFounded
  <2>. HIDE DEF T
  <2>. QED
    BY <1>1, <2>1, WFMin
<1>3. PICK m \in S : B = Below(m)
  OBVIOUS
<1>4. ASSUME NEW x \in S, x < m PROVE FALSE
  <2>1. Below(x) \in T /\ Below(x) \subseteq Nat /\ Below(m) \subseteq Nat
    OBVIOUS
  <2>2. Below(x) \subseteq Below(m)
    BY <1>4
  <2>3. x \in Below(m) /\ x \notin Below(x)
    BY <1>4
  <2>4. <<Below(x), B>> \in StrictSubsetOrdering(Nat)
    BY <1>3, <2>1, <2>2, <2>3 DEF StrictSubsetOrdering
  <2>. QED
    BY <1>2, <2>1, <2>4
<1>5. \A x \in S : m <= x
  BY <1>4
<1>. QED
  BY <1>5 DEF Min

(* The PC gives a handle that is not in use.                                  *)
LEMMA FreshHandle ==
  ASSUME HostType, NEW kind \in Kinds
  PROVE  /\ NewHandle(kind) \in Handle /\ NewHandle(kind).kind = kind
         /\ NewHandle(kind).n \in Nat /\ ~Live(NewHandle(kind))
<1>. DEFINE H(i) == [kind |-> kind, n |-> i]
            card == Cardinality(DOMAIN host.open)
            S == {i \in 0 .. card : ~Live(H(i))}
<1>1. card \in Nat /\ IsFiniteSet(DOMAIN host.open)
  BY FS_CardinalityType DEF HostType
<1>2. S # {}
  <2>1. SUFFICES ASSUME \A i \in 0 .. card : H(i) \in DOMAIN host.open PROVE FALSE
    BY DEF Live
  <2>. DEFINE f == [i \in 0 .. card |-> H(i)]
  <2>2. f \in [0 .. card -> DOMAIN host.open]
    BY <2>1
  <2>3. IsFiniteSet(0 .. card) /\ Cardinality(0 .. card) = card + 1
    <3>1. PICK n \in Nat : n = card
      BY <1>1
    <3>2. IsFiniteSet(0 .. n) /\ Cardinality(0 .. n) = n + 1
      BY FS_Interval
    <3>. QED
      BY <3>1, <3>2
  <2>4. card < Cardinality(0 .. card)
    BY <1>1, <2>3
  <2>5. \E x, y \in 0 .. card : x # y /\ f[x] = f[y]
    <3>. HIDE DEF f
    <3>. QED
      BY <1>1, <2>2, <2>3, <2>4, FS_PigeonHole
  <2>6. PICK x \in 0 .. card, y \in 0 .. card : x # y /\ H(x) = H(y)
    BY <2>5
  <2>7. H(x).n = x /\ H(y).n = y
    OBVIOUS
  <2>. QED
    BY <2>6, <2>7
<1>3. S \in SUBSET Nat
  OBVIOUS
<1>4. Min(S) \in S
  <2>. HIDE DEF S
  <2>. QED
    BY <1>2, <1>3, LeastNumber
<1>5. Min(S) \in Nat /\ ~Live(H(Min(S)))
  BY <1>4
<1>6. NewHandle(kind) = H(Min(S))
  BY Zenon DEF NewHandle
<1>7. PICK m : m = Min(S)
  OBVIOUS
<1>8. NewHandle(kind) = [kind |-> kind, n |-> m] /\ m \in Nat /\ ~Live([kind |-> kind, n |-> m])
  <2>. HIDE DEF S
  <2>. QED
    BY <1>5, <1>6, <1>7
<1>. QED
  BY <1>8 DEF Handle

(* What the commands do to what is open on the PC.                            *)
LEMMA OpenedFacts ==
  ASSUME HostType, NEW h \in Handle, h.n \in Nat, host' = Opened(h)
  PROVE  /\ HostType' /\ DOMAIN host'.open = DOMAIN host.open \cup {h}
         /\ \A k \in DOMAIN host.open \ {h} : host'.open[k] = host.open[k]
<1>1. PICK g : g = [k \in DOMAIN host.open \cup {h} |-> IF k = h THEN 0 ELSE host.open[k]]
  OBVIOUS
<1>2. host' = [host EXCEPT !.open = g]
  BY <1>1 DEF Opened
<1>3. host'.open = g /\ DOMAIN host' = {"open"}
  BY <1>2 DEF HostType
<1>4. DOMAIN g = DOMAIN host.open \cup {h} /\ \A k \in DOMAIN host.open \ {h} : g[k] = host.open[k]
  BY <1>1
<1>5. g \in [DOMAIN g -> 0 .. FileSize]
  <2>1. 0 \in 0 .. FileSize
    BY HostDriverAssumption
  <2>. QED
    BY <1>1, <2>1 DEF HostType
<1>6. IsFiniteSet(DOMAIN g)
  BY <1>4, FS_AddElement DEF HostType
<1>7. \A k \in DOMAIN g : k \in Handle /\ k.n \in Nat
  BY <1>4 DEF HostType
<1>. QED
  BY <1>3, <1>4, <1>5, <1>6, <1>7 DEF HostType

LEMMA ClosedFacts ==
  ASSUME HostType, NEW h, host' = ClosedOn(h)
  PROVE  /\ HostType' /\ DOMAIN host'.open = DOMAIN host.open \ {h}
         /\ \A k \in DOMAIN host.open \ {h} : host'.open[k] = host.open[k]
<1>1. PICK g : g = [k \in DOMAIN host.open \ {h} |-> host.open[k]]
  OBVIOUS
<1>2. host' = [host EXCEPT !.open = g]
  BY <1>1 DEF ClosedOn
<1>3. host'.open = g /\ DOMAIN host' = {"open"}
  BY <1>2 DEF HostType
<1>4. DOMAIN g = DOMAIN host.open \ {h} /\ \A k \in DOMAIN host.open \ {h} : g[k] = host.open[k]
  BY <1>1
<1>5. g \in [DOMAIN g -> 0 .. FileSize]
  BY <1>1 DEF HostType
<1>6. IsFiniteSet(DOMAIN g)
  BY <1>4, FS_RemoveElement DEF HostType
<1>7. \A k \in DOMAIN g : k \in Handle /\ k.n \in Nat
  BY <1>4 DEF HostType
<1>. QED
  BY <1>3, <1>4, <1>5, <1>6, <1>7 DEF HostType

LEMMA PositionedFacts ==
  ASSUME HostType, NEW h, NEW p \in 0 .. FileSize, host' = Positioned(h, p)
  PROVE  /\ HostType' /\ DOMAIN host'.open = DOMAIN host.open
         /\ \A k \in DOMAIN host.open \ {h} : host'.open[k] = host.open[k]
         /\ Live(h) => host'.open[h] = p
<1>1. CASE ~Live(h)
  BY <1>1 DEF Positioned, HostType
<1>2. CASE Live(h)
  <2>1. PICK g : g = [host.open EXCEPT ![h] = p]
    OBVIOUS
  <2>2. host' = [host EXCEPT !.open = g]
    BY <1>2, <2>1 DEF Positioned
  <2>3. host'.open = g /\ DOMAIN host' = {"open"}
    BY <2>2 DEF HostType
  <2>4. DOMAIN g = DOMAIN host.open /\ g[h] = p /\ \A k \in DOMAIN host.open \ {h} : g[k] = host.open[k]
    BY <1>2, <2>1 DEF Live, HostType
  <2>5. g \in [DOMAIN g -> 0 .. FileSize]
    BY <1>2, <2>1 DEF HostType, Live
  <2>. QED
    BY <2>3, <2>4, <2>5 DEF HostType
<1>. QED
  BY <1>1, <1>2

(* A command on h ends the history of the other transfers on it only.         *)
LEMMA TouchedFacts ==
  ASSUME NEW c \in [Thread -> Transfers], NEW t \in Thread, NEW h
  PROVE  /\ Touched(c, t, h) \in [Thread -> Transfers]
         /\ Touched(c, t, h)[t] = c[t]
         /\ \A u \in Thread : u # t => IF c[u].handle = h THEN ~Touched(c, t, h)[u].sole ELSE Touched(c, t, h)[u] = c[u]
         /\ \A u \in Thread : Touched(c, t, h)[u].at = c[u].at /\ Touched(c, t, h)[u].ret = c[u].ret
<1>. DEFINE Ended(u) == [c[u] EXCEPT !.sole = FALSE]
<1>1. \A u \in Thread : /\ Ended(u) \in Transfers /\ ~Ended(u).sole
                        /\ Ended(u).at = c[u].at /\ Ended(u).ret = c[u].ret
  <2>1. SUFFICES ASSUME NEW u \in Thread
                 PROVE  /\ Ended(u) \in Transfers /\ ~Ended(u).sole
                        /\ Ended(u).at = c[u].at /\ Ended(u).ret = c[u].ret
    OBVIOUS
  <2>2. c[u] \in Transfers
    OBVIOUS
  <2>. QED
    BY <2>2 DEF Transfers
<1>2. Touched(c, t, h) = [u \in Thread |-> IF u # t /\ c[u].handle = h THEN Ended(u) ELSE c[u]]
  BY DEF Touched
<1>. HIDE DEF Ended
<1>. QED
  BY <1>1, <1>2

(* A transfer that goes on undisturbed.                                       *)
LEMMA Spared ==
  ASSUME NEW u \in Thread, Undisturbed(u),
         call'[u].sole =>
             /\ call'[u] = call[u]
             /\ Live(call[u].handle) => /\ call[u].handle \in DOMAIN host'.open
                                        /\ host'.open[call[u].handle] = host.open[call[u].handle]
  PROVE  Undisturbed(u)'
BY DEF Undisturbed, Live

(* The bounded counters of the connection.                                    *)
LEMMA LinkFacts ==
  ASSUME LinkType
  PROVE  /\ link.calls < MaxCalls =>
                /\ Counted \in [up : BOOLEAN, lost : BOOLEAN, mishaps : 0 .. MaxMishaps, calls : 0 .. MaxCalls]
                /\ Counted.up = link.up /\ Counted.lost = link.lost
                /\ CanFail => Failed(Counted) \in [up : BOOLEAN, lost : BOOLEAN, mishaps : 0 .. MaxMishaps, calls : 0 .. MaxCalls]
                /\ ~Failed(Counted).up
         /\ CanFail => Failed(link) \in [up : BOOLEAN, lost : BOOLEAN, mishaps : 0 .. MaxMishaps, calls : 0 .. MaxCalls]
         /\ ~Failed(link).up
<1>. DEFINE L == [up : BOOLEAN, lost : BOOLEAN, mishaps : 0 .. MaxMishaps, calls : 0 .. MaxCalls]
<1>1. MaxCalls \in Nat /\ MaxMishaps \in Nat
  BY HostDriverAssumption
<1>2. \A l \in L : ~Failed(l).up /\ (l.mishaps < MaxMishaps => Failed(l) \in L)
  <2>1. SUFFICES ASSUME NEW l \in L PROVE ~Failed(l).up /\ (l.mishaps < MaxMishaps => Failed(l) \in L)
    OBVIOUS
  <2>2. PICK a : a = [l EXCEPT !.up = FALSE]
    OBVIOUS
  <2>3. a \in L /\ a.up = FALSE /\ a.mishaps = l.mishaps
    BY <2>2
  <2>4. PICK b : b = [a EXCEPT !.lost = TRUE]
    OBVIOUS
  <2>5. b \in L /\ b.up = FALSE /\ b.mishaps = l.mishaps
    BY <2>3, <2>4
  <2>6. PICK c : c = [b EXCEPT !.mishaps = l.mishaps + 1]
    OBVIOUS
  <2>7. c.up = FALSE /\ (l.mishaps < MaxMishaps => c \in L)
    BY <1>1, <2>5, <2>6
  <2>8. Failed(l) = c
    BY <2>2, <2>4, <2>6 DEF Failed
  <2>. QED
    BY <2>7, <2>8
<1>3. link \in L
  BY DEF LinkType
<1>4. link.calls < MaxCalls => /\ Counted \in L /\ Counted.up = link.up /\ Counted.lost = link.lost
                               /\ Counted.mishaps = link.mishaps
  BY <1>1, <1>3 DEF Counted
<1>5. CanFail => link.mishaps < MaxMishaps
  BY DEF CanFail
<1>6. link.calls < MaxCalls => ~Failed(Counted).up /\ (CanFail => Failed(Counted) \in L)
  <2>. HIDE DEF L
  <2>. QED
    BY <1>2, <1>4, <1>5
<1>7. ~Failed(link).up /\ (CanFail => Failed(link) \in L)
  <2>. HIDE DEF L
  <2>. QED
    BY <1>2, <1>3, <1>5
<1>. QED
  BY <1>4, <1>6, <1>7

(* After a command the connection is what it was, or lost.                    *)
LEMMA LinkStep ==
  ASSUME LinkType, HandlesKnown, link.calls < MaxCalls, link' = Counted \/ (CanFail /\ link' = Failed(Counted))
  PROVE  /\ LinkType'
         /\ link'.up /\ ~link'.lost => DOMAIN host.open \subseteq {desc[d].handle : d \in Current}
<1>. QED
  BY LinkFacts DEF LinkType, HandlesKnown

LEMMA KnownStays ==
  ASSUME link'.up /\ ~link'.lost => DOMAIN host.open \subseteq {desc[d].handle : d \in Current},
         DOMAIN host'.open \subseteq DOMAIN host.open, desc' = desc
  PROVE  HandlesKnown'
BY DEF HandlesKnown, Current

(* A step that leaves the calls and what is open alone.                       *)
LEMMA CommandInv ==
  ASSUME IInv, NEW t \in Thread, Command(t)
  PROVE  IInv'
<1>1. Types /\ HandlesKnown /\ \A u \in Thread : Undisturbed(u)
  BY DEF IInv
<1>2. /\ UNCHANGED <<host, desc, call>> /\ link.calls < MaxCalls
      /\ link' = Counted \/ (CanFail /\ link' = Failed(Counted))
  BY DEF Command, MayCall
<1>3. LinkType' /\ HandlesKnown'
  BY <1>1, <1>2, LinkStep, KnownStays DEF Types
<1>4. HostType' /\ DescType' /\ CallType'
  BY <1>1, <1>2 DEF Types, HostType, DescType, CallType
<1>5. (\A u \in Thread : Undisturbed(u))'
  BY <1>1, <1>2 DEF Undisturbed, Live
<1>. QED
  BY <1>3, <1>4, <1>5 DEF IInv, Types

LEMMA io_openInv ==
  ASSUME IInv, NEW t \in Thread, NEW d \in Descriptor, NEW kind \in Kinds, io_open(t, d, kind)
  PROVE  IInv'
<1>1. Types /\ HandlesKnown /\ \A u \in Thread : Undisturbed(u)
  BY DEF IInv
<1>2. HostType /\ DescType /\ CallType /\ LinkType
  BY <1>1 DEF Types
<1>3. PICK h : h = NewHandle(kind)
  OBVIOUS
<1>4. h \in Handle /\ h.n \in Nat /\ ~Live(h)
  BY <1>2, <1>3, FreshHandle
<1>5. link.calls < MaxCalls /\ ~desc[d].open /\ call' = call
  BY DEF io_open, MayCall
<1>6. CASE /\ host' = Opened(h)
           /\ desc' = IF GoodHandle(h.n) THEN [desc EXCEPT ![d] = [open |-> TRUE, handle |-> h, current |-> TRUE]] ELSE desc
           /\ link' = Counted
  <2>1. desc' = [desc EXCEPT ![d] = [open |-> TRUE, handle |-> h, current |-> TRUE]]
    BY <1>4, <1>6 DEF GoodHandle
  <2>2. PICK r : r = [open |-> TRUE, handle |-> h, current |-> TRUE]
    OBVIOUS
  <2>3. /\ r \in [open : BOOLEAN, handle : Handle, current : BOOLEAN]
        /\ r.open /\ r.handle = h /\ r.current /\ h # NoHandle
    BY <1>4, <2>2 DEF NoHandle
  <2>4. /\ desc' \in [Descriptor -> [open : BOOLEAN, handle : Handle, current : BOOLEAN]]
        /\ desc'[d] = r /\ \A e \in Descriptor \ {d} : desc'[e] = desc[e]
    BY <1>2, <2>1, <2>2, <2>3 DEF DescType
  <2>5. DescType'
    BY <1>2, <2>3, <2>4 DEF DescType
  <2>6. /\ HostType' /\ DOMAIN host'.open = DOMAIN host.open \cup {h}
        /\ \A k \in DOMAIN host.open \ {h} : host'.open[k] = host.open[k]
    BY <1>2, <1>4, <1>6, OpenedFacts
  <2>7. LinkType' /\ (link'.up /\ ~link'.lost => DOMAIN host.open \subseteq {desc[e].handle : e \in Current})
    BY <1>1, <1>2, <1>5, <1>6, LinkStep
  <2>8. HandlesKnown'
    <3>1. SUFFICES ASSUME link'.up /\ ~link'.lost, NEW k \in DOMAIN host'.open
                   PROVE  \E e \in Descriptor : desc'[e].open /\ desc'[e].current /\ desc'[e].handle = k
      BY DEF HandlesKnown, Current
    <3>2. CASE k = h
      BY <2>3, <2>4, <3>2
    <3>3. CASE k # h
      <4>1. PICK e \in Descriptor : desc[e].open /\ desc[e].current /\ desc[e].handle = k
        BY <2>6, <2>7, <3>1, <3>3 DEF Current
      <4>2. e # d
        BY <1>5, <4>1
      <4>. QED
        BY <2>4, <4>1, <4>2
    <3>. QED
      BY <3>2, <3>3
  <2>9. (\A u \in Thread : Undisturbed(u))'
    BY <1>1, <1>4, <1>5, <2>6, Spared DEF Live
  <2>10. CallType'
    BY <1>2, <1>5 DEF CallType
  <2>. QED
    BY <2>5, <2>6, <2>7, <2>8, <2>9, <2>10 DEF IInv, Types
<1>7. CASE UNCHANGED <<host, desc>> /\ link' = Counted
  BY <1>5, <1>7, CommandInv DEF Command, io_open
<1>8. CASE CanFail /\ host' \in {host, Opened(h)} /\ link' = Failed(Counted) /\ UNCHANGED desc
  <2>1. LinkType' /\ ~link'.up
    BY <1>2, <1>5, <1>8, LinkFacts DEF LinkType
  <2>2. HandlesKnown'
    BY <2>1 DEF HandlesKnown
  <2>3. HostType' /\ \A k \in DOMAIN host.open \ {h} : k \in DOMAIN host'.open /\ host'.open[k] = host.open[k]
    <3>1. CASE host' = Opened(h)
      BY <1>2, <1>4, <3>1, OpenedFacts
    <3>2. CASE host' = host
      BY <1>2, <3>2 DEF HostType
    <3>. QED
      BY <1>8, <3>1, <3>2
  <2>4. (\A u \in Thread : Undisturbed(u))'
    BY <1>1, <1>4, <1>5, <2>3, Spared DEF Live
  <2>5. CallType' /\ DescType'
    BY <1>2, <1>5, <1>8 DEF CallType, DescType
  <2>. QED
    BY <2>1, <2>2, <2>3, <2>4, <2>5 DEF IInv, Types
<1>. QED
  BY <1>3, <1>6, <1>7, <1>8 DEF io_open

LEMMA io_closeInv ==
  ASSUME IInv, NEW t \in Thread, NEW d \in Descriptor, io_close(t, d)
  PROVE  IInv'
<1>1. Types /\ HandlesKnown /\ \A u \in Thread : Undisturbed(u)
  BY DEF IInv
<1>2. HostType /\ DescType /\ CallType /\ LinkType
  BY <1>1 DEF Types
<1>3. PICK h : h = desc[d].handle
  OBVIOUS
<1>4. link.calls < MaxCalls /\ desc[d].open /\ call' = Touched(call, t, h) /\ desc' = [desc EXCEPT ![d] = Closed]
  BY <1>3 DEF io_close, MayCall
<1>5. \/ host' = ClosedOn(h) /\ link' = Counted
      \/ CanFail /\ host' \in {host, ClosedOn(h)} /\ link' = Failed(Counted)
      \/ ~link.up /\ host' = host /\ link' = Counted
  BY <1>3 DEF io_close
<1>6. /\ HostType' /\ DOMAIN host.open \ {h} \subseteq DOMAIN host'.open
      /\ \A k \in DOMAIN host.open \ {h} : host'.open[k] = host.open[k]
  <2>1. CASE host' = host
    BY <1>2, <2>1 DEF HostType
  <2>2. CASE host' = ClosedOn(h)
    BY <1>2, <2>2, ClosedFacts
  <2>. QED
    BY <1>5, <2>1, <2>2
<1>7. LinkType' /\ (link'.up /\ ~link'.lost => DOMAIN host.open \subseteq {desc[e].handle : e \in Current})
  BY <1>1, <1>2, <1>4, <1>5, LinkStep
<1>8. Closed \in [open : BOOLEAN, handle : Handle, current : BOOLEAN] /\ ~Closed.open /\ Closed.handle = NoHandle
  BY DEF Closed, NoHandle, Handle, Kinds
<1>9. /\ desc' \in [Descriptor -> [open : BOOLEAN, handle : Handle, current : BOOLEAN]]
      /\ desc'[d] = Closed /\ \A e \in Descriptor \ {d} : desc'[e] = desc[e]
  BY <1>2, <1>4, <1>8 DEF DescType
<1>10. DescType'
  BY <1>2, <1>8, <1>9 DEF DescType
<1>11. HandlesKnown'
  <2>1. SUFFICES ASSUME link'.up /\ ~link'.lost, NEW k \in DOMAIN host'.open
                 PROVE  \E e \in Descriptor : desc'[e].open /\ desc'[e].current /\ desc'[e].handle = k
    BY DEF HandlesKnown, Current
  <2>2. host' = ClosedOn(h)
    BY <1>2, <1>4, <1>5, <2>1, LinkFacts
  <2>3. k \in DOMAIN host.open /\ k # h
    BY <1>2, <2>2, ClosedFacts
  <2>4. PICK e \in Descriptor : desc[e].open /\ desc[e].current /\ desc[e].handle = k
    BY <1>7, <2>1, <2>3 DEF Current
  <2>5. e # d
    BY <1>3, <2>3, <2>4
  <2>. QED
    BY <1>9, <2>4, <2>5
<1>12. /\ call' \in [Thread -> Transfers] /\ call'[t] = call[t]
       /\ \A u \in Thread : u # t => IF call[u].handle = h THEN ~call'[u].sole ELSE call'[u] = call[u]
       /\ \A u \in Thread : call'[u].at = call[u].at /\ call'[u].ret = call[u].ret
  BY <1>2, <1>4, TouchedFacts DEF CallType
<1>13. CallType'
  BY <1>2, <1>12 DEF CallType
<1>14. (\A u \in Thread : Undisturbed(u))'
  <2>1. SUFFICES ASSUME NEW u \in Thread PROVE Undisturbed(u)'
    OBVIOUS
  <2>2. CASE u = t
    BY <1>1, <1>12, <2>2 DEF Undisturbed, io_close, MayCall
  <2>3. CASE u # t
    BY <1>1, <1>6, <1>12, <2>3, Spared DEF Live
  <2>. QED
    BY <2>2, <2>3
<1>. QED
  BY <1>6, <1>7, <1>10, <1>11, <1>13, <1>14 DEF IInv, Types


LEMMA io_lseekInv ==
  ASSUME IInv, NEW t \in Thread, NEW d \in Descriptor, io_lseek(t, d)
  PROVE  IInv'
<1>1. Types /\ HandlesKnown /\ \A u \in Thread : Undisturbed(u)
  BY DEF IInv
<1>2. HostType /\ DescType /\ CallType /\ LinkType
  BY <1>1 DEF Types
<1>3. PICK h : h = desc[d].handle
  OBVIOUS
<1>4. /\ link.calls < MaxCalls /\ call' = Touched(call, t, h) /\ desc' = desc
      /\ link' = Counted \/ (CanFail /\ link' = Failed(Counted))
  BY <1>3 DEF io_lseek, MayCall
<1>5. PICK p \in 0 .. FileSize : host' \in {host, Positioned(h, p)}
  BY <1>3 DEF io_lseek
<1>6. /\ HostType' /\ DOMAIN host'.open = DOMAIN host.open
      /\ \A k \in DOMAIN host.open \ {h} : host'.open[k] = host.open[k]
  <2>1. CASE host' = host
    BY <1>2, <2>1 DEF HostType
  <2>2. CASE host' = Positioned(h, p)
    BY <1>2, <2>2, PositionedFacts
  <2>. QED
    BY <1>5, <2>1, <2>2
<1>7. LinkType' /\ HandlesKnown'
  BY <1>1, <1>2, <1>4, <1>6, LinkStep, KnownStays
<1>8. DescType'
  BY <1>2, <1>4 DEF DescType
<1>9. /\ call' \in [Thread -> Transfers] /\ call'[t] = call[t]
      /\ \A u \in Thread : u # t => IF call[u].handle = h THEN ~call'[u].sole ELSE call'[u] = call[u]
      /\ \A u \in Thread : call'[u].at = call[u].at /\ call'[u].ret = call[u].ret
  BY <1>2, <1>4, TouchedFacts DEF CallType
<1>10. CallType'
  BY <1>2, <1>9 DEF CallType
<1>11. (\A u \in Thread : Undisturbed(u))'
  <2>1. SUFFICES ASSUME NEW u \in Thread PROVE Undisturbed(u)'
    OBVIOUS
  <2>2. CASE u = t
    BY <1>1, <1>9, <2>2 DEF Undisturbed, io_lseek, MayCall
  <2>3. CASE u # t
    BY <1>1, <1>6, <1>9, <2>3, Spared DEF Live
  <2>. QED
    BY <2>2, <2>3
<1>. QED
  BY <1>6, <1>7, <1>8, <1>10, <1>11 DEF IInv, Types

LEMMA io_dreadInv ==
  ASSUME IInv, NEW t \in Thread, NEW d \in Descriptor, io_dread(t, d)
  PROVE  IInv'
<1>1. Types /\ HandlesKnown /\ \A u \in Thread : Undisturbed(u)
  BY DEF IInv
<1>2. HostType /\ DescType /\ CallType /\ LinkType
  BY <1>1 DEF Types
<1>3. PICK h : h = desc[d].handle
  OBVIOUS
<1>4. /\ link.calls < MaxCalls /\ h.kind = "dir" /\ UNCHANGED <<desc, call>>
      /\ link' = Counted \/ (CanFail /\ link' = Failed(Counted))
      /\ host' \in {host, IF Live(h) THEN Positioned(h, Min({FileSize, host.open[h] + 1})) ELSE host}
  BY <1>3 DEF io_dread, MayCall
<1>5. /\ HostType' /\ DOMAIN host'.open = DOMAIN host.open
      /\ \A k \in DOMAIN host.open \ {h} : host'.open[k] = host.open[k]
  <2>1. CASE host' = host
    BY <1>2, <2>1 DEF HostType
  <2>2. CASE Live(h) /\ host' = Positioned(h, Min({FileSize, host.open[h] + 1}))
    <3>1. FileSize \in Nat /\ host.open[h] \in Nat
      BY <1>2, <2>2, HostDriverAssumption DEF Live, HostType
    <3>2. PICK q : q = Min({FileSize, host.open[h] + 1})
      OBVIOUS
    <3>3. q \in {FileSize, host.open[h] + 1} /\ q <= FileSize
      BY <3>1, <3>2, LeastNumber
    <3>4. q \in 0 .. FileSize
      BY <3>1, <3>3
    <3>. QED
      BY <1>2, <2>2, <3>2, <3>4, PositionedFacts
  <2>. QED
    BY <1>4, <2>1, <2>2
<1>6. LinkType' /\ HandlesKnown'
  BY <1>1, <1>2, <1>4, <1>5, LinkStep, KnownStays
<1>7. DescType' /\ CallType'
  BY <1>2, <1>4 DEF DescType, CallType
<1>8. (\A u \in Thread : Undisturbed(u))'
  <2>1. SUFFICES ASSUME NEW u \in Thread PROVE Undisturbed(u)'
    OBVIOUS
  <2>2. CASE call[u].sole
    <3>1. call[u].handle # h
      BY <1>1, <1>4, <2>2 DEF Undisturbed
    <3>. QED
      BY <1>1, <1>4, <1>5, <3>1, Spared DEF Live
  <2>3. CASE ~call[u].sole
    BY <1>1, <1>4, <2>3, Spared
  <2>. QED
    BY <2>2, <2>3
<1>. QED
  BY <1>5, <1>6, <1>7, <1>8 DEF IInv, Types

(* A transfer begins: nothing is moved yet.                                   *)
LEMMA TransferInv ==
  ASSUME IInv, NEW t \in Thread, NEW d \in Descriptor, Transfer(t, d)
  PROVE  IInv'
<1>1. Types /\ HandlesKnown /\ \A u \in Thread : Undisturbed(u)
  BY DEF IInv
<1>2. HostType /\ DescType /\ CallType /\ LinkType
  BY <1>1 DEF Types
<1>3. PICK h : h = desc[d].handle
  OBVIOUS
<1>4. /\ link.calls < MaxCalls /\ h.kind = "file" /\ UNCHANGED <<host, desc>> /\ link' = Counted
  BY <1>3 DEF Transfer, MayCall
<1>5. h \in Handle
  BY <1>2, <1>3 DEF DescType
<1>6. PICK len \in Lengths :
         call' = [Touched(call, t, h) EXCEPT ![t] =
                 [Idle EXCEPT !.at = IF len = 0 THEN "done" ELSE "move", !.handle = h,
                              !.blocks = len \div MaxBlock, !.residual = len % MaxBlock,
                              !.from = IF Live(h) THEN host.open[h] ELSE 0,
                              !.sole = Live(h) /\ \A u \in Thread \ {t} : call[u].handle # h]]
  BY <1>3, Zenon DEF Transfer
<1>7. PICK b, r, f, s : /\ b = len \div MaxBlock /\ r = len % MaxBlock
                        /\ f = (IF Live(h) THEN host.open[h] ELSE 0)
                        /\ s = (Live(h) /\ \A u \in Thread \ {t} : call[u].handle # h)
  OBVIOUS
<1>8. b \in Nat /\ r \in Nat
  <2>1. len \in Nat /\ MaxBlock \in Nat \ {0}
    BY HostDriverAssumption
  <2>2. PICK l, m : l = len /\ m = MaxBlock
    OBVIOUS
  <2>3. l \in Nat /\ m \in Nat /\ m > 0 /\ b = l \div m /\ r = l % m
    BY <1>7, <2>1, <2>2
  <2>. QED
    BY <2>3
<1>9. f \in Int /\ s \in BOOLEAN /\ (s => Live(h) /\ f = host.open[h])
  <2>1. f \in Int
    BY <1>2, <1>7 DEF HostType, Live
  <2>2. s \in BOOLEAN
    BY <1>7, Zenon
  <2>3. s => Live(h) /\ f = host.open[h]
    BY <1>7
  <2>. QED
    BY <2>1, <2>2, <2>3
<1>10. PICK a : a = (IF len = 0 THEN "done" ELSE "move")
  OBVIOUS
<1>11. PICK c : c = [Idle EXCEPT !.at = a, !.handle = h, !.blocks = b, !.residual = r, !.from = f, !.sole = s]
  OBVIOUS
<1>12. /\ c \in Transfers /\ c.at \in {"move", "done"} /\ c.handle = h /\ c.from = f /\ c.sole = s
       /\ c.data = 0 /\ c.ret = 0 /\ c.moved = <<>>
  <2>1. a \in {"move", "done"}
    BY <1>10
  <2>2. c = [at |-> a, handle |-> h, blocks |-> b, residual |-> r, data |-> 0, ret |-> 0,
             moved |-> <<>>, from |-> f, sole |-> s]
    BY <1>11 DEF Idle
  <2>3. <<>> \in Seq(Unit)
    OBVIOUS
  <2>. QED
    BY <1>5, <1>8, <1>9, <2>1, <2>2, <2>3 DEF Transfers
<1>13. call' = [Touched(call, t, h) EXCEPT ![t] = c]
  BY <1>6, <1>7, <1>10, <1>11, Zenon
<1>14. PICK o : o = Touched(call, t, h)
  OBVIOUS
<1>15. /\ o \in [Thread -> Transfers]
       /\ \A u \in Thread : u # t => IF call[u].handle = h THEN ~o[u].sole ELSE o[u] = call[u]
       /\ \A u \in Thread : o[u].at = call[u].at /\ o[u].ret = call[u].ret
  BY <1>2, <1>14, TouchedFacts DEF CallType
<1>16. call' \in [Thread -> Transfers] /\ call'[t] = c /\ \A u \in Thread : u # t => call'[u] = o[u]
  BY <1>12, <1>13, <1>14, <1>15
<1>17. CallType'
  BY <1>2, <1>12, <1>15, <1>16 DEF CallType
<1>18. LinkType' /\ HandlesKnown'
  BY <1>1, <1>2, <1>4, LinkStep, KnownStays
<1>19. HostType' /\ DescType'
  BY <1>2, <1>4 DEF HostType, DescType
<1>20. (\A u \in Thread : Undisturbed(u))'
  <2>1. SUFFICES ASSUME NEW u \in Thread PROVE Undisturbed(u)'
    OBVIOUS
  <2>2. CASE u = t
    <3>1. call'[u] = c /\ Len(c.moved) = 0
      BY <1>12, <1>16, <2>2
    <3>. QED
      BY <1>2, <1>4, <1>9, <1>12, <3>1 DEF Undisturbed, Live, Error, HostType
  <2>3. CASE u # t
    BY <1>1, <1>4, <1>15, <1>16, <2>3, Spared DEF Live
  <2>. QED
    BY <2>2, <2>3
<1>. QED
  BY <1>17, <1>18, <1>19, <1>20 DEF IInv, Types

LEMMA ReturnInv ==
  ASSUME IInv, NEW t \in Thread, Return(t)
  PROVE  IInv'
<1>1. Types /\ HandlesKnown /\ \A u \in Thread : Undisturbed(u)
  BY DEF IInv
<1>2. HostType /\ DescType /\ CallType /\ LinkType
  BY <1>1 DEF Types
<1>3. UNCHANGED <<host, desc, link>> /\ call' = [call EXCEPT ![t] = Idle]
  BY DEF Return
<1>4. Idle \in Transfers /\ Idle.ret = 0 /\ Idle.at = "idle" /\ ~Idle.sole
  <2>1. <<>> \in Seq(Unit) /\ NoHandle \in Handle
    BY DEF Handle, NoHandle, Kinds
  <2>. QED
    BY <2>1 DEF Idle, Transfers
<1>5. /\ call' \in [Thread -> Transfers] /\ call'[t] = Idle
      /\ \A u \in Thread : u # t => call'[u] = call[u]
  BY <1>2, <1>3, <1>4 DEF CallType
<1>6. CallType'
  BY <1>2, <1>4, <1>5 DEF CallType
<1>7. HostType' /\ DescType' /\ LinkType' /\ HandlesKnown'
  BY <1>1, <1>2, <1>3 DEF HostType, DescType, LinkType, HandlesKnown, Current
<1>8. (\A u \in Thread : Undisturbed(u))'
  <2>1. SUFFICES ASSUME NEW u \in Thread PROVE Undisturbed(u)'
    OBVIOUS
  <2>2. CASE u = t
    BY <1>4, <1>5, <2>2 DEF Undisturbed
  <2>3. CASE u # t
    BY <1>1, <1>3, <1>5, <2>3, Spared DEF Live
  <2>. QED
    BY <2>2, <2>3
<1>. QED
  BY <1>6, <1>7, <1>8 DEF IInv, Types

LEMMA DisconnectInv ==
  ASSUME IInv, Disconnect
  PROVE  IInv'
<1>1. Types /\ HandlesKnown /\ \A u \in Thread : Undisturbed(u)
  BY DEF IInv
<1>2. HostType /\ DescType /\ CallType /\ LinkType
  BY <1>1 DEF Types
<1>3. CanFail /\ link' = Failed(link) /\ UNCHANGED <<host, desc, call>>
  BY DEF Disconnect
<1>4. LinkType' /\ ~link'.up
  BY <1>2, <1>3, LinkFacts DEF LinkType
<1>5. HandlesKnown' /\ HostType' /\ DescType' /\ CallType'
  BY <1>2, <1>3, <1>4 DEF HandlesKnown, HostType, DescType, CallType
<1>6. (\A u \in Thread : Undisturbed(u))'
  BY <1>1, <1>3 DEF Undisturbed, Live
<1>. QED
  BY <1>4, <1>5, <1>6 DEF IInv, Types

(* The PC closes what is open; no transfer goes on undisturbed.               *)
LEMMA ReconnectInv ==
  ASSUME IInv, Reconnect
  PROVE  IInv'
<1>1. HostType /\ DescType /\ CallType /\ LinkType
  BY DEF IInv, Types
<1>2. HostType' /\ DOMAIN host'.open = {}
  <2>1. PICK g : g = [h \in {} |-> 0]
    OBVIOUS
  <2>2. host' = [host EXCEPT !.open = g]
    BY <2>1 DEF Reconnect
  <2>3. host'.open = g /\ DOMAIN host' = {"open"}
    BY <1>1, <2>2 DEF HostType
  <2>4. DOMAIN g = {} /\ g \in [DOMAIN g -> 0 .. FileSize]
    BY <2>1
  <2>5. IsFiniteSet(DOMAIN g)
    BY <2>4, FS_EmptySet
  <2>. QED
    BY <2>3, <2>4, <2>5 DEF HostType
<1>3. LinkType'
  <2>1. PICK l : l = [link EXCEPT !.up = TRUE]
    OBVIOUS
  <2>2. l \in [up : BOOLEAN, lost : BOOLEAN, mishaps : 0 .. MaxMishaps, calls : 0 .. MaxCalls]
    BY <1>1, <2>1 DEF LinkType
  <2>3. link' = [l EXCEPT !.lost = FALSE]
    BY <2>1 DEF Reconnect
  <2>. QED
    BY <2>2, <2>3 DEF LinkType
<1>4. DescType'
  <2>. DEFINE Old(d) == [desc[d] EXCEPT !.current = FALSE]
  <2>1. \A d \in Descriptor : /\ Old(d) \in [open : BOOLEAN, handle : Handle, current : BOOLEAN]
                              /\ Old(d).open = desc[d].open /\ Old(d).handle = desc[d].handle
    BY <1>1 DEF DescType
  <2>2. desc' = [d \in Descriptor |-> Old(d)]
    BY DEF Reconnect
  <2>. HIDE DEF Old
  <2>. QED
    BY <1>1, <2>1, <2>2 DEF DescType
<1>5. CallType' /\ \A u \in Thread : ~call'[u].sole
  <2>. DEFINE Ended(u) == [call[u] EXCEPT !.sole = FALSE]
  <2>1. \A u \in Thread : /\ Ended(u) \in Transfers /\ ~Ended(u).sole
                          /\ Ended(u).at = call[u].at /\ Ended(u).ret = call[u].ret
    <3>1. SUFFICES ASSUME NEW u \in Thread
                   PROVE  /\ Ended(u) \in Transfers /\ ~Ended(u).sole
                          /\ Ended(u).at = call[u].at /\ Ended(u).ret = call[u].ret
      OBVIOUS
    <3>2. call[u] \in Transfers
      BY <1>1 DEF CallType
    <3>. QED
      BY <3>2 DEF Transfers
  <2>2. call' = [u \in Thread |-> Ended(u)]
    BY DEF Reconnect
  <2>. HIDE DEF Ended
  <2>. QED
    BY <1>1, <2>1, <2>2 DEF CallType
<1>6. HandlesKnown' /\ (\A u \in Thread : Undisturbed(u))'
  BY <1>2, <1>5 DEF HandlesKnown, Undisturbed
<1>. QED
  BY <1>2, <1>3, <1>4, <1>5, <1>6 DEF IInv, Types

(* What the PC can move keeps its position within the file.                   *)
LEMMA MovableFacts ==
  ASSUME HostType, NEW c \in Transfers, NEW n \in Movable(c)
  PROVE  n \in Nat /\ (n > 0 => Live(c.handle) /\ host.open[c.handle] + n \in 0 .. FileSize)
<1>1. CASE ~Live(c.handle)
  BY <1>1 DEF Movable
<1>2. CASE Live(c.handle)
  <2>1. PICK p : p = host.open[c.handle]
    OBVIOUS
  <2>2. FileSize \in Nat /\ MaxBlock \in Nat /\ p \in 0 .. FileSize
    BY <1>2, <2>1, HostDriverAssumption DEF Live, HostType
  <2>3. PICK b : b = BlockLength(c)
    OBVIOUS
  <2>4. b \in Nat
    BY <2>2, <2>3 DEF BlockLength, Transfers
  <2>5. PICK m : m = Min({b, FileSize - p})
    OBVIOUS
  <2>6. {b, FileSize - p} \in SUBSET Nat
    BY <2>2, <2>4
  <2>7. m \in Nat /\ m <= FileSize - p
    BY <2>5, <2>6, LeastNumber
  <2>8. n \in 0 .. m
    BY <1>2, <2>1, <2>3, <2>5, Zenon DEF Movable
  <2>. QED
    BY <1>2, <2>1, <2>2, <2>7, <2>8
<1>. QED
  BY <1>1, <1>2

(* The units of a block come after those moved before.                        *)
LEMMA MovedFacts ==
  ASSUME NEW c \in Transfers, NEW n \in Nat, n > 0 => host.open[c.handle] \in Int
  PROVE  /\ Moved(c, n) \in Seq(Unit) /\ Len(Moved(c, n)) = Len(c.moved) + n
         /\ \A i \in 1 .. Len(c.moved) : Moved(c, n)[i] = c.moved[i]
         /\ \A i \in Len(c.moved) + 1 .. Len(c.moved) + n :
               Moved(c, n)[i] = [mem |-> c.data + (i - Len(c.moved)) - 1,
                                 pos |-> host.open[c.handle] + (i - Len(c.moved)) - 1]
<1>1. PICK a, d, p : a = c.moved /\ d = c.data /\ p = host.open[c.handle]
  OBVIOUS
<1>2. a \in Seq(Unit) /\ d \in Nat /\ (n > 0 => p \in Int)
  BY <1>1 DEF Transfers
<1>3. PICK b : b = [i \in 1 .. n |-> [mem |-> d + i - 1, pos |-> p + i - 1]]
  OBVIOUS
<1>4. b \in [1 .. n -> Unit]
  BY <1>2, <1>3 DEF Unit
<1>5. b \in Seq(Unit) /\ Len(b) = n
  BY <1>4
<1>6. Moved(c, n) = a \o b
  BY <1>1, <1>3, Zenon DEF Moved
<1>7. /\ a \o b \in Seq(Unit) /\ Len(a \o b) = Len(a) + n
      /\ \A i \in 1 .. Len(a) : (a \o b)[i] = a[i]
      /\ \A i \in Len(a) + 1 .. Len(a) + n : (a \o b)[i] = b[i - Len(a)]
  BY <1>2, <1>5
<1>8. \A j \in 1 .. n : b[j] = [mem |-> d + j - 1, pos |-> p + j - 1]
  BY <1>3
<1>9. \A i \in Len(a) + 1 .. Len(a) + n :
         (a \o b)[i] = [mem |-> d + (i - Len(a)) - 1, pos |-> p + (i - Len(a)) - 1]
  <2>1. SUFFICES ASSUME NEW i \in Len(a) + 1 .. Len(a) + n
                 PROVE  (a \o b)[i] = [mem |-> d + (i - Len(a)) - 1, pos |-> p + (i - Len(a)) - 1]
    OBVIOUS
  <2>2. PICK j \in 1 .. n : j = i - Len(a)
    BY <1>2
  <2>. QED
    BY <1>7, <1>8, <2>2
<1>. QED
  BY <1>1, <1>6, <1>7, <1>9

(* A block that was moved counts what was moved, and nothing else.            *)
LEMMA NextBlockFacts ==
  ASSUME NEW c \in Transfers, c.ret \in Nat, NEW n \in Nat, NEW m \in Seq(Unit),
         NEW e, e = NextBlock(Advanced([c EXCEPT !.moved = m], n))
  PROVE  /\ e \in Transfers /\ e.at \in {"move", "done"} /\ e.handle = c.handle
         /\ e.data = c.data + n /\ e.ret = c.ret + n
         /\ e.moved = m /\ e.from = c.from /\ e.sole = c.sole
<1>1. PICK c1 : c1 = [c EXCEPT !.moved = m]
  OBVIOUS
<1>2. /\ c1 \in Transfers /\ c1.handle = c.handle /\ c1.data = c.data /\ c1.ret = c.ret
      /\ c1.moved = m /\ c1.from = c.from /\ c1.sole = c.sole
  BY <1>1 DEF Transfers
<1>. DEFINE d == c.data + n
            r == c.ret + n
<1>0. d \in Nat /\ r \in Nat
  BY DEF Transfers
<1>3. PICK c2 : c2 = [c1 EXCEPT !.data = d]
  OBVIOUS
<1>4. /\ c2 \in Transfers /\ c2.handle = c.handle /\ c2.data = d /\ c2.ret = c.ret
      /\ c2.moved = m /\ c2.from = c.from /\ c2.sole = c.sole
  <2>. HIDE DEF d
  <2>. QED
    BY <1>0, <1>2, <1>3 DEF Transfers
<1>5. PICK c3 : c3 = [c2 EXCEPT !.ret = r]
  OBVIOUS
<1>6. /\ c3 \in Transfers /\ c3.handle = c.handle /\ c3.data = d /\ c3.ret = r
      /\ c3.moved = m /\ c3.from = c.from /\ c3.sole = c.sole
  <2>. HIDE DEF d, r
  <2>. QED
    BY <1>0, <1>4, <1>5 DEF Transfers
<1>7. Advanced(c1, n) = c3
  BY <1>2, <1>3, <1>4, <1>5 DEF Advanced, Transfers
<1>8. PICK b : b = IF c3.blocks > 0 THEN [c3 EXCEPT !.blocks = c3.blocks - 1] ELSE [c3 EXCEPT !.residual = 0]
  OBVIOUS
<1>9. /\ b \in Transfers /\ b.handle = c.handle /\ b.data = d /\ b.ret = r
      /\ b.moved = m /\ b.from = c.from /\ b.sole = c.sole
  <2>1. CASE c3.blocks > 0
    <3>1. PICK k \in Nat : k = c3.blocks - 1
      BY <1>6, <2>1 DEF Transfers
    <3>. HIDE DEF d, r
    <3>2. b = [c3 EXCEPT !.blocks = k]
      BY <1>8, <2>1, <3>1
    <3>. QED
      BY <1>6, <3>2 DEF Transfers
  <2>2. CASE ~(c3.blocks > 0)
    <3>. HIDE DEF d, r
    <3>1. b = [c3 EXCEPT !.residual = 0]
      BY <1>8, <2>2
    <3>. QED
      BY <1>6, <3>1 DEF Transfers
  <2>. QED
    BY <2>1, <2>2
<1>10. PICK a : a = IF b.blocks = 0 /\ b.residual = 0 THEN "done" ELSE "move"
  OBVIOUS
<1>11. e = [b EXCEPT !.at = a]
  BY <1>1, <1>7, <1>8, <1>10 DEF NextBlock
<1>12. a \in {"move", "done"}
  BY <1>10
<1>. QED
  BY <1>9, <1>11, <1>12 DEF Transfers

LEMMA StoppedFacts ==
  ASSUME NEW c \in Transfers, c.ret \in Nat, NEW res \in {0, Error}, NEW e, e = Stopped(c, res)
  PROVE  /\ e \in Transfers /\ e.at = "done" /\ e.handle = c.handle /\ e.moved = c.moved
         /\ e.from = c.from /\ e.sole = c.sole
         /\ e.ret = c.ret \/ (e.ret = Error /\ c.ret = 0)
<1>1. PICK r : r = IF res < 0 /\ c.ret = 0 THEN res ELSE c.ret
  OBVIOUS
<1>2. r \in Int /\ (r = c.ret \/ (r = Error /\ c.ret = 0))
  BY <1>1 DEF Error
<1>3. PICK c1 : c1 = [c EXCEPT !.at = "done"]
  OBVIOUS
<1>4. /\ c1 \in Transfers /\ c1.at = "done" /\ c1.handle = c.handle /\ c1.moved = c.moved
      /\ c1.from = c.from /\ c1.sole = c.sole /\ c1.ret = c.ret
  BY <1>3 DEF Transfers
<1>5. e = [c1 EXCEPT !.ret = r]
  BY <1>1, <1>3, <1>4 DEF Stopped
<1>. QED
  BY <1>2, <1>4, <1>5 DEF Transfers

(* What the PC moved for a block moves its position by that much.             *)
LEMMA HostMovesFacts ==
  ASSUME HostType, NEW c \in Transfers, NEW n \in Movable(c), host' = HostMoves(c, n)
  PROVE  /\ HostType' /\ DOMAIN host'.open = DOMAIN host.open
         /\ \A k \in DOMAIN host.open \ {c.handle} : host'.open[k] = host.open[k]
         /\ Live(c.handle) => host'.open[c.handle] = host.open[c.handle] + n
<1>1. n \in Nat /\ (n > 0 => Live(c.handle) /\ host.open[c.handle] + n \in 0 .. FileSize)
  BY MovableFacts
<1>2. CASE n = 0
  <2>1. host' = host
    BY <1>2 DEF HostMoves
  <2>2. Live(c.handle) => host.open[c.handle] + n = host.open[c.handle]
    BY <1>2 DEF Live, HostType
  <2>. QED
    BY <2>1, <2>2 DEF HostType
<1>3. CASE n # 0
  <2>1. Live(c.handle) /\ host.open[c.handle] + n \in 0 .. FileSize
    BY <1>1, <1>3
  <2>2. host' = Positioned(c.handle, host.open[c.handle] + n)
    BY <1>3 DEF HostMoves
  <2>. QED
    BY <2>1, <2>2, PositionedFacts
<1>. QED
  BY <1>2, <1>3

(* The units of an undisturbed transfer, after one more block.                *)
LEMMA MovedInPlace ==
  ASSUME NEW c \in Transfers, NEW n \in Nat, c.data = Len(c.moved),
         host.open[c.handle] = c.from + Len(c.moved),
         \A i \in 1 .. Len(c.moved) : c.moved[i] = [mem |-> i - 1, pos |-> c.from + i - 1],
         NEW m, m = Moved(c, n)
  PROVE  \A i \in 1 .. Len(m) : m[i] = [mem |-> i - 1, pos |-> c.from + i - 1]
<1>1. PICK l, f : l = Len(c.moved) /\ f = c.from
  OBVIOUS
<1>2. l \in Nat /\ f \in Int
  <2>1. c.moved \in Seq(Unit) /\ c.from \in Int
    BY DEF Transfers
  <2>. QED
    BY <1>1, <2>1
<1>3. host.open[c.handle] \in Int
  BY <1>1, <1>2
<1>4. /\ Len(m) = l + n
      /\ \A i \in 1 .. l : m[i] = c.moved[i]
      /\ \A i \in l + 1 .. l + n : m[i] = [mem |-> l + (i - l) - 1, pos |-> f + l + (i - l) - 1]
  BY <1>1, <1>3, MovedFacts, Zenon
<1>5. SUFFICES ASSUME NEW i \in 1 .. l + n PROVE m[i] = [mem |-> i - 1, pos |-> f + i - 1]
  BY <1>1, <1>4, Zenon
<1>6. CASE i \in 1 .. l
  BY <1>1, <1>4, <1>6
<1>7. CASE i \notin 1 .. l
  <2>1. i \in l + 1 .. l + n
    BY <1>2, <1>7
  <2>2. l + (i - l) - 1 = i - 1 /\ f + l + (i - l) - 1 = f + i - 1
    BY <1>2, <2>1
  <2>. QED
    BY <1>4, <2>1, <2>2
<1>. QED
  BY <1>6, <1>7

(* What follows a block, whatever it was: the caller's own entry, the others. *)
LEMMA AfterBlock ==
  ASSUME IInv, NEW t \in Thread, HostType', LinkType', HandlesKnown', desc' = desc,
         \A k \in DOMAIN host.open \ {call[t].handle} : k \in DOMAIN host'.open /\ host'.open[k] = host.open[k],
         NEW o, (o = call /\ host' = host) \/ o = Touched(call, t, call[t].handle),
         NEW e \in Transfers, e.ret \in {Error, -1} \cup Nat, e.at = "move" => e.ret \in Nat,
         call' = [o EXCEPT ![t] = e], Undisturbed(t)'
  PROVE  IInv'
<1>1. Types /\ HandlesKnown /\ \A u \in Thread : Undisturbed(u)
  BY DEF IInv
<1>2. HostType /\ DescType /\ CallType /\ LinkType
  BY <1>1 DEF Types
<1>3. /\ o \in [Thread -> Transfers]
      /\ \A u \in Thread : o[u].at = call[u].at /\ o[u].ret = call[u].ret
  <2>1. CASE o = call
    BY <1>2, <2>1 DEF CallType
  <2>2. CASE o = Touched(call, t, call[t].handle)
    BY <1>2, <2>2, TouchedFacts DEF CallType
  <2>. QED
    BY <2>1, <2>2
<1>4. call' \in [Thread -> Transfers] /\ call'[t] = e /\ \A u \in Thread : u # t => call'[u] = o[u]
  BY <1>3
<1>5. CallType'
  BY <1>2, <1>3, <1>4 DEF CallType
<1>6. DescType'
  BY <1>2 DEF DescType
<1>7. (\A u \in Thread : Undisturbed(u))'
  <2>1. SUFFICES ASSUME NEW u \in Thread, u # t PROVE Undisturbed(u)'
    OBVIOUS
  <2>2. CASE o = call /\ host' = host
    BY <1>1, <1>4, <2>1, <2>2, Spared DEF Live
  <2>3. CASE o = Touched(call, t, call[t].handle)
    <3>1. IF call[u].handle = call[t].handle THEN ~o[u].sole ELSE o[u] = call[u]
      BY <1>2, <2>1, <2>3, TouchedFacts DEF CallType
    <3>. QED
      BY <1>1, <1>4, <2>1, <3>1, Spared DEF Live
  <2>. QED
    BY <2>2, <2>3
<1>. QED
  BY <1>5, <1>6, <1>7 DEF IInv, Types

LEMMA MoveBlockInv ==
  ASSUME IInv, NEW t \in Thread, MoveBlock(t)
  PROVE  IInv'
<1>1. Types /\ HandlesKnown /\ Undisturbed(t)
  BY DEF IInv
<1>2. HostType /\ DescType /\ CallType /\ LinkType
  BY <1>1 DEF Types
<1>3. PICK c : c = call[t]
  OBVIOUS
<1>4. c \in Transfers /\ c.at = "move" /\ c.ret \in Nat /\ desc' = desc
  BY <1>2, <1>3 DEF MoveBlock, CallType
<1>5. PICK o : o = Touched(call, t, c.handle)
  OBVIOUS
<1>6. c.sole => /\ c.handle.kind = "file" /\ Live(c.handle) /\ host.open[c.handle] = c.from + Len(c.moved)
                /\ \A i \in 1 .. Len(c.moved) : c.moved[i] = [mem |-> i - 1, pos |-> c.from + i - 1]
                /\ c.data = Len(c.moved) /\ c.ret = Len(c.moved)
  BY <1>1, <1>3, <1>4 DEF Undisturbed
<1>7. Len(c.moved) \in Nat /\ c.from \in Int
  BY <1>4 DEF Transfers
<1>8. ASSUME NEW n \in Movable(c), host' = HostMoves(c, n)
      PROVE  /\ n \in Nat /\ HostType' /\ DOMAIN host'.open = DOMAIN host.open
             /\ \A k \in DOMAIN host.open \ {c.handle} : k \in DOMAIN host'.open /\ host'.open[k] = host.open[k]
             /\ Moved(c, n) \in Seq(Unit) /\ Len(Moved(c, n)) = Len(c.moved) + n
             /\ c.sole => /\ Live(c.handle)' /\ host'.open[c.handle] = c.from + Len(Moved(c, n))
                          /\ \A i \in 1 .. Len(Moved(c, n)) :
                                Moved(c, n)[i] = [mem |-> i - 1, pos |-> c.from + i - 1]
  <2>1. /\ HostType' /\ DOMAIN host'.open = DOMAIN host.open
        /\ \A k \in DOMAIN host.open \ {c.handle} : host'.open[k] = host.open[k]
        /\ Live(c.handle) => host'.open[c.handle] = host.open[c.handle] + n
    BY <1>2, <1>4, <1>8, HostMovesFacts
  <2>2. n \in Nat /\ (n > 0 => Live(c.handle))
    BY <1>2, <1>4, <1>8, MovableFacts
  <2>3. n > 0 => host.open[c.handle] \in Int
    BY <1>2, <2>2 DEF Live, HostType
  <2>4. Moved(c, n) \in Seq(Unit) /\ Len(Moved(c, n)) = Len(c.moved) + n
    BY <1>4, <2>2, <2>3, MovedFacts
  <2>5. CASE c.sole
    <3>1. \A i \in 1 .. Len(Moved(c, n)) : Moved(c, n)[i] = [mem |-> i - 1, pos |-> c.from + i - 1]
      BY <1>4, <1>6, <2>2, <2>5, MovedInPlace
    <3>2. Live(c.handle)' /\ host'.open[c.handle] = c.from + Len(c.moved) + n
      BY <1>6, <2>1, <2>5 DEF Live
    <3>3. c.from + Len(c.moved) + n = c.from + (Len(c.moved) + n)
      BY <1>7, <2>2
    <3>. QED
      BY <2>1, <2>2, <2>4, <3>1, <3>2, <3>3
  <2>. QED
    BY <2>1, <2>2, <2>4, <2>5
<1>9. CASE /\ UNCHANGED link
           /\ \E n \in Movable(c) \ {0} :
                 /\ host' = HostMoves(c, n)
                 /\ call' = [o EXCEPT ![t] = NextBlock(Advanced([c EXCEPT !.moved = Moved(c, n)], n))]
  <2>1. PICK n \in Movable(c) :
           /\ host' = HostMoves(c, n)
           /\ call' = [o EXCEPT ![t] = NextBlock(Advanced([c EXCEPT !.moved = Moved(c, n)], n))]
    BY <1>9, Zenon
  <2>2. PICK m : m = Moved(c, n)
    OBVIOUS
  <2>3. PICK e : e = NextBlock(Advanced([c EXCEPT !.moved = m], n))
    OBVIOUS
  <2>4. /\ n \in Nat /\ HostType' /\ DOMAIN host'.open = DOMAIN host.open
        /\ \A k \in DOMAIN host.open \ {c.handle} : k \in DOMAIN host'.open /\ host'.open[k] = host.open[k]
        /\ m \in Seq(Unit) /\ Len(m) = Len(c.moved) + n
        /\ c.sole => /\ Live(c.handle)' /\ host'.open[c.handle] = c.from + Len(m)
                     /\ \A i \in 1 .. Len(m) : m[i] = [mem |-> i - 1, pos |-> c.from + i - 1]
    BY <1>8, <2>1, <2>2
  <2>5. /\ e \in Transfers /\ e.at \in {"move", "done"} /\ e.handle = c.handle
        /\ e.data = c.data + n /\ e.ret = c.ret + n
        /\ e.moved = m /\ e.from = c.from /\ e.sole = c.sole
    BY <1>4, <2>3, <2>4, NextBlockFacts
  <2>6. call' = [o EXCEPT ![t] = e]
    BY <2>1, <2>2, <2>3, Zenon
  <2>7. call'[t] = e
    BY <1>2, <1>5, <2>6, TouchedFacts DEF CallType
  <2>8. e.ret \in Nat
    BY <1>4, <2>4, <2>5
  <2>9. Undisturbed(t)'
    <3>1. SUFFICES ASSUME c.sole
                   PROVE  /\ e.at # "idle" /\ e.handle.kind = "file"
                          /\ Live(e.handle)' /\ host'.open[e.handle] = e.from + Len(e.moved)
                          /\ \A i \in 1 .. Len(e.moved) : e.moved[i] = [mem |-> i - 1, pos |-> e.from + i - 1]
                          /\ e.at = "move" => e.data = Len(e.moved) /\ e.ret = Len(e.moved)
                          /\ e.at = "done" /\ e.ret >= 0 => e.ret = Len(e.moved)
                          /\ e.at = "done" /\ e.ret = Error => e.moved = <<>>
      BY <2>5, <2>7 DEF Undisturbed, Live
    <3>2. e.ret = Len(e.moved) /\ e.data = Len(e.moved) /\ e.ret # Error
      BY <1>6, <2>4, <2>5, <2>8, <3>1 DEF Error
    <3>. QED
      BY <1>6, <2>4, <2>5, <3>1, <3>2
  <2>10. LinkType' /\ HandlesKnown'
    BY <1>1, <1>2, <1>4, <1>9, <2>4 DEF LinkType, HandlesKnown, Current
  <2>. QED
    BY <1>3, <1>4, <1>5, <2>4, <2>5, <2>6, <2>8, <2>9, <2>10, AfterBlock
<1>10. CASE UNCHANGED <<host, link>> /\ \E res \in {0, Error} : call' = [call EXCEPT ![t] = Stopped(c, res)]
  <2>1. PICK res \in {0, Error} : call' = [call EXCEPT ![t] = Stopped(c, res)]
    BY <1>10
  <2>2. PICK e : e = Stopped(c, res)
    OBVIOUS
  <2>3. /\ e \in Transfers /\ e.at = "done" /\ e.handle = c.handle /\ e.moved = c.moved
        /\ e.from = c.from /\ e.sole = c.sole
        /\ e.ret = c.ret \/ (e.ret = Error /\ c.ret = 0)
    BY <1>4, <2>2, StoppedFacts
  <2>4. call' = [call EXCEPT ![t] = e] /\ call'[t] = e
    BY <1>2, <2>1, <2>2 DEF CallType
  <2>5. Undisturbed(t)'
    <3>1. ASSUME c.sole PROVE e.ret = Len(e.moved) \/ (e.ret = Error /\ e.moved = <<>>)
      <4>1. c.ret = 0 => c.moved = <<>>
        BY <1>4, <1>6, <3>1 DEF Transfers
      <4>. QED
        BY <1>6, <2>3, <3>1, <4>1
    <3>2. c.sole => (e.ret >= 0 => e.ret = Len(e.moved)) /\ (e.ret = Error => e.moved = <<>>)
      BY <1>7, <2>3, <3>1 DEF Error
    <3>. QED
      BY <1>6, <1>10, <2>3, <2>4, <3>2 DEF Undisturbed, Live
  <2>6. HostType' /\ LinkType' /\ HandlesKnown'
    BY <1>1, <1>2, <1>4, <1>10 DEF HostType, LinkType, HandlesKnown, Current
  <2>7. e.ret \in {Error, -1} \cup Nat
    BY <1>4, <2>3
  <2>. QED
    BY <1>10, <1>4, <2>3, <2>4, <2>5, <2>6, <2>7, AfterBlock
<1>11. ASSUME NEW m \in Seq(Unit), NEW e, e = [[[c EXCEPT !.at = "done"] EXCEPT !.ret = -1] EXCEPT !.moved = m]
       PROVE  /\ e \in Transfers /\ e.at = "done" /\ e.ret = -1 /\ e.handle = c.handle /\ e.moved = m
              /\ e.from = c.from /\ e.sole = c.sole
  <2>1. PICK a : a = [c EXCEPT !.at = "done"]
    OBVIOUS
  <2>2. /\ a \in Transfers /\ a.at = "done" /\ a.handle = c.handle
        /\ a.from = c.from /\ a.sole = c.sole
    BY <1>4, <2>1 DEF Transfers
  <2>3. PICK r \in Int : r = -1
    OBVIOUS
  <2>4. PICK b : b = [a EXCEPT !.ret = r]
    OBVIOUS
  <2>5. /\ b \in Transfers /\ b.at = "done" /\ b.ret = r /\ b.handle = c.handle
        /\ b.from = c.from /\ b.sole = c.sole
    BY <2>2, <2>4 DEF Transfers
  <2>6. e = [b EXCEPT !.moved = m]
    BY <1>11, <2>1, <2>3, <2>4
  <2>. QED
    BY <2>3, <2>5, <2>6 DEF Transfers
<1>12. CASE /\ CanFail
            /\ \E n \in Movable(c) :
                  /\ host' = HostMoves(c, n)
                  /\ call' = [o EXCEPT ![t].at = "done", ![t].ret = -1, ![t].moved = Moved(c, n)]
            /\ link' = Failed(link)
  <2>1. PICK n \in Movable(c) :
           /\ host' = HostMoves(c, n)
           /\ call' = [o EXCEPT ![t].at = "done", ![t].ret = -1, ![t].moved = Moved(c, n)]
    BY <1>12
  <2>2. PICK m : m = Moved(c, n)
    OBVIOUS
  <2>3. /\ n \in Nat /\ HostType' /\ DOMAIN host'.open = DOMAIN host.open
        /\ \A k \in DOMAIN host.open \ {c.handle} : k \in DOMAIN host'.open /\ host'.open[k] = host.open[k]
        /\ m \in Seq(Unit) /\ Len(m) = Len(c.moved) + n
        /\ c.sole => /\ Live(c.handle)' /\ host'.open[c.handle] = c.from + Len(m)
                     /\ \A i \in 1 .. Len(m) : m[i] = [mem |-> i - 1, pos |-> c.from + i - 1]
    BY <1>8, <2>1, <2>2
  <2>4. PICK e : e = [[[c EXCEPT !.at = "done"] EXCEPT !.ret = -1] EXCEPT !.moved = m]
    OBVIOUS
  <2>5. /\ e \in Transfers /\ e.at = "done" /\ e.ret = -1 /\ e.handle = c.handle /\ e.moved = m
        /\ e.from = c.from /\ e.sole = c.sole
    BY <1>11, <2>3, <2>4
  <2>6. o \in [Thread -> Transfers] /\ o[t] = c
    BY <1>2, <1>3, <1>5, TouchedFacts DEF CallType
  <2>7. call' = [o EXCEPT ![t] = e]
    <3>1. call' = [o EXCEPT ![t].at = "done", ![t].ret = -1, ![t].moved = m]
      BY <2>1, <2>2
    <3>. QED
      BY <2>4, <2>6, <3>1
  <2>8. call'[t] = e
    BY <2>6, <2>7
  <2>9. Undisturbed(t)'
    <3>1. ~(e.ret >= 0) /\ e.ret # Error
      BY <2>5 DEF Error
    <3>2. c.sole => Live(c.handle)' /\ c.handle.kind = "file"
      BY <1>6, <2>3
    <3>. QED
      BY <2>3, <2>5, <2>8, <3>1, <3>2 DEF Undisturbed, Live
  <2>10. LinkType' /\ HandlesKnown'
    BY <1>2, <1>12, LinkFacts DEF LinkType, HandlesKnown
  <2>. QED
    BY <1>3, <1>4, <1>5, <2>3, <2>5, <2>7, <2>9, <2>10, AfterBlock
<1>13. CASE UNCHANGED <<host, link>> /\ call' = [call EXCEPT ![t].at = "done", ![t].ret = -1]
  <2>1. PICK e : e = [[[c EXCEPT !.at = "done"] EXCEPT !.ret = -1] EXCEPT !.moved = c.moved]
    OBVIOUS
  <2>2. /\ e \in Transfers /\ e.at = "done" /\ e.ret = -1 /\ e.handle = c.handle /\ e.moved = c.moved
        /\ e.from = c.from /\ e.sole = c.sole
    <3>1. c.moved \in Seq(Unit)
      BY <1>4 DEF Transfers
    <3>. QED
      BY <1>11, <2>1, <3>1
  <2>3. call' = [call EXCEPT ![t] = e] /\ call'[t] = e
    <3>1. [[c EXCEPT !.at = "done"] EXCEPT !.ret = -1] = e
      BY <1>4, <2>1 DEF Transfers
    <3>. QED
      BY <1>2, <1>3, <1>13, <3>1 DEF CallType
  <2>4. Undisturbed(t)'
    <3>1. ~(e.ret >= 0) /\ e.ret # Error
      BY <2>2 DEF Error
    <3>2. host' = host
      BY <1>13
    <3>. QED
      BY <1>6, <2>2, <2>3, <3>1, <3>2 DEF Undisturbed, Live
  <2>5. HostType' /\ LinkType' /\ HandlesKnown'
    BY <1>1, <1>2, <1>4, <1>13 DEF HostType, LinkType, HandlesKnown, Current
  <2>. QED
    BY <1>13, <1>4, <2>2, <2>3, <2>4, <2>5, AfterBlock
<1>. QED
  BY <1>3, <1>5, <1>9, <1>10, <1>12, <1>13, Zenon DEF MoveBlock

LEMMA InitInv ==
  ASSUME Init
  PROVE  IInv
<1>1. HostType
  <2>1. PICK g : g = [h \in {} |-> 0]
    OBVIOUS
  <2>2. host.open = g /\ DOMAIN host = {"open"}
    BY <2>1 DEF Init
  <2>3. DOMAIN g = {} /\ g \in [DOMAIN g -> 0 .. FileSize]
    BY <2>1
  <2>4. IsFiniteSet(DOMAIN g)
    BY <2>3, FS_EmptySet
  <2>. QED
    BY <2>2, <2>3, <2>4 DEF HostType
<1>2. DescType
  <2>1. Closed \in [open : BOOLEAN, handle : Handle, current : BOOLEAN] /\ ~Closed.open /\ Closed.handle = NoHandle
    BY DEF Closed, NoHandle, Handle, Kinds
  <2>. QED
    BY <2>1 DEF Init, DescType
<1>3. Idle \in Transfers /\ Idle.ret = 0 /\ Idle.at = "idle" /\ ~Idle.sole
  <2>1. <<>> \in Seq(Unit) /\ NoHandle \in Handle
    BY DEF Handle, NoHandle, Kinds
  <2>. QED
    BY <2>1 DEF Idle, Transfers
<1>4. CallType /\ \A t \in Thread : Undisturbed(t)
  BY <1>3 DEF Init, CallType, Undisturbed
<1>5. LinkType
  BY HostDriverAssumption DEF Init, LinkType
<1>6. HandlesKnown
  BY DEF Init, HandlesKnown
<1>. QED
  BY <1>1, <1>2, <1>4, <1>5, <1>6 DEF IInv, Types

LEMMA NextInv ==
  ASSUME IInv, [Next]_vars
  PROVE  IInv'
<1>1. CASE Disconnect
  BY <1>1, DisconnectInv
<1>2. CASE Reconnect
  BY <1>2, ReconnectInv
<1>3. ASSUME NEW t \in Thread,
             \/ MoveBlock(t) \/ Return(t) \/ io_remove(t) \/ io_mkdir(t) \/ io_rmdir(t) \/ io_rename(t)
             \/ io_getstat(t) \/ io_chstat(t) \/ io_chdir(t) \/ io_devctl(t)
      PROVE  IInv'
  <2>1. CASE MoveBlock(t)
    BY <2>1, MoveBlockInv
  <2>2. CASE Return(t)
    BY <2>2, ReturnInv
  <2>3. CASE \/ io_remove(t) \/ io_mkdir(t) \/ io_rmdir(t) \/ io_rename(t)
             \/ io_getstat(t) \/ io_chstat(t) \/ io_chdir(t) \/ io_devctl(t)
    BY <2>3, CommandInv
       DEF io_remove, io_mkdir, io_rmdir, io_rename, io_getstat, io_chstat, io_chdir, io_devctl
  <2>. QED
    BY <1>3, <2>1, <2>2, <2>3
<1>4. ASSUME NEW t \in Thread, NEW d \in Descriptor,
             \/ io_close(t, d) \/ io_lseek(t, d) \/ io_ioctl(t, d) \/ io_dread(t, d) \/ Transfer(t, d)
             \/ \E kind \in Kinds : io_open(t, d, kind)
      PROVE  IInv'
  <2>1. CASE io_close(t, d)
    BY <2>1, io_closeInv
  <2>2. CASE io_lseek(t, d)
    BY <2>2, io_lseekInv
  <2>3. CASE io_ioctl(t, d)
    BY <2>3, CommandInv DEF io_ioctl
  <2>4. CASE io_dread(t, d)
    BY <2>4, io_dreadInv
  <2>5. CASE Transfer(t, d)
    BY <2>5, TransferInv
  <2>6. CASE \E kind \in Kinds : io_open(t, d, kind)
    BY <2>6, io_openInv
  <2>. QED
    BY <1>4, <2>1, <2>2, <2>3, <2>4, <2>5, <2>6
<1>5. CASE UNCHANGED vars
  BY <1>5 DEF vars, IInv, Types, HostType, DescType, CallType, LinkType, HandlesKnown, Current, Undisturbed, Live
<1>. QED
  BY <1>1, <1>2, <1>3, <1>4, <1>5 DEF Next

LEMMA SpecInv == Spec => []IInv
<1>1. Init => IInv
  BY InitInv
<1>2. IInv /\ [Next]_vars => IInv'
  BY NextInv
<1>. QED
  BY <1>1, <1>2, PTL DEF Spec

------------------------------------------------------------------------------
(* What a call of io_read or io_write says it moved is what the PC moved, in  *)
(* order and in place, for any number of threads, descriptors and blocks, any *)
(* length and any place where the connection is lost: lines 117 to 383 of     *)
(* host_driver.c, for a handle no other thread used in between.               *)
THEOREM TransfersTold == Spec => []Transferred
<1>1. ASSUME IInv PROVE Transferred
  <2>1. TypeOK
    <3>1. /\ host.open \in [DOMAIN host.open -> 0 .. FileSize]
          /\ \A h \in DOMAIN host.open : h.kind \in Kinds /\ h.n \in Nat
      BY <1>1 DEF IInv, Types, HostType, Handle
    <3>2. \A d \in Descriptor : desc[d].open <=> desc[d].handle # NoHandle
      BY <1>1 DEF IInv, Types, DescType
    <3>3. \A t \in Thread : call[t].at \in {"idle", "move", "done"} /\ call[t].ret \in {Error, -1} \cup Nat
      BY <1>1 DEF IInv, Types, CallType, Transfers
    <3>4. link.calls \in 0 .. MaxCalls /\ link.mishaps \in 0 .. MaxMishaps
      BY <1>1 DEF IInv, Types, LinkType
    <3>. QED
      BY <3>1, <3>2, <3>3, <3>4 DEF TypeOK
  <2>2. \A t \in Thread : call[t].moved \in Seq(Unit)
    BY <1>1 DEF IInv, Types, CallType, Transfers
  <2>3. Contiguous
    <3>1. \A t \in Thread : DOMAIN call[t].moved = 1 .. Len(call[t].moved)
      BY <2>2
    <3>. QED
      BY <1>1, <3>1 DEF IInv, Undisturbed, Contiguous
  <2>4. CountTold
    BY <1>1 DEF IInv, Undisturbed, CountTold
  <2>. QED
    BY <2>1, <2>3, <2>4 DEF Transferred
<1>. QED
  BY <1>1, SpecInv, PTL

(* Until an exchange fails, what is open on the PC can be closed by some      *)
(* descriptor: io_open and io_close keep the two sides alike, whatever the    *)
(* other threads do (lines 33 to 115 and 597 to 677 of host_driver.c).        *)
THEOREM HandlesNotForgotten == Spec => []HandlesKnown
<1>1. IInv => HandlesKnown
  BY DEF IInv
<1>. QED
  BY <1>1, SpecInv, PTL
==============================================================================
