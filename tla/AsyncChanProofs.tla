--------------------------- MODULE AsyncChanProofs ---------------------------
(* Proofs about AsyncChan for every number of threads, channels and endpoints *)
(* and every buffer size: the type invariant, the ring invariant, that no     *)
(* reader is left beside its data, and that the rings implement the byte      *)
(* queues of AsyncPipe.                                                       *)
EXTENDS AsyncChan, SequenceTheorems, TLAPS

------------------------------------------------------------------------------
(* Arithmetic modulo the buffer size.                                         *)

LEMMA ModWrap ==
    ASSUME NEW n \in Nat \ {0}, NEW x \in 0 .. 2 * n - 1
    PROVE  x % n = IF x < n THEN x ELSE x - n
OBVIOUS

LEMMA WrapAt ==
    ASSUME NEW n \in Nat \ {0}, NEW p \in 0 .. n - 1, NEW m \in 0 .. n
    PROVE  /\ (p + m) % n \in 0 .. n - 1
           /\ (p + m) % n = IF p + m < n THEN p + m ELSE p + m - n
OBVIOUS

LEMMA ModBelow ==
    ASSUME NEW n \in Nat \ {0}, NEW x \in -n .. -1
    PROVE  x % n = x + n
OBVIOUS

(* The index of a slot counted from a position of the ring.                   *)
LEMMA Offset ==
    ASSUME NEW i \in Slot, NEW w \in Slot
    PROVE  /\ (i - w) % BufSize \in Slot
           /\ (i - w) % BufSize = IF i < w THEN i - w + BufSize ELSE i - w
<1>1. BufSize \in Nat \ {0} /\ i \in 0 .. BufSize - 1 /\ w \in 0 .. BufSize - 1
  BY SizeAssumption DEF Slot
<1>2. CASE i < w
  <2>1. i - w \in -BufSize .. -1
    BY <1>1, <1>2
  <2>2. (i - w) % BufSize = i - w + BufSize
    BY <1>1, <2>1, ModBelow
  <2> QED
    BY <1>1, <1>2, <2>2 DEF Slot
<1>3. CASE ~(i < w)
  <2>1. i - w \in 0 .. 2 * BufSize - 1 /\ i - w < BufSize
    BY <1>1, <1>3
  <2>2. (i - w) % BufSize = i - w
    BY <1>1, <2>1, ModWrap
  <2> QED
    BY <1>1, <1>3, <2>2 DEF Slot
<1> QED
  BY <1>2, <1>3

(* A position of the ring moved forward by at most a whole turn.              *)
LEMMA Advance ==
    ASSUME NEW p \in Slot, NEW n \in 0 .. BufSize
    PROVE  /\ (p + n) % BufSize \in Slot
           /\ (p + n) % BufSize = IF p + n < BufSize THEN p + n ELSE p + n - BufSize
BY SizeAssumption, WrapAt DEF Slot

------------------------------------------------------------------------------
(* What one call does to one ring.                                            *)

RingRel(r) == r.write_pos = (r.read_pos + r.size) % BufSize

LEMMA FitsBound ==
    ASSUME NEW r \in AsyncEndpoint, NEW d \in Packets
    PROVE  /\ Fits(d, r) \in 0 .. BufSize - r.size
           /\ Fits(d, r) <= Len(d)
<1>1. d \in Seq(Byte) /\ Len(d) \in Nat
  BY DataAssumption
<1>2. r.size \in 0 .. BufSize /\ BufSize \in Nat
  BY SizeAssumption DEF AsyncEndpoint
<1> QED
  BY <1>1, <1>2 DEF Fits

LEMMA PushedType ==
    ASSUME NEW r \in AsyncEndpoint, NEW d \in Packets
    PROVE  Pushed(r, d, Fits(d, r)) \in AsyncEndpoint
<1> DEFINE n == Fits(d, r)
<1>1. /\ n \in 0 .. BufSize - r.size
      /\ n <= Len(d)
  BY FitsBound
<1>2. /\ r.buffer \in [Slot -> Byte]
      /\ r.read_pos \in Slot
      /\ r.write_pos \in Slot
      /\ r.size \in 0 .. BufSize
      /\ BufSize \in Nat \ {0}
  BY SizeAssumption DEF AsyncEndpoint
<1>3. ASSUME NEW i \in Slot, (i - r.write_pos) % BufSize < n
      PROVE  d[((i - r.write_pos) % BufSize) + 1] \in Byte
  <2>1. d \in Seq(Byte)
    BY DataAssumption
  <2>2. (i - r.write_pos) % BufSize \in 0 .. BufSize - 1
    BY <1>2, Offset DEF Slot
  <2>3. ((i - r.write_pos) % BufSize) + 1 \in 1 .. Len(d)
    BY <1>1, <1>2, <1>3, <2>1, <2>2
  <2> QED
    BY <2>1, <2>3
<1>4. (r.write_pos + n) % BufSize \in Slot
  BY <1>1, <1>2, Advance
<1>5. r.size + n \in 0 .. BufSize
  BY <1>1, <1>2
<1> HIDE DEF n
<1>6. Pushed(r, d, n).buffer \in [Slot -> Byte]
  BY <1>2, <1>3 DEF Pushed
<1>7. /\ Pushed(r, d, n).read_pos = r.read_pos
      /\ Pushed(r, d, n).write_pos = (r.write_pos + n) % BufSize
      /\ Pushed(r, d, n).size = r.size + n
  BY DEF Pushed
<1>8. Pushed(r, d, n) = [buffer    |-> Pushed(r, d, n).buffer,
                         read_pos  |-> Pushed(r, d, n).read_pos,
                         write_pos |-> Pushed(r, d, n).write_pos,
                         size      |-> Pushed(r, d, n).size]
  BY DEF Pushed
<1>9. Pushed(r, d, n) \in AsyncEndpoint
  BY <1>2, <1>4, <1>5, <1>6, <1>7, <1>8 DEF AsyncEndpoint
<1> QED
  BY <1>9 DEF n

LEMMA PushedRel ==
    ASSUME NEW r \in AsyncEndpoint, NEW d \in Packets, RingRel(r)
    PROVE  RingRel(Pushed(r, d, Fits(d, r)))
<1> DEFINE n == Fits(d, r)
<1>1. n \in 0 .. BufSize - r.size
  BY FitsBound
<1>2. /\ r.read_pos \in Slot
      /\ r.write_pos \in Slot
      /\ r.size \in 0 .. BufSize
      /\ BufSize \in Nat \ {0}
  BY SizeAssumption DEF AsyncEndpoint
<1>3. r.write_pos = IF r.read_pos + r.size < BufSize
                    THEN r.read_pos + r.size ELSE r.read_pos + r.size - BufSize
  BY <1>2, Advance DEF RingRel
<1> HIDE DEF n
<1>4. (r.write_pos + n) % BufSize = IF r.write_pos + n < BufSize
                                    THEN r.write_pos + n ELSE r.write_pos + n - BufSize
  BY <1>1, <1>2, Advance
<1>5. r.size + n \in 0 .. BufSize
  BY <1>1, <1>2
<1>6. (r.read_pos + (r.size + n)) % BufSize
        = IF r.read_pos + (r.size + n) < BufSize
          THEN r.read_pos + (r.size + n) ELSE r.read_pos + (r.size + n) - BufSize
  BY <1>2, <1>5, Advance
<1>7. (r.write_pos + n) % BufSize = (r.read_pos + (r.size + n)) % BufSize
  BY <1>1, <1>2, <1>3, <1>4, <1>6 DEF Slot
<1> QED
  BY <1>7 DEF Pushed, RingRel, n

LEMMA PoppedType ==
    ASSUME NEW r \in AsyncEndpoint, NEW n \in 0 .. r.size
    PROVE  Popped(r, n) \in AsyncEndpoint
<1>1. /\ r.read_pos \in Slot
      /\ r.size \in 0 .. BufSize
      /\ BufSize \in Nat \ {0}
  BY SizeAssumption DEF AsyncEndpoint
<1>2. n \in 0 .. BufSize /\ r.size - n \in 0 .. BufSize
  BY <1>1
<1>3. (r.read_pos + n) % BufSize \in Slot
  BY <1>1, <1>2, Advance
<1> QED
  BY <1>2, <1>3 DEF Popped, AsyncEndpoint

LEMMA PoppedRel ==
    ASSUME NEW r \in AsyncEndpoint, NEW n \in 0 .. r.size, RingRel(r)
    PROVE  RingRel(Popped(r, n))
<1>1. /\ r.read_pos \in Slot
      /\ r.size \in 0 .. BufSize
      /\ BufSize \in Nat \ {0}
  BY SizeAssumption DEF AsyncEndpoint
<1> DEFINE q == (r.read_pos + n) % BufSize
<1>2. n \in 0 .. BufSize /\ r.size - n \in 0 .. BufSize
  BY <1>1
<1>3. q \in Slot /\ q = IF r.read_pos + n < BufSize
                        THEN r.read_pos + n ELSE r.read_pos + n - BufSize
  BY <1>1, <1>2, Advance
<1>4. (r.read_pos + r.size) % BufSize
        = IF r.read_pos + r.size < BufSize
          THEN r.read_pos + r.size ELSE r.read_pos + r.size - BufSize
  BY <1>1, Advance
<1> HIDE DEF q
<1>5. (q + (r.size - n)) % BufSize
        = IF q + (r.size - n) < BufSize
          THEN q + (r.size - n) ELSE q + (r.size - n) - BufSize
  BY <1>2, <1>3, Advance
<1>6. (q + (r.size - n)) % BufSize = (r.read_pos + r.size) % BufSize
  BY <1>1, <1>2, <1>3, <1>4, <1>5 DEF Slot
<1>7. /\ Popped(r, n).read_pos = q
      /\ Popped(r, n).write_pos = r.write_pos
      /\ Popped(r, n).size = r.size - n
  BY DEF Popped, AsyncEndpoint, q
<1> QED
  BY <1>6, <1>7 DEF RingRel

LEMMA EmptiedOK ==
    ASSUME NEW r \in AsyncEndpoint
    PROVE  Emptied(r) \in AsyncEndpoint /\ RingRel(Emptied(r)) /\ Emptied(r).size = 0
<1>1. 0 \in Slot /\ 0 \in 0 .. BufSize /\ BufSize \in Nat \ {0}
  BY SizeAssumption DEF Slot
<1>2. (0 + 0) % BufSize = 0
  BY <1>1, Advance
<1> QED
  BY <1>1, <1>2 DEF Emptied, AsyncEndpoint, RingRel

------------------------------------------------------------------------------
(* What one call does to the bytes a ring stands for.                         *)

(* The n oldest bytes of a ring, as a sequence.                               *)
LEMMA FrontSeq ==
    ASSUME NEW r \in AsyncEndpoint, NEW n \in 0 .. r.size
    PROVE  /\ Front(r, n) \in Seq(Byte)
           /\ Len(Front(r, n)) = n
           /\ \A i \in 1 .. n : Front(r, n)[i] = r.buffer[(r.read_pos + (i - 1)) % BufSize]
<1>1. /\ r.buffer \in [Slot -> Byte]
      /\ r.read_pos \in Slot
      /\ r.size \in 0 .. BufSize
      /\ BufSize \in Nat \ {0}
      /\ n \in Nat
      /\ n <= BufSize
  BY SizeAssumption DEF AsyncEndpoint
<1>2. ASSUME NEW i \in 1 .. n
      PROVE  /\ r.read_pos + i - 1 = r.read_pos + (i - 1)
             /\ (r.read_pos + (i - 1)) % BufSize \in Slot
  <2>1. i - 1 \in 0 .. BufSize
    BY <1>1
  <2>2. r.read_pos + i - 1 = r.read_pos + (i - 1)
    BY <1>1 DEF Slot
  <2> QED
    BY <1>1, <2>1, <2>2, Advance
<1>3. ASSUME NEW i \in 1 .. n
      PROVE  Front(r, n)[i] = r.buffer[(r.read_pos + (i - 1)) % BufSize]
  BY <1>2 DEF Front
<1>4. ASSUME NEW i \in 1 .. n
      PROVE  r.buffer[(r.read_pos + i - 1) % BufSize] \in Byte
  BY <1>1, <1>2
<1>5. Front(r, n) \in [1 .. n -> Byte]
  BY <1>4 DEF Front
<1>6. Front(r, n) \in Seq(Byte)
  BY <1>1, <1>5, SeqDef
<1>7. Len(Front(r, n)) = n
  <2>1. Len(Front(r, n)) \in Nat /\ DOMAIN Front(r, n) = 1 .. Len(Front(r, n))
    BY <1>6, LenProperties
  <2>2. DOMAIN Front(r, n) = 1 .. n
    BY <1>5
  <2> QED
    BY <1>1, <2>1, <2>2
<1> QED
  BY <1>3, <1>6, <1>7

(* Where the bytes of a fill land: counted from write_pos, the slot of the    *)
(* i-th byte of the queue is old for i <= size and the next new one after.    *)
LEMMA FillIndex ==
    ASSUME NEW N \in Nat \ {0}, NEW rp \in 0 .. N - 1, NEW sz \in 0 .. N,
           NEW n \in 0 .. N - sz, NEW i \in 1 .. sz + n,
           NEW wp \in 0 .. N - 1, NEW s \in 0 .. N - 1, NEW k \in 0 .. N - 1,
           wp = IF rp + sz < N THEN rp + sz ELSE rp + sz - N,
           s = IF rp + (i - 1) < N THEN rp + (i - 1) ELSE rp + (i - 1) - N,
           k = IF s < wp THEN s - wp + N ELSE s - wp
    PROVE  /\ i <= sz => ~(k < n)
           /\ ~(i <= sz) => k = i - sz - 1 /\ k < n
OBVIOUS

(* A fill appends to the queue what AsyncPipe accepts of the packet.          *)
LEMMA PushedContents ==
    ASSUME NEW r \in AsyncEndpoint, RingRel(r), NEW d \in Packets
    PROVE  Contents(Pushed(r, d, Fits(d, r)))
             = Contents(r) \o Pipe!Accepted(d, Len(Contents(r)))
<1> DEFINE n == Fits(d, r)
           p == Pushed(r, d, n)
           acc == SubSeq(d, 1, n)
<1>1. /\ n \in 0 .. BufSize - r.size
      /\ n <= Len(d)
  BY FitsBound
<1>2. /\ r.buffer \in [Slot -> Byte]
      /\ r.read_pos \in Slot
      /\ r.write_pos \in Slot
      /\ r.size \in 0 .. BufSize
      /\ BufSize \in Nat \ {0}
  BY SizeAssumption DEF AsyncEndpoint
<1>3. d \in Seq(Byte)
  BY DataAssumption
<1>4. r.write_pos = IF r.read_pos + r.size < BufSize
                    THEN r.read_pos + r.size ELSE r.read_pos + r.size - BufSize
  BY <1>2, Advance DEF RingRel
<1>5. /\ p \in AsyncEndpoint
      /\ p.size = r.size + n
      /\ p.read_pos = r.read_pos
  BY PushedType DEF Pushed
<1>6. /\ Contents(r) \in Seq(Byte)
      /\ Len(Contents(r)) = r.size
      /\ \A i \in 1 .. r.size : Contents(r)[i] = r.buffer[(r.read_pos + (i - 1)) % BufSize]
  BY <1>2, FrontSeq DEF Contents
<1>7. /\ Contents(p) \in Seq(Byte)
      /\ Len(Contents(p)) = r.size + n
      /\ \A i \in 1 .. r.size + n :
            Contents(p)[i] = p.buffer[(r.read_pos + (i - 1)) % BufSize]
  <2>1. p.size \in 0 .. p.size
    BY <1>1, <1>2, <1>5
  <2> QED
    BY <1>5, <2>1, FrontSeq DEF Contents
<1>8. /\ acc \in Seq(Byte)
      /\ Len(acc) = n
      /\ \A i \in 1 .. n : acc[i] = d[i]
  <2>1. \A i \in 1 .. n : d[i] \in Byte
    BY <1>1, <1>2, <1>3, ElementOfSeq
  <2>2. n \in Int /\ n >= 0
    BY <1>1, <1>2
  <2>3. /\ acc \in Seq(Byte)
        /\ Len(acc) = IF 1 <= n THEN n - 1 + 1 ELSE 0
        /\ \A i \in 1 .. n - 1 + 1 : acc[i] = d[1 + i - 1]
    BY <2>1, <2>2, SubSeqProperties
  <2> QED
    BY <2>2, <2>3
<1>9. Pipe!Accepted(d, Len(Contents(r))) = acc
  BY <1>6 DEF Pipe!Accepted, Fits
<1>10. /\ Contents(r) \o acc \in Seq(Byte)
       /\ Len(Contents(r) \o acc) = r.size + n
       /\ \A i \in 1 .. r.size + n :
             (Contents(r) \o acc)[i] = IF i <= r.size THEN Contents(r)[i] ELSE acc[i - r.size]
  BY <1>6, <1>8, ConcatProperties
<1> HIDE DEF acc
<1>11. ASSUME NEW i \in 1 .. r.size + n
       PROVE  Contents(p)[i] = (Contents(r) \o acc)[i]
  <2> DEFINE s == (r.read_pos + (i - 1)) % BufSize
             k == (s - r.write_pos) % BufSize
  <2>1. i \in Nat /\ i >= 1 /\ i <= r.size + n /\ i - 1 \in 0 .. BufSize
    BY <1>1, <1>2
  <2>2. s \in Slot /\ s = IF r.read_pos + (i - 1) < BufSize
                          THEN r.read_pos + (i - 1) ELSE r.read_pos + (i - 1) - BufSize
    BY <1>2, <2>1, Advance
  <2>3. k \in Slot /\ k = IF s < r.write_pos THEN s - r.write_pos + BufSize ELSE s - r.write_pos
    BY <1>2, <2>2, Offset
  <2>4. p.buffer[s] = IF k < n THEN d[k + 1] ELSE r.buffer[s]
    BY <2>2 DEF Pushed
  <2> HIDE DEF s, k, p, n
  <2>0. /\ i <= r.size => ~(k < n)
        /\ ~(i <= r.size) => k = i - r.size - 1 /\ k < n
    <3>1. /\ BufSize \in Nat \ {0} /\ r.read_pos \in 0 .. BufSize - 1
          /\ r.size \in 0 .. BufSize /\ n \in 0 .. BufSize - r.size
          /\ i \in 1 .. r.size + n
          /\ r.write_pos \in 0 .. BufSize - 1
          /\ s \in 0 .. BufSize - 1 /\ k \in 0 .. BufSize - 1
      BY <1>1, <1>2, <2>2, <2>3 DEF Slot, n
    <3>2. /\ s = IF r.read_pos + (i - 1) < BufSize
                 THEN r.read_pos + (i - 1) ELSE r.read_pos + (i - 1) - BufSize
          /\ k = IF s < r.write_pos THEN s - r.write_pos + BufSize ELSE s - r.write_pos
      BY <2>2, <2>3
    <3> QED
      BY ONLY <1>4, <3>1, <3>2, FillIndex
  <2>5. CASE i <= r.size
    <3>1. ~(k < n)
      BY <2>0, <2>5
    <3>2. i \in 1 .. r.size
      BY <1>2, <2>1, <2>5
    <3>3. Contents(p)[i] = r.buffer[s]
      BY <1>7, <2>4, <3>1 DEF s
    <3> QED
      BY <1>6, <1>10, <2>5, <3>2, <3>3 DEF s
  <2>6. CASE ~(i <= r.size)
    <3>1. k = i - r.size - 1 /\ k < n
      BY <2>0, <2>6
    <3>2. k + 1 = i - r.size /\ i - r.size \in 1 .. n
      BY <1>1, <1>2, <2>1, <2>6, <3>1
    <3>3. Contents(p)[i] = d[i - r.size]
      BY <1>7, <2>4, <3>1, <3>2 DEF s
    <3> QED
      BY <1>8, <1>10, <2>6, <3>2, <3>3
  <2> QED
    BY <2>5, <2>6
<1>12. Contents(p) = Contents(r) \o acc
  BY <1>7, <1>10, <1>11, SeqEqual
<1> QED
  BY <1>9, <1>12

(* A read returns the oldest bytes of the queue ...                           *)
LEMMA FrontContents ==
    ASSUME NEW r \in AsyncEndpoint, NEW n \in 0 .. r.size
    PROVE  /\ Front(r, n) = SubSeq(Contents(r), 1, n)
           /\ Len(Contents(r)) = r.size
           /\ Contents(r) \in Seq(Byte)
<1>1. r.size \in 0 .. BufSize /\ BufSize \in Nat /\ n \in Nat /\ n <= r.size
  BY SizeAssumption DEF AsyncEndpoint
<1>2. /\ Front(r, n) \in Seq(Byte)
      /\ Len(Front(r, n)) = n
      /\ \A i \in 1 .. n : Front(r, n)[i] = r.buffer[(r.read_pos + (i - 1)) % BufSize]
  BY FrontSeq
<1>3. /\ Contents(r) \in Seq(Byte)
      /\ Len(Contents(r)) = r.size
      /\ \A i \in 1 .. r.size : Contents(r)[i] = r.buffer[(r.read_pos + (i - 1)) % BufSize]
  BY <1>1, FrontSeq DEF Contents
<1>4. \A i \in 1 .. n : Contents(r)[i] \in Byte
  BY <1>1, <1>3, ElementOfSeq
<1>5. /\ SubSeq(Contents(r), 1, n) \in Seq(Byte)
      /\ Len(SubSeq(Contents(r), 1, n)) = IF 1 <= n THEN n - 1 + 1 ELSE 0
      /\ \A i \in 1 .. n - 1 + 1 : SubSeq(Contents(r), 1, n)[i] = Contents(r)[1 + i - 1]
  BY <1>1, <1>4, SubSeqProperties
<1>6. /\ Len(SubSeq(Contents(r), 1, n)) = n
      /\ \A i \in 1 .. n : SubSeq(Contents(r), 1, n)[i] = Contents(r)[i]
  BY <1>1, <1>5
<1>7. ASSUME NEW i \in 1 .. n
      PROVE  Front(r, n)[i] = SubSeq(Contents(r), 1, n)[i]
  <2>1. i \in 1 .. r.size
    BY <1>1
  <2> QED
    BY <1>2, <1>3, <1>6, <2>1
<1> QED
  BY <1>2, <1>3, <1>5, <1>6, <1>7, SeqEqual

(* ... and leaves the rest of it.                                             *)
LEMMA PoppedContents ==
    ASSUME NEW r \in AsyncEndpoint, NEW n \in 0 .. r.size
    PROVE  Contents(Popped(r, n)) = SubSeq(Contents(r), n + 1, Len(Contents(r)))
<1> DEFINE p == Popped(r, n)
           rest == SubSeq(Contents(r), n + 1, r.size)
<1>1. /\ r.size \in 0 .. BufSize
      /\ r.read_pos \in Slot
      /\ BufSize \in Nat \ {0}
      /\ n \in Nat
      /\ n <= r.size
  BY SizeAssumption DEF AsyncEndpoint
<1>2. /\ Contents(r) \in Seq(Byte)
      /\ Len(Contents(r)) = r.size
      /\ \A i \in 1 .. r.size : Contents(r)[i] = r.buffer[(r.read_pos + (i - 1)) % BufSize]
  BY <1>1, FrontSeq DEF Contents
<1>3. /\ p \in AsyncEndpoint
      /\ p.size = r.size - n
      /\ p.buffer = r.buffer
      /\ p.read_pos = (r.read_pos + n) % BufSize
  BY PoppedType DEF Popped, AsyncEndpoint
<1>4. p.size \in 0 .. p.size
  BY <1>1, <1>3
<1>5. /\ Contents(p) \in Seq(Byte)
      /\ Len(Contents(p)) = r.size - n
      /\ \A i \in 1 .. r.size - n :
            Contents(p)[i] = r.buffer[(p.read_pos + (i - 1)) % BufSize]
  BY <1>3, <1>4, FrontSeq DEF Contents
<1>6. /\ rest \in Seq(Byte)
      /\ Len(rest) = r.size - n
      /\ \A i \in 1 .. r.size - n : rest[i] = Contents(r)[n + i]
  <2>1. \A i \in n + 1 .. r.size : Contents(r)[i] \in Byte
    BY <1>1, <1>2, ElementOfSeq
  <2>2. /\ rest \in Seq(Byte)
        /\ Len(rest) = IF n + 1 <= r.size THEN r.size - (n + 1) + 1 ELSE 0
        /\ \A i \in 1 .. r.size - (n + 1) + 1 : rest[i] = Contents(r)[(n + 1) + i - 1]
    BY <1>1, <2>1, SubSeqProperties
  <2>3. r.size - (n + 1) + 1 = r.size - n
    BY <1>1
  <2>4. \A i \in 1 .. r.size - n : (n + 1) + i - 1 = n + i
    BY <1>1
  <2> QED
    BY <1>1, <2>2, <2>3, <2>4
<1> HIDE DEF p, rest
<1>7. ASSUME NEW i \in 1 .. r.size - n
      PROVE  Contents(p)[i] = rest[i]
  <2>1. /\ n \in 0 .. BufSize
        /\ i - 1 \in 0 .. BufSize
        /\ n + (i - 1) \in 0 .. BufSize
        /\ n + i \in 1 .. r.size
    BY <1>1
  <2>2. p.read_pos \in Slot
        /\ p.read_pos = IF r.read_pos + n < BufSize
                        THEN r.read_pos + n ELSE r.read_pos + n - BufSize
    BY <1>1, <1>3, <2>1, Advance
  <2>3. (p.read_pos + (i - 1)) % BufSize
          = IF p.read_pos + (i - 1) < BufSize
            THEN p.read_pos + (i - 1) ELSE p.read_pos + (i - 1) - BufSize
    BY <2>1, <2>2, Advance
  <2>4. (r.read_pos + (n + (i - 1))) % BufSize
          = IF r.read_pos + (n + (i - 1)) < BufSize
            THEN r.read_pos + (n + (i - 1)) ELSE r.read_pos + (n + (i - 1)) - BufSize
    BY <1>1, <2>1, Advance
  <2>5. (p.read_pos + (i - 1)) % BufSize = (r.read_pos + (n + (i - 1))) % BufSize
    BY <1>1, <2>1, <2>2, <2>3, <2>4 DEF Slot
  <2>6. (n + i) - 1 = n + (i - 1)
    BY <1>1
  <2>7. Contents(r)[n + i] = r.buffer[(r.read_pos + (n + (i - 1))) % BufSize]
    BY <1>2, <2>1, <2>6
  <2> QED
    BY <1>5, <1>6, <2>5, <2>7
<1>8. Contents(p) = rest
  BY <1>5, <1>6, <1>7, SeqEqual
<1> QED
  BY <1>2, <1>8 DEF p, rest

(* A flushed ring stands for the empty queue.                                 *)
LEMMA EmptiedContents ==
    ASSUME NEW r \in AsyncEndpoint
    PROVE  Contents(Emptied(r)) = <<>>
<1>1. Emptied(r) \in AsyncEndpoint /\ Emptied(r).size = 0
  BY EmptiedOK
<1>2. 0 \in 0 .. Emptied(r).size
  BY <1>1
<1>3. Contents(Emptied(r)) \in Seq(Byte) /\ Len(Contents(Emptied(r))) = 0
  BY <1>1, <1>2, FrontSeq DEF Contents
<1> QED
  BY <1>3, EmptySeq

------------------------------------------------------------------------------
(* The inductive invariant.                                                   *)

(* An endpoint is registered on at most one channel.                          *)
Distinct ==
    \A b, c \in Chan : chan[b] = chan[c] /\ chan[b] # NoEndp => b = c

IInv == TypeOK /\ RingOK /\ Distinct /\ NoLostData

(* What setting a bit does: somebody has it, and nobody else loses a bit or a *)
(* wake-up.                                                                   *)
LEMMA SetEventFacts ==
    ASSUME asyncevent \subseteq Chan, NEW c \in Chan,
           NEW STATE s, s \in [Threads -> Call],
           SetEvent(c, s)
    PROVE  /\ asyncevent' \subseteq Chan
           /\ call' \in [Threads -> Call]
           /\ c \in asyncevent' \/ Woken(c)'
           /\ \A b \in asyncevent : b # c => b \in asyncevent'
           /\ \A t \in Threads : s[t].at = "woken" => call'[t] = s[t]
<1>1. CASE /\ asyncevent' = asyncevent \cup {c}
           /\ call' = s
  BY <1>1
<1>2. ASSUME NEW t \in Threads, s[t].at = "waiting", s[t].chan = c,
             call' = [s EXCEPT ![t].at = "woken"],
             asyncevent' = asyncevent \ {c}
      PROVE  /\ asyncevent' \subseteq Chan
             /\ call' \in [Threads -> Call]
             /\ Woken(c)'
             /\ \A b \in asyncevent : b # c => b \in asyncevent'
             /\ \A u \in Threads : s[u].at = "woken" => call'[u] = s[u]
  <2>1. call' \in [Threads -> Call]
    BY <1>2 DEF Call
  <2>2. call'[t].at = "woken" /\ call'[t].chan = c
    BY <1>2 DEF Call
  <2> QED
    BY <1>2, <2>1, <2>2 DEF Woken
<1> QED
  BY <1>1, <1>2 DEF SetEvent

LEMMA InitIInv == Init => IInv
<1> SUFFICES ASSUME Init PROVE IInv
  OBVIOUS
<1>1. 0 \in Slot /\ 0 \in 0 .. BufSize /\ 0 \in Chan /\ 0 \in Byte /\ BufSize \in Nat \ {0}
  BY SizeAssumption, DataAssumption DEF Slot, Chan
<1>2. TypeOK
  <2>1. ring \in [Endpoints -> AsyncEndpoint]
    BY <1>1 DEF Init, AsyncEndpoint
  <2>2. call \in [Threads -> Call]
    BY <1>1 DEF Init, Call, Idle
  <2>3. <<>> \in Seq(Byte)
    BY EmptySeq
  <2> QED
    BY <2>1, <2>2, <2>3 DEF Init, TypeOK
<1>3. (0 + 0) % BufSize = 0
  BY <1>1, Advance
<1>4. RingOK
  BY <1>3 DEF Init, RingOK
<1> QED
  BY <1>2, <1>4 DEF Init, IInv, Distinct, NoLostData

(* Replacing one ring by a good one.                                          *)
LEMMA RingUpdate ==
    ASSUME TypeOK, RingOK, NEW e \in Endpoints, NEW r \in AsyncEndpoint, RingRel(r),
           ring' = [ring EXCEPT ![e] = r]
    PROVE  /\ ring' \in [Endpoints -> AsyncEndpoint]
           /\ RingOK'
           /\ ring'[e] = r
           /\ \A f \in Endpoints : f # e => ring'[f] = ring[f]
BY DEF TypeOK, RingOK, RingRel

LEMMA FillStep ==
    ASSUME IInv, NEW c \in Chan, NEW d \in Packets, fill_async(c, d)
    PROVE  IInv'
<1> DEFINE e == chan[c]
           r == Pushed(ring[e], d, Fits(d, ring[e]))
<1>1. /\ e \in Endpoints
      /\ ring[e] \in AsyncEndpoint
      /\ RingRel(ring[e])
      /\ ring' = [ring EXCEPT ![e] = r]
      /\ SetEvent(c, call)
      /\ chan' = chan
      /\ last' = last
  BY DEF IInv, TypeOK, RingOK, RingRel, fill_async
<1>2. r \in AsyncEndpoint /\ RingRel(r)
  BY <1>1, PushedType, PushedRel
<1> HIDE DEF r
<1>3. /\ ring' \in [Endpoints -> AsyncEndpoint]
      /\ RingOK'
      /\ \A f \in Endpoints : f # e => ring'[f] = ring[f]
  BY <1>1, <1>2, RingUpdate DEF IInv
<1>4. /\ asyncevent' \subseteq Chan
      /\ call' \in [Threads -> Call]
      /\ c \in asyncevent' \/ Woken(c)'
      /\ \A b \in asyncevent : b # c => b \in asyncevent'
      /\ \A t \in Threads : call[t].at = "woken" => call'[t] = call[t]
  BY <1>1, SetEventFacts DEF IInv, TypeOK
<1>5. TypeOK'
  BY <1>1, <1>3, <1>4 DEF IInv, TypeOK
<1>6. Distinct'
  BY <1>1 DEF IInv, Distinct
<1>7. NoLostData'
  <2> SUFFICES ASSUME NEW b \in Chan, chan[b] # NoEndp, ring'[chan[b]].size > 0
               PROVE  b \in asyncevent' \/ Woken(b)'
    BY <1>1 DEF NoLostData
  <2>1. CASE b = c
    BY <2>1, <1>4
  <2>2. CASE b # c
    <3>1. chan[b] # e /\ chan[b] \in Endpoints
      BY <2>2, <1>1 DEF IInv, Distinct, TypeOK
    <3>2. b \in asyncevent \/ Woken(b)
      BY <1>3, <3>1 DEF IInv, NoLostData
    <3> QED
      BY <1>4, <2>2, <3>2 DEF Woken
  <2> QED
    BY <2>1, <2>2
<1> QED
  BY <1>3, <1>5, <1>6, <1>7 DEF IInv

LEMMA InstallStep ==
    ASSUME IInv, NEW c \in Chan, NEW e \in Endpoints, Install(c, e)
    PROVE  IInv'
<1> DEFINE r == Emptied(ring[e])
<1>1. /\ ring[e] \in AsyncEndpoint
      /\ ring' = [ring EXCEPT ![e] = r]
      /\ chan' = [chan EXCEPT ![c] = e]
      /\ chan \in [Chan -> Endpoints \cup {NoEndp}]
      /\ \A b \in Chan : chan[b] # e
      /\ asyncevent' = asyncevent \ {c}
      /\ call' = call
      /\ last' = last
  BY DEF IInv, TypeOK, Install
<1>2. r \in AsyncEndpoint /\ RingRel(r) /\ r.size = 0
  BY <1>1, EmptiedOK
<1> HIDE DEF r
<1>3. /\ ring' \in [Endpoints -> AsyncEndpoint]
      /\ RingOK'
      /\ ring'[e] = r
      /\ \A f \in Endpoints : f # e => ring'[f] = ring[f]
  BY <1>1, <1>2, RingUpdate DEF IInv
<1>4. TypeOK'
  BY <1>1, <1>3 DEF IInv, TypeOK
<1>5. Distinct'
  BY <1>1 DEF IInv, Distinct
<1>6. NoLostData'
  <2> SUFFICES ASSUME NEW b \in Chan, chan'[b] # NoEndp, ring'[chan'[b]].size > 0
               PROVE  b \in asyncevent' \/ Woken(b)'
    BY DEF NoLostData
  <2>1. b # c
    <3> SUFFICES ASSUME b = c PROVE FALSE
      OBVIOUS
    <3>1. ring'[chan'[b]].size = 0
      BY <1>1, <1>2, <1>3
    <3> QED
      BY <3>1
  <2>2. chan'[b] = chan[b] /\ chan[b] \in Endpoints /\ chan[b] # e
    BY <1>1, <2>1
  <2>3. b \in asyncevent \/ Woken(b)
    BY <1>3, <2>2 DEF IInv, NoLostData
  <2> QED
    BY <1>1, <2>1, <2>3 DEF Woken
<1> QED
  BY <1>3, <1>4, <1>5, <1>6 DEF IInv

LEMMA UnregisterStep ==
    ASSUME IInv, NEW t \in Threads, NEW c \in Chan, usbAsyncUnregister(t, c)
    PROVE  IInv'
<1>1. /\ chan' = [chan EXCEPT ![c] = NoEndp]
      /\ chan \in [Chan -> Endpoints \cup {NoEndp}]
      /\ UNCHANGED <<ring, asyncevent, call, last>>
  BY DEF IInv, TypeOK, usbAsyncUnregister
<1>2. TypeOK'
  BY <1>1 DEF IInv, TypeOK
<1>3. RingOK' /\ Distinct'
  BY <1>1 DEF IInv, RingOK, Distinct
<1>4. NoLostData'
  <2> SUFFICES ASSUME NEW b \in Chan, chan'[b] # NoEndp, ring[chan'[b]].size > 0
               PROVE  b \in asyncevent \/ Woken(b)'
    BY <1>1 DEF NoLostData
  <2>1. chan'[b] = chan[b]
    BY <1>1
  <2>2. b \in asyncevent \/ Woken(b)
    BY <2>1 DEF IInv, NoLostData
  <2> QED
    BY <1>1, <2>2 DEF Woken
<1> QED
  BY <1>2, <1>3, <1>4 DEF IInv

(* A step that moves only thread t inside its call, and t was not woken: the  *)
(* rings are untouched and no wake-up is lost.                                *)
LEMMA MoveStep ==
    ASSUME IInv, NEW t \in Threads, call[t].at # "woken",
           NEW d \in Call, call' = [call EXCEPT ![t] = d],
           UNCHANGED <<chan, ring, last>>, asyncevent' \subseteq asyncevent,
           \A c \in asyncevent : c \in asyncevent' \/ (d.at = "woken" /\ d.chan = c)
    PROVE  IInv'
<1>1. TypeOK'
  BY DEF IInv, TypeOK
<1>2. RingOK' /\ Distinct'
  BY DEF IInv, RingOK, Distinct
<1>3. NoLostData'
  <2> SUFFICES ASSUME NEW c \in Chan, chan[c] # NoEndp, ring[chan[c]].size > 0
               PROVE  c \in asyncevent' \/ Woken(c)'
    BY DEF NoLostData
  <2>1. CASE c \in asyncevent
    BY <2>1 DEF IInv, TypeOK, Woken
  <2>2. CASE Woken(c)
    BY <2>2 DEF IInv, TypeOK, Woken
  <2> QED
    BY <2>1, <2>2 DEF IInv, NoLostData
<1> QED
  BY <1>1, <1>2, <1>3 DEF IInv

LEMMA ReadEnterStep ==
    ASSUME IInv, NEW t \in Threads, NEW c \in Chan, NEW n \in Lens, ReadEnter(t, c, n)
    PROVE  IInv'
<1> DEFINE d == [at   |-> IF c \in asyncevent THEN "woken" ELSE "waiting",
                 chan |-> c,
                 len  |-> n]
<1>1. d \in Call
  BY SizeAssumption DEF Call, Lens
<1>2. /\ call[t].at # "woken"
      /\ call' = [call EXCEPT ![t] = d]
      /\ UNCHANGED <<chan, ring, last>>
      /\ asyncevent' \subseteq asyncevent
      /\ \A b \in asyncevent : b \in asyncevent' \/ (d.at = "woken" /\ d.chan = b)
  BY DEF ReadEnter
<1> HIDE DEF d
<1> QED
  BY <1>1, <1>2, MoveStep

LEMMA IdleCall == Idle \in Call
BY SizeAssumption DEF Idle, Call, Chan

LEMMA ReadTimeoutStep ==
    ASSUME IInv, NEW t \in Threads, ReadTimeout(t)
    PROVE  IInv'
<1>1. /\ call[t].at # "woken"
      /\ call' = [call EXCEPT ![t] = Idle]
      /\ UNCHANGED <<chan, ring, last>>
      /\ asyncevent' = asyncevent
  BY DEF ReadTimeout
<1> QED
  BY <1>1, IdleCall, MoveStep

LEMMA FlushEnterStep ==
    ASSUME IInv, NEW t \in Threads, NEW c \in Chan, FlushEnter(t, c)
    PROVE  IInv'
<1> DEFINE d == [at |-> "flushing", chan |-> c, len |-> 0]
<1>1. d \in Call
  BY DEF Call
<1>2. /\ call[t].at # "woken"
      /\ call' = [call EXCEPT ![t] = d]
      /\ UNCHANGED <<chan, ring, last>>
      /\ asyncevent' = asyncevent
  BY DEF FlushEnter
<1> HIDE DEF d
<1> QED
  BY <1>1, <1>2, MoveStep

(* A thread that faults drops a wake-up, but its channel is gone.             *)
LEMMA NullDereferenceStep ==
    ASSUME IInv, NEW t \in Threads, NullDereference(t)
    PROVE  IInv'
<1> DEFINE c == call[t].chan
<1>1. /\ c \in Chan
      /\ chan[c] = NoEndp
      /\ call' = [call EXCEPT ![t].at = IF @ = "woken" THEN "read_fault" ELSE "flush_fault"]
      /\ UNCHANGED <<chan, ring, asyncevent, last>>
  BY DEF IInv, TypeOK, Call, NullDereference
<1>2. TypeOK'
  <2>1. call' \in [Threads -> Call]
    BY <1>1 DEF IInv, TypeOK, Call
  <2> QED
    BY <1>1, <2>1 DEF IInv, TypeOK
<1>3. RingOK' /\ Distinct'
  BY <1>1 DEF IInv, RingOK, Distinct
<1>4. NoLostData'
  <2> SUFFICES ASSUME NEW b \in Chan, chan[b] # NoEndp, ring[chan[b]].size > 0
               PROVE  b \in asyncevent \/ Woken(b)'
    BY <1>1 DEF NoLostData
  <2>1. b # c
    BY <1>1
  <2>2. b \in asyncevent \/ Woken(b)
    BY DEF IInv, NoLostData
  <2>3. ASSUME NEW u \in Threads, call[u].at = "woken", call[u].chan = b
        PROVE  call'[u] = call[u]
    BY <1>1, <2>1, <2>3 DEF IInv, TypeOK
  <2> QED
    BY <2>2, <2>3 DEF Woken
<1> QED
  BY <1>2, <1>3, <1>4 DEF IInv

LEMMA FlushClearStep ==
    ASSUME IInv, NEW t \in Threads, FlushClear(t)
    PROVE  IInv'
<1> DEFINE c == call[t].chan
           e == chan[c]
           r == Emptied(ring[e])
<1>1. /\ c \in Chan
      /\ e \in Endpoints
      /\ ring[e] \in AsyncEndpoint
      /\ ring' = [ring EXCEPT ![e] = r]
      /\ asyncevent' = asyncevent \ {c}
      /\ call[t].at = "flushing"
      /\ call' = [call EXCEPT ![t] = Idle]
      /\ UNCHANGED <<chan, last>>
  BY DEF IInv, TypeOK, Call, FlushClear
<1>2. r \in AsyncEndpoint /\ RingRel(r) /\ r.size = 0
  BY <1>1, EmptiedOK
<1> HIDE DEF r
<1>3. /\ ring' \in [Endpoints -> AsyncEndpoint]
      /\ RingOK'
      /\ ring'[e] = r
      /\ \A f \in Endpoints : f # e => ring'[f] = ring[f]
  BY <1>1, <1>2, RingUpdate DEF IInv
<1>4. TypeOK'
  BY <1>1, <1>3, IdleCall DEF IInv, TypeOK
<1>5. Distinct'
  BY <1>1 DEF IInv, Distinct
<1>6. NoLostData'
  <2> SUFFICES ASSUME NEW b \in Chan, chan[b] # NoEndp, ring'[chan[b]].size > 0
               PROVE  b \in asyncevent' \/ Woken(b)'
    BY <1>1 DEF NoLostData
  <2>1. chan[b] # e
    BY <1>2, <1>3
  <2>2. b \in asyncevent \/ Woken(b)
    BY <1>1, <1>3, <2>1 DEF IInv, TypeOK, NoLostData
  <2>3. b # c
    BY <2>1
  <2>4. ASSUME NEW u \in Threads, call[u].at = "woken"
        PROVE  call'[u] = call[u]
    BY <1>1, <2>4 DEF IInv, TypeOK
  <2> QED
    BY <1>1, <2>2, <2>3, <2>4 DEF Woken
<1> QED
  BY <1>3, <1>4, <1>5, <1>6 DEF IInv

(* The length ReadCopy copies.                                                *)
Copied(t) ==
    LET r == ring[chan[call[t].chan]]
    IN  IF call[t].len < r.size THEN call[t].len ELSE r.size

LEMMA ReadCopyFacts ==
    ASSUME IInv, NEW t \in Threads, ReadCopy(t)
    PROVE  LET c == call[t].chan
               e == chan[c]
               n == Copied(t)
               s == [call EXCEPT ![t] = Idle]
           IN  /\ c \in Chan
               /\ e \in Endpoints
               /\ ring[e] \in AsyncEndpoint
               /\ RingRel(ring[e])
               /\ n \in 0 .. ring[e].size
               /\ n \in 0 .. BufSize
               /\ s \in [Threads -> Call]
               /\ ring' = [ring EXCEPT ![e] = Popped(ring[e], n)]
               /\ last' = [last EXCEPT ![t] = Front(ring[e], n)]
               /\ chan' = chan
               /\ IF ring[e].size # n
                  THEN SetEvent(c, s)
                  ELSE call' = s /\ asyncevent' = asyncevent
<1> DEFINE c == call[t].chan
           e == chan[c]
           n == Copied(t)
           s == [call EXCEPT ![t] = Idle]
<1>1. /\ c \in Chan
      /\ e \in Endpoints
      /\ ring[e] \in AsyncEndpoint
      /\ RingRel(ring[e])
      /\ call[t].len \in Nat
      /\ call \in [Threads -> Call]
  BY DEF IInv, TypeOK, Call, RingOK, RingRel, ReadCopy
<1>2. s \in [Threads -> Call]
  BY <1>1, IdleCall
<1>3. ring[e].size \in 0 .. BufSize /\ BufSize \in Nat
  BY <1>1, SizeAssumption DEF AsyncEndpoint
<1>4. n \in 0 .. ring[e].size /\ n \in 0 .. BufSize
  BY <1>1, <1>3 DEF Copied
<1>5. /\ ring' = [ring EXCEPT ![e] = Popped(ring[e], n)]
      /\ last' = [last EXCEPT ![t] = Front(ring[e], n)]
      /\ chan' = chan
      /\ IF ring[e].size # n
         THEN SetEvent(c, s)
         ELSE call' = s /\ asyncevent' = asyncevent
  BY DEF ReadCopy, Copied
<1> QED
  BY <1>1, <1>2, <1>4, <1>5

LEMMA ReadCopyStep ==
    ASSUME IInv, NEW t \in Threads, ReadCopy(t)
    PROVE  IInv'
<1>0. PICK c \in Chan : c = call[t].chan
  BY DEF IInv, TypeOK, Call
<1> DEFINE e == chan[c]
           n == Copied(t)
           s == [call EXCEPT ![t] = Idle]
           r == Popped(ring[e], n)
<1>1. /\ c \in Chan
      /\ e \in Endpoints
      /\ ring[e] \in AsyncEndpoint
      /\ RingRel(ring[e])
      /\ n \in 0 .. ring[e].size
      /\ s \in [Threads -> Call]
      /\ ring' = [ring EXCEPT ![e] = r]
      /\ last' = [last EXCEPT ![t] = Front(ring[e], n)]
      /\ chan' = chan
      /\ IF ring[e].size # n
         THEN SetEvent(c, s)
         ELSE call' = s /\ asyncevent' = asyncevent
  BY <1>0, ReadCopyFacts
<1>2. r \in AsyncEndpoint /\ RingRel(r)
  BY <1>1, PoppedType, PoppedRel
<1>3. r.size = ring[e].size - n
  BY <1>1 DEF Popped, AsyncEndpoint
<1>4. Front(ring[e], n) \in Seq(Byte)
  BY <1>1, FrontSeq
<1> HIDE DEF r, n
<1>5. /\ ring' \in [Endpoints -> AsyncEndpoint]
      /\ RingOK'
      /\ ring'[e] = r
      /\ \A f \in Endpoints : f # e => ring'[f] = ring[f]
  BY <1>1, <1>2, RingUpdate DEF IInv
<1>6. last' \in [Threads -> Seq(Byte)]
  BY <1>1, <1>4 DEF IInv, TypeOK
<1>7. Distinct'
  BY <1>1 DEF IInv, Distinct
(* Whoever else was woken still is, and the other bits stay.                  *)
<1>8. /\ asyncevent' \subseteq Chan
      /\ call' \in [Threads -> Call]
      /\ \A b \in asyncevent : b # c => b \in asyncevent'
      /\ \A u \in Threads : s[u].at = "woken" => call'[u] = s[u]
      /\ ring[e].size # n => c \in asyncevent' \/ Woken(c)'
  <2>1. asyncevent \subseteq Chan
    BY DEF IInv, TypeOK
  <2>2. CASE ring[e].size # n
    <3>1. SetEvent(c, s)
      BY <1>1, <2>2
    <3>2. c \in Chan /\ s \in [Threads -> Call]
      BY <1>1
    <3> HIDE DEF s, e
    <3> QED
      BY <2>1, <3>1, <3>2, SetEventFacts
  <2>3. CASE ring[e].size = n
    BY <1>1, <2>1, <2>3
  <2> QED
    BY <2>2, <2>3
<1>9. TypeOK'
  BY <1>1, <1>5, <1>6, <1>8 DEF IInv, TypeOK
<1>10. NoLostData'
  <2> SUFFICES ASSUME NEW b \in Chan, chan[b] # NoEndp, ring'[chan[b]].size > 0
               PROVE  b \in asyncevent' \/ Woken(b)'
    BY <1>1 DEF NoLostData
  <2>1. CASE b = c
    <3>1. ring[e].size # n
      BY <1>1, <1>3, <1>5, <2>1
    <3> QED
      BY <1>8, <2>1, <3>1
  <2>2. CASE b # c
    <3>1. chan[b] # e /\ chan[b] \in Endpoints
      BY <1>1, <2>2 DEF IInv, TypeOK, Distinct
    <3>2. b \in asyncevent \/ Woken(b)
      BY <1>5, <3>1 DEF IInv, NoLostData
    <3>3. ASSUME NEW u \in Threads, call[u].at = "woken", call[u].chan = b
          PROVE  s[u] = call[u] /\ call'[u] = call[u]
      <4>1. u # t
        BY <1>0, <2>2, <3>3
      <4>2. s[u] = call[u]
        BY <4>1 DEF IInv, TypeOK
      <4> HIDE DEF s
      <4> QED
        BY <1>8, <3>3, <4>2
    <3>4. CASE b \in asyncevent
      BY <1>8, <2>2, <3>4
    <3>5. CASE Woken(b)
      <4>1. PICK u \in Threads : call[u].at = "woken" /\ call[u].chan = b
        BY <3>5 DEF Woken
      <4>2. call'[u] = call[u]
        BY <3>3, <4>1
      <4> QED
        BY <4>1, <4>2 DEF Woken
    <3> QED
      BY <3>2, <3>4, <3>5
  <2> QED
    BY <2>1, <2>2
<1> QED
  BY <1>5, <1>7, <1>9, <1>10 DEF IInv

LEMMA StutterStep ==
    ASSUME IInv, UNCHANGED vars
    PROVE  IInv'
BY DEF IInv, TypeOK, RingOK, Distinct, NoLostData, Woken, vars

LEMMA NextIInv == IInv /\ [Next]_vars => IInv'
<1> SUFFICES ASSUME IInv, [Next]_vars PROVE IInv'
  OBVIOUS
<1>1. CASE UNCHANGED vars
  BY <1>1, StutterStep
<1>2. ASSUME NEW c \in Chan, NEW d \in Packets, fill_async(c, d)
      PROVE  IInv'
  BY <1>2, FillStep
<1>3. ASSUME NEW t \in Threads, ThreadStep(t)
      PROVE  IInv'
  <2>1. ASSUME NEW c \in Chan, NEW e \in Endpoints, usbAsyncRegister(t, c, e)
        PROVE  IInv'
    BY <2>1, InstallStep DEF usbAsyncRegister
  <2>2. ASSUME NEW e \in Endpoints, usbAsyncRegisterAlloc(t, e)
        PROVE  IInv'
    <3>1. PICK c \in UserChan .. NumChan - 1 : Install(c, e)
      BY <2>2 DEF usbAsyncRegisterAlloc
    <3>2. c \in Chan
      BY SizeAssumption DEF Chan
    <3> QED
      BY <3>1, <3>2, InstallStep
  <2>3. ASSUME NEW c \in Chan, usbAsyncUnregister(t, c)
        PROVE  IInv'
    BY <2>3, UnregisterStep
  <2>4. ASSUME NEW c \in Chan, NEW n \in Lens, ReadEnter(t, c, n)
        PROVE  IInv'
    BY <2>4, ReadEnterStep
  <2>5. CASE ReadTimeout(t)
    BY <2>5, ReadTimeoutStep
  <2>6. CASE ReadCopy(t)
    BY <2>6, ReadCopyStep
  <2>7. ASSUME NEW c \in Chan, FlushEnter(t, c)
        PROVE  IInv'
    BY <2>7, FlushEnterStep
  <2>8. CASE FlushClear(t)
    BY <2>8, FlushClearStep
  <2>9. CASE NullDereference(t)
    BY <2>9, NullDereferenceStep
  <2> QED
    BY <1>3, <2>1, <2>2, <2>3, <2>4, <2>5, <2>6, <2>7, <2>8, <2>9 DEF ThreadStep
<1> QED
  BY <1>1, <1>2, <1>3 DEF Next

LEMMA Invariance == Spec => []IInv
BY InitIInv, NextIInv, PTL DEF Spec

(* Every variable keeps its type, whatever the interleaving of the fills and  *)
(* the calls of the threads.                                                  *)
THEOREM TypeCorrect == Spec => []TypeOK
<1>1. IInv => TypeOK
  BY DEF IInv
<1> QED
  BY <1>1, Invariance, PTL

(* read_pos, write_pos and size of every AsyncEndpoint always agree.          *)
THEOREM RingCorrect == Spec => []RingOK
<1>1. IInv => RingOK
  BY DEF IInv
<1> QED
  BY <1>1, Invariance, PTL

(* No channel ever holds bytes that no reader would be told about.            *)
THEOREM NoDataLost == Spec => []NoLostData
<1>1. IInv => NoLostData
  BY DEF IInv
<1> QED
  BY <1>1, Invariance, PTL

------------------------------------------------------------------------------
(* The rings implement the byte queues of AsyncPipe: the queue of an endpoint *)
(* is Contents(ring[e]), and each step of AsyncChan is a delivery, a read, a  *)
(* flush or a stutter of AsyncPipe.                                           *)

queue == [e \in Endpoints |-> Contents(ring[e])]

LEMMA InitRefines == Init => Pipe!Init
<1> SUFFICES ASSUME Init PROVE Pipe!Init
  OBVIOUS
<1>1. ASSUME NEW e \in Endpoints
      PROVE  Contents(ring[e]) = <<>>
  <2>1. ring[e] \in AsyncEndpoint
    BY <1>1, InitIInv DEF IInv, TypeOK
  <2>2. ring[e].size = 0 /\ 0 \in 0 .. ring[e].size
    BY <1>1 DEF Init
  <2>3. Contents(ring[e]) \in Seq(Byte) /\ Len(Contents(ring[e])) = 0
    BY <2>1, <2>2, FrontSeq DEF Contents
  <2> QED
    BY <2>3, EmptySeq
<1> QED
  BY <1>1 DEF Init, Pipe!Init

(* One ring replaced by another: the queue of that endpoint becomes the other *)
(* ring's contents.                                                           *)
LEMMA QueueUpdate ==
    ASSUME TypeOK, NEW e \in Endpoints, NEW STATE r, ring' = [ring EXCEPT ![e] = r],
           NEW STATE s, Contents(r) = s
    PROVE  queue' = [queue EXCEPT ![e] = s]
<1>1. ASSUME NEW f \in Endpoints
      PROVE  ring'[f] = IF f = e THEN r ELSE ring[f]
  BY DEF TypeOK
<1>2. queue' = [f \in Endpoints |-> Contents(ring'[f])]
  BY DEF queue
<1>3. ASSUME NEW f \in Endpoints
      PROVE  Contents(ring'[f]) = IF f = e THEN s ELSE Contents(ring[f])
  BY <1>1
<1> QED
  BY <1>2, <1>3 DEF queue

LEMMA FillRefines ==
    ASSUME IInv, NEW c \in Chan, NEW d \in Packets, fill_async(c, d)
    PROVE  \E e \in Endpoints : Pipe!Deliver(e, d)
<1>1. PICK e \in Endpoints : e = chan[c]
  BY DEF IInv, TypeOK, fill_async
<1>2. /\ ring[e] \in AsyncEndpoint
      /\ RingRel(ring[e])
      /\ ring' = [ring EXCEPT ![e] = Pushed(ring[e], d, Fits(d, ring[e]))]
      /\ last' = last
  BY <1>1 DEF IInv, TypeOK, RingOK, RingRel, fill_async
<1>3. Contents(Pushed(ring[e], d, Fits(d, ring[e])))
        = queue[e] \o Pipe!Accepted(d, Len(queue[e]))
  BY <1>2, PushedContents DEF queue
<1>4. queue' = [queue EXCEPT ![e] = queue[e] \o Pipe!Accepted(d, Len(queue[e]))]
  BY <1>2, <1>3, QueueUpdate DEF IInv
<1>5. Pipe!Deliver(e, d)
  BY <1>2, <1>4 DEF Pipe!Deliver, queue
<1> QED
  BY <1>5

LEMMA ClearRefines ==
    ASSUME IInv, NEW e \in Endpoints, ring' = [ring EXCEPT ![e] = Emptied(@)], last' = last
    PROVE  Pipe!Clear(e)
<1>1. ring[e] \in AsyncEndpoint
  BY DEF IInv, TypeOK
<1>2. ring' = [ring EXCEPT ![e] = Emptied(ring[e])] /\ Contents(Emptied(ring[e])) = <<>>
  BY <1>1, EmptiedContents
<1>3. queue' = [queue EXCEPT ![e] = <<>>]
  BY <1>2, QueueUpdate DEF IInv
<1> QED
  BY <1>3 DEF Pipe!Clear, queue

LEMMA ReadRefines ==
    ASSUME IInv, NEW t \in Threads, ReadCopy(t)
    PROVE  \E e \in Endpoints, n \in 0 .. BufSize : Pipe!Take(t, e, n)
<1>1. PICK e \in Endpoints : e = chan[call[t].chan]
  BY ReadCopyFacts
<1>2. PICK n \in 0 .. BufSize : n = Copied(t)
  BY ReadCopyFacts
<1>3. /\ ring[e] \in AsyncEndpoint
      /\ n \in 0 .. ring[e].size
      /\ ring' = [ring EXCEPT ![e] = Popped(ring[e], n)]
      /\ last' = [last EXCEPT ![t] = Front(ring[e], n)]
  BY <1>1, <1>2, ReadCopyFacts
<1>4. queue[e] = Contents(ring[e])
  BY DEF queue
<1>5. /\ n \in 0 .. Len(queue[e])
      /\ Front(ring[e], n) = SubSeq(queue[e], 1, n)
      /\ Contents(Popped(ring[e], n)) = SubSeq(queue[e], n + 1, Len(queue[e]))
  BY <1>3, <1>4, FrontContents, PoppedContents
<1>6. queue' = [queue EXCEPT ![e] = SubSeq(queue[e], n + 1, Len(queue[e]))]
  BY <1>3, <1>5, QueueUpdate DEF IInv
<1>7. Pipe!Take(t, e, n)
  BY <1>3, <1>5, <1>6 DEF Pipe!Take, queue
<1> QED
  BY <1>7

LEMMA NextRefines == IInv /\ [Next]_vars => [Pipe!Next]_(Pipe!vars)
<1> SUFFICES ASSUME IInv, [Next]_vars PROVE [Pipe!Next]_(Pipe!vars)
  OBVIOUS
<1>1. ASSUME ring' = ring, last' = last
      PROVE  UNCHANGED Pipe!vars
  BY <1>1 DEF Pipe!vars
<1>2. CASE UNCHANGED vars
  BY <1>1, <1>2 DEF vars
<1>3. ASSUME NEW c \in Chan, NEW d \in Packets, fill_async(c, d)
      PROVE  Pipe!Next
  BY <1>3, FillRefines DEF Pipe!Next
<1>4. ASSUME NEW c \in Chan, NEW e \in Endpoints, Install(c, e)
      PROVE  Pipe!Next
  BY <1>4, ClearRefines DEF Pipe!Next, Install
<1>5. ASSUME NEW t \in Threads, ThreadStep(t)
      PROVE  [Pipe!Next]_(Pipe!vars)
  <2>1. ASSUME NEW c \in Chan, NEW e \in Endpoints, usbAsyncRegister(t, c, e)
        PROVE  Pipe!Next
    BY <2>1, <1>4 DEF usbAsyncRegister
  <2>2. ASSUME NEW e \in Endpoints, usbAsyncRegisterAlloc(t, e)
        PROVE  Pipe!Next
    <3>1. PICK c \in UserChan .. NumChan - 1 : Install(c, e)
      BY <2>2 DEF usbAsyncRegisterAlloc
    <3>2. c \in Chan
      BY SizeAssumption DEF Chan
    <3> QED
      BY <3>1, <3>2, <1>4
  <2>3. CASE ReadCopy(t)
    BY <2>3, ReadRefines DEF Pipe!Next
  <2>4. CASE FlushClear(t)
    <3>1. PICK e \in Endpoints : e = chan[call[t].chan]
      BY <2>4 DEF IInv, TypeOK, Call, FlushClear
    <3>2. ring' = [ring EXCEPT ![e] = Emptied(@)] /\ last' = last
      BY <2>4, <3>1 DEF FlushClear
    <3> QED
      BY <3>2, ClearRefines DEF Pipe!Next
  <2>5. ASSUME \/ \E c \in Chan : usbAsyncUnregister(t, c)
               \/ \E c \in Chan, n \in Lens : ReadEnter(t, c, n)
               \/ ReadTimeout(t)
               \/ \E c \in Chan : FlushEnter(t, c)
               \/ NullDereference(t)
        PROVE  ring' = ring /\ last' = last
    BY <2>5 DEF usbAsyncUnregister, ReadEnter, ReadTimeout, FlushEnter, NullDereference
  <2> QED
    BY <1>1, <1>5, <2>1, <2>2, <2>3, <2>4, <2>5 DEF ThreadStep
<1> QED
  BY <1>2, <1>3, <1>5 DEF Next

(* The ring buffers implement the byte queues: whatever the threads do, the   *)
(* reads of an endpoint return its packets' bytes in order, each at most      *)
(* once, and only the tail of a packet that does not fit is lost.             *)
THEOREM Refinement == Spec => PipeSpec
<1>1. Spec => Pipe!Init /\ [][Pipe!Next]_(Pipe!vars)
  BY InitRefines, NextRefines, Invariance, PTL DEF Spec
<1> QED
  BY <1>1 DEF PipeSpec, Pipe!Spec

==============================================================================
