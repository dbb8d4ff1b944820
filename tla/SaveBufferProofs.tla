-------------------------- MODULE SaveBufferProofs --------------------------
(***************************************************************************)
(* Proofs about the receive ring, for every ring size, length field and    *)
(* chunk size: the cursors always agree (TypeAndCursors), the length field *)
(* is read correctly across the end of the ring (LengthFieldCorrect), and  *)
(* the ring implements a bounded queue of bytes (RingImplementsFifo).      *)
(***************************************************************************)
EXTENDS SaveBufferSys, SequenceTheorems, TLAPS

\* A cursor moved by at most one round of the ring (the %= of
\* network_op.c:636-675) is the sum, or the sum less one round.
LEMMA AdvanceOnce ==
    ASSUME NEW pos \in Index, NEW n \in 0..SaveSize
    PROVE  /\ Advance(pos, n) = IF pos + n < SaveSize THEN pos + n ELSE pos + n - SaveSize
           /\ Advance(pos, n) \in Index
BY SaveSizeAssumption, SMT DEF Advance, Index

\* Two moves that together make at most one round are one move.
LEMMA AdvanceTwice ==
    ASSUME NEW pos \in Index, NEW m \in 0..SaveSize, NEW n \in 0..SaveSize,
           m + n <= SaveSize
    PROVE  Advance(Advance(pos, m), n) = Advance(pos, m + n)
<1> DEFINE mid == Advance(pos, m)
<1>1. /\ mid \in Index
      /\ mid = IF pos + m < SaveSize THEN pos + m ELSE pos + m - SaveSize
  BY AdvanceOnce
<1> HIDE DEF mid
<1>2. Advance(mid, n) = IF mid + n < SaveSize THEN mid + n ELSE mid + n - SaveSize
  BY <1>1, AdvanceOnce
<1>3. m + n \in 0..SaveSize
  BY SaveSizeAssumption
<1>4. Advance(pos, m + n) = IF pos + (m + n) < SaveSize THEN pos + (m + n)
                                                      ELSE pos + (m + n) - SaveSize
  BY <1>3, AdvanceOnce
<1>5. Advance(mid, n) = Advance(pos, m + n)
  BY <1>1, <1>2, <1>4, SaveSizeAssumption DEF Index
<1> QED
  BY <1>5 DEF mid

\* Whichever of its two branches write_tmp_buffer or read_tmp_buffer takes,
\* the cursor ends where a single step round the ring would put it
\* (network_op.c:628-646, 656-674).
LEMMA CursorEnds ==
    ASSUME NEW b \in Buffer, NEW n \in 0..SaveSize
    PROVE  /\ WriteEnd(b, n) = Advance(b.wpos, n)
           /\ ReadEnd(b, n) = Advance(b.rpos, n)
<1>1. b.wpos \in Index /\ b.rpos \in Index
  BY DEF Buffer
<1>2. ASSUME NEW pos \in Index, SaveSize - pos < n
      PROVE  Advance(Advance(pos, SaveSize - pos), n - (SaveSize - pos)) = Advance(pos, n)
  BY <1>2, SaveSizeAssumption, SMT DEF Advance, Index
<1> QED
  BY <1>1, <1>2, SaveSizeAssumption, SMT DEF WriteEnd, ReadEnd, Index

\* What memcpy leaves in each cell.
LEMMA MemcpyCells ==
    ASSUME NEW mem \in [Index -> Byte], NEW at \in Index,
           NEW data \in Seq(Byte), at + Len(data) <= SaveSize
    PROVE  /\ Memcpy(mem, at, data) \in [Index -> Byte]
           /\ \A i \in Index :
                 Memcpy(mem, at, data)[i] =
                     IF i >= at /\ i < at + Len(data) THEN data[i - at + 1] ELSE mem[i]
<1>1. Len(data) \in Nat /\ \A k \in 1..Len(data) : data[k] \in Byte
  OBVIOUS
<1>2. \A i \in Index : i >= at /\ i < at + Len(data) => data[i - at + 1] \in Byte
  BY <1>1, SaveSizeAssumption DEF Index
<1> QED
  BY <1>2 DEF Memcpy

\* write_tmp_buffer puts the chunk at the write cursor, round the ring, and
\* touches no other cell (network_op.c:628-646).
LEMMA WriteRingCells ==
    ASSUME NEW b \in Buffer, NEW data \in Seq(Byte), Len(data) <= SaveSize
    PROVE  /\ WriteRing(b, data) \in [Index -> Byte]
           /\ \A i \in Index :
                 WriteRing(b, data)[i] =
                     IF b.wpos <= i /\ i < b.wpos + Len(data)
                     THEN data[i - b.wpos + 1]
                     ELSE IF i < b.wpos + Len(data) - SaveSize
                          THEN data[i + SaveSize - b.wpos + 1]
                          ELSE b.ring[i]
<1> DEFINE remain == SaveSize - b.wpos
           head == SubSeq(data, 1, remain)
           tail == SubSeq(data, remain + 1, Len(data))
<1>1. /\ b.ring \in [Index -> Byte] /\ b.wpos \in Index
      /\ Len(data) \in Nat /\ remain \in 1..SaveSize
  BY SaveSizeAssumption DEF Buffer, Index
<1>n. /\ SaveSize \in Int /\ b.wpos \in Int /\ Len(data) \in Int
      /\ \A i \in Index : i \in Int /\ 0 <= i /\ i < SaveSize
  BY <1>1, SaveSizeAssumption DEF Index
<1>2. CASE remain >= Len(data)
  <2>1. WriteRing(b, data) = Memcpy(b.ring, b.wpos, data)
    BY <1>2 DEF WriteRing
  <2>2. b.wpos + Len(data) <= SaveSize
    BY <1>1, <1>2, SaveSizeAssumption DEF Index
  <2>3. /\ Memcpy(b.ring, b.wpos, data) \in [Index -> Byte]
        /\ \A i \in Index : Memcpy(b.ring, b.wpos, data)[i] =
               IF i >= b.wpos /\ i < b.wpos + Len(data) THEN data[i - b.wpos + 1] ELSE b.ring[i]
    BY <1>1, <2>2, MemcpyCells
  <2>4. \A i \in Index : (b.wpos <= i <=> i >= b.wpos) /\ ~(i < b.wpos + Len(data) - SaveSize)
    BY <1>n, <2>2
  <2> QED
    BY <2>1, <2>3, <2>4
<1>3. CASE remain < Len(data)
  <2>1. WriteRing(b, data) = Memcpy(Memcpy(b.ring, b.wpos, head), 0, tail)
    <3>1. Advance(b.wpos, remain) = 0
      BY <1>1, SaveSizeAssumption, SMT DEF Advance, Index
    <3> QED
      BY <1>1, <1>3, <3>1 DEF WriteRing
  <2>2. /\ head \in Seq(Byte) /\ Len(head) = remain
        /\ \A k \in 1..remain : head[k] = data[k]
    BY <1>1, <1>3, SubSeqProperties
  <2>3. /\ tail \in Seq(Byte) /\ Len(tail) = Len(data) - remain
        /\ \A k \in 1..(Len(data) - remain) : tail[k] = data[remain + k]
    BY <1>1, <1>3, SubSeqProperties
  <2>4. /\ Memcpy(b.ring, b.wpos, head) \in [Index -> Byte]
        /\ \A i \in Index : Memcpy(b.ring, b.wpos, head)[i] =
               IF i >= b.wpos /\ i < b.wpos + remain THEN head[i - b.wpos + 1] ELSE b.ring[i]
    <3>1. b.wpos + Len(head) <= SaveSize
      BY <1>n, <2>2
    <3> HIDE DEF head
    <3>2. /\ Memcpy(b.ring, b.wpos, head) \in [Index -> Byte]
          /\ \A i \in Index : Memcpy(b.ring, b.wpos, head)[i] =
                 IF i >= b.wpos /\ i < b.wpos + Len(head) THEN head[i - b.wpos + 1] ELSE b.ring[i]
      BY <1>1, <2>2, <3>1, MemcpyCells
    <3> QED
      BY <2>2, <3>2
  <2>5. /\ WriteRing(b, data) \in [Index -> Byte]
        /\ \A i \in Index : WriteRing(b, data)[i] =
               IF i >= 0 /\ i < 0 + Len(tail) THEN tail[i - 0 + 1]
               ELSE Memcpy(b.ring, b.wpos, head)[i]
    <3>1. 0 \in Index /\ 0 + Len(tail) <= SaveSize
      BY <1>1, <2>3, SaveSizeAssumption DEF Index
    <3> HIDE DEF head, tail
    <3> QED
      BY <2>1, <2>3, <2>4, <3>1, MemcpyCells
  <2>6. ASSUME NEW i \in Index
        PROVE  WriteRing(b, data)[i] =
                     IF b.wpos <= i /\ i < b.wpos + Len(data)
                     THEN data[i - b.wpos + 1]
                     ELSE IF i < b.wpos + Len(data) - SaveSize
                          THEN data[i + SaveSize - b.wpos + 1]
                          ELSE b.ring[i]
    <3> HIDE DEF head, tail
    <3>1. CASE i < Len(tail)
      <4>1. WriteRing(b, data)[i] = tail[i + 1]
        BY <2>5, <2>3, <3>1, <1>1 DEF Index
      <4>2. tail[i + 1] = data[remain + (i + 1)]
        <5>1. i + 1 \in 1..(Len(data) - remain)
          BY <2>3, <3>1, <1>n
        <5> QED
          BY <2>3, <5>1
      <4>3. ~(b.wpos <= i) /\ i < b.wpos + Len(data) - SaveSize
        BY <3>1, <2>3, <1>n
      <4>4. remain + (i + 1) = i + SaveSize - b.wpos + 1
        BY <1>n
      <4> QED
        BY <4>1, <4>2, <4>3, <4>4
    <3>2. CASE i >= Len(tail) /\ i >= b.wpos
      <4>1. WriteRing(b, data)[i] = head[i - b.wpos + 1]
        <5>1. WriteRing(b, data)[i] = Memcpy(b.ring, b.wpos, head)[i]
          BY <2>5, <2>3, <3>2, <1>n
        <5>2. i >= b.wpos /\ i < b.wpos + remain
          BY <3>2, <1>n
        <5> QED
          BY <2>4, <5>1, <5>2
      <4>2. i - b.wpos + 1 \in 1..remain
        BY <3>2, <1>n
      <4>3. b.wpos <= i /\ i < b.wpos + Len(data)
        BY <3>2, <1>1, <1>3, SaveSizeAssumption DEF Index
      <4> QED
        BY <2>2, <4>1, <4>2, <4>3
    <3>3. CASE i >= Len(tail) /\ i < b.wpos
      <4>1. WriteRing(b, data)[i] = b.ring[i]
        <5>1. ~(i >= 0 /\ i < 0 + Len(tail)) /\ ~(i >= b.wpos /\ i < b.wpos + remain)
          BY <2>3, <3>3, <1>n
        <5>2. WriteRing(b, data)[i] = Memcpy(b.ring, b.wpos, head)[i]
          BY <2>5, <5>1
        <5> QED
          BY <2>4, <5>1, <5>2
      <4>2. ~(b.wpos <= i) /\ ~(i < b.wpos + Len(data) - SaveSize)
        BY <2>3, <3>3, <1>n
      <4> QED
        BY <4>1, <4>2
    <3> QED
      BY <3>1, <3>2, <3>3, <2>3, <1>1 DEF Index
  <2> QED
    BY <2>5, <2>6
<1> QED
  BY <1>1, <1>2, <1>3

\* Reading n bytes in one or in two pieces yields the cells that follow the
\* cursor round the ring (network_op.c:656-674, 699-716).
LEMMA CellsRound ==
    ASSUME NEW ring \in [Index -> Byte], NEW pos \in Index, NEW n \in 0..SaveSize
    PROVE  LET remain == SaveSize - pos
               one == Cells(ring, pos, n)
               two == Cells(ring, pos, remain)
                          \o Cells(ring, Advance(pos, remain), n - remain)
           IN  (IF remain >= n THEN one ELSE two)
                   = [k \in 1..n |-> ring[Advance(pos, k - 1)]]
<1> DEFINE remain == SaveSize - pos
           round == [k \in 1..n |-> ring[Advance(pos, k - 1)]]
<1>1. /\ SaveSize \in Nat /\ pos \in Nat /\ pos < SaveSize /\ n \in Nat /\ n <= SaveSize
      /\ remain \in Nat
  BY SaveSizeAssumption DEF Index
<1>2. ASSUME NEW k \in 1..n
      PROVE  Advance(pos, k - 1) = IF pos + k - 1 < SaveSize THEN pos + k - 1
                                                             ELSE pos + k - 1 - SaveSize
  BY <1>1, AdvanceOnce
<1>3. CASE remain >= n
  <2>1. ASSUME NEW k \in 1..n PROVE ring[pos + k - 1] = ring[Advance(pos, k - 1)]
    BY <1>1, <1>2, <1>3
  <2>2. Cells(ring, pos, n) = round
    BY <2>1 DEF Cells
  <2> QED
    BY <1>3, <2>2
<1>4. CASE remain < n
  <2> DEFINE first == Cells(ring, pos, remain)
             m == n - remain
             rest == Cells(ring, 0, m)
  <2>1. Advance(pos, remain) = 0
    BY <1>1, SMT DEF Advance
  <2>2. /\ first = [k \in 1..remain |-> ring[pos + k - 1]]
        /\ rest = [k \in 1..m |-> ring[0 + k - 1]]
    BY DEF Cells
  <2>3. /\ m \in Nat /\ m = n - remain /\ m < SaveSize
        /\ remain \in Nat /\ remain = SaveSize - pos
    BY <1>1, <1>4
  <2> HIDE DEF remain, m
  <2>4. ASSUME NEW k \in 1..remain PROVE ring[pos + k - 1] \in Byte
    BY <1>1, <2>3 DEF Index
  <2>5. ASSUME NEW k \in 1..m PROVE ring[0 + k - 1] \in Byte
    BY <1>1, <2>3 DEF Index
  <2>6. first \in Seq(Byte) /\ Len(first) = remain
    BY <1>1, <2>2, <2>4
  <2>7. rest \in Seq(Byte) /\ Len(rest) = m
    BY <2>2, <2>3, <2>5
  <2> HIDE DEF first, rest
  <2>8. /\ first \o rest \in Seq(Byte)
        /\ Len(first \o rest) = remain + m
        /\ \A k \in 1..(remain + m) : (first \o rest)[k] =
               IF k <= remain THEN first[k] ELSE rest[k - remain]
    BY <2>6, <2>7, ConcatProperties
  <2>9. n = remain + m
    BY <1>1, <2>3
  <2>10. ASSUME NEW k \in 1..n PROVE (first \o rest)[k] = ring[Advance(pos, k - 1)]
    <3>1. CASE k <= remain
      <4>1. k \in 1..remain /\ Advance(pos, k - 1) = pos + k - 1
        BY <1>1, <1>2, <2>3, <3>1
      <4>2. (first \o rest)[k] = first[k]
        BY <3>1, <2>8, <2>9
      <4>3. first[k] = ring[pos + k - 1]
        BY <4>1, <2>2
      <4> QED
        BY <4>1, <4>2, <4>3
    <3>2. CASE k > remain
      <4> DEFINE j == k - remain
      <4>1. /\ j \in 1..m /\ j = k - remain
            /\ Advance(pos, k - 1) = 0 + j - 1
            /\ ~(k <= remain)
        BY <1>1, <1>2, <2>3, <3>2
      <4> HIDE DEF j
      <4>2. (first \o rest)[k] = rest[j]
        BY <4>1, <2>8, <2>9
      <4> QED
        BY <4>1, <4>2, <2>2
    <3>3. k <= remain \/ k > remain
      BY <1>1, <2>3
    <3> QED
      BY <3>1, <3>2, <3>3
  <2>11. first \o rest = round
    <3> DEFINE all == first \o rest
    <3> HIDE DEF all
    <3>1. all \in Seq(Byte) /\ Len(all) = n /\ \A k \in 1..n : all[k] = ring[Advance(pos, k - 1)]
      BY <2>8, <2>9, <2>10 DEF all
    <3>2. all = [k \in 1..n |-> all[k]]
      BY <3>1
    <3> QED
      BY <3>1, <3>2 DEF all
  <2> QED
    <3>1. ~(remain >= n)
      BY <1>1, <1>4
    <3> QED
      BY <2>1, <2>11, <3>1 DEF first, rest, m, remain
<1> QED
  BY <1>1, <1>3, <1>4

\* write_tmp_buffer appends the chunk to the stored bytes and keeps the cursors
\* in agreement (network_op.c:618-648).
LEMMA WriteAppends ==
    ASSUME NEW b \in Buffer, b.wpos = Advance(b.rpos, b.size),
           NEW data \in Seq(Byte), Len(data) <= SaveSize - b.size
    PROVE  /\ Written(b, data) \in Buffer
           /\ Written(b, data).wpos = Advance(Written(b, data).rpos, Written(b, data).size)
           /\ Contents(Written(b, data)) = Contents(b) \o data
<1> DEFINE c == Written(b, data)
           len == Len(data)
           ring == WriteRing(b, data)
<1>1. /\ SaveSize \in Nat /\ SaveSize > 0
      /\ b.rpos \in Index /\ b.wpos \in Index /\ b.size \in 0..SaveSize
      /\ b.ring \in [Index -> Byte]
      /\ len \in 0..SaveSize /\ b.size + len \in 0..SaveSize
  BY SaveSizeAssumption DEF Buffer
<1>2. c = [ring |-> ring, wpos |-> Advance(b.wpos, len), rpos |-> b.rpos, size |-> b.size + len]
  BY <1>1, CursorEnds DEF Written
<1>3. /\ ring \in [Index -> Byte]
      /\ \A i \in Index :
            ring[i] = IF b.wpos <= i /\ i < b.wpos + len
                      THEN data[i - b.wpos + 1]
                      ELSE IF i < b.wpos + len - SaveSize
                           THEN data[i + SaveSize - b.wpos + 1]
                           ELSE b.ring[i]
  BY <1>1, WriteRingCells
<1> HIDE DEF ring, c
<1>4. Advance(b.wpos, len) \in Index
  BY <1>1, AdvanceOnce
<1>5. c \in Buffer
  BY <1>1, <1>2, <1>3, <1>4 DEF Buffer
<1>6. Advance(b.wpos, len) = Advance(b.rpos, b.size + len)
  <2>1. Advance(Advance(b.rpos, b.size), len) = Advance(b.rpos, b.size + len)
    BY <1>1, AdvanceTwice
  <2> QED
    BY <2>1
<1>7. ASSUME NEW k \in 1..(b.size + len)
      PROVE  ring[Advance(b.rpos, k - 1)] =
                 IF k <= b.size THEN b.ring[Advance(b.rpos, k - 1)] ELSE data[k - b.size]
  <2> DEFINE i == Advance(b.rpos, k - 1)
             w == b.wpos
             r == b.rpos
             s == b.size
  <2>1. /\ i \in Index
        /\ i = IF r + (k - 1) < SaveSize THEN r + (k - 1) ELSE r + (k - 1) - SaveSize
    <3>1. k - 1 \in 0..SaveSize
      BY <1>1
    <3> QED
      BY <1>1, <3>1, AdvanceOnce
  <2>2. w = IF r + s < SaveSize THEN r + s ELSE r + s - SaveSize
    BY <1>1, AdvanceOnce
  <2>3. /\ i \in Nat /\ i < SaveSize /\ w \in Nat /\ w < SaveSize
        /\ r \in Nat /\ r < SaveSize /\ s \in Nat /\ len \in Nat /\ s + len <= SaveSize
        /\ k \in Nat /\ 1 <= k /\ k <= s + len
    <3>1. \A j \in Index : j \in Nat /\ j < SaveSize
      BY SaveSizeAssumption DEF Index
    <3>2. w \in Index /\ r \in Index
      BY <1>1
    <3>3. s \in Nat /\ len \in Nat /\ s + len <= SaveSize
      BY <1>1
    <3> QED
      BY <2>1, <3>1, <3>2, <3>3
  <2> HIDE DEF i, w, r, s, len
  <2>4. CASE k <= s
    <3>1. ~(w <= i /\ i < w + len) /\ ~(i < w + len - SaveSize)
      BY <1>1, <2>1, <2>2, <2>3, <2>4
    <3> QED
      BY <1>3, <2>1, <2>4, <3>1 DEF i, w, s
  <2>5. CASE k > s
    <3>1. CASE w <= i /\ i < w + len
      <4>1. i - w + 1 = k - s
        BY <1>1, <2>1, <2>2, <2>3, <2>5, <3>1
      <4> QED
        <5>1. ring[i] = data[i - w + 1]
          BY <1>3, <2>1, <3>1 DEF w
        <5>2. ~(k <= s)
          BY <2>3, <2>5
        <5> QED
          BY <4>1, <5>1, <5>2 DEF i, s
    <3>2. CASE ~(w <= i /\ i < w + len)
      <4>1. i < w + len - SaveSize /\ i + SaveSize - w + 1 = k - s
        BY <1>1, <2>1, <2>2, <2>3, <2>5, <3>2
      <4> QED
        BY <1>3, <2>1, <2>3, <2>5, <3>2, <4>1 DEF i, w, s
    <3> QED
      BY <3>1, <3>2
  <2> QED
    BY <2>3, <2>4, <2>5 DEF s
<1>8. Contents(c) = Contents(b) \o data
  <2> DEFINE old == Contents(b)
             all == old \o data
  <2>1. old = [k \in 1..b.size |-> b.ring[Advance(b.rpos, k - 1)]]
    BY DEF Contents
  <2>2. ASSUME NEW k \in 1..b.size PROVE b.ring[Advance(b.rpos, k - 1)] \in Byte
    <3>1. k - 1 \in 0..SaveSize
      BY <1>1
    <3> QED
      BY <1>1, <3>1, AdvanceOnce
  <2>3. old \in Seq(Byte) /\ Len(old) = b.size
    BY <1>1, <2>1, <2>2
  <2> HIDE DEF old
  <2>4. /\ all \in Seq(Byte) /\ Len(all) = b.size + len
        /\ \A k \in 1..(b.size + len) : all[k] = IF k <= b.size THEN old[k] ELSE data[k - b.size]
    <3>1. /\ all \in Seq(Byte) /\ Len(all) = Len(old) + Len(data)
          /\ \A k \in 1..(Len(old) + Len(data)) :
                all[k] = IF k <= Len(old) THEN old[k] ELSE data[k - Len(old)]
      BY <2>3, ConcatProperties
    <3> HIDE DEF all
    <3> QED
      BY <2>3, <3>1
  <2> HIDE DEF all, len
  <2>5. ASSUME NEW k \in 1..(b.size + len) PROVE all[k] = ring[Advance(b.rpos, k - 1)]
    <3>1. CASE k <= b.size
      <4>1. k \in 1..b.size
        BY <1>1, <3>1
      <4> QED
        BY <1>7, <2>1, <2>4, <3>1, <4>1
    <3>2. CASE ~(k <= b.size)
      BY <1>7, <2>4, <3>2
    <3> QED
      BY <3>1, <3>2
  <2>6. all = [k \in 1..(b.size + len) |-> ring[Advance(b.rpos, k - 1)]]
    <3>1. all = [k \in 1..(b.size + len) |-> all[k]]
      BY <1>1, <2>4
    <3> QED
      BY <2>5, <3>1
  <2>7. Contents(c) = [k \in 1..(b.size + len) |-> ring[Advance(b.rpos, k - 1)]]
    BY <1>2 DEF Contents
  <2> QED
    BY <2>6, <2>7 DEF all, old
<1> QED
  BY <1>2, <1>5, <1>6, <1>8 DEF c

\* Whatever is stored, it is a sequence of bytes.
LEMMA ContentsType ==
    ASSUME NEW b \in Buffer
    PROVE  Contents(b) \in Seq(Byte) /\ Len(Contents(b)) = b.size
<1>1. /\ b.size \in 0..SaveSize /\ b.rpos \in Index /\ b.ring \in [Index -> Byte]
      /\ SaveSize \in Nat /\ b.size \in Nat
  BY SaveSizeAssumption DEF Buffer
<1>2. ASSUME NEW k \in 1..b.size PROVE b.ring[Advance(b.rpos, k - 1)] \in Byte
  <2>1. k - 1 \in 0..SaveSize
    BY <1>1
  <2> QED
    BY <1>1, <2>1, AdvanceOnce
<1> QED
  BY <1>1, <1>2 DEF Contents

\* read_tmp_buffer takes the oldest bytes off and keeps the cursors in
\* agreement (network_op.c:649-676).
LEMMA ReadTakes ==
    ASSUME NEW b \in Buffer, b.wpos = Advance(b.rpos, b.size), NEW n \in 0..b.size
    PROVE  /\ Consumed(b, n) \in Buffer
           /\ Consumed(b, n).wpos = Advance(Consumed(b, n).rpos, Consumed(b, n).size)
           /\ ReadBytes(b, n) = SubSeq(Contents(b), 1, n)
           /\ ReadBytes(b, n) \in Seq(Byte)
           /\ Contents(Consumed(b, n)) = SubSeq(Contents(b), n + 1, b.size)
<1> DEFINE c == Consumed(b, n)
           old == Contents(b)
<1>1. /\ SaveSize \in Nat /\ SaveSize > 0
      /\ b.rpos \in Index /\ b.wpos \in Index /\ b.size \in 0..SaveSize
      /\ b.ring \in [Index -> Byte]
      /\ n \in 0..SaveSize /\ b.size - n \in 0..SaveSize /\ n + (b.size - n) = b.size
      /\ n \in Nat /\ b.size \in Nat /\ b.size - n \in Nat
  BY SaveSizeAssumption DEF Buffer
<1>2. c = [ring |-> b.ring, wpos |-> b.wpos, rpos |-> Advance(b.rpos, n), size |-> b.size - n]
  BY <1>1, CursorEnds DEF Consumed
<1>3. Advance(b.rpos, n) \in Index
  BY <1>1, AdvanceOnce
<1> HIDE DEF c
<1>4. c \in Buffer
  BY <1>1, <1>2, <1>3 DEF Buffer
<1>5. c.wpos = Advance(c.rpos, c.size)
  <2>1. Advance(Advance(b.rpos, n), b.size - n) = Advance(b.rpos, n + (b.size - n))
    BY <1>1, AdvanceTwice
  <2> QED
    BY <1>1, <1>2, <2>1
<1>6. /\ old \in Seq(Byte) /\ Len(old) = b.size
      /\ old = [k \in 1..b.size |-> b.ring[Advance(b.rpos, k - 1)]]
  BY ContentsType DEF Contents
<1> HIDE DEF old
<1>7. /\ SubSeq(old, 1, n) = [k \in 1..n |-> old[k]]
      /\ SubSeq(old, 1, n) \in Seq(Byte)
  BY <1>1, <1>6
<1>8. ReadBytes(b, n) = [k \in 1..n |-> b.ring[Advance(b.rpos, k - 1)]]
  BY <1>1, CellsRound DEF ReadBytes
<1>9. ReadBytes(b, n) = SubSeq(old, 1, n)
  <2>1. ASSUME NEW k \in 1..n PROVE old[k] = b.ring[Advance(b.rpos, k - 1)]
    <3>1. k \in 1..b.size
      BY <1>1
    <3> QED
      BY <1>6, <3>1
  <2> QED
    BY <1>7, <1>8, <2>1
<1>10. Contents(c) = SubSeq(old, n + 1, b.size)
  <2> DEFINE m == b.size - n
  <2>1. m \in Nat /\ m = b.size - n
    BY <1>1
  <2>2. SubSeq(old, n + 1, b.size) = [k \in 1..m |-> old[n + k]]
    <3>1. /\ SubSeq(old, n + 1, b.size) \in Seq(Byte)
          /\ Len(SubSeq(old, n + 1, b.size)) = m
          /\ \A k \in 1..m : SubSeq(old, n + 1, b.size)[k] = old[n + k]
      <4> DEFINE lo == n + 1
                 hi == b.size
      <4>1. /\ lo \in Int /\ hi \in Int /\ hi - lo + 1 = m
            /\ (IF lo <= hi THEN hi - lo + 1 ELSE 0) = m
            /\ \A k \in 1..m : lo + k - 1 = n + k
        BY <1>1, <1>6, <2>1
      <4>0. \A i \in lo..hi : old[i] \in Byte
        BY <1>1, <1>6
      <4> HIDE DEF lo, hi, m
      <4>2. /\ SubSeq(old, lo, hi) \in Seq(Byte)
            /\ Len(SubSeq(old, lo, hi)) = IF lo <= hi THEN hi - lo + 1 ELSE 0
            /\ \A k \in 1..(hi - lo + 1) : SubSeq(old, lo, hi)[k] = old[lo + k - 1]
        BY <4>0, <4>1, SubSeqProperties
      <4>3. /\ Len(SubSeq(old, lo, hi)) = m
            /\ \A k \in 1..m : SubSeq(old, lo, hi)[k] = old[n + k]
        BY <4>1, <4>2
      <4> QED
        BY <4>2, <4>3 DEF lo, hi
    <3> DEFINE sub == SubSeq(old, n + 1, b.size)
    <3> HIDE DEF sub, m
    <3>2. sub = [k \in 1..m |-> sub[k]]
      BY <3>1 DEF sub
    <3> QED
      BY <3>1, <3>2 DEF sub
  <2>3. Contents(c) = [k \in 1..m |-> b.ring[Advance(Advance(b.rpos, n), k - 1)]]
    BY <1>2 DEF Contents
  <2> HIDE DEF m
  <2>4. ASSUME NEW k \in 1..m
        PROVE  old[n + k] = b.ring[Advance(Advance(b.rpos, n), k - 1)]
    <3>1. /\ k - 1 \in 0..SaveSize /\ n + (k - 1) <= SaveSize
          /\ n + (k - 1) = n + k - 1 /\ n + k \in 1..b.size
      BY <1>1, <2>1
    <3>2. Advance(Advance(b.rpos, n), k - 1) = Advance(b.rpos, n + k - 1)
      BY <1>1, <3>1, AdvanceTwice
    <3> QED
      BY <1>6, <3>1, <3>2
  <2> QED
    BY <2>2, <2>3, <2>4
<1> QED
  BY <1>4, <1>5, <1>7, <1>9, <1>10 DEF c, old

\* Peeking at the length field where it lies in the ring gives the bytes that
\* a read would return at those positions (network_op.c:686-719).
LEMMA PeekAgrees ==
    ASSUME NEW b \in Buffer, b.size >= LenAt + LenBytes
    PROVE  LengthField(b) = SubSeq(Contents(b), LenAt + 1, LenAt + LenBytes)
<1> DEFINE at == Advance(b.rpos, LenAt)
           old == Contents(b)
<1>1. /\ SaveSize \in Nat /\ b.rpos \in Index /\ b.size \in Nat /\ b.size <= SaveSize
      /\ b.ring \in [Index -> Byte] /\ LenAt \in Nat /\ LenBytes \in Nat
      /\ LenAt \in 0..SaveSize /\ LenBytes \in 0..SaveSize /\ LenAt + LenBytes <= SaveSize
  BY SaveSizeAssumption, LenAssumption DEF Buffer
<1>2. at \in Index
  BY <1>1, AdvanceOnce
<1>3. LengthField(b) = [k \in 1..LenBytes |-> b.ring[Advance(at, k - 1)]]
  <2> HIDE DEF at
  <2>1. LET remain == SaveSize - at
        IN  (IF remain >= LenBytes THEN Cells(b.ring, at, LenBytes)
             ELSE Cells(b.ring, at, remain)
                      \o Cells(b.ring, Advance(at, remain), LenBytes - remain))
            = [k \in 1..LenBytes |-> b.ring[Advance(at, k - 1)]]
    BY <1>1, <1>2, CellsRound
  <2>2. LenBytes <= SaveSize - at <=> SaveSize - at >= LenBytes
    BY <1>1, <1>2 DEF Index
  <2> QED
    BY <2>1, <2>2 DEF LengthField, at
<1>4. /\ old \in Seq(Byte) /\ Len(old) = b.size
      /\ old = [k \in 1..b.size |-> b.ring[Advance(b.rpos, k - 1)]]
  BY ContentsType DEF Contents
<1> HIDE DEF old
<1>5. ASSUME NEW k \in 1..LenBytes
      PROVE  b.ring[Advance(at, k - 1)] = old[LenAt + k]
  <2>1. /\ k - 1 \in 0..SaveSize /\ LenAt + (k - 1) <= SaveSize
        /\ LenAt + (k - 1) = (LenAt + k) - 1 /\ LenAt + k \in 1..b.size
    BY <1>1
  <2>2. Advance(at, k - 1) = Advance(b.rpos, (LenAt + k) - 1)
    BY <1>1, <2>1, AdvanceTwice
  <2> QED
    BY <1>4, <2>1, <2>2
<1> DEFINE lo == LenAt + 1
           hi == LenAt + LenBytes
           sub == SubSeq(old, lo, hi)
<1>6. /\ lo \in Int /\ hi \in Int /\ hi - lo + 1 = LenBytes
      /\ (IF lo <= hi THEN hi - lo + 1 ELSE 0) = LenBytes
      /\ \A k \in 1..LenBytes : lo + k - 1 = LenAt + k
  BY <1>1
<1>7. \A i \in lo..hi : old[i] \in Byte
  BY <1>1, <1>4
<1> HIDE DEF lo, hi
<1>8. /\ sub \in Seq(Byte) /\ Len(sub) = IF lo <= hi THEN hi - lo + 1 ELSE 0
      /\ \A k \in 1..(hi - lo + 1) : sub[k] = old[lo + k - 1]
  BY <1>6, <1>7, SubSeqProperties
<1> HIDE DEF sub
<1>9. sub \in Seq(Byte) /\ Len(sub) = LenBytes /\ \A k \in 1..LenBytes : sub[k] = old[LenAt + k]
  BY <1>6, <1>8
<1>10. sub = [k \in 1..LenBytes |-> sub[k]]
  BY <1>9
<1>11. LengthField(b) = sub
  BY <1>3, <1>5, <1>9, <1>10
<1> QED
  BY <1>11 DEF sub, lo, hi, old

-----------------------------------------------------------------------------
\* A chunk handed to write_tmp_buffer is a sequence of bytes.
LEMMA ChunkType ==
    ASSUME NEW data \in Chunk
    PROVE  data \in Seq(Byte) /\ Len(data) \in 1..MaxChunk
BY ChunkAssumption DEF Chunk

\* The cursors agree initially.
LEMMA InitOK == Init => BufferOK
<1> SUFFICES ASSUME Init PROVE BufferOK
  OBVIOUS
<1>1. 0 \in Index /\ 0 \in 0..SaveSize
  BY SaveSizeAssumption DEF Index
<1>2. buf \in Buffer
  BY <1>1, ZeroAssumption DEF Init, Buffer
<1>3. CursorsAgree
  BY <1>1, AdvanceOnce, SaveSizeAssumption DEF Init, CursorsAgree, Index
<1> QED
  BY <1>2, <1>3 DEF Init, BufferOK

\* What one call does to the ring is what the queue would do, and the cursors
\* still agree afterwards.
LEMMA StepOK ==
    ASSUME BufferOK, [Next]_vars
    PROVE  BufferOK' /\ [Fifo!Next]_<<Contents(buf), put, got, rt>>
<1>1. /\ buf \in Buffer /\ buf.wpos = Advance(buf.rpos, buf.size)
      /\ SaveSize \in Nat /\ buf.size \in 0..SaveSize /\ buf.size \in Nat
      /\ Contents(buf) \in Seq(Byte) /\ Len(Contents(buf)) = buf.size
      /\ got \in Seq(Byte)
  BY ContentsType, SaveSizeAssumption DEF BufferOK, CursorsAgree, Buffer
<1>2. ASSUME NEW data \in Chunk, write_tmp_buffer(data)
      PROVE  BufferOK' /\ Fifo!Next
  <2>1. data \in Seq(Byte) /\ Len(data) \in Nat /\ data \in Fifo!Chunk
    BY ChunkType, ChunkAssumption DEF Chunk, Fifo!Chunk
  <2>2. CASE ~CanWrite(buf, Len(data))
    <3>1. rt' = DATA_ERROR /\ put' = data /\ got' = <<>> /\ buf' = buf
      BY <1>2, <2>2 DEF write_tmp_buffer
    <3>2. BufferOK'
      BY <2>1, <3>1 DEF BufferOK, CursorsAgree, DATA_ERROR
    <3>3. Fifo!Refuse(data)
      BY <1>1, <2>1, <2>2, <3>1 DEF Fifo!Refuse, CanWrite, DATA_ERROR, Fifo!DATA_ERROR
    <3> QED
      BY <2>1, <3>2, <3>3 DEF Fifo!Next
  <2>3. CASE CanWrite(buf, Len(data))
    <3>1. /\ buf' = Written(buf, data) /\ rt' = Len(data)
          /\ put' = data /\ got' = <<>>
      BY <1>2, <2>3 DEF write_tmp_buffer
    <3>2. /\ Written(buf, data) \in Buffer
          /\ Written(buf, data).wpos
                 = Advance(Written(buf, data).rpos, Written(buf, data).size)
          /\ Contents(Written(buf, data)) = Contents(buf) \o data
      BY <1>1, <2>1, <2>3, WriteAppends DEF CanWrite
    <3>3. BufferOK'
      BY <1>1, <2>1, <3>1, <3>2 DEF BufferOK, CursorsAgree
    <3>4. Fifo!Put(data)
      BY <1>1, <2>1, <2>3, <3>1, <3>2 DEF Fifo!Put, CanWrite
    <3> QED
      BY <2>1, <3>3, <3>4 DEF Fifo!Next
  <2> QED
    BY <2>2, <2>3
<1>3. ASSUME NEW n \in 1..SaveSize, read_tmp_buffer(n)
      PROVE  BufferOK' /\ Fifo!Next
  <2>1. CASE ~CanRead(buf, n)
    <3>1. rt' = 0 /\ put' = <<>> /\ got' = <<>> /\ buf' = buf
      BY <1>3, <2>1 DEF read_tmp_buffer
    <3>2. BufferOK'
      BY <3>1 DEF BufferOK, CursorsAgree
    <3>3. Fifo!TooFew(n)
      BY <1>1, <2>1, <3>1 DEF Fifo!TooFew, CanRead
    <3> QED
      BY <3>2, <3>3 DEF Fifo!Next
  <2>2. CASE CanRead(buf, n)
    <3>1. /\ buf' = Consumed(buf, n) /\ rt' = n
          /\ put' = <<>> /\ got' = ReadBytes(buf, n)
      BY <1>3, <2>2 DEF read_tmp_buffer
    <3>2. n \in 0..buf.size
      BY <1>1, <2>2 DEF CanRead
    <3>3. /\ Consumed(buf, n) \in Buffer
          /\ Consumed(buf, n).wpos = Advance(Consumed(buf, n).rpos, Consumed(buf, n).size)
          /\ ReadBytes(buf, n) = SubSeq(Contents(buf), 1, n)
          /\ ReadBytes(buf, n) \in Seq(Byte)
          /\ Contents(Consumed(buf, n)) = SubSeq(Contents(buf), n + 1, buf.size)
      BY <1>1, <3>2, ReadTakes
    <3>4. BufferOK'
      BY <1>1, <3>1, <3>3 DEF BufferOK, CursorsAgree
    <3>5. Fifo!Take(n)
      BY <1>1, <2>2, <3>1, <3>3 DEF Fifo!Take, CanRead
    <3> QED
      BY <3>4, <3>5 DEF Fifo!Next
  <2> QED
    BY <2>1, <2>2
<1>4. CASE UNCHANGED vars
  BY <1>4 DEF vars, BufferOK, CursorsAgree
<1> QED
  BY <1>2, <1>3, <1>4 DEF Next, vars

\* However reads and writes follow each other, both cursors stay inside the
\* ring and the write cursor is exactly save_buffer_data_size bytes ahead of
\* the read cursor (network_op.c:612-676).
THEOREM CursorsCorrect == Spec => []BufferOK
<1>1. Init => BufferOK
  BY InitOK
<1>2. BufferOK /\ [Next]_vars => BufferOK'
  BY StepOK
<1> QED
  BY <1>1, <1>2, PTL DEF Spec

\* Once the length field has arrived, get_frm_payload_length sees the bytes
\* that the read of the frame will return (network_op.c:686-719, 746).
THEOREM LengthFieldCorrect == Spec => []LengthFieldIsNext
<1>1. BufferOK => LengthFieldIsNext
  BY PeekAgrees DEF BufferOK, LengthFieldIsNext
<1> QED
  BY <1>1, CursorsCorrect, PTL

\* The ring is a bounded queue of bytes: no byte is lost, duplicated,
\* reordered or overwritten at the wrap (network_op.c:618-676).
THEOREM RingImplementsFifo == Spec => ImplementsFifo
<1>1. Init => Fifo!Init
  <2> SUFFICES ASSUME Init PROVE Fifo!Init
    OBVIOUS
  <2>1. Contents(buf) = <<>>
    BY DEF Init, Contents
  <2> QED
    BY <2>1 DEF Init, Fifo!Init
<1>2. BufferOK /\ [Next]_vars => [Fifo!Next]_<<Contents(buf), put, got, rt>>
  BY StepOK
<1> QED
  BY <1>1, <1>2, CursorsCorrect, PTL DEF Spec, ImplementsFifo, Fifo!Spec
=============================================================================
