----------------------------- MODULE SaveBuffer -----------------------------
(***************************************************************************)
(* The receive ring of prj-MDKServer/network_op.c as pure operators on a   *)
(* record [ring, wpos, rpos, size]: net_save_buffer and its three cursors, *)
(* write_tmp_buffer, read_tmp_buffer and get_frm_payload_length.  Each     *)
(* copies in one or in two pieces, as the memcpy calls of the source do,   *)
(* so that what happens at the end of the ring is in the model.            *)
(***************************************************************************)
EXTENDS Integers, Sequences

CONSTANTS
    SaveSize,   \* SAVE_FRM_BUFFER_SIZE
    Byte,       \* what one cell of the ring can hold
    LenAt,      \* bytes before the payload length field (head and type)
    LenBytes    \* bytes of the payload length field

ASSUME SaveSizeAssumption == SaveSize \in Nat \ {0}
ASSUME LenAssumption ==
    /\ LenAt \in Nat /\ LenBytes \in Nat \ {0}
    /\ LenAt + LenBytes <= SaveSize

Index == 0..(SaveSize - 1)

Buffer == [ring : [Index -> Byte], wpos : Index, rpos : Index, size : 0..SaveSize]

\* memcpy(mem + at, data, Len(data))
Memcpy(mem, at, data) ==
    [i \in Index |-> IF i >= at /\ i < at + Len(data) THEN data[i - at + 1] ELSE mem[i]]

\* the n bytes that start at mem + at
Cells(mem, at, n) == [k \in 1..n |-> mem[at + k - 1]]

\* a cursor moved forward, then reduced by %=
Advance(pos, n) == (pos + n) % SaveSize

CanWrite(b, n) == n <= SaveSize - b.size

\* Mutant: the second memcpy starts at data instead of data + remain.
WriteRing_RestartsData(b, data) ==
    LET remain == SaveSize - b.wpos
        n == Len(data)
    IN  IF remain >= n
        THEN Memcpy(b.ring, b.wpos, data)
        ELSE Memcpy(Memcpy(b.ring, b.wpos, SubSeq(data, 1, remain)),
                    Advance(b.wpos, remain), SubSeq(data, 1, n - remain))

WriteRing(b, data) ==
    LET remain == SaveSize - b.wpos
        n == Len(data)
    IN  IF remain >= n
        THEN Memcpy(b.ring, b.wpos, data)
        ELSE Memcpy(Memcpy(b.ring, b.wpos, SubSeq(data, 1, remain)),
                    Advance(b.wpos, remain), SubSeq(data, remain + 1, n))

\* Mutant: the second move of the write cursor counts the whole chunk again.
WriteEnd_CountsTwice(b, n) ==
    LET remain == SaveSize - b.wpos
    IN  IF remain >= n
        THEN Advance(b.wpos, n)
        ELSE Advance(Advance(b.wpos, remain), n)

WriteEnd(b, n) ==
    LET remain == SaveSize - b.wpos
    IN  IF remain >= n
        THEN Advance(b.wpos, n)
        ELSE Advance(Advance(b.wpos, remain), n - remain)

\* write_tmp_buffer on a chunk that fits
Written(b, data) ==
    [ring |-> WriteRing(b, data), wpos |-> WriteEnd(b, Len(data)),
     rpos |-> b.rpos, size |-> b.size + Len(data)]

\* Mutant: the last byte of the ring is never handed out.
CanRead_Strict(b, n) == n < b.size

CanRead(b, n) == n <= b.size

\* the bytes read_tmp_buffer copies out
ReadBytes(b, n) ==
    LET remain == SaveSize - b.rpos
    IN  IF remain >= n
        THEN Cells(b.ring, b.rpos, n)
        ELSE Cells(b.ring, b.rpos, remain)
                 \o Cells(b.ring, Advance(b.rpos, remain), n - remain)

ReadEnd(b, n) ==
    LET remain == SaveSize - b.rpos
    IN  IF remain >= n
        THEN Advance(b.rpos, n)
        ELSE Advance(Advance(b.rpos, remain), n - remain)

\* read_tmp_buffer when enough bytes are there
Consumed(b, n) ==
    [ring |-> b.ring, wpos |-> b.wpos, rpos |-> ReadEnd(b, n), size |-> b.size - n]

\* Mutant: the cursor is not moved before the second half of the field is copied.
LengthField_NotMoved(b) ==
    LET at == Advance(b.rpos, LenAt)
        remain == SaveSize - at
    IN  IF LenBytes <= remain
        THEN Cells(b.ring, at, LenBytes)
        ELSE Cells(b.ring, at, remain) \o Cells(b.ring, at, LenBytes - remain)

\* get_frm_payload_length: the bytes of the length field, looked at in place
LengthField(b) ==
    LET at == Advance(b.rpos, LenAt)
        remain == SaveSize - at
    IN  IF LenBytes <= remain
        THEN Cells(b.ring, at, LenBytes)
        ELSE Cells(b.ring, at, remain)
                 \o Cells(b.ring, Advance(at, remain), LenBytes - remain)

-----------------------------------------------------------------------------
\* The bytes stored and not read yet, oldest first: the abstraction function.
Contents(b) == [k \in 1..b.size |-> b.ring[Advance(b.rpos, k - 1)]]
=============================================================================
