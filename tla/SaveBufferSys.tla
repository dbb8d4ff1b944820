--------------------------- MODULE SaveBufferSys ---------------------------
(***************************************************************************)
(* The receive ring of network_op.c under any sequence of calls: chunks of *)
(* 1..MaxChunk bytes (check_net_frm_valid refuses others before it writes) *)
(* and reads of any size.  It implements ByteFifo.                         *)
(***************************************************************************)
EXTENDS SaveBuffer

CONSTANTS
    MaxChunk,   \* FRM_BUFFER_SIZE
    Zero        \* the value static storage starts with

ASSUME ChunkAssumption == MaxChunk \in Nat
ASSUME ZeroAssumption == Zero \in Byte

VARIABLES
    buf,        \* net_save_buffer and its cursors
    put,        \* the chunk the last call was given to write
    got,        \* the bytes the last call copied to its buffer
    rt          \* the value the last call returned

vars == <<buf, put, got, rt>>

DATA_ERROR == -1

Chunk == UNION {[1..n -> Byte] : n \in 1..MaxChunk}

Init ==
    /\ buf = [ring |-> [i \in Index |-> Zero], wpos |-> 0, rpos |-> 0, size |-> 0]
    /\ put = <<>> /\ got = <<>>
    /\ rt = 0

write_tmp_buffer(data) ==
    /\ put' = data /\ got' = <<>>
    /\ \/ /\ ~CanWrite(buf, Len(data))
          /\ rt' = DATA_ERROR
          /\ UNCHANGED buf
       \/ /\ CanWrite(buf, Len(data))
          /\ buf' = Written(buf, data)
          /\ rt' = Len(data)

read_tmp_buffer(n) ==
    /\ put' = <<>>
    /\ \/ /\ ~CanRead(buf, n)
          /\ got' = <<>>
          /\ rt' = 0
          /\ UNCHANGED buf
       \/ /\ CanRead(buf, n)
          /\ got' = ReadBytes(buf, n)
          /\ buf' = Consumed(buf, n)
          /\ rt' = n

Next ==
    \/ \E data \in Chunk : write_tmp_buffer(data)
    \/ \E n \in 1..SaveSize : read_tmp_buffer(n)

Spec == Init /\ [][Next]_vars

-----------------------------------------------------------------------------
\* The three cursors: the write cursor stays exactly size bytes ahead of the
\* read cursor, round the ring (network_op.c:612-614).
CursorsAgree == buf.wpos = Advance(buf.rpos, buf.size)

\* Cursors in range, and in agreement with each other: neither cursor may run
\* off the ring however the calls are interleaved (network_op.c:618-676).
BufferOK ==
    /\ buf \in Buffer
    /\ put \in Seq(Byte) /\ got \in Seq(Byte)
    /\ rt \in Int
    /\ CursorsAgree

\* The payload length that get_frm_payload_length looks at in place is the one
\* that read_tmp_buffer would return, also when the field straddles the end of
\* the ring (network_op.c:686-719).
LengthFieldIsNext ==
    buf.size >= LenAt + LenBytes =>
        LengthField(buf) = SubSeq(Contents(buf), LenAt + 1, LenAt + LenBytes)

\* The ring implements the queue: nothing is lost, duplicated, reordered or
\* overwritten at the wrap (network_op.c:618-676).
Fifo == INSTANCE ByteFifo WITH Capacity <- SaveSize, queue <- Contents(buf)
ImplementsFifo == Fifo!Spec
=============================================================================
