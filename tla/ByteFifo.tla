------------------------------ MODULE ByteFifo ------------------------------
(***************************************************************************)
(* What the receive buffer of prj-MDKServer/network_op.c promises to       *)
(* network_read: a bounded queue of bytes.  A write takes a whole chunk or *)
(* refuses it and changes nothing; a read returns the oldest bytes, exactly*)
(* as many as asked for, or nothing.                                       *)
(***************************************************************************)
EXTENDS Integers, Sequences

CONSTANTS
    Capacity,   \* bytes the queue can hold
    Byte,       \* the byte values
    MaxChunk    \* longest chunk handed to a write

VARIABLES
    queue,      \* the bytes written and not read yet, oldest first
    put,        \* the chunk the last call was given to write
    got,        \* the bytes the last call read
    rt          \* the value the last call returned

DATA_ERROR == -1

Chunk == UNION {[1..n -> Byte] : n \in 1..MaxChunk}

Init == queue = <<>> /\ put = <<>> /\ got = <<>> /\ rt = 0

Put(data) ==
    /\ Len(queue) + Len(data) <= Capacity
    /\ queue' = queue \o data
    /\ put' = data /\ got' = <<>>
    /\ rt' = Len(data)

Refuse(data) ==
    /\ Len(queue) + Len(data) > Capacity
    /\ put' = data /\ got' = <<>>
    /\ rt' = DATA_ERROR
    /\ UNCHANGED queue

Take(n) ==
    /\ n <= Len(queue)
    /\ put' = <<>> /\ got' = SubSeq(queue, 1, n)
    /\ queue' = SubSeq(queue, n + 1, Len(queue))
    /\ rt' = n

TooFew(n) ==
    /\ n > Len(queue)
    /\ put' = <<>> /\ got' = <<>>
    /\ rt' = 0
    /\ UNCHANGED queue

Next ==
    \/ \E data \in Chunk : Put(data) \/ Refuse(data)
    \/ \E n \in 1..Capacity : Take(n) \/ TooFew(n)

Spec == Init /\ [][Next]_<<queue, put, got, rt>>
=============================================================================
