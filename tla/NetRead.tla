------------------------------ MODULE NetRead ------------------------------
(***************************************************************************)
(* The read path of prj-MDKServer: execute_work calls network_read for     *)
(* ever; each call runs check_accpet_client, then one recv per connected   *)
(* client, and hands what it received to check_net_frm_valid, which keeps  *)
(* it in the receive ring and takes at most one frame out of it for        *)
(* extract_net_frm and the dispatcher.                                     *)
(*                                                                         *)
(* A byte is a cell <<frame, offset>>, so that the model can tell where it *)
(* came from; the frames are those gen_net_frm builds.                     *)
(***************************************************************************)
EXTENDS Integers, SequencesExt, FiniteSetsExt

CONSTANTS
    Conn,           \* the connections clients may open, each once
    MaxConn,        \* the largest max_conn given to network_init
    FrmSize,        \* FRM_BUFFER_SIZE: the longest frame, the longest recv
    LenAt,          \* bytes of head and type
    LenBytes,       \* bytes of the payload length
    MidBytes,       \* bytes of index and remain
    TailBytes,      \* bytes of crc and end
    PayloadLen,     \* the payload lengths clients use
    FrameType,      \* the frame types clients use
    Window,         \* frames a client sends ahead of the dispatcher
    MaxFrames,      \* bound: frames sent in a behaviour
    StartPos,       \* where the cursors may stand: 0, or further after earlier traffic
    None,           \* an empty entry of client_info, a byte never received
    Torn            \* a frame put together from the bytes of two

SaveSize == 4 * FrmSize     \* SAVE_FRM_BUFFER_SIZE
HeadBytes == LenAt + LenBytes + MidBytes
FrameBytes(len) == HeadBytes + len + TailBytes

ASSUME LayoutAssumption ==
    /\ {FrmSize, LenAt, LenBytes, TailBytes, MaxConn, Window} \subseteq Nat \ {0}
    /\ MidBytes \in Nat /\ MaxFrames \in Nat
    /\ LenAt + LenBytes <= FrmSize
    /\ PayloadLen \subseteq Nat \ {0}
    /\ \A len \in PayloadLen : FrameBytes(len) <= FrmSize
    /\ FrameType \subseteq {"data", "control"}
    /\ None \notin Conn

LinkState == {"none", "up", "fin", "reset", "broken", "dead", "timedout", "closed"}

Nothing == <<None, 0>>  \* what static storage holds

Frame == [conn : Conn, num : Nat \ {0}, len : PayloadLen, type : FrameType]
Cell == (Frame \X (0..FrmSize)) \cup {Nothing}

INSTANCE SaveBuffer WITH Byte <- Cell

ASSUME StartAssumption == StartPos \subseteq Index
ASSUME HistoryAssumption == None \notin Frame /\ Torn \notin Frame

\* gen_net_frm: the bytes of one frame
FrameCells(f) == [k \in 1..FrameBytes(f.len) |-> <<f, k - 1>>]

Slot == 1..MaxConn
Accept == 0     \* pc in check_accpet_client

VARIABLES
    \* the clients and the kernel's side of the sockets
    link,       \* "none", "up", "fin" after the peer's FIN, "reset" and "broken" with an
                \* error to report, "dead" after that, "timedout", "closed" by the server
    backlog,    \* connections waiting to be accepted
    wire,       \* bytes of a connection that recv has not taken
    sent,       \* frames each client has sent
    \* the server
    client_max_size,    \* the entries in use of client_info
    client_info,    \* the socket in each entry, or None
    client_size,    \* the local of network_read
    pc,             \* where network_read is: Accept, or the entry it is at
    buf,            \* net_save_buffer
    dispatched,     \* frames handed to the dispatcher or to execute_work
    \* history
    arrived,    \* frames whose last byte recv has taken, in that order
    taken,      \* the byte of each client that recv took last
    torn,       \* a connection ended inside a frame, or two were inside one at once
    overrun     \* write_tmp_buffer refused a chunk

client == <<link, backlog, wire, sent>>
history == <<arrived, taken, torn, overrun>>
vars == <<client, client_info, client_max_size, client_size, pc, buf, dispatched, history>>

Entries == 1..client_max_size
InUse == {i \in Entries : client_info[i] # None}
Answered(c) == Cardinality({k \in DOMAIN dispatched : dispatched[k] # Torn /\ dispatched[k].conn = c})
\* The byte is the last of its frame.
LastByte(cell) == cell[2] + 1 = FrameBytes(cell[1].len)

\* recv is in the middle of a frame of the client.
Inside(c) == taken[c] # Nothing /\ ~LastByte(taken[c])

NumSent == MapThenSumSet(LAMBDA c : Len(sent[c]), Conn)

\* The program before network_init
Boot ==
    /\ link = [c \in Conn |-> "none"]
    /\ backlog = <<>>
    /\ wire = [c \in Conn |-> <<>>]
    /\ sent = [c \in Conn |-> <<>>]
    /\ client_info = [i \in Slot |-> None]
    /\ client_size = 0
    /\ pc = Accept
    /\ \E start \in StartPos :
          buf = [ring |-> [i \in Index |-> Nothing], wpos |-> start, rpos |-> start, size |-> 0]
    /\ dispatched = <<>>
    /\ arrived = <<>>
    /\ taken = [c \in Conn |-> Nothing]
    /\ torn = FALSE
    /\ overrun = FALSE

\* network_init has succeeded.
Init == Boot /\ client_max_size = MaxConn

-----------------------------------------------------------------------------
(* The clients and the network (outside src/). *)

Connect(c) ==
    /\ link[c] = "none"
    /\ link' = [link EXCEPT ![c] = "up"]
    /\ backlog' = Append(backlog, c)
    /\ UNCHANGED <<wire, sent, client_info, client_size, pc, buf, dispatched, history, client_max_size>>

Send(c) ==
    /\ link[c] = "up"
    /\ NumSent < MaxFrames
    /\ Len(sent[c]) - Answered(c) < Window
    /\ \E len \in PayloadLen, type \in FrameType :
          LET f == [conn |-> c, num |-> Len(sent[c]) + 1, len |-> len, type |-> type]
          IN  /\ sent' = [sent EXCEPT ![c] = Append(@, f)]
              /\ wire' = [wire EXCEPT ![c] = @ \o FrameCells(f)]
    /\ UNCHANGED <<link, backlog, client_info, client_size, pc, buf, dispatched, history, client_max_size>>

\* The client closes, dies or loses its link; bytes still under way may be lost.
Hangup(c) ==
    /\ link[c] = "up"
    /\ \E how \in {"fin", "reset", "timedout"} : link' = [link EXCEPT ![c] = how]
    /\ \E n \in 0..Len(wire[c]) : wire' = [wire EXCEPT ![c] = SubSeq(@, 1, n)]
    /\ UNCHANGED <<backlog, sent, client_info, client_size, pc, buf, dispatched, history, client_max_size>>

-----------------------------------------------------------------------------
(* network_read *)

Close(c) ==
    /\ link' = [link EXCEPT ![c] = "closed"]
    /\ wire' = [wire EXCEPT ![c] = <<>>]

\* Mutant: the loop goes one entry too far.
After_OneMore(i) == IF i > client_max_size THEN Accept ELSE i + 1

\* Where network_read is after it has dealt with entry i.
After(i) == IF i = client_max_size THEN Accept ELSE i + 1

\* Return with no client, or start the loop over the entries.
Enter(n) ==
    /\ client_size' = n
    /\ pc' = IF n = 0 THEN Accept ELSE 1

\* check_accpet_client: no connection is waiting
AcceptNone ==
    /\ pc = Accept
    /\ backlog = <<>>
    /\ Enter(Cardinality(InUse))
    /\ UNCHANGED <<client, client_info, buf, dispatched, history, client_max_size>>

\* check_accpet_client: the table is full, or a socket option is refused
AcceptRefuse ==
    /\ pc = Accept
    /\ backlog # <<>>
    /\ Close(Head(backlog))
    /\ backlog' = Tail(backlog)
    /\ Enter(Cardinality(InUse))
    /\ UNCHANGED <<sent, client_info, buf, dispatched, history, client_max_size>>

\* check_accpet_client: the connection gets the first empty entry
AcceptClient ==
    /\ pc = Accept
    /\ backlog # <<>>
    /\ \E empty_index \in Entries \ InUse :
          /\ \A i \in Entries \ InUse : empty_index <= i
          /\ client_info' = [client_info EXCEPT ![empty_index] = Head(backlog)]
    /\ backlog' = Tail(backlog)
    /\ Enter(Cardinality(InUse) + 1)
    /\ UNCHANGED <<link, wire, sent, buf, dispatched, history, client_max_size>>

SkipEmpty ==
    /\ pc \in Slot
    /\ client_info[pc] = None
    /\ pc' = After(pc)
    /\ UNCHANGED <<client, client_info, client_size, buf, dispatched, history, client_max_size>>

\* recv times out after a second (EAGAIN) or is interrupted (EINTR)
RecvNothing(c) ==
    /\ wire[c] = <<>>
    /\ link[c] = "up"
    /\ pc' = After(pc)
    /\ UNCHANGED <<client, client_info, client_size, buf, dispatched, history, client_max_size>>

\* recv reports any other error once: logged, the entry kept
RecvError(c) ==
    /\ wire[c] = <<>>
    /\ link[c] \in {"reset", "broken"}
    /\ link' = [link EXCEPT ![c] = "dead"]
    /\ pc' = After(pc)
    /\ UNCHANGED <<backlog, wire, sent, client_info, client_size, buf, dispatched, history, client_max_size>>

\* recv returns 0 or ETIMEDOUT: the entry is cleared, and the call returns
\* when it was the last client.  With a client left, the 0-byte case goes on to
\* check_net_frm_valid, which refuses 0 bytes: the next entry either way.
\* Mutant: client_size is not counted down.
RecvEnd_NoDecrement(c) ==
    /\ wire[c] = <<>>
    /\ link[c] \in {"fin", "timedout", "dead"}
    /\ Close(c)
    /\ client_info' = [client_info EXCEPT ![pc] = None]
    /\ pc' = After(pc)
    /\ torn' = (torn \/ Inside(c))
    /\ UNCHANGED <<backlog, sent, client_size, buf, dispatched, arrived, taken, overrun, client_max_size>>

\* Mutant: the ring is emptied with the connection, frames that wait included.
RecvEnd_ClearsRing(c) ==
    /\ wire[c] = <<>>
    /\ link[c] \in {"fin", "timedout", "dead"}
    /\ Close(c)
    /\ client_info' = [client_info EXCEPT ![pc] = None]
    /\ client_size' = client_size - 1
    /\ pc' = IF client_size - 1 <= 0 THEN Accept ELSE After(pc)
    /\ torn' = (torn \/ Inside(c))
    /\ buf' = [buf EXCEPT !.size = 0, !.rpos = buf.wpos]
    /\ UNCHANGED <<backlog, sent, dispatched, arrived, taken, overrun, client_max_size>>

RecvEnd(c) ==
    /\ wire[c] = <<>>
    /\ link[c] \in {"fin", "timedout", "dead"}
    /\ Close(c)
    /\ client_info' = [client_info EXCEPT ![pc] = None]
    /\ client_size' = client_size - 1
    /\ pc' = IF client_size - 1 <= 0 THEN Accept ELSE After(pc)
    /\ torn' = (torn \/ Inside(c))
    /\ UNCHANGED <<backlog, sent, buf, dispatched, arrived, taken, overrun, client_max_size>>

\* The payload lengths the length field may be read as: the length of the frame
\* when it holds that frame's field, any when it holds other bytes.
DecodeLength(cells) ==
    LET f == cells[1][1]
    IN  IF f # None /\ cells = SubSeq(FrameCells(f), LenAt + 1, LenAt + LenBytes)
        THEN {f.len} ELSE PayloadLen

\* write_tmp_buffer as check_net_frm_valid calls it: the result is not looked at
Stored(chunk) == IF CanWrite(buf, Len(chunk)) THEN Written(buf, chunk) ELSE buf

\* extract_net_frm: head first, crc and end last; what lies between is payload
ValidFrame(cells) ==
    /\ cells[1][1] # None /\ cells[1][2] = 0
    /\ LET last == cells[Len(cells)]
       IN  last[1] # None /\ LastByte(last)

Extracted(cells) ==
    IF cells = FrameCells(cells[1][1]) THEN cells[1][1] ELSE Torn

FrameTypeOf(cells) == cells[1][1].type

\* check_net_frm_valid, extract_net_frm and the dispatch, on what recv returned
HandleChunk(chunk) ==
    LET b == Stored(chunk)
        \* DATA_ERROR or 0 from check_net_frm_valid, or a frame that is refused
        Continue == pc' = After(pc) /\ UNCHANGED dispatched
    IN  \/ /\ b.size < LenAt + LenBytes
           /\ buf' = b
           /\ Continue
        \/ /\ b.size >= LenAt + LenBytes
           /\ \E len \in DecodeLength(LengthField(b)) :
                 LET pos == FrameBytes(len)
                     cells == ReadBytes(b, pos)
                 IN  \/ /\ ~CanRead(b, pos)
                        /\ buf' = b
                        /\ Continue
                     \/ /\ CanRead(b, pos)
                        /\ buf' = Consumed(b, pos)
                        /\ \/ ~ValidFrame(cells) /\ Continue
                           \/ /\ ValidFrame(cells)
                              /\ dispatched' = Append(dispatched, Extracted(cells))
                              /\ pc' = IF FrameTypeOf(cells) = "data"
                                       THEN Accept ELSE After(pc)

\* The history of what recv took: the frames that end in the n bytes it takes now,
\* at most one when they start inside a frame and are no longer than a frame, but
\* several when the frames are short.
Ended(c, n) ==
    LET first == wire[c][1]
        last == wire[c][n]
    IN  SubSeq(sent[c], first[1].num, IF LastByte(last) THEN last[1].num ELSE last[1].num - 1)

RecvData(c) ==
    /\ \E n \in 1..Len(wire[c]) :
          LET chunk == SubSeq(wire[c], 1, n)
              last == chunk[n]
          IN  /\ n <= FrmSize
              /\ wire' = [wire EXCEPT ![c] = SubSeq(@, n + 1, Len(@))]
              /\ HandleChunk(chunk)
              /\ arrived' = arrived \o Ended(c, n)
              /\ taken' = [taken EXCEPT ![c] = last]
              /\ overrun' = (overrun \/ ~CanWrite(buf, n))
    /\ torn' = (torn \/ \E d \in Conn \ {c} : Inside(d))
    /\ UNCHANGED <<link, backlog, sent, client_info, client_size, client_max_size>>

Recv ==
    /\ pc \in Slot
    /\ client_info[pc] # None
    /\ LET c == client_info[pc]
       IN  RecvNothing(c) \/ RecvError(c) \/ RecvEnd(c) \/ RecvData(c)

network_read == AcceptNone \/ AcceptRefuse \/ AcceptClient \/ SkipEmpty \/ Recv

Next ==
    \/ \E c \in Conn : Connect(c) \/ Send(c) \/ Hangup(c)
    \/ network_read

Spec == Init /\ [][Next]_vars

-----------------------------------------------------------------------------
(* Properties *)

TypeOK ==
    /\ link \in [Conn -> LinkState]
    /\ client_max_size \in 0..MaxConn
    /\ client_info \in [Slot -> Conn \cup {None}]
    /\ client_size \in 0..MaxConn
    /\ pc \in 0..client_max_size
    /\ buf \in [ring : [Index -> Cell], wpos : Index, rpos : Index, size : 0..SaveSize]

\* client_size, which network_read counts down by hand and uses to decide whether
\* to return early, is the number of entries in use; an entry in use holds a
\* connection that is not closed, and no two entries hold the same one
\* (network_op.c:228-283, 441-568).
ClientTableAgrees ==
    /\ pc \in Slot => client_size = Cardinality(InUse) /\ client_size > 0
    /\ \A i \in InUse : link[client_info[i]] # "closed"
    /\ \A i, j \in InUse : client_info[i] = client_info[j] => i = j

\* Frames that arrived whole and wait in the ring.
Waiting == SubSeq(arrived, Len(dispatched) + 1, Len(arrived))

\* The bytes received of the frame that client c is in the middle of.
Partial(c) ==
    IF Inside(c) THEN SubSeq(FrameCells(taken[c][1]), 1, taken[c][2] + 1) ELSE <<>>

\* However TCP cuts and joins the frames, and wherever the ring wraps, what was
\* dispatched is what arrived, in order and unchanged, and the ring holds exactly
\* the frames that wait followed by the beginning of the next one; unless a chunk
\* was refused by a full ring, a connection ended inside a frame, or two clients,
\* who share the ring, were inside a frame at the same time (network_op.c:618-827).
StreamIntact ==
    ~torn /\ ~overrun =>
        /\ IsPrefix(dispatched, arrived)
        /\ \A c \in Conn : (\A d \in Conn : Inside(d) => d = c) =>
              Contents(buf) = FlattenSeq([k \in 1..Len(Waiting) |-> FrameCells(Waiting[k])])
                                  \o Partial(c)

Queue == INSTANCE FrameQueue WITH spoiled <- (torn \/ overrun)

\* Seen from the clients: the frames of each connection are dispatched in the order
\* they were sent, none twice and none left out, whatever the other connections do,
\* until the stream is spoiled (network_op.c:216-315, 727-827).
ImplementsQueue == Queue!Spec

\* What a client waits for, and whether some of it will not come.
Asked(c) == IF Len(sent[c]) > Answered(c) THEN Last(sent[c]).type ELSE "none"
Lost(c) == Asked(c) # "none" /\ (wire[c] = <<>> \/ ~LastByte(Last(wire[c])))
Presence(c) == IF link[c] = "up" THEN "up" ELSE IF Lost(c) THEN "lost" ELSE "sent"

\* A value of the client in entry i, while there is one and its stream is not torn
OfClient(i, Value(_), none) ==
    IF client_info[i] = None \/ torn THEN none ELSE Value(client_info[i])

Loop == INSTANCE ReadLoop WITH
    MaxBytes <- FrmSize,
    pc <- IF torn THEN Accept ELSE pc,
    client <- [i \in Slot |-> OfClient(i, Presence, "none")],
    frame <- [i \in Slot |-> OfClient(i, Asked, "none")],
    left <- [i \in Slot |-> OfClient(i, LAMBDA c : Len(wire[c]), 0)],
    begun <- [i \in Slot |-> OfClient(i, Inside, FALSE)]

\* Clients that wait for each frame to be handled are read as ReadLoop has it: each
\* call takes from the entries in turn, a frame is handed on by the call that takes
\* its last byte, and a data frame ends the call; and each system call of network_read
\* is a step of that loop, whose fairness is then that of execute_work
\* (network_op.c:216-315).
ImplementsLoop == Loop!Spec /\ [][network_read => Loop!network_read]_vars

\* A client that waits for each frame to be handled before it sends the next
\* finds its frame dispatched by the call that receives its last byte, and never
\* fills the ring (network_op.c:727-772).
PacedNeverWaits ==
    Window = 1 /\ ~torn => ~overrun /\ Waiting = <<>>
=============================================================================
