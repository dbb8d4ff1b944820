----------------------------- MODULE FrameQueue -----------------------------
(***************************************************************************)
(* What the read path promises to clients and to the dispatcher: the       *)
(* frames of a connection are handed on one at a time, each once, in the   *)
(* order they were sent, until the stream is spoiled.                      *)
(***************************************************************************)
EXTENDS Integers, SequencesExt, FiniteSets

CONSTANTS
    Conn, PayloadLen, FrameType,
    Torn        \* what is handed on and no frame of a client

\* The frames that client c may send as its n-th.
FrameOf(c, n) == [conn : {c}, num : {n}, len : PayloadLen, type : FrameType]

VARIABLES
    sent,       \* the frames each client has sent
    dispatched, \* what was handed on
    spoiled     \* nothing is promised any more

\* How many frames of a connection were handed on.
Handled(c) == Cardinality({k \in DOMAIN dispatched : dispatched[k] # Torn /\ dispatched[k].conn = c})

Init ==
    /\ sent = [c \in Conn |-> <<>>]
    /\ dispatched = <<>>
    /\ spoiled = FALSE

Send(c) ==
    /\ \E f \in FrameOf(c, Len(sent[c]) + 1) : sent' = [sent EXCEPT ![c] = Append(@, f)]
    /\ UNCHANGED <<dispatched, spoiled>>

Handle(c) ==
    /\ ~spoiled
    /\ Handled(c) < Len(sent[c])
    /\ dispatched' = Append(dispatched, sent[c][Handled(c) + 1])
    /\ UNCHANGED <<sent, spoiled>>

\* What was handed on stays so.
Spoil ==
    /\ spoiled' = TRUE
    /\ IsPrefix(dispatched, dispatched')
    /\ UNCHANGED sent

Next == Spoil \/ \E c \in Conn : Send(c) \/ Handle(c)

Spec == Init /\ [][Next]_<<sent, dispatched, spoiled>>
=============================================================================
