------------------------------ MODULE ReadLoop ------------------------------
(***************************************************************************)
(* network_read as the clients wait for it, each of whom sends a frame and *)
(* lets it be handled before the next: who is read when, whatever is sent  *)
(* and for however long.  A frame is a kind and the bytes of it that recv  *)
(* has not taken; when the last is taken it is handed on.  NetRead         *)
(* implements this while no stream is torn.                                *)
(***************************************************************************)
EXTENDS Naturals

CONSTANTS
    MaxConn,    \* the entries of client_info
    MaxBytes    \* the longest frame

ASSUME LoopAssumption == {MaxConn, MaxBytes} \subseteq Nat \ {0}

Slot == 1..MaxConn
Accept == 0     \* pc in check_accpet_client
Kind == {"data", "control"}

VARIABLES
    pc,     \* where network_read is: Accept, or the entry it is at
    client, \* in each entry: "none", "up", gone and its bytes all "sent", or some "lost"
    frame,  \* the kind of frame it waits for, or "none"
    left,   \* the bytes of that frame still to be taken
    begun   \* some have been taken

vars == <<pc, client, frame, left, begun>>

Nobody == [i \in Slot |-> "none"]
Init ==
    /\ pc = Accept /\ client = Nobody /\ frame = Nobody
    /\ left = [i \in Slot |-> 0] /\ begun = [i \in Slot |-> FALSE]

\* The ring is left with parts of two frames; nothing is promised from then on.
Tear ==
    /\ pc' = Accept /\ client' = Nobody /\ frame' = Nobody
    /\ left' = [i \in Slot |-> 0] /\ begun' = [i \in Slot |-> FALSE]

-----------------------------------------------------------------------------
Send(i) ==
    /\ client[i] = "up" /\ frame[i] = "none"
    /\ \E kind \in Kind : frame' = [frame EXCEPT ![i] = kind]
    /\ \E n \in 1..MaxBytes : left' = [left EXCEPT ![i] = n]
    /\ UNCHANGED <<pc, client, begun>>

Hangup(i) ==
    /\ client[i] = "up"
    /\ \/ client' = [client EXCEPT ![i] = "sent"] /\ UNCHANGED left
       \/ /\ client' = [client EXCEPT ![i] = "lost"]
          /\ \E n \in 0..left[i] - 1 : left' = [left EXCEPT ![i] = n]
    /\ UNCHANGED <<pc, frame, begun>>

\* check_accpet_client: nobody to accept, or refused; or a client, who may have sent
\* or be gone by then, in the first empty entry
Enter(used) == pc' = IF used = {} THEN Accept ELSE 1
InUse == {i \in Slot : client[i] # "none"}

AcceptNone ==
    /\ pc = Accept
    /\ Enter(InUse)
    /\ UNCHANGED <<client, frame, left, begun>>

AcceptClient(i) ==
    /\ pc = Accept
    /\ i \notin InUse /\ 1..i-1 \subseteq InUse
    /\ \E c \in {"up", "sent", "lost"} : client' = [client EXCEPT ![i] = c]
    /\ \E kind \in Kind \cup {"none"}, n \in 0..MaxBytes :
          /\ kind = "none" => n = 0 /\ client'[i] # "lost"
          /\ n = 0 => kind = "none" \/ client'[i] = "lost"
          /\ frame' = [frame EXCEPT ![i] = kind]
          /\ left' = [left EXCEPT ![i] = n]
    /\ Enter(InUse \cup {i})
    /\ UNCHANGED begun

After(i) == IF i = MaxConn THEN Accept ELSE i + 1

\* An empty entry, a recv that times out, or an error that is only logged
Nothing(i) ==
    /\ pc = i /\ left[i] = 0
    /\ pc' = After(i)
    /\ UNCHANGED <<client, frame, left, begun>>

\* recv finds the end of the connection; without a client the call returns.
End(i) ==
    /\ pc = i /\ client[i] \in {"sent", "lost"} /\ left[i] = 0
    /\ \/ begun[i] /\ Tear
       \/ /\ ~begun[i]
          /\ client' = [client EXCEPT ![i] = "none"]
          /\ frame' = [frame EXCEPT ![i] = "none"]
          /\ pc' = IF InUse = {i} THEN Accept ELSE After(i)
          /\ UNCHANGED <<left, begun>>

\* Bytes of the frame, and not the last
TakePart(i) ==
    /\ pc = i
    /\ \E n \in 0..left[i] - 1 :
          /\ n = 0 => client[i] = "lost"
          /\ left' = [left EXCEPT ![i] = n]
    /\ begun' = [begun EXCEPT ![i] = TRUE]
    /\ pc' = After(i)
    /\ UNCHANGED <<client, frame>>

\* Mutant: the call returns after every frame.
TakeFrame_Returns(i) ==
    /\ pc = i /\ left[i] > 0 /\ client[i] # "lost"
    /\ left' = [left EXCEPT ![i] = 0]
    /\ begun' = [begun EXCEPT ![i] = FALSE]
    /\ frame' = [frame EXCEPT ![i] = "none"]
    /\ pc' = Accept
    /\ UNCHANGED client

\* The last byte: a control frame is handled and the loop goes on, a data frame is
\* returned, and the next call begins with the first entry.
TakeFrame(i) ==
    /\ pc = i /\ left[i] > 0 /\ client[i] # "lost"
    /\ left' = [left EXCEPT ![i] = 0]
    /\ begun' = [begun EXCEPT ![i] = FALSE]
    /\ frame' = [frame EXCEPT ![i] = "none"]
    /\ pc' = IF frame[i] = "data" THEN Accept ELSE After(i)
    /\ UNCHANGED client

\* All clients share the ring.
Take(i) ==
    IF \E j \in Slot \ {i} : begun[j] THEN pc = i /\ left[i] > 0 /\ Tear
                                      ELSE TakePart(i) \/ TakeFrame(i)

GoOn == AcceptNone \/ \E i \in Slot : Nothing(i) \/ End(i) \/ Take(i)
network_read == GoOn \/ \E i \in Slot : AcceptClient(i)

Next ==
    \/ \E i \in Slot : Send(i) \/ Hangup(i)
    \/ network_read

Spec == Init /\ [][Next]_vars

\* execute_work calls network_read in a loop that it never leaves; nobody need come.
FairSpec == Spec /\ WF_vars(GoOn)

-----------------------------------------------------------------------------
\* The call returns with a data frame of the entry.
Returned(i) == pc = i /\ TakeFrame(i) /\ frame[i] = "data"

\* Every client that stays is served, for however long the others send, unless data
\* frames of the entries before its own keep coming, each of which ends the call
\* before it gets to the client (network_op.c:238-312).
ServedInTurn ==
    \A i \in Slot :
        \/ []<><<\E j \in 1..i-1 : Returned(j)>>_vars
        \/ frame[i] # "none" ~> frame[i] = "none" \/ client[i] # "up"
=============================================================================
