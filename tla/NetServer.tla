----------------------------- MODULE NetServer -----------------------------
(***************************************************************************)
(* The network of prj-MDKServer as a whole: network_init, which may fail   *)
(* half-way and be repeated, network_read as NetRead has it with the       *)
(* answers the handler of a control frame sends, network_write, and        *)
(* network_delete.  All calls come from one thread.                        *)
(***************************************************************************)
EXTENDS NetRead

CONSTANTS
    MaxConns,       \* the values of max_conn that network_init is called with
    MaxAnswers,     \* bound: answers to one control frame
    MaxInits,       \* bound: calls of network_init that are not refused
    MaxWrites       \* bound: frames sent by network_write

ASSUME ServerAssumption == MaxConns \subseteq Slot /\ {MaxAnswers, MaxInits, MaxWrites} \subseteq Nat

VARIABLES
    init_flag,
    listenfd,   \* its socket: "none", "open", "listens"
    stray,      \* a socket that no variable holds any more still listens
    table,      \* what client_info points to: "null", "live" or "freed"
    capacity,   \* the entries that were allocated for it
    answers,    \* answers the handler has still to send
    state,      \* "up", "killed" by SIGPIPE, "undefined" after a use of what is not allocated
    inits, writes,
    remade      \* history: network_init after network_delete, or again with a larger max_conn

setup == <<init_flag, listenfd, stray, table, capacity, inits, remade>>
serverVars == <<setup, answers, state, writes>>
allVars == <<vars, serverVars>>

ServerInit ==
    /\ Boot /\ client_max_size = 0
    /\ init_flag = FALSE /\ listenfd = "none" /\ stray = FALSE
    /\ table = "null" /\ capacity = 0
    /\ answers = 0 /\ state = "up"
    /\ inits = 0 /\ writes = 0 /\ remade = FALSE

\* No call is in progress.
Between == state = "up" /\ pc = Accept /\ answers = 0

-----------------------------------------------------------------------------
(* network_init; a call while init_flag is set returns success at once. *)

\* Something listens on the port, which is the same in every call.
listening == listenfd = "listens" \/ stray

\* listenfd gets another socket; the one it had is not closed.
Replaced(socket) ==
    /\ listenfd' = socket
    /\ stray' = listening

\* Mutant: the result of bind is not looked at, and listen takes any port.
OpenSocket_BindUnchecked ==
    \/ init_flag' = FALSE /\ UNCHANGED <<listenfd, stray>>
    \/ init_flag' = FALSE /\ \E socket \in {"none", "open"} : Replaced(socket)
    \/ init_flag' \in BOOLEAN /\ Replaced("listens")

\* "udp" and unknown protocols end without a socket; socket may fail, which leaves no
\* socket, and the options, bind and listen, which leave one; bind does while another
\* socket listens on the port; and fcntl may, which leaves one that listens.
OpenSocket ==
    \/ init_flag' = FALSE /\ UNCHANGED <<listenfd, stray>>
    \/ init_flag' = FALSE /\ \E socket \in {"none", "open"} : Replaced(socket)
    \/ init_flag' \in BOOLEAN /\ ~listening /\ Replaced("listens")

\* Without a protocol or a receive buffer nothing is set up.  The table is allocated
\* once, with client_max_size set before; a failure leaves it NULL.
network_init(max_conn) ==
    /\ Between /\ ~init_flag
    /\ inits < MaxInits
    /\ inits' = inits + 1
    /\ \/ UNCHANGED <<init_flag, listenfd, stray, table, capacity, client_max_size, remade>>
       \/ /\ client_max_size' = max_conn
          /\ remade' = (remade \/ table = "freed" \/ (table = "live" /\ max_conn > capacity))
          /\ \/ table = "null" /\ UNCHANGED <<init_flag, listenfd, stray, table, capacity>>
             \/ /\ IF table = "null" THEN table' = "live" /\ capacity' = max_conn
                                     ELSE UNCHANGED <<table, capacity>>
                /\ OpenSocket
    /\ UNCHANGED <<client, client_info, client_size, pc, buf, dispatched, history,
                   answers, state, writes>>

\* The listening socket and the clients' are closed, those that wait to be accepted
\* with it.  The pointer keeps its value, and the receive ring its bytes.
network_delete ==
    /\ Between /\ init_flag
    /\ LET gone == {client_info[i] : i \in InUse} \cup {backlog[k] : k \in DOMAIN backlog}
       IN  /\ link' = [c \in Conn |-> IF c \in gone THEN "closed" ELSE link[c]]
           /\ wire' = [c \in Conn |-> IF c \in gone THEN <<>> ELSE wire[c]]
           /\ torn' = (torn \/ \E c \in gone : Inside(c))
    /\ backlog' = <<>>
    /\ client_info' = [i \in Slot |-> None]
    /\ client_max_size' = 0
    /\ table' = "freed" /\ capacity' = 0
    /\ init_flag' = FALSE /\ listenfd' = "none"
    /\ UNCHANGED <<sent, client_size, pc, buf, dispatched, arrived, taken, overrun,
                   stray, inits, remade, answers, state, writes>>

TableUsable == table = "live" /\ client_max_size <= capacity

\* check_accpet_client looks at entries that are not there: anything may happen.
UseWithoutTable ==
    /\ Between /\ init_flag /\ ~TableUsable
    /\ state' = "undefined"
    /\ UNCHANGED <<vars, setup, answers, writes>>

-----------------------------------------------------------------------------
(* Sending *)

\* send without MSG_NOSIGNAL, to one client (outside src/): the first send after the
\* peer has closed goes out, and may be answered by a reset; an error that waits is
\* returned once, the one after the peer's FIN with the signal; then comes the signal.
AfterSend(how) ==
    CASE how = "fin" -> {"fin", "broken"}
      [] how \in {"reset", "timedout"} -> {"dead"}
      [] OTHER -> {how}
Kills(how) == how \in {"broken", "dead"}

\* One message to every client in the table.
SendAll ==
    LET clients == {client_info[i] : i \in InUse}
    IN  /\ link' \in [Conn -> LinkState]
        /\ \A c \in Conn : link'[c] \in IF c \in clients THEN AfterSend(link[c]) ELSE {link[c]}
        /\ state' = IF \E c \in clients : Kills(link[c]) THEN "killed" ELSE state

\* net_resp_msg, called by the handler for an answer
net_resp_msg ==
    /\ state = "up" /\ answers > 0
    /\ answers' = answers - 1
    /\ SendAll
    /\ UNCHANGED <<backlog, wire, sent, client_info, client_max_size, client_size, pc, buf,
                   dispatched, history, setup, writes>>

\* network_write, when a client is connected and the frame is not too long
network_write ==
    /\ Between /\ init_flag /\ TableUsable
    /\ InUse # {}
    /\ writes < MaxWrites
    /\ writes' = writes + 1
    /\ SendAll
    /\ UNCHANGED <<backlog, wire, sent, client_info, client_max_size, client_size, pc, buf,
                   dispatched, history, setup, answers>>

\* network_read, up to its next system call.  The handler of a control frame sends
\* its answers before network_read goes on.
Read ==
    /\ state = "up" /\ answers = 0
    /\ init_flag /\ TableUsable
    /\ network_read
    /\ answers' \in
           IF dispatched' # dispatched /\ dispatched'[Len(dispatched')] # Torn
                  /\ dispatched'[Len(dispatched')].type = "control"
           THEN 0..MaxAnswers ELSE {0}
    /\ UNCHANGED <<setup, state, writes>>

\* A client reaches any socket that listens.
Clients ==
    /\ state = "up"
    /\ \E c \in Conn : (listening /\ Connect(c)) \/ Send(c) \/ Hangup(c)
    /\ UNCHANGED serverVars

ServerNext ==
    \/ \E max_conn \in MaxConns : network_init(max_conn)
    \/ network_delete
    \/ UseWithoutTable
    \/ Read
    \/ net_resp_msg
    \/ network_write
    \/ Clients

ServerSpec == ServerInit /\ [][ServerNext]_allVars

-----------------------------------------------------------------------------
(* Properties *)

ServerTypeOK ==
    /\ TypeOK
    /\ {init_flag, stray, remade} \subseteq BOOLEAN
    /\ listenfd \in {"none", "open", "listens"}
    /\ table \in {"null", "live", "freed"}
    /\ capacity \in 0..MaxConn
    /\ answers \in 0..MaxAnswers
    /\ state \in {"up", "killed", "undefined"}

\* However often the set-up fails, and wherever: a server whose init_flag is set has a
\* table for all its clients, unless network_init was called again after
\* network_delete, which does not reset client_info, or with more clients than before;
\* the only socket that clients reach is the one it accepts from, although a call that
\* failed in fcntl leaves one that listens (network_op.c:159-171) and the next forgets
\* it; without the flag there are no clients, and one waits only where a socket listens
\* (network_op.c:88-213).
SetupSound ==
    /\ ~remade => (init_flag => TableUsable) /\ state # "undefined"
    /\ init_flag => listenfd = "listens" /\ ~stray
    /\ ~init_flag => InUse = {}
    /\ backlog # <<>> => listening

\* network_write and the answers return whatever the clients do: network_op.h:35 has
\* "-1 write failed" for a client that cannot be written to.
SendsReturn == state # "killed"
=============================================================================
