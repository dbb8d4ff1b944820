--------------------------- MODULE NetServerProofs ---------------------------
(***************************************************************************)
(* The read path and the server around it, for any number of clients,      *)
(* entries, frames, set-ups and answers: a server that is set up can serve *)
(* (SetupIsSound); client_size, the table and the sockets agree            *)
(* (TableAgrees); what TCP cuts and joins is dispatched in order and       *)
(* unchanged (StreamStaysIntact), so that each client sees a queue         *)
(* (ReadImplementsQueue); a client that waits is served at once            *)
(* (PacedIsServed).                                                        *)
(***************************************************************************)
EXTENDS NetServer, FiniteSetTheorems, SequenceTheorems, WellFoundedInduction, TLAPS

Typed ==
    /\ link \in [Conn -> LinkState]
    /\ backlog \in Seq(Conn)
    /\ client_max_size \in 0..MaxConn
    /\ client_info \in [Slot -> Conn \cup {None}]
    /\ pc \in 0..client_max_size

\* Without the flag there are no clients and network_read is not running; with it the
\* socket that listens is that of listenfd.
Setup ==
    /\ init_flag \in BOOLEAN /\ stray \in BOOLEAN /\ remade \in BOOLEAN
    /\ listenfd \in {"none", "open", "listens"}
    /\ table \in {"null", "live", "freed"} /\ capacity \in 0..MaxConn
    /\ ~remade => (init_flag => TableUsable) /\ state # "undefined"
    /\ init_flag => listenfd = "listens" /\ ~stray
    /\ ~init_flag => pc = Accept /\ \A i \in Slot : client_info[i] = None
    /\ backlog # <<>> => listening

Alive == {"up", "fin", "reset", "broken", "dead", "timedout"}

\* A connection is in one entry or waits once to be accepted, and is not closed.
Held ==
    /\ \A i \in Slot : client_info[i] # None => i \in Entries /\ link[client_info[i]] \in Alive
    /\ \A i, j \in Slot : client_info[i] # None /\ client_info[i] = client_info[j] => i = j
    /\ \A k \in 1..Len(backlog) : link[backlog[k]] \in Alive
    /\ \A k, l \in 1..Len(backlog) : backlog[k] = backlog[l] => k = l
    /\ \A i \in Slot, k \in 1..Len(backlog) : client_info[i] # backlog[k]

\* In the loop over the entries the local counts the clients.
Counted == pc # Accept => client_size = Cardinality(InUse) /\ client_size > 0

\* What network_read keeps, whoever has set the server up.
Table == Typed /\ Held /\ Counted

Inv == Table /\ Setup

-----------------------------------------------------------------------------
LEMMA Sizes == MaxConn \in Nat /\ Slot \subseteq Nat \ {0} /\ MaxConns \subseteq 0..MaxConn
BY LayoutAssumption, ServerAssumption DEF Slot

LEMMA InUseFinite ==
    ASSUME Typed
    PROVE  /\ IsFiniteSet(InUse) /\ Cardinality(InUse) \in Nat
           /\ Cardinality(InUse) = 0 <=> InUse = {}
           /\ InUse \subseteq Slot /\ Entries \subseteq Slot
<1>1. client_max_size \in Int /\ client_max_size <= MaxConn
  BY Sizes DEF Typed
<1>2. IsFiniteSet(Entries) /\ Entries \subseteq Slot
  BY <1>1, Sizes, FS_Interval DEF Entries, Slot
<1>3. InUse \in SUBSET Entries
  BY DEF InUse
<1> QED
  BY <1>2, <1>3, FS_Subset, FS_CardinalityType, FS_EmptySet

LEMMA TailFacts ==
    ASSUME NEW S, NEW q \in Seq(S), q # <<>>
    PROVE  /\ Head(q) = q[1] /\ Head(q) \in S /\ 1 \in 1..Len(q)
           /\ Tail(q) \in Seq(S) /\ Len(Tail(q)) = Len(q) - 1
           /\ \A k \in 1..Len(Tail(q)) : Tail(q)[k] = q[k + 1] /\ k + 1 \in 1..Len(q)
OBVIOUS

LEMMA AppendFacts ==
    ASSUME NEW S, NEW q \in Seq(S), NEW x \in S
    PROVE  /\ Append(q, x) \in Seq(S) /\ Len(Append(q, x)) = Len(q) + 1
           /\ Append(q, x)[Len(q) + 1] = x
           /\ \A k \in 1..Len(q) : Append(q, x)[k] = q[k]
OBVIOUS

LEMMA BootTable ==
    ASSUME Boot, client_max_size \in 0..MaxConn
    PROVE  Table
<1> USE DEF Boot
<1>1. Typed
  BY Sizes DEF Typed, LinkState, Accept
<1>2. Held /\ Counted
  BY DEF Held, Counted
<1> QED
  BY <1>1, <1>2 DEF Table

LEMMA InitInv == ServerInit => Inv
<1> SUFFICES ASSUME ServerInit PROVE Inv
  OBVIOUS
<1>1. 0 \in 0..MaxConn
  BY Sizes
<1>2. Table
  BY <1>1, BootTable DEF ServerInit
<1>3. Setup
  BY <1>1 DEF ServerInit, Boot, Setup
<1> QED
  BY <1>2, <1>3 DEF Inv

\* Only network_read and network_delete change what the entries hold: a step that
\* keeps backlog and entries, and closes nothing, keeps Held and Counted.
LEMMA LinksChange ==
    ASSUME Table, UNCHANGED <<backlog, client_info, client_max_size, client_size, pc>>,
           link' \in [Conn -> LinkState],
           \A c \in Conn : link[c] \in Alive => link'[c] \in Alive
    PROVE  Typed' /\ Held' /\ Counted'
<1>1. Typed'
  BY DEF Table, Typed
<1>2. Counted'
  BY DEF Table, Counted, InUse, Entries
<1>3. \A i \in Slot : client_info[i] # None => client_info[i] \in Conn
  BY DEF Table, Typed
<1>4. \A k \in 1..Len(backlog) : backlog[k] \in Conn
  BY DEF Table, Typed
<1>5. Held'
  BY <1>3, <1>4 DEF Table, Held, Entries
<1> QED
  BY <1>1, <1>2, <1>5

-----------------------------------------------------------------------------
LEMMA SocketKeeps ==
    ASSUME Setup, ~init_flag, OpenSocket
    PROVE  /\ init_flag' \in BOOLEAN /\ stray' \in BOOLEAN
           /\ listenfd' \in {"none", "open", "listens"}
           /\ init_flag' => listenfd' = "listens" /\ ~stray'
           /\ listening => listening'
BY DEF OpenSocket, Replaced, listening, Setup

LEMMA InitKeeps ==
    ASSUME Inv, NEW max_conn \in MaxConns, network_init(max_conn)
    PROVE  Inv'
<1>1. max_conn \in 0..MaxConn /\ ~init_flag /\ pc = Accept
  BY Sizes DEF network_init, Between
<1>2. /\ UNCHANGED <<link, backlog, client_info, client_size, pc, state>>
      /\ client_max_size' \in {client_max_size, max_conn}
  BY DEF network_init, client
<1>3. \A i \in Slot : client_info[i] = None
  BY <1>1 DEF Inv, Setup
<1>4. Typed'
  BY <1>1, <1>2 DEF Inv, Table, Typed, Accept
<1>5. \/ UNCHANGED <<init_flag, listenfd, stray>>
      \/ OpenSocket /\ client_max_size' = max_conn
         /\ IF table = "null" THEN table' = "live" /\ capacity' = max_conn
                              ELSE UNCHANGED <<table, capacity>>
         /\ remade' = (remade \/ table = "freed" \/ (table = "live" /\ max_conn > capacity))
  BY DEF network_init
<1>6. /\ init_flag' \in BOOLEAN /\ stray' \in BOOLEAN
      /\ listenfd' \in {"none", "open", "listens"}
      /\ init_flag' => listenfd' = "listens" /\ ~stray'
      /\ listening => listening'
  <2>1. CASE UNCHANGED <<init_flag, listenfd, stray>>
    BY <2>1 DEF Inv, Setup, listening
  <2>2. CASE OpenSocket
    BY <1>1, <2>2, SocketKeeps DEF Inv
  <2> QED
    BY <1>5, <2>1, <2>2
<1>7. remade' \in BOOLEAN /\ (~remade' => ~remade)
  <2>1. remade \in BOOLEAN
    BY DEF Inv, Setup
  <2>2. CASE remade' = remade
    BY <2>1, <2>2
  <2>3. CASE remade' = (remade \/ table = "freed" \/ (table = "live" /\ max_conn > capacity))
    BY <2>1, <2>3
  <2> QED
    BY <2>2, <2>3 DEF network_init
<1>8. table' \in {"null", "live", "freed"} /\ capacity' \in 0..MaxConn
  BY <1>1 DEF network_init, Inv, Setup
<1>9. ASSUME ~remade', init_flag' PROVE TableUsable'
  <2>1. /\ client_max_size' = max_conn
        /\ IF table = "null" THEN table' = "live" /\ capacity' = max_conn
                             ELSE UNCHANGED <<table, capacity>>
        /\ table # "freed" /\ ~(table = "live" /\ max_conn > capacity)
    BY <1>1, <1>5, <1>9
  <2>2. table \in {"null", "live", "freed"} /\ capacity \in Int /\ max_conn \in Int
    BY <1>1, Sizes DEF Inv, Setup
  <2> QED
    BY <2>1, <2>2 DEF TableUsable
<1>10. backlog' # <<>> => listening'
  BY <1>2, <1>6 DEF Inv, Setup
<1>11. Setup'
  BY <1>1, <1>2, <1>3, <1>6, <1>7, <1>8, <1>9, <1>10 DEF Inv, Setup
<1>12. Held' /\ Counted'
  BY <1>1, <1>2, <1>3 DEF Inv, Table, Held, Counted
<1> QED
  BY <1>4, <1>11, <1>12 DEF Inv, Table

LEMMA DeleteKeeps ==
    ASSUME Inv, network_delete
    PROVE  Inv'
<1>1. /\ pc' = Accept /\ backlog' = <<>> /\ client_max_size' = 0
      /\ client_info' = [i \in Slot |-> None]
      /\ ~init_flag' /\ listenfd' = "none" /\ init_flag' \in BOOLEAN
      /\ UNCHANGED <<stray, remade, state>>
      /\ table' = "freed" /\ capacity' = 0
  BY DEF network_delete, Between
<1>2. link' \in [Conn -> LinkState]
  BY DEF network_delete, Inv, Table, Typed, LinkState
<1>3. Typed'
  BY <1>1, <1>2, Sizes DEF Typed, Accept
<1> QED
  BY <1>1, <1>3, Sizes DEF Inv, Table, Setup, Held, Counted

LEMMA SendKeeps ==
    ASSUME Inv, net_resp_msg \/ network_write
    PROVE  Inv'
<1>1. SendAll /\ UNCHANGED <<backlog, client_info, client_max_size, client_size, pc, setup>>
  BY DEF net_resp_msg, network_write
<1>2. link' \in [Conn -> LinkState] /\ \A c \in Conn : link[c] \in Alive => link'[c] \in Alive
  BY <1>1 DEF SendAll, AfterSend, Alive
<1>3. Typed' /\ Held' /\ Counted'
  BY <1>1, <1>2, LinksChange DEF Inv
<1>4. state' \in {state, "killed"}
  BY <1>1 DEF SendAll
<1>5. Setup'
  BY <1>1, <1>4 DEF Inv, Table, Setup, setup, TableUsable, listening
<1> QED
  BY <1>3, <1>5 DEF Inv, Table

LEMMA MisuseKeeps ==
    ASSUME Inv, UseWithoutTable
    PROVE  Inv'
<1>1. UNCHANGED <<link, backlog, client_info, client_max_size, client_size, pc, setup>>
  BY DEF UseWithoutTable, vars, client
<1>2. Typed' /\ Held' /\ Counted'
  BY <1>1, LinksChange DEF Inv, Table, Typed
<1>3. Setup'
  BY <1>1 DEF UseWithoutTable, Inv, Setup, setup, TableUsable, listening
<1> QED
  BY <1>2, <1>3 DEF Inv, Table

LEMMA ClientsTable ==
    ASSUME Table, NEW c \in Conn, Connect(c) \/ Send(c) \/ Hangup(c)
    PROVE  Typed' /\ Held' /\ Counted'
<1>1. UNCHANGED <<client_info, client_max_size, client_size, pc>>
  BY DEF Connect, Send, Hangup
<1>2. CASE Send(c) \/ Hangup(c)
  <2>1. backlog' = backlog
    BY <1>2 DEF Send, Hangup
  <2>2. link' \in [Conn -> LinkState] /\ \A d \in Conn : link[d] \in Alive => link'[d] \in Alive
    BY <1>2 DEF Send, Hangup, Table, Typed, LinkState, Alive
  <2> QED
    BY <1>1, <2>1, <2>2, LinksChange
<1>3. CASE Connect(c)
  <2>1. link[c] = "none" /\ link' = [link EXCEPT ![c] = "up"] /\ backlog' = Append(backlog, c)
    BY <1>3 DEF Connect
  <2>2. backlog \in Seq(Conn) /\ \A k \in 1..Len(backlog) : backlog[k] \in Conn
    BY DEF Table, Typed
  <2>3. /\ backlog' \in Seq(Conn) /\ Len(backlog') = Len(backlog) + 1
        /\ backlog'[Len(backlog) + 1] = c
        /\ \A k \in 1..Len(backlog) : backlog'[k] = backlog[k]
    BY <2>1, <2>2, AppendFacts
  <2>4. Typed'
    BY <1>1, <2>1, <2>3 DEF Table, Typed, LinkState
  <2>5. /\ \A i \in Slot : client_info[i] # None => client_info[i] \in Conn \ {c}
        /\ \A k \in 1..Len(backlog) : backlog[k] # c
    BY <2>1, <2>2 DEF Table, Typed, Held, Alive
  <2>6. link'[c] \in Alive /\ \A d \in Conn \ {c} : link'[d] = link[d]
    BY <2>1 DEF Table, Typed, Alive
  <2>7. Len(backlog) \in Nat
    BY <2>2
  <2>8. Held'
    <3>1. \A i \in Slot : client_info'[i] # None => i \in Entries' /\ link'[client_info'[i]] \in Alive
      BY <1>1, <2>5, <2>6 DEF Table, Held, Entries
    <3>2. \A i, j \in Slot : client_info'[i] # None /\ client_info'[i] = client_info'[j] => i = j
      BY <1>1 DEF Table, Held
    <3>3. \A k \in 1..Len(backlog') : k = Len(backlog) + 1 \/ k \in 1..Len(backlog)
      BY <2>3, <2>7
    <3>4. \A k \in 1..Len(backlog') : link'[backlog'[k]] \in Alive
      BY <2>2, <2>3, <2>5, <2>6, <3>3 DEF Table, Held
    <3>5. \A k, l \in 1..Len(backlog') : backlog'[k] = backlog'[l] => k = l
      BY <2>3, <2>5, <3>3 DEF Table, Held
    <3>6. \A i \in Slot, k \in 1..Len(backlog') : client_info'[i] # backlog'[k]
      BY <1>1, <2>3, <2>5, <3>3, LayoutAssumption DEF Table, Held
    <3> QED
      BY <3>1, <3>2, <3>4, <3>5, <3>6 DEF Held
  <2>9. Counted'
    BY <1>1 DEF Table, Counted, InUse, Entries
  <2> QED
    BY <2>4, <2>8, <2>9
<1> QED
  BY <1>2, <1>3

LEMMA ClientsKeep ==
    ASSUME Inv, Clients
    PROVE  Inv'
<1>1. UNCHANGED <<client_info, client_max_size, client_size, pc, setup, state>>
  BY DEF Clients, Connect, Send, Hangup, serverVars
<1>2. PICK c \in Conn : (listening /\ Connect(c)) \/ Send(c) \/ Hangup(c)
  BY DEF Clients
<1>3. Typed' /\ Held' /\ Counted'
  BY <1>2, ClientsTable DEF Inv
<1>4. backlog' = backlog \/ listening
  BY <1>2 DEF Send, Hangup
<1>5. Setup'
  BY <1>1, <1>4 DEF Inv, Setup, setup, TableUsable, listening
<1> QED
  BY <1>3, <1>5 DEF Inv, Table

-----------------------------------------------------------------------------
(* network_read *)

\* A step that only goes on in the loop, or returns from it.
LEMMA GoesOn ==
    ASSUME Table, UNCHANGED <<backlog, client_info, client_max_size, client_size>>,
           link' \in [Conn -> LinkState],
           \A c \in Conn : link[c] \in Alive => link'[c] \in Alive,
           pc # Accept, pc' \in {Accept, After(pc)}
    PROVE  Typed' /\ Held' /\ Counted'
<1>1. pc' \in 0..client_max_size
  BY Sizes DEF Table, Typed, After, Accept
<1>2. Typed'
  BY <1>1 DEF Table, Typed
<1>3. Counted'
  BY DEF Table, Counted, InUse, Entries
<1>4. \A i \in Slot : client_info[i] # None => client_info[i] \in Conn
  BY DEF Table, Typed
<1>5. \A k \in 1..Len(backlog) : backlog[k] \in Conn
  BY DEF Table, Typed
<1>6. Held'
  BY <1>4, <1>5 DEF Table, Held, Entries
<1> QED
  BY <1>2, <1>3, <1>6

LEMMA AcceptNoneKeeps ==
    ASSUME Table, AcceptNone
    PROVE  Typed' /\ Held' /\ Counted'
<1>1. /\ UNCHANGED <<link, backlog, client_info, client_max_size>>
      /\ Enter(Cardinality(InUse))
  BY DEF AcceptNone, client
<1>2. Cardinality(InUse) \in Nat /\ (Cardinality(InUse) # 0 => client_max_size >= 1)
  <2>1. InUse # {} => client_max_size >= 1
    BY Sizes DEF Table, Typed, InUse, Entries
  <2> QED
    BY <2>1, InUseFinite DEF Table
<1>3. Typed'
  BY <1>1, <1>2 DEF Table, Typed, Enter, Accept
<1>4. InUse' = InUse
  BY <1>1 DEF InUse, Entries
<1>5. Counted'
  BY <1>1, <1>2, <1>4 DEF Enter, Counted, Accept
<1>6. Held'
  BY <1>1 DEF Table, Held, Entries
<1> QED
  BY <1>3, <1>5, <1>6

LEMMA AcceptRefuseKeeps ==
    ASSUME Table, AcceptRefuse
    PROVE  Typed' /\ Held' /\ Counted'
<1>1. /\ UNCHANGED <<client_info, client_max_size>>
      /\ Enter(Cardinality(InUse))
      /\ backlog # <<>> /\ backlog' = Tail(backlog)
      /\ link' = [link EXCEPT ![Head(backlog)] = "closed"]
  BY DEF AcceptRefuse, Close
<1>2. Cardinality(InUse) \in Nat /\ (Cardinality(InUse) # 0 => client_max_size >= 1)
  <2>1. InUse # {} => client_max_size >= 1
    BY Sizes DEF Table, Typed, InUse, Entries
  <2> QED
    BY <2>1, InUseFinite DEF Table
<1>3. backlog \in Seq(Conn)
  BY DEF Table, Typed
<1>4. /\ Head(backlog) = backlog[1] /\ Head(backlog) \in Conn /\ 1 \in 1..Len(backlog)
      /\ backlog' \in Seq(Conn) /\ Len(backlog') = Len(backlog) - 1
      /\ \A k \in 1..Len(backlog') : backlog'[k] = backlog[k + 1] /\ k + 1 \in 1..Len(backlog)
  BY <1>1, <1>3, TailFacts
<1>5. Typed'
  BY <1>1, <1>2, <1>4 DEF Table, Typed, Enter, Accept, LinkState
<1>6. Counted'
  <2>1. InUse' = InUse
    BY <1>1 DEF InUse, Entries
  <2> QED
    BY <1>1, <1>2, <2>1 DEF Enter, Counted, Accept
<1>7. /\ \A i \in Slot : client_info[i] # Head(backlog)
      /\ \A k \in 1..Len(backlog') : backlog'[k] # Head(backlog)
  BY <1>4 DEF Table, Held
<1>8. \A c \in Conn \ {Head(backlog)} : link'[c] = link[c]
  BY <1>1 DEF Table, Typed
<1>9. Held'
  <2>1. \A i \in Slot : client_info[i] # None => client_info[i] \in Conn
    BY DEF Table, Typed
  <2>2. \A k \in 1..Len(backlog') : backlog'[k] \in Conn
    BY <1>4
  <2>3. \A k, l \in 1..Len(backlog') : backlog'[k] = backlog'[l] => k = l
    BY <1>3, <1>4 DEF Table, Held
  <2>4. \A k \in 1..Len(backlog') : link'[backlog'[k]] \in Alive
    BY <1>4, <1>7, <1>8, <2>2 DEF Table, Held
  <2>5. \A i \in Slot : client_info[i] # None => i \in Entries /\ link'[client_info[i]] \in Alive
    BY <1>7, <1>8, <2>1 DEF Table, Held
  <2>6. \A i \in Slot, k \in 1..Len(backlog') : client_info[i] # backlog'[k]
    BY <1>4 DEF Table, Held
  <2>7. \A i, j \in Slot : client_info[i] # None /\ client_info[i] = client_info[j] => i = j
    BY DEF Table, Held
  <2> QED
    BY <1>1, <2>3, <2>4, <2>5, <2>6, <2>7 DEF Held, Entries
<1> QED
  BY <1>5, <1>6, <1>9

LEMMA AcceptClientKeeps ==
    ASSUME Table, AcceptClient
    PROVE  Typed' /\ Held' /\ Counted'
<1>1. PICK e \in Entries \ InUse : client_info' = [client_info EXCEPT ![e] = Head(backlog)]
  BY DEF AcceptClient
<1>2. /\ UNCHANGED <<link, client_max_size>>
      /\ Enter(Cardinality(InUse) + 1)
      /\ backlog # <<>> /\ backlog' = Tail(backlog)
  BY DEF AcceptClient
<1>3. backlog \in Seq(Conn)
  BY DEF Table, Typed
<1>4. /\ Head(backlog) = backlog[1] /\ Head(backlog) \in Conn /\ 1 \in 1..Len(backlog)
      /\ backlog' \in Seq(Conn) /\ Len(backlog') = Len(backlog) - 1
      /\ \A k \in 1..Len(backlog') : backlog'[k] = backlog[k + 1] /\ k + 1 \in 1..Len(backlog)
  BY <1>2, <1>3, TailFacts
<1>5. e \in Slot /\ e \in 1..client_max_size /\ client_info[e] = None
  BY <1>1, InUseFinite DEF Table, InUse, Entries
<1>6. client_info'[e] = Head(backlog) /\ \A i \in Slot \ {e} : client_info'[i] = client_info[i]
  BY <1>1, <1>5 DEF Table, Typed
<1>7. InUse' = InUse \cup {e}
  BY <1>2, <1>4, <1>5, <1>6, LayoutAssumption, InUseFinite DEF Table, InUse, Entries
<1>8. Cardinality(InUse') = Cardinality(InUse) + 1 /\ Cardinality(InUse) \in Nat
  BY <1>1, <1>7, InUseFinite, FS_AddElement DEF Table
<1>9. Typed'
  BY <1>1, <1>2, <1>4, <1>5, <1>8 DEF Table, Typed, Enter, Accept
<1>10. Counted'
  BY <1>2, <1>8 DEF Enter, Counted, Accept
<1>11. Held'
  <2>1. \A i \in Slot : client_info[i] # Head(backlog)
    BY <1>4 DEF Table, Held
  <2>2. \A k \in 1..Len(backlog') : backlog'[k] # Head(backlog)
    BY <1>4 DEF Table, Held
  <2>3. link[Head(backlog)] \in Alive
    BY <1>4 DEF Table, Held
  <2>4. \A i \in Slot : client_info'[i] # None => i \in Entries /\ link[client_info'[i]] \in Alive
    BY <1>5, <1>6, <2>3 DEF Table, Held, Entries
  <2>5. \A i, j \in Slot : client_info'[i] # None /\ client_info'[i] = client_info'[j] => i = j
    BY <1>5, <1>6, <2>1 DEF Table, Held
  <2>6. \A k \in 1..Len(backlog') : link[backlog'[k]] \in Alive
    BY <1>4 DEF Table, Held
  <2>7. \A k, l \in 1..Len(backlog') : backlog'[k] = backlog'[l] => k = l
    BY <1>3, <1>4 DEF Table, Held
  <2>8. \A i \in Slot, k \in 1..Len(backlog') : client_info'[i] # backlog'[k]
    BY <1>4, <1>6, <2>2 DEF Table, Held
  <2> QED
    BY <1>2, <2>4, <2>5, <2>6, <2>7, <2>8 DEF Held, Entries
<1> QED
  BY <1>9, <1>10, <1>11

LEMMA RecvEndKeeps ==
    ASSUME Table, pc \in Slot, client_info[pc] # None, RecvEnd(client_info[pc])
    PROVE  Typed' /\ Held' /\ Counted'
<1> DEFINE c == client_info[pc]
<1>1. /\ UNCHANGED <<backlog, client_max_size>>
      /\ link' = [link EXCEPT ![c] = "closed"]
      /\ client_info' = [client_info EXCEPT ![pc] = None]
      /\ client_size' = client_size - 1
      /\ pc' = IF client_size - 1 <= 0 THEN Accept ELSE After(pc)
  BY DEF RecvEnd, Close
<1>2. c \in Conn /\ pc \in Entries /\ pc \in 1..client_max_size
  BY DEF Table, Typed, Held, Entries
<1>3. client_size = Cardinality(InUse) /\ client_size > 0
  BY Sizes DEF Table, Counted, Accept
<1>4. pc' \in 0..client_max_size
  BY <1>1, <1>2, Sizes DEF Table, Typed, After, Accept
<1>5. Typed'
  BY <1>1, <1>4 DEF Table, Typed, LinkState
<1>6. client_info'[pc] = None /\ \A i \in Slot \ {pc} : client_info'[i] = client_info[i]
  BY <1>1 DEF Table, Typed
<1>7. InUse' = InUse \ {pc} /\ pc \in InUse
  BY <1>1, <1>2, <1>6, InUseFinite DEF Table, InUse, Entries
<1>8. Cardinality(InUse') = Cardinality(InUse) - 1 /\ Cardinality(InUse) \in Nat
  BY <1>7, InUseFinite, FS_RemoveElement DEF Table
<1>9. Counted'
  BY <1>1, <1>3, <1>8 DEF Counted
<1>10. \A d \in Conn \ {c} : link'[d] = link[d]
  BY <1>1 DEF Table, Typed
<1>11. Held'
  <2>1. \A i \in Slot \ {pc} : client_info[i] # c
    BY DEF Table, Held
  <2>2. \A k \in 1..Len(backlog) : backlog[k] # c /\ backlog[k] \in Conn
    BY DEF Table, Held, Typed
  <2>3. \A i \in Slot : client_info'[i] # None => i \in Entries /\ link'[client_info'[i]] \in Alive
    BY <1>6, <1>10, <2>1 DEF Table, Held, Typed
  <2>4. \A i, j \in Slot : client_info'[i] # None /\ client_info'[i] = client_info'[j] => i = j
    BY <1>6 DEF Table, Held
  <2>5. \A k \in 1..Len(backlog) : link'[backlog[k]] \in Alive
    BY <1>10, <2>2 DEF Table, Held
  <2>6. \A i \in Slot, k \in 1..Len(backlog) : client_info'[i] # backlog[k]
    <3>1. None \notin Conn
      BY LayoutAssumption
    <3>2. \A i \in Slot \ {pc}, k \in 1..Len(backlog) : client_info'[i] # backlog[k]
      BY <1>6 DEF Table, Held
    <3>3. \A k \in 1..Len(backlog) : client_info'[pc] # backlog[k]
      BY <1>6, <2>2, <3>1
    <3> QED
      BY <3>2, <3>3
  <2> QED
    BY <1>1, <2>3, <2>4, <2>5, <2>6 DEF Table, Held, Entries
<1> QED
  BY <1>5, <1>9, <1>11

LEMMA RecvKeeps ==
    ASSUME Table, SkipEmpty \/ Recv
    PROVE  Typed' /\ Held' /\ Counted'
<1>1. pc # Accept
  BY Sizes DEF SkipEmpty, Recv, Accept
<1>2. CASE SkipEmpty
  BY <1>1, <1>2, GoesOn DEF SkipEmpty, client, Table, Typed
<1>3. CASE Recv
  <2> DEFINE c == client_info[pc]
  <2>1. pc \in Slot /\ c # None /\ (RecvNothing(c) \/ RecvError(c) \/ RecvEnd(c) \/ RecvData(c))
    BY <1>3 DEF Recv
  <2>2. CASE RecvNothing(c)
    BY <1>1, <2>2, GoesOn DEF RecvNothing, client, Table, Typed
  <2>3. CASE RecvError(c)
    <3>1. link' = [link EXCEPT ![c] = "dead"]
      BY <2>3 DEF RecvError
    <3>2. link' \in [Conn -> LinkState] /\ \A d \in Conn : link[d] \in Alive => link'[d] \in Alive
      BY <3>1 DEF Table, Typed, LinkState, Alive
    <3> QED
      BY <1>1, <2>3, <3>2, GoesOn DEF RecvError
  <2>4. CASE RecvEnd(c)
    BY <2>1, <2>4, RecvEndKeeps
  <2>5. CASE RecvData(c)
    <3>1. UNCHANGED <<link, backlog, client_info, client_size, client_max_size>>
      BY <2>5 DEF RecvData
    <3>2. PICK chunk : HandleChunk(chunk)
      BY <2>5 DEF RecvData
    <3>3. pc' \in {Accept, After(pc)}
      BY <3>2 DEF HandleChunk
    <3> QED
      BY <1>1, <3>1, <3>3, GoesOn DEF Table, Typed
  <2> QED
    BY <2>1, <2>2, <2>3, <2>4, <2>5
<1> QED
  BY <1>2, <1>3

LEMMA ReadKeeps ==
    ASSUME Inv, Read
    PROVE  Inv'
<1>1. Typed' /\ Held' /\ Counted'
  BY AcceptNoneKeeps, AcceptRefuseKeeps, AcceptClientKeeps, RecvKeeps DEF Read, network_read, Inv
<1>2. init_flag /\ UNCHANGED <<setup, state>>
  BY DEF Read
<1>3. client_max_size' = client_max_size
  BY DEF Read, network_read, AcceptNone, AcceptRefuse, AcceptClient, SkipEmpty, Recv,
         RecvNothing, RecvError, RecvEnd, RecvData
<1>4. Setup'
  BY <1>2, <1>3 DEF Inv, Table, Setup, setup, TableUsable, listening
<1> QED
  BY <1>1, <1>4 DEF Inv, Table

LEMMA StutterKeeps ==
    ASSUME Inv, UNCHANGED allVars
    PROVE  Inv'
<1>1. UNCHANGED <<link, backlog, client_info, client_max_size, client_size, pc, setup, state>>
  BY DEF allVars, vars, client, serverVars
<1>2. Typed' /\ Held' /\ Counted'
  BY <1>1, LinksChange DEF Inv, Table, Typed
<1>3. Setup'
  BY <1>1 DEF Inv, Table, Setup, setup, TableUsable, listening
<1> QED
  BY <1>2, <1>3 DEF Inv, Table

\* The invariant holds however the server is set up, used and torn down.
THEOREM Invariance == ServerSpec => []Inv
<1>1. Inv /\ [ServerNext]_allVars => Inv'
  BY InitKeeps, DeleteKeeps, MisuseKeeps, ReadKeeps, SendKeeps, ClientsKeep, StutterKeeps
     DEF ServerNext
<1> QED
  BY InitInv, <1>1, PTL DEF ServerSpec

\* For any number of clients and set-ups, failing anywhere: a server whose flag is set
\* has its table and accepts from the only socket that listens, and one whose flag is
\* not has no clients, though a socket of it may listen (network_op.c:88-213).
THEOREM SetupIsSound == ServerSpec => []SetupSound
<1>1. Inv => SetupSound
  BY InUseFinite DEF Inv, Table, Setup, SetupSound, InUse
<1> QED
  BY Invariance, <1>1, PTL

\* The table is kept by network_read by itself as well as by the server around it.
LEMMA NextTable ==
    ASSUME Table, [Next]_vars
    PROVE  Table'
<1>1. CASE network_read
  BY <1>1, AcceptNoneKeeps, AcceptRefuseKeeps, AcceptClientKeeps, RecvKeeps DEF network_read, Table
<1>2. ASSUME NEW c \in Conn, Connect(c) \/ Send(c) \/ Hangup(c) PROVE Table'
  BY <1>2, ClientsTable DEF Table
<1>3. CASE UNCHANGED vars
  <2>1. UNCHANGED <<link, backlog, client_info, client_max_size, client_size, pc>>
    BY <1>3 DEF vars, client
  <2> QED
    BY <2>1, LinksChange DEF Table, Typed
<1> QED
  BY <1>1, <1>2, <1>3 DEF Next

\* Entries, sockets and count agree whether the server is set up once or again and again.
THEOREM TableKept == Spec \/ ServerSpec => []Table
<1>1. Init => Table
  BY BootTable, Sizes DEF Init
<1>2. Table /\ [Next]_vars => Table'
  BY NextTable
<1>3. Inv => Table
  BY DEF Inv
<1> QED
  BY Invariance, <1>1, <1>2, <1>3, PTL DEF Spec

\* For any number of clients and entries the count, the entries and the sockets agree
\* through every accept, refusal, reset, time-out and close (network_op.c:228-283,
\* 441-568), in the read path by itself and in the server that is set up, torn down
\* and sends around it.
THEOREM TableAgrees == Spec \/ ServerSpec => []ClientTableAgrees
<1>1. Table => ClientTableAgrees
  <2> SUFFICES ASSUME Table PROVE ClientTableAgrees
    OBVIOUS
  <2>1. InUse \subseteq Slot /\ \A i \in InUse : client_info[i] # None
    BY InUseFinite DEF Table, InUse
  <2>2. pc \in Slot => pc # Accept
    BY Sizes DEF Accept
  <2> QED
    BY <2>1, <2>2 DEF Table, Held, Counted, Alive, ClientTableAgrees
<1> QED
  BY TableKept, <1>1, PTL

-----------------------------------------------------------------------------
(* Sequences *)

LEMMA NatInduct ==
    ASSUME NEW S, 0 \in S, \A n \in Nat : n \in S => n + 1 \in S
    PROVE  \A n \in Nat : n \in S
<1> DEFINE R == {s \in Nat \X Nat : s[1] < s[2]}
<1>1. IsWellFoundedOn(R, Nat)
  BY NatLessThanWellFounded DEF OpToRel
<1> SUFFICES ASSUME Nat \ S # {} PROVE FALSE
  OBVIOUS
<1>2. PICK n \in Nat \ S : \A m \in Nat \ S : <<m, n>> \notin R
  <2> HIDE DEF R
  <2> QED
    BY <1>1, WFMin
<1>3. \A m \in Nat \ S : ~(m < n)
  BY <1>2
<1>4. n - 1 \in Nat /\ n - 1 \in S
  BY <1>3
<1> QED
  BY <1>4

\* s without its first m elements
LEMMA DropFacts ==
    ASSUME NEW S, NEW s \in Seq(S), NEW m \in 0..Len(s)
    PROVE  LET r == SubSeq(s, m + 1, Len(s))
           IN  /\ r \in Seq(S) /\ Len(r) = Len(s) - m
               /\ \A k \in 1..(Len(s) - m) : r[k] = s[m + k] /\ m + k \in 1..Len(s)
<1> DEFINE lo == m + 1
           hi == Len(s)
<1>1. lo \in Int /\ hi \in Int /\ \A i \in lo..hi : s[i] \in S
  OBVIOUS
<1>2. /\ hi - lo + 1 = Len(s) - m
      /\ (IF lo <= hi THEN hi - lo + 1 ELSE 0) = Len(s) - m
      /\ \A k \in 1..(Len(s) - m) : lo + k - 1 = m + k
  OBVIOUS
<1> HIDE DEF lo, hi
<1>3. /\ SubSeq(s, lo, hi) \in Seq(S)
      /\ Len(SubSeq(s, lo, hi)) = IF lo <= hi THEN hi - lo + 1 ELSE 0
      /\ \A k \in 1..(hi - lo + 1) : SubSeq(s, lo, hi)[k] = s[lo + k - 1]
  BY <1>1, SubSeqProperties
<1>4. /\ SubSeq(s, lo, hi) \in Seq(S) /\ Len(SubSeq(s, lo, hi)) = Len(s) - m
      /\ \A k \in 1..(Len(s) - m) : SubSeq(s, lo, hi)[k] = s[m + k]
  BY <1>2, <1>3
<1>5. \A k \in 1..(Len(s) - m) : m + k \in 1..Len(s)
  OBVIOUS
<1> QED
  BY <1>4, <1>5 DEF lo, hi

\* the first m elements of s
LEMMA FirstFacts ==
    ASSUME NEW S, NEW s \in Seq(S), NEW m \in 0..Len(s)
    PROVE  /\ SubSeq(s, 1, m) \in Seq(S) /\ Len(SubSeq(s, 1, m)) = m
           /\ \A k \in 1..m : SubSeq(s, 1, m)[k] = s[k] /\ k \in 1..Len(s)
OBVIOUS

LEMMA EqualSeqs ==
    ASSUME NEW S, NEW T, NEW s \in Seq(S), NEW t \in Seq(T), Len(s) = Len(t),
           \A k \in 1..Len(s) : s[k] = t[k]
    PROVE  s = t
OBVIOUS

LEMMA ConcatType ==
    ASSUME NEW S, NEW q \in Seq(S), NEW r \in Seq(S)
    PROVE  q \o r \in Seq(S)
BY ConcatProperties

\* Pieces of a sequence
LEMMA Split ==
    ASSUME NEW S, NEW s \in Seq(S), NEW m \in 0..Len(s)
    PROVE  s = SubSeq(s, 1, m) \o SubSeq(s, m + 1, Len(s))
<1> DEFINE a == SubSeq(s, 1, m)
           b == SubSeq(s, m + 1, Len(s))
<1>1. a \in Seq(S) /\ Len(a) = m /\ \A k \in 1..m : a[k] = s[k]
  BY FirstFacts
<1>2. b \in Seq(S) /\ Len(b) = Len(s) - m /\ \A k \in 1..(Len(s) - m) : b[k] = s[m + k]
  BY DropFacts
<1> HIDE DEF a, b
<1>3. /\ a \o b \in Seq(S) /\ Len(a \o b) = Len(a) + Len(b)
      /\ \A k \in 1..(Len(a) + Len(b)) : (a \o b)[k] = IF k <= Len(a) THEN a[k] ELSE b[k - Len(a)]
  BY <1>1, <1>2, ConcatProperties
<1>4. Len(s) \in Nat /\ m \in Nat /\ Len(a) + Len(b) = Len(s)
  BY <1>1, <1>2
<1>5. ASSUME NEW k \in 1..Len(s) PROVE (a \o b)[k] = s[k]
  <2>1. CASE k <= m
    BY <1>1, <1>3, <1>4, <2>1
  <2>2. CASE ~(k <= m)
    <3>1. k - m \in 1..(Len(s) - m) /\ m + (k - m) = k
      BY <1>4, <2>2
    <3> QED
      BY <1>1, <1>2, <1>3, <1>4, <2>2, <3>1
  <2> QED
    BY <2>1, <2>2
<1>6. a \o b = s
  <2> DEFINE c == a \o b
  <2>1. c \in Seq(S) /\ Len(c) = Len(s) /\ \A k \in 1..Len(c) : c[k] = s[k]
    BY <1>3, <1>4, <1>5
  <2> HIDE DEF c
  <2>2. c = s
    BY <2>1, EqualSeqs
  <2> QED
    BY <2>2 DEF c
<1> QED
  BY <1>6 DEF a, b

LEMMA DropTwice ==
    ASSUME NEW S, NEW s \in Seq(S), NEW m \in 0..Len(s), NEW n \in 0..(Len(s) - m)
    PROVE  LET r == SubSeq(s, m + 1, Len(s))
           IN  SubSeq(r, n + 1, Len(r)) = SubSeq(s, (m + n) + 1, Len(s))
<1> DEFINE r == SubSeq(s, m + 1, Len(s))
           a == SubSeq(r, n + 1, Len(r))
           b == SubSeq(s, (m + n) + 1, Len(s))
<1>1. r \in Seq(S) /\ Len(r) = Len(s) - m /\ \A k \in 1..(Len(s) - m) : r[k] = s[m + k]
  BY DropFacts
<1>2. Len(s) \in Nat /\ m \in Nat /\ n \in Nat /\ n \in 0..Len(r) /\ m + n \in 0..Len(s)
  BY <1>1
<1> HIDE DEF r
<1>3. a \in Seq(S) /\ Len(a) = Len(r) - n /\ \A k \in 1..(Len(r) - n) : a[k] = r[n + k]
  BY <1>1, <1>2, DropFacts
<1>4. b \in Seq(S) /\ Len(b) = Len(s) - (m + n) /\ \A k \in 1..(Len(s) - (m + n)) : b[k] = s[(m + n) + k]
  BY <1>2, DropFacts
<1> HIDE DEF a, b
<1>5. Len(a) = Len(b)
  BY <1>1, <1>2, <1>3, <1>4
<1>6. ASSUME NEW k \in 1..Len(a) PROVE a[k] = b[k]
  <2>0. Len(r) = Len(s) - m /\ Len(a) = Len(r) - n
    BY <1>1, <1>3
  <2>1. n + k \in 1..(Len(s) - m) /\ k \in 1..(Len(r) - n) /\ k \in 1..(Len(s) - (m + n)) /\ m + (n + k) = (m + n) + k
    BY <1>2, <2>0
  <2> QED
    BY <1>1, <1>3, <1>4, <2>1
<1>7. a = b
  BY <1>3, <1>4, <1>5, <1>6, EqualSeqs
<1> QED
  BY <1>7 DEF a, b, r

LEMMA JoinFirst ==
    ASSUME NEW S, NEW s \in Seq(S), NEW m \in 0..Len(s), NEW n \in 0..(Len(s) - m)
    PROVE  SubSeq(s, 1, m) \o SubSeq(SubSeq(s, m + 1, Len(s)), 1, n) = SubSeq(s, 1, m + n)
<1> DEFINE r == SubSeq(s, m + 1, Len(s))
           t == SubSeq(s, 1, m + n)
<1>1. r \in Seq(S) /\ Len(r) = Len(s) - m /\ \A k \in 1..(Len(s) - m) : r[k] = s[m + k]
  BY DropFacts
<1>2. Len(s) \in Nat /\ m \in Nat /\ n \in Nat /\ n \in 0..Len(r) /\ m + n \in 0..Len(s)
  BY <1>1
<1>3. t \in Seq(S) /\ Len(t) = m + n /\ \A k \in 1..(m + n) : t[k] = s[k]
  BY <1>2, FirstFacts
<1> HIDE DEF r, t
<1>4. m \in 0..Len(t) /\ t = SubSeq(t, 1, m) \o SubSeq(t, m + 1, Len(t))
  BY <1>2, <1>3, Split
<1>5. SubSeq(t, 1, m) = SubSeq(s, 1, m)
  <2>1. /\ SubSeq(t, 1, m) \in Seq(S) /\ Len(SubSeq(t, 1, m)) = m
        /\ \A k \in 1..m : SubSeq(t, 1, m)[k] = t[k] /\ k \in 1..Len(t)
    BY <1>3, <1>4, FirstFacts
  <2>2. /\ SubSeq(s, 1, m) \in Seq(S) /\ Len(SubSeq(s, 1, m)) = m
        /\ \A k \in 1..m : SubSeq(s, 1, m)[k] = s[k]
    BY FirstFacts
  <2>3. \A k \in 1..m : SubSeq(t, 1, m)[k] = SubSeq(s, 1, m)[k]
    BY <1>3, <2>1, <2>2
  <2> QED
    BY <2>1, <2>2, <2>3, EqualSeqs
<1>6. SubSeq(t, m + 1, Len(t)) = SubSeq(r, 1, n)
  <2>1. /\ SubSeq(t, m + 1, Len(t)) \in Seq(S) /\ Len(SubSeq(t, m + 1, Len(t))) = Len(t) - m
        /\ \A k \in 1..(Len(t) - m) : SubSeq(t, m + 1, Len(t))[k] = t[m + k]
    BY <1>3, <1>4, DropFacts
  <2>2. /\ SubSeq(r, 1, n) \in Seq(S) /\ Len(SubSeq(r, 1, n)) = n
        /\ \A k \in 1..n : SubSeq(r, 1, n)[k] = r[k] /\ k \in 1..Len(r)
    BY <1>1, <1>2, FirstFacts
  <2>3. Len(t) - m = n /\ \A k \in 1..n : m + k \in 1..(m + n)
    BY <1>2, <1>3
  <2>4. \A k \in 1..n : SubSeq(t, m + 1, Len(t))[k] = SubSeq(r, 1, n)[k]
    BY <1>1, <1>3, <2>1, <2>2, <2>3
  <2> QED
    BY <2>1, <2>2, <2>3, <2>4, EqualSeqs
<1> QED
  BY <1>4, <1>5, <1>6 DEF r, t

LEMMA TailDrop ==
    ASSUME NEW S, NEW s \in Seq(S), NEW i \in 0..(Len(s) - 1)
    PROVE  /\ Tail(SubSeq(s, i + 1, Len(s))) = SubSeq(s, (i + 1) + 1, Len(s))
           /\ SubSeq(s, i + 1, Len(s)) # <<>> /\ SubSeq(s, i + 1, Len(s))[1] = s[i + 1]
<1> DEFINE r == SubSeq(s, i + 1, Len(s))
           b == SubSeq(s, (i + 1) + 1, Len(s))
<1>1. Len(s) \in Nat /\ i \in Nat /\ i \in 0..Len(s) /\ i + 1 \in 0..Len(s) /\ i + 1 <= Len(s)
  OBVIOUS
<1>2. r \in Seq(S) /\ Len(r) = Len(s) - i /\ \A k \in 1..(Len(s) - i) : r[k] = s[i + k]
  BY <1>1, DropFacts
<1>3. b \in Seq(S) /\ Len(b) = Len(s) - (i + 1) /\ \A k \in 1..(Len(s) - (i + 1)) : b[k] = s[(i + 1) + k]
  BY <1>1, DropFacts
<1> HIDE DEF r, b
<1>4. r # <<>> /\ r[1] = s[i + 1]
  BY <1>1, <1>2
<1>5. Tail(r) \in Seq(S) /\ Len(Tail(r)) = Len(r) - 1 /\ \A k \in 1..Len(Tail(r)) : Tail(r)[k] = r[k + 1]
  BY <1>2, <1>4, TailFacts
<1>6. \A k \in 1..Len(Tail(r)) : Tail(r)[k] = b[k]
  BY <1>1, <1>2, <1>3, <1>5
<1>7. Tail(r) \in Seq(S) /\ b \in Seq(S) /\ Len(Tail(r)) = Len(b)
  BY <1>1, <1>2, <1>3, <1>5
<1>8. Tail(r) = b
  BY <1>6, <1>7, EqualSeqs
<1> QED
  BY <1>4, <1>8 DEF r, b

\* What FlattenSeq computes: the sequences joined from the left.
Joins(g, n, q) == \A i \in 1..n : g[i] = IF i = 1 THEN q[i] ELSE g[i - 1] \o q[i]

LEMMA JoinsExist ==
    ASSUME NEW S, NEW q \in Seq(Seq(S))
    PROVE  \A n \in Nat : n <= Len(q) => \E g \in [1..n -> Seq(S)] : Joins(g, n, q)
<1> DEFINE N == {n \in Nat : n <= Len(q) => \E g \in [1..n -> Seq(S)] : Joins(g, n, q)}
<1>1. 0 \in N
  <2>1. [i \in 1..0 |-> <<>>] \in [1..0 -> Seq(S)] /\ Joins([i \in 1..0 |-> <<>>], 0, q)
    BY DEF Joins
  <2> QED
    BY <2>1
<1>2. ASSUME NEW n \in Nat, n \in N PROVE n + 1 \in N
  <2> SUFFICES ASSUME n + 1 <= Len(q) PROVE \E g \in [1..n+1 -> Seq(S)] : Joins(g, n + 1, q)
    OBVIOUS
  <2>1. PICK g \in [1..n -> Seq(S)] : Joins(g, n, q)
    BY <1>2
  <2> DEFINE x == IF n = 0 THEN q[1] ELSE g[n] \o q[n + 1]
             h == [i \in 1..n+1 |-> IF i = n + 1 THEN x ELSE g[i]]
  <2>2. x \in Seq(S)
    <3>1. q[n + 1] \in Seq(S)
      OBVIOUS
    <3>2. n # 0 => g[n] \in Seq(S)
      OBVIOUS
    <3> QED
      BY <3>1, <3>2, ConcatProperties
  <2> HIDE DEF x
  <2>3. h \in [1..n+1 -> Seq(S)]
    BY <2>2
  <2>4. Joins(h, n + 1, q)
    <3> SUFFICES ASSUME NEW i \in 1..n+1 PROVE h[i] = IF i = 1 THEN q[i] ELSE h[i - 1] \o q[i]
      BY DEF Joins
    <3>1. CASE i = n + 1
      BY <3>1 DEF x
    <3>2. CASE i # n + 1
      <4>1. i \in 1..n /\ h[i] = g[i]
        BY <3>2
      <4>2. i # 1 => i - 1 \in 1..n+1 /\ i - 1 # n + 1 /\ h[i - 1] = g[i - 1]
        BY <4>1
      <4> HIDE DEF h
      <4>3. g[i] = IF i = 1 THEN q[i] ELSE g[i - 1] \o q[i]
        BY <2>1, <4>1 DEF Joins
      <4> QED
        BY <4>1, <4>2, <4>3
    <3> QED
      BY <3>1, <3>2
  <2> QED
    BY <2>3, <2>4
<1> HIDE DEF N
<1>3. \A n \in Nat : n \in N
  BY <1>1, <1>2, NatInduct
<1> QED
  BY <1>3 DEF N

LEMMA FlattenFacts ==
    ASSUME NEW S, NEW q \in Seq(Seq(S)), q # <<>>
    PROVE  \E g : FlattenSeq(q) = g[Len(q)] /\ Joins(g, Len(q), q)
<1> DEFINE n == Len(q)
           Recursive(g) == g = [i \in 1..n |-> IF i = 1 THEN q[i] ELSE g[i - 1] \o q[i]]
           flatten == CHOOSE g : Recursive(g)
<1>1. n \in Nat /\ n # 0
  OBVIOUS
<1>2. PICK g \in [1..n -> Seq(S)] : Joins(g, n, q)
  <2>1. \A m \in Nat : m <= Len(q) => \E g \in [1..m -> Seq(S)] : Joins(g, m, q)
    BY JoinsExist
  <2>2. Len(q) \in Nat /\ Len(q) <= Len(q)
    BY <1>1
  <2> QED
    BY <2>1, <2>2, Zenon
<1>3. Recursive(g)
  BY <1>2 DEF Joins
<1>4. Recursive(flatten)
  <2> HIDE DEF Recursive
  <2> QED
    BY <1>3
<1>5. Joins(flatten, n, q)
  <2> HIDE DEF flatten
  <2> QED
    BY <1>4 DEF Joins
<1>6. FlattenSeq(q) = flatten[n]
  BY <1>1 DEF FlattenSeq
<1> HIDE DEF flatten
<1> QED
  BY <1>5, <1>6

-----------------------------------------------------------------------------
(* The ring: what SaveBufferProofs has of every ring of bytes, for a ring of cells. *)

\* The operators of the ring do not depend on the variables of SaveBufferSys.
Ring == INSTANCE SaveBufferProofs
            WITH Byte <- Cell, MaxChunk <- FrmSize, Zero <- Nothing,
                 put <- <<>>, got <- <<>>, rt <- 0

LEMMA Lengths ==
    /\ SaveSize \in Nat \ {0} /\ FrmSize \in Nat \ {0} /\ FrmSize <= SaveSize
    /\ LenAt \in Nat /\ LenBytes \in Nat \ {0} /\ LenAt + LenBytes <= SaveSize
    /\ \A len \in PayloadLen :
          /\ FrameBytes(len) \in Nat \ {0} /\ FrameBytes(len) <= FrmSize
          /\ LenAt + LenBytes < FrameBytes(len)
<1>1. ASSUME NEW len \in PayloadLen
      PROVE  /\ FrameBytes(len) \in Nat \ {0} /\ FrameBytes(len) <= FrmSize
             /\ LenAt + LenBytes < FrameBytes(len)
  BY LayoutAssumption DEF FrameBytes, HeadBytes
<1> QED
  BY <1>1, LayoutAssumption DEF SaveSize

LEMMA RingSame ==
    /\ Ring!Buffer = Buffer
    /\ \A p, n : Ring!Advance(p, n) = Advance(p, n)
    /\ \A b : Ring!Contents(b) = Contents(b) /\ Ring!LengthField(b) = LengthField(b)
    /\ \A b, d : Ring!Written(b, d) = Written(b, d)
    /\ \A b, n : Ring!Consumed(b, n) = Consumed(b, n) /\ Ring!ReadBytes(b, n) = ReadBytes(b, n)
BY DEF Ring!Buffer, Buffer, Ring!Index, Index, Ring!Advance, Advance, Ring!Contents, Contents,
       Ring!LengthField, LengthField, Ring!Cells, Cells, Ring!Memcpy, Memcpy,
       Ring!Written, Written, Ring!WriteRing, WriteRing, Ring!WriteEnd, WriteEnd,
       Ring!Consumed, Consumed, Ring!ReadBytes, ReadBytes, Ring!ReadEnd, ReadEnd

LEMMA RingAssumptions ==
    /\ SaveSize \in Nat \ {0} /\ LenAt \in Nat /\ LenBytes \in Nat \ {0}
    /\ LenAt + LenBytes <= SaveSize /\ FrmSize \in Nat /\ Nothing \in Cell
BY Lengths DEF Cell

\* The cursors of net_save_buffer agree with save_buffer_data_size.
Agree(b) == b \in Buffer /\ b.wpos = Advance(b.rpos, b.size)

\* write_tmp_buffer appends the chunk to what is stored.
LEMMA RingWrite ==
    ASSUME NEW b, Agree(b), NEW data \in Seq(Cell), CanWrite(b, Len(data))
    PROVE  Agree(Written(b, data)) /\ Contents(Written(b, data)) = Contents(b) \o data
<1>1. /\ b \in Ring!Buffer /\ b.wpos = Ring!Advance(b.rpos, b.size)
      /\ Len(data) <= SaveSize - b.size
  BY RingSame DEF Agree, CanWrite
<1>2. /\ Ring!Written(b, data) \in Ring!Buffer
      /\ Ring!Written(b, data).wpos
             = Ring!Advance(Ring!Written(b, data).rpos, Ring!Written(b, data).size)
      /\ Ring!Contents(Ring!Written(b, data)) = Ring!Contents(b) \o data
  BY <1>1, RingAssumptions, Ring!WriteAppends
<1> QED
  BY <1>2, RingSame DEF Agree

\* What is stored is a sequence of cells.
LEMMA RingContents ==
    ASSUME NEW b, Agree(b)
    PROVE  /\ Contents(b) \in Seq(Cell) /\ Len(Contents(b)) = b.size
           /\ b.size \in Nat /\ b.size <= SaveSize
<1>1. b \in Ring!Buffer
  BY RingSame DEF Agree
<1>2. Ring!Contents(b) \in Seq(Cell) /\ Len(Ring!Contents(b)) = b.size
  BY <1>1, RingAssumptions, Ring!ContentsType
<1>3. b.size \in Nat /\ b.size <= SaveSize
  BY RingAssumptions DEF Agree, Buffer
<1> QED
  BY <1>2, <1>3, RingSame

\* read_tmp_buffer takes the oldest bytes off.
LEMMA RingRead ==
    ASSUME NEW b, Agree(b), NEW n \in Nat, CanRead(b, n)
    PROVE  /\ Agree(Consumed(b, n))
           /\ ReadBytes(b, n) = SubSeq(Contents(b), 1, n)
           /\ Contents(Consumed(b, n)) = SubSeq(Contents(b), n + 1, b.size)
<1>1. /\ b \in Ring!Buffer /\ b.wpos = Ring!Advance(b.rpos, b.size)
      /\ n \in 0..b.size
  BY RingSame, RingContents DEF Agree, CanRead
<1>2. /\ Ring!Consumed(b, n) \in Ring!Buffer
      /\ Ring!Consumed(b, n).wpos
             = Ring!Advance(Ring!Consumed(b, n).rpos, Ring!Consumed(b, n).size)
      /\ Ring!ReadBytes(b, n) = SubSeq(Ring!Contents(b), 1, n)
      /\ Ring!Contents(Ring!Consumed(b, n)) = SubSeq(Ring!Contents(b), n + 1, b.size)
  BY <1>1, RingAssumptions, Ring!ReadTakes
<1> QED
  BY <1>2, RingSame DEF Agree

\* get_frm_payload_length looks at the bytes that a read would return.
LEMMA RingPeek ==
    ASSUME NEW b, Agree(b), b.size >= LenAt + LenBytes
    PROVE  LengthField(b) = SubSeq(Contents(b), LenAt + 1, LenAt + LenBytes)
<1>1. b \in Ring!Buffer
  BY RingSame DEF Agree
<1>2. Ring!LengthField(b) = SubSeq(Ring!Contents(b), LenAt + 1, LenAt + LenBytes)
  BY <1>1, RingAssumptions, Ring!PeekAgrees
<1> QED
  BY <1>2, RingSame

-----------------------------------------------------------------------------
(* What the bytes are: frames in, cells through the sockets, cells in the ring *)

\* The values of what the handling of bytes works on.
Streams ==
    /\ sent \in [Conn -> Seq(Frame)]
    /\ wire \in [Conn -> Seq(Cell)]
    /\ Agree(buf)

\* The values of the counters and of what the set-up leaves.
Ranges ==
    /\ client_size \in 0..MaxConn
    /\ answers \in 0..MaxAnswers
    /\ state \in {"up", "killed", "undefined"}

LEMMA FrameLength ==
    ASSUME NEW f \in Frame
    PROVE  /\ FrameBytes(f.len) \in Nat \ {0} /\ FrameBytes(f.len) <= FrmSize
           /\ LenAt + LenBytes < FrameBytes(f.len)
           /\ f.len \in PayloadLen /\ f # None
BY Lengths, HistoryAssumption DEF Frame

\* gen_net_frm: every byte of a frame is a cell.
LEMMA FrameCellsType ==
    ASSUME NEW f \in Frame
    PROVE  FrameCells(f) \in Seq(Cell) /\ Len(FrameCells(f)) = FrameBytes(f.len)
<1>1. FrameBytes(f.len) \in Nat \ {0} /\ FrameBytes(f.len) <= FrmSize
  BY FrameLength
<1>2. \A k \in 1..FrameBytes(f.len) : <<f, k - 1>> \in Cell
  <2>1. \A k \in 1..FrameBytes(f.len) : k - 1 \in 0..FrmSize
    BY <1>1, Lengths
  <2> QED
    BY <2>1 DEF Cell
<1> QED
  BY <1>1, <1>2 DEF FrameCells

\* The payload length taken from the ring is one that a frame can have.
LEMMA DecodedIsLength ==
    ASSUME NEW b, Agree(b), b.size >= LenAt + LenBytes, NEW len \in DecodeLength(LengthField(b))
    PROVE  len \in PayloadLen
<1> DEFINE s == Contents(b)
           cells == LengthField(b)
<1>1. /\ s \in Seq(Cell) /\ LenAt + 1 \in 1..Len(s) /\ LenAt + LenBytes \in 1..Len(s)
      /\ LenAt + 1 <= LenAt + LenBytes
  BY RingContents, Lengths
<1>2. cells = SubSeq(s, LenAt + 1, LenAt + LenBytes)
  BY RingPeek
<1> HIDE DEF s
<1>3. cells[1] \in Cell
  BY <1>1, <1>2, Lengths
<1>4. cells[1][1] # None => cells[1][1] \in Frame
  BY <1>3 DEF Cell, Nothing
<1> HIDE DEF cells
<1>5. cells[1][1] \in Frame => cells[1][1].len \in PayloadLen
  BY FrameLength
<1> QED
  BY <1>4, <1>5 DEF DecodeLength, cells

\* What check_net_frm_valid does to the ring, whatever chunk recv returned
\* (network_op.c:727-800).
LEMMA HandledType ==
    ASSUME Agree(buf), NEW chunk \in Seq(Cell), HandleChunk(chunk)
    PROVE  Agree(buf')
<1> DEFINE b == Stored(chunk)
<1>1. Agree(b)
  BY RingWrite DEF Stored
<1> HIDE DEF b
<1>2. ASSUME b.size >= LenAt + LenBytes, NEW len \in DecodeLength(LengthField(b)),
             CanRead(b, FrameBytes(len)), buf' = Consumed(b, FrameBytes(len))
      PROVE  Agree(buf')
  <2>1. FrameBytes(len) \in Nat
    BY <1>1, <1>2, DecodedIsLength, Lengths
  <2> QED
    BY <1>1, <1>2, <2>1, RingRead
<1>3. \/ buf' = b
      \/ /\ b.size >= LenAt + LenBytes
         /\ \E len \in DecodeLength(LengthField(b)) :
               CanRead(b, FrameBytes(len)) /\ buf' = Consumed(b, FrameBytes(len))
  BY DEF HandleChunk, b
<1> QED
  BY <1>1, <1>2, <1>3

LEMMA ReadStreams ==
    ASSUME Table, Streams, network_read
    PROVE  Streams'
<1> USE DEF Streams
<1>1. sent' = sent
  BY DEF network_read, AcceptNone, AcceptRefuse, AcceptClient, SkipEmpty, Recv, RecvNothing,
         RecvError, RecvEnd, RecvData, client
<1>2. CASE AcceptNone \/ AcceptClient \/ SkipEmpty
  BY <1>1, <1>2 DEF AcceptNone, AcceptClient, SkipEmpty, client
<1>3. ASSUME NEW c, Close(c) PROVE wire' \in [Conn -> Seq(Cell)]
  <2>1. <<>> \in Seq(Cell)
    OBVIOUS
  <2> QED
    BY <1>3, <2>1 DEF Close
<1>4. CASE AcceptRefuse
  BY <1>1, <1>3, <1>4 DEF AcceptRefuse
<1>5. CASE Recv
  <2> DEFINE c == client_info[pc]
  <2>1. c \in Conn /\ (RecvNothing(c) \/ RecvError(c) \/ RecvEnd(c) \/ RecvData(c))
    BY <1>5 DEF Recv, Table, Typed
  <2> HIDE DEF c
  <2>2. CASE RecvNothing(c) \/ RecvError(c)
    BY <1>1, <2>2 DEF RecvNothing, RecvError, client
  <2>3. CASE RecvEnd(c)
    BY <1>1, <1>3, <2>3 DEF RecvEnd
  <2>4. CASE RecvData(c)
    <3>1. PICK n \in 1..Len(wire[c]) :
              /\ wire' = [wire EXCEPT ![c] = SubSeq(wire[c], n + 1, Len(wire[c]))]
              /\ HandleChunk(SubSeq(wire[c], 1, n))
      BY <2>4 DEF RecvData
    <3>2. wire[c] \in Seq(Cell) /\ Len(wire[c]) \in Nat
      BY <2>1
    <3>3. n \in 0..Len(wire[c])
      BY <3>2
    <3>4. SubSeq(wire[c], n + 1, Len(wire[c])) \in Seq(Cell) /\ SubSeq(wire[c], 1, n) \in Seq(Cell)
      BY <3>2, <3>3, DropFacts, FirstFacts
    <3>5. Agree(buf')
      BY <3>1, <3>4, HandledType
    <3> QED
      BY <1>1, <3>1, <3>4, <3>5
  <2> QED
    BY <2>1, <2>2, <2>3, <2>4
<1> QED
  BY <1>2, <1>4, <1>5 DEF network_read

LEMMA ClientStreams ==
    ASSUME Streams, NEW c \in Conn, Connect(c) \/ Send(c) \/ Hangup(c)
    PROVE  Streams'
<1> USE DEF Streams
<1>1. CASE Connect(c)
  BY <1>1 DEF Connect
<1>2. CASE Send(c)
  <2>1. PICK len \in PayloadLen, type \in FrameType :
          LET f == [conn |-> c, num |-> Len(sent[c]) + 1, len |-> len, type |-> type]
          IN  /\ sent' = [sent EXCEPT ![c] = Append(sent[c], f)]
              /\ wire' = [wire EXCEPT ![c] = wire[c] \o FrameCells(f)]
    BY <1>2 DEF Send
  <2> DEFINE f == [conn |-> c, num |-> Len(sent[c]) + 1, len |-> len, type |-> type]
  <2>2. f \in Frame
    BY DEF Frame
  <2> HIDE DEF f
  <2>3. Append(sent[c], f) \in Seq(Frame) /\ wire[c] \o FrameCells(f) \in Seq(Cell)
    BY <2>2, FrameCellsType, ConcatType
  <2>4. sent' = [sent EXCEPT ![c] = Append(sent[c], f)] /\ wire' = [wire EXCEPT ![c] = wire[c] \o FrameCells(f)]
    BY <2>1 DEF f
  <2> QED
    BY <1>2, <2>3, <2>4 DEF Send
<1>3. CASE Hangup(c)
  <2>1. PICK n \in 0..Len(wire[c]) : wire' = [wire EXCEPT ![c] = SubSeq(wire[c], 1, n)]
    BY <1>3 DEF Hangup
  <2>2. SubSeq(wire[c], 1, n) \in Seq(Cell)
    <3>1. wire[c] \in Seq(Cell)
      OBVIOUS
    <3> QED
      BY <3>1, FirstFacts
  <2> QED
    BY <1>3, <2>1, <2>2 DEF Hangup
<1> QED
  BY <1>1, <1>2, <1>3

\* A step of the read path by itself, or of the server.
Step == [Next]_vars \/ [ServerNext]_allVars

LEMMA StepStreams ==
    ASSUME Table, Streams, Step
    PROVE  Streams'
<1>1. ASSUME UNCHANGED <<sent, wire, buf>> PROVE Streams'
  BY <1>1 DEF Streams
<1>2. ASSUME NEW max_conn \in MaxConns, network_init(max_conn) PROVE Streams'
  BY <1>1, <1>2 DEF network_init, client
<1>3. CASE network_delete
  <2>1. UNCHANGED <<sent, buf>> /\ wire' \in [Conn -> Seq(Cell)]
    BY <1>3 DEF network_delete, Streams
  <2> QED
    BY <2>1 DEF Streams
<1>4. CASE UseWithoutTable \/ UNCHANGED vars \/ UNCHANGED allVars
  BY <1>1, <1>4 DEF UseWithoutTable, allVars, vars, client
<1>5. CASE net_resp_msg \/ network_write
  BY <1>1, <1>5 DEF net_resp_msg, network_write
<1>6. CASE network_read
  BY <1>6, ReadStreams
<1>7. ASSUME NEW c \in Conn, Connect(c) \/ Send(c) \/ Hangup(c) PROVE Streams'
  BY <1>7, ClientStreams
<1> QED
  BY <1>2, <1>3, <1>4, <1>5, <1>6, <1>7 DEF Step, Next, ServerNext, Read, Clients

\* A table has no more clients than entries.
LEMMA InUseFits ==
    ASSUME Typed
    PROVE  Cardinality(InUse) \in 0..MaxConn
<1>1. client_max_size \in Int /\ client_max_size <= MaxConn /\ client_max_size >= 0
  BY Sizes DEF Typed
<1>2. /\ IsFiniteSet(Entries) /\ Cardinality(Entries) <= MaxConn
  <2>1. IsFiniteSet(1..client_max_size)
           /\ Cardinality(1..client_max_size) = IF 1 > client_max_size THEN 0 ELSE client_max_size - 1 + 1
    BY <1>1, FS_Interval
  <2> QED
    BY <1>1, <2>1, Sizes DEF Entries
<1>3. InUse \in SUBSET Entries
  BY DEF InUse
<1>4. Cardinality(InUse) <= Cardinality(Entries)
  BY <1>2, <1>3, FS_Subset
<1> QED
  BY <1>2, <1>4, InUseFinite, FS_CardinalityType, Sizes

LEMMA ReadRanges ==
    ASSUME Table, client_size \in 0..MaxConn, network_read
    PROVE  client_size' \in 0..MaxConn
<1>1. Cardinality(InUse) \in 0..MaxConn
  BY InUseFits DEF Table
<1>2. CASE AcceptNone \/ AcceptRefuse
  BY <1>1, <1>2 DEF AcceptNone, AcceptRefuse, Enter
<1>3. CASE AcceptClient
  <2>1. Typed' /\ Counted' /\ client_size' = Cardinality(InUse) + 1 /\ pc' # Accept
    <3>1. Enter(Cardinality(InUse) + 1) /\ Cardinality(InUse) + 1 # 0
      BY <1>1, <1>3, Sizes DEF AcceptClient
    <3> QED
      BY <1>3, <3>1, AcceptClientKeeps DEF Enter, Accept
  <2>2. client_size' = Cardinality(InUse')
    BY <2>1 DEF Counted
  <2>3. (Typed => Cardinality(InUse) \in 0..MaxConn)'
    BY InUseFits, PTL
  <2> QED
    BY <2>1, <2>2, <2>3
<1>4. CASE SkipEmpty
  BY <1>4 DEF SkipEmpty
<1>5. CASE Recv
  <2>1. pc # Accept
    BY <1>5, Sizes DEF Recv, Accept
  <2>2. client_size > 0 /\ client_size \in 0..MaxConn
    BY <2>1 DEF Table, Counted
  <2>3. client_size' \in {client_size, client_size - 1}
    BY <1>5 DEF Recv, RecvNothing, RecvError, RecvEnd, RecvData
  <2> QED
    BY <2>2, <2>3, Sizes
<1> QED
  BY <1>2, <1>3, <1>4, <1>5 DEF network_read

LEMMA StepRanges ==
    ASSUME Inv, Ranges, [ServerNext]_allVars
    PROVE  Ranges'
<1> USE DEF Ranges
<1>1. ASSUME NEW max_conn \in MaxConns, network_init(max_conn) PROVE Ranges'
  BY <1>1 DEF network_init
<1>2. CASE network_delete
  BY <1>2 DEF network_delete
<1>3. CASE UseWithoutTable \/ UNCHANGED allVars
  BY <1>3 DEF UseWithoutTable, allVars, vars, setup, serverVars
<1>4. CASE net_resp_msg \/ network_write
  <2>1. answers' \in 0..MaxAnswers
    BY <1>4, ServerAssumption DEF net_resp_msg, network_write
  <2>2. state' \in {state, "killed"} /\ UNCHANGED client_size
    BY <1>4 DEF net_resp_msg, network_write, SendAll, setup
  <2> QED
    BY <2>1, <2>2
<1>5. CASE Read
  <2>1. answers' \in 0..MaxAnswers
    BY <1>5, ServerAssumption DEF Read
  <2>2. client_size' \in 0..MaxConn
    BY <1>5, ReadRanges DEF Read, Inv
  <2> QED
    BY <1>5, <2>1, <2>2 DEF Read, setup
<1>6. CASE Clients
  BY <1>6 DEF Clients, Connect, Send, Hangup, serverVars, setup
<1> QED
  BY <1>1, <1>2, <1>3, <1>4, <1>5, <1>6 DEF ServerNext

LEMMA BootStreams ==
    ASSUME Boot
    PROVE  Streams
<1>1. PICK start \in StartPos :
          buf = [ring |-> [i \in Index |-> Nothing], wpos |-> start, rpos |-> start, size |-> 0]
  BY DEF Boot
<1>2. start \in Index /\ 0 \in 0..SaveSize /\ Nothing \in Cell
  BY StartAssumption, RingAssumptions
<1>3. Advance(start, 0) = start
  BY <1>2, RingAssumptions, SMT DEF Advance, Index
<1>4. Agree(buf)
  BY <1>1, <1>2, <1>3 DEF Agree, Buffer
<1> QED
  BY <1>4 DEF Boot, Streams

\* What is sent, on its way and in the ring has its type.
THEOREM StreamsKept == Spec \/ ServerSpec => []Streams
<1>1. Init \/ ServerInit => Streams
  BY BootStreams DEF Init, ServerInit
<1>2. Table /\ Streams /\ [Next]_vars => Streams'
  BY StepStreams DEF Step
<1>3. Table /\ Streams /\ [ServerNext]_allVars => Streams'
  BY StepStreams DEF Step
<1> QED
  BY TableKept, <1>1, <1>2, <1>3, PTL DEF Spec, ServerSpec

\* Whatever arrives in whatever pieces the ring keeps its shape and the cursors their
\* range, and no client count leaves its bounds (network_op.c:421-584, 612-800).
THEOREM ReadTypeCorrect == Spec => []TypeOK
<1>1. Init => client_size \in 0..MaxConn
  BY Sizes DEF Init, Boot
<1>2. Table /\ client_size \in 0..MaxConn /\ [Next]_vars => (client_size \in 0..MaxConn)'
  <2> SUFFICES ASSUME Table, client_size \in 0..MaxConn, [Next]_vars PROVE client_size' \in 0..MaxConn
    OBVIOUS
  <2>1. CASE network_read
    BY <2>1, ReadRanges
  <2> QED
    BY <2>1 DEF Next, Connect, Send, Hangup, vars
<1>3. Table /\ Streams /\ client_size \in 0..MaxConn => TypeOK
  BY DEF Table, Typed, Streams, TypeOK, Agree, Buffer
<1> QED
  BY TableKept, StreamsKept, <1>1, <1>2, <1>3, PTL DEF Spec

\* The same however the server is set up, sends and is torn down around it; the answers
\* stay within their bound (network_op.c:60-215, 421-584, 612-800).
THEOREM TypeCorrect == ServerSpec => []ServerTypeOK
<1>1. ServerInit => Ranges
  <2>1. 0 \in 0..MaxConn /\ 0 \in 0..MaxAnswers
    BY Sizes, ServerAssumption
  <2> QED
    BY <2>1 DEF ServerInit, Boot, Ranges
<1>2. Inv /\ Ranges /\ [ServerNext]_allVars => Ranges'
  BY StepRanges
<1>3. Inv /\ Streams /\ Ranges => ServerTypeOK
  BY DEF Inv, Table, Typed, Setup, Streams, Ranges, ServerTypeOK, TypeOK, Agree, Buffer
<1> QED
  BY Invariance, StreamsKept, <1>1, <1>2, <1>3, PTL DEF ServerSpec

-----------------------------------------------------------------------------
(* The bytes of frames that follow each other *)

\* The cell holds a byte of a frame.
IsByte(cell) == cell \in Frame \X (0..FrmSize) /\ cell[2] < FrameBytes(cell[1].len)

\* s is the bytes of the frames fs, one frame after the other, up to the byte end of
\* the last one.
IsStream(s, fs, end) ==
    /\ \A k \in 1..Len(s) : IsByte(s[k]) /\ \E i \in 1..Len(fs) : s[k][1] = fs[i]
    /\ \A k, l \in 1..Len(s), i, j \in 1..Len(fs) :
          k <= l /\ s[k][1] = fs[i] /\ s[l][1] = fs[j] => i <= j
    /\ IF fs = <<>> THEN s = <<>>
       ELSE /\ s # <<>> /\ s[1] = <<fs[1], 0>>
            /\ s[Len(s)] = end /\ end[1] = fs[Len(fs)]
            /\ \A k \in 1..Len(s) : k + 1 \in 1..Len(s) =>
                  IF LastByte(s[k])
                  THEN \E i \in 1..Len(fs) : i + 1 \in 1..Len(fs) /\ s[k][1] = fs[i]
                                                 /\ s[k + 1] = <<fs[i + 1], 0>>
                  ELSE s[k + 1] = <<s[k][1], s[k][2] + 1>>

Distinct(fs) == \A i, j \in 1..Len(fs) : fs[i] = fs[j] => i = j

\* A byte of a frame is not what static storage holds.
LEMMA ByteFacts ==
    ASSUME NEW cell, IsByte(cell)
    PROVE  /\ cell \in Cell /\ cell # Nothing
           /\ cell[1] \in Frame /\ cell[2] \in Nat /\ cell[2] < FrameBytes(cell[1].len)
           /\ cell = <<cell[1], cell[2]>>
           /\ FrameBytes(cell[1].len) \in Nat
           /\ ~LastByte(cell) => cell[2] + 1 < FrameBytes(cell[1].len)
<1>1. /\ cell[1] \in Frame /\ cell[2] \in 0..FrmSize /\ cell = <<cell[1], cell[2]>>
      /\ cell[2] < FrameBytes(cell[1].len) /\ cell \in Cell
  BY DEF IsByte, Cell
<1>2. cell[1] # None /\ FrameBytes(cell[1].len) \in Nat /\ FrmSize \in Nat
  BY <1>1, FrameLength, Lengths
<1>3. cell # Nothing
  BY <1>2 DEF Nothing
<1> QED
  BY <1>1, <1>2, <1>3 DEF LastByte

\* The bytes of the first frame are where they belong.
LEMMA StreamHead ==
    ASSUME NEW s \in Seq(Cell), NEW fs \in Seq(Frame), fs # <<>>, NEW end, IsStream(s, fs, end)
    PROVE  \A k \in 1..Len(s) : k <= FrameBytes(fs[1].len) => s[k] = <<fs[1], k - 1>>
<1> DEFINE f == fs[1]
           S == {n \in Nat : n + 1 \in 1..Len(s) /\ n + 1 <= FrameBytes(f.len) => s[n + 1] = <<f, n>>}
<1>1. f \in Frame /\ FrameBytes(f.len) \in Nat \ {0} /\ Len(s) \in Nat
  BY FrameLength
<1>2. 0 \in S
  BY DEF IsStream
<1>3. ASSUME NEW n \in Nat, n \in S PROVE n + 1 \in S
  <2> SUFFICES ASSUME (n + 1) + 1 \in 1..Len(s), (n + 1) + 1 <= FrameBytes(f.len)
               PROVE  s[(n + 1) + 1] = <<f, n + 1>>
    OBVIOUS
  <2>1. n + 1 \in 1..Len(s) /\ n + 1 <= FrameBytes(f.len)
    BY <1>1
  <2>2. s[n + 1] = <<f, n>>
    BY <1>3, <2>1
  <2>3. s[n + 1][1] = f /\ s[n + 1][2] = n
    BY <2>2
  <2>4. ~LastByte(s[n + 1])
    BY <1>1, <2>3 DEF LastByte
  <2>5. s[(n + 1) + 1] = <<s[n + 1][1], s[n + 1][2] + 1>>
    BY <2>1, <2>4 DEF IsStream
  <2> QED
    BY <2>3, <2>5
<1> HIDE DEF S
<1>4. \A n \in Nat : n \in S
  BY <1>2, <1>3, NatInduct
<1>5. ASSUME NEW k \in 1..Len(s), k <= FrameBytes(f.len) PROVE s[k] = <<f, k - 1>>
  <2>1. k - 1 \in S /\ k - 1 \in Nat /\ (k - 1) + 1 = k
    BY <1>1, <1>4
  <2> QED
    BY <1>5, <2>1 DEF S
<1> QED
  BY <1>5

\* The ring does not end with the last byte of the first frame if there are others,
\* and does if there are none and that frame is whole.
LEMMA StreamShort ==
    ASSUME NEW s \in Seq(Cell), NEW fs \in Seq(Frame), fs # <<>>, NEW end, IsStream(s, fs, end),
           Distinct(fs), Len(s) < FrameBytes(fs[1].len)
    PROVE  Len(fs) = 1 /\ ~LastByte(end) /\ end = <<fs[1], Len(s) - 1>>
<1>1. /\ Len(s) \in 1..Len(s) /\ Len(fs) \in 1..Len(fs) /\ 1 \in 1..Len(fs)
      /\ end = s[Len(s)] /\ end[1] = fs[Len(fs)]
  BY DEF IsStream
<1>2. end = <<fs[1], Len(s) - 1>>
  <2> DEFINE m == FrameBytes(fs[1].len)
  <2>1. m \in Nat /\ Len(s) \in Nat
    BY <1>1, FrameLength
  <2>2. \A k \in 1..Len(s) : k <= m => s[k] = <<fs[1], k - 1>>
    BY StreamHead
  <2> HIDE DEF m
  <2>3. Len(s) <= m
    BY <2>1 DEF m
  <2> QED
    BY <1>1, <2>2, <2>3
<1>3. end[1] = fs[1] /\ end[2] = Len(s) - 1
  BY <1>2
<1>4. Len(fs) = 1
  BY <1>1, <1>3 DEF Distinct
<1>5. ~LastByte(end)
  BY <1>1, <1>3, FrameLength DEF LastByte
<1> QED
  BY <1>2, <1>4, <1>5
\* A stream that has its first frame whole is that frame's bytes and a stream of the
\* frames after it.
LEMMA StreamTake ==
    ASSUME NEW s \in Seq(Cell), NEW fs \in Seq(Frame), fs # <<>>, NEW end, IsStream(s, fs, end),
           Distinct(fs), FrameBytes(fs[1].len) <= Len(s)
    PROVE  LET m == FrameBytes(fs[1].len)
           IN  /\ SubSeq(s, 1, m) = FrameCells(fs[1])
               /\ IsStream(SubSeq(s, m + 1, Len(s)), Tail(fs), end)
               /\ Len(fs) = 1 => LastByte(end) /\ Len(s) = m
<1> DEFINE f == fs[1]
           m == FrameBytes(f.len)
           r == SubSeq(s, m + 1, Len(s))
           gs == Tail(fs)
<1>1. f \in Frame /\ m \in Nat \ {0} /\ m \in 0..Len(s) /\ m \in 1..Len(s)
  BY FrameLength
<1>2. SubSeq(s, 1, m) = FrameCells(f)
  <2>1. /\ SubSeq(s, 1, m) \in Seq(Cell) /\ Len(SubSeq(s, 1, m)) = m
        /\ \A k \in 1..m : SubSeq(s, 1, m)[k] = s[k] /\ k \in 1..Len(s)
    BY <1>1, FirstFacts
  <2>2. FrameCells(f) \in Seq(Cell) /\ Len(FrameCells(f)) = m
    BY <1>1, FrameCellsType
  <2>3. \A k \in 1..m : FrameCells(f)[k] = <<f, k - 1>>
    BY DEF FrameCells
  <2>4. \A k \in 1..m : s[k] = <<f, k - 1>>
    BY <1>1, <2>1, StreamHead
  <2> HIDE DEF m
  <2>5. \A k \in 1..m : SubSeq(s, 1, m)[k] = FrameCells(f)[k]
    BY <2>1, <2>3, <2>4
  <2> QED
    BY <2>1, <2>2, <2>5, EqualSeqs
<1>3. /\ r \in Seq(Cell) /\ Len(r) = Len(s) - m
      /\ \A k \in 1..(Len(s) - m) : r[k] = s[m + k] /\ m + k \in 1..Len(s)
  BY <1>1, DropFacts
<1>4. gs \in Seq(Frame) /\ Len(gs) = Len(fs) - 1 /\ \A i \in 1..Len(gs) : gs[i] = fs[i + 1] /\ i + 1 \in 1..Len(fs)
  BY TailFacts
<1>5. s[m] = <<f, m - 1>> /\ s[m][1] = f /\ LastByte(s[m])
  <2>1. s[m] = <<f, m - 1>>
    BY <1>1, StreamHead
  <2>2. s[m][1] = f /\ s[m][2] = m - 1
    BY <2>1
  <2> QED
    BY <1>1, <2>1, <2>2 DEF LastByte
<1> HIDE DEF m, r, gs
<1>6. 1 \in 1..Len(fs) /\ Len(fs) \in 1..Len(fs) /\ Len(s) \in Nat
  OBVIOUS
<1>7. CASE Len(s) = m
  <2>1. end[1] = f /\ LastByte(end) /\ end[1] = fs[Len(fs)]
    BY <1>5, <1>7 DEF IsStream
  <2>2. Len(fs) = 1
    BY <1>6, <2>1 DEF Distinct
  <2>3. r = <<>> /\ gs = <<>> /\ Len(r) = 0
    BY <1>1, <1>3, <1>4, <1>7, <2>2
  <2>4. IsStream(r, gs, end)
    BY <2>3 DEF IsStream
  <2> QED
    BY <1>2, <1>7, <2>1, <2>4 DEF m, r, gs
<1>8. CASE Len(s) # m
  <2>0. m + 1 \in 1..Len(s) /\ 1 \in 1..(Len(s) - m) /\ Len(r) \in 1..(Len(s) - m) /\ m + Len(r) = Len(s)
    BY <1>1, <1>3, <1>6, <1>8
  <2>1. PICK i \in 1..Len(fs) : i + 1 \in 1..Len(fs) /\ s[m][1] = fs[i] /\ s[m + 1] = <<fs[i + 1], 0>>
    BY <1>1, <1>5, <2>0 DEF IsStream
  <2>2. i = 1
    BY <1>5, <1>6, <2>1 DEF Distinct
  <2>3. 2 \in 1..Len(fs) /\ s[m + 1] = <<fs[2], 0>> /\ s[m + 1][1] = fs[2]
    BY <2>1, <2>2
  <2>4. gs # <<>> /\ Len(fs) # 1 /\ 1 \in 1..Len(gs) /\ Len(gs) \in 1..Len(gs)
    BY <1>4, <1>6, <2>3
  <2>5. r # <<>> /\ r[1] = <<gs[1], 0>>
    BY <1>3, <1>4, <2>0, <2>3, <2>4
  <2>6. r[Len(r)] = end /\ end[1] = gs[Len(gs)]
    BY <1>3, <1>4, <2>0, <2>4 DEF IsStream
  <2>7. ASSUME NEW k \in 1..Len(r), NEW j \in 1..Len(fs), r[k][1] = fs[j]
        PROVE  j - 1 \in 1..Len(gs) /\ gs[j - 1] = fs[j]
    <3>1. m + k \in 1..Len(s) /\ m + 1 <= m + k /\ s[m + k][1] = fs[j]
      <4>1. r[k] = s[m + k] /\ Len(r) = Len(s) - m
        BY <1>3, <2>7
      <4>2. m \in Nat /\ Len(s) \in Nat /\ k \in Nat /\ 1 <= k /\ k <= Len(s) - m
        BY <1>1, <1>6, <2>7, <4>1
      <4>3. m + k \in 1..Len(s) /\ m + 1 <= m + k
        BY <4>2
      <4> QED
        BY <2>7, <4>1, <4>3
    <3>2. 2 <= j
      BY <2>0, <2>3, <3>1 DEF IsStream
    <3> QED
      BY <1>4, <3>2
  <2>8. ASSUME NEW k \in 1..Len(r) PROVE IsByte(r[k]) /\ \E j \in 1..Len(gs) : r[k][1] = gs[j]
    <3>1. m + k \in 1..Len(s) /\ r[k] = s[m + k]
      BY <1>3
    <3>2. IsByte(r[k]) /\ \E j \in 1..Len(fs) : r[k][1] = fs[j]
      BY <3>1 DEF IsStream
    <3> QED
      BY <2>7, <3>2
  <2>9. ASSUME NEW k \in 1..Len(r), NEW l \in 1..Len(r), NEW i1 \in 1..Len(gs), NEW j1 \in 1..Len(gs),
               k <= l, r[k][1] = gs[i1], r[l][1] = gs[j1]
        PROVE  i1 <= j1
    <3>1. m + k \in 1..Len(s) /\ r[k] = s[m + k] /\ m + l \in 1..Len(s) /\ r[l] = s[m + l]
      BY <1>3
    <3>2. gs[i1] = fs[i1 + 1] /\ gs[j1] = fs[j1 + 1] /\ i1 + 1 \in 1..Len(fs) /\ j1 + 1 \in 1..Len(fs)
      BY <1>4
    <3>3. m + k <= m + l
      BY <1>1, <2>9
    <3>4. s[m + k][1] = fs[i1 + 1] /\ s[m + l][1] = fs[j1 + 1]
      BY <2>9, <3>1, <3>2
    <3>5. i1 + 1 <= j1 + 1
      <4> HIDE <2>9
      <4> QED
        BY <3>1, <3>2, <3>3, <3>4 DEF IsStream
    <3> QED
      BY <3>5
  <2>10. ASSUME NEW k \in 1..Len(r), k + 1 \in 1..Len(r)
         PROVE  IF LastByte(r[k])
                THEN \E j \in 1..Len(gs) : j + 1 \in 1..Len(gs) /\ r[k][1] = gs[j] /\ r[k + 1] = <<gs[j + 1], 0>>
                ELSE r[k + 1] = <<r[k][1], r[k][2] + 1>>
    <3>1. m + k \in 1..Len(s) /\ r[k] = s[m + k] /\ (m + k) + 1 \in 1..Len(s) /\ r[k + 1] = s[(m + k) + 1]
      BY <1>1, <1>3, <2>10
    <3>2. CASE LastByte(r[k])
      <4>1. PICK j \in 1..Len(fs) : j + 1 \in 1..Len(fs) /\ r[k][1] = fs[j] /\ r[k + 1] = <<fs[j + 1], 0>>
        BY <3>1, <3>2 DEF IsStream
      <4>2. j - 1 \in 1..Len(gs) /\ gs[j - 1] = fs[j]
        BY <2>7, <4>1
      <4>3. (j - 1) + 1 \in 1..Len(gs) /\ gs[(j - 1) + 1] = fs[j + 1]
        BY <1>4, <4>1, <4>2
      <4> QED
        BY <3>2, <4>1, <4>2, <4>3
    <3>3. CASE ~LastByte(r[k])
      BY <3>1, <3>3 DEF IsStream
    <3> QED
      BY <3>2, <3>3
  <2>11. IsStream(r, gs, end)
    BY <2>4, <2>5, <2>6, <2>8, <2>9, <2>10 DEF IsStream
  <2> QED
    BY <1>2, <2>4, <2>11 DEF m, r, gs
<1> QED
  BY <1>7, <1>8

\* What is left of fs when its first i are taken away.
LEMMA DropDistinct ==
    ASSUME NEW fs \in Seq(Frame), Distinct(fs), NEW i \in 0..Len(fs)
    PROVE  Distinct(SubSeq(fs, i + 1, Len(fs)))
<1> DEFINE gs == SubSeq(fs, i + 1, Len(fs))
<1>1. Len(gs) = Len(fs) - i /\ \A k \in 1..(Len(fs) - i) : gs[k] = fs[i + k] /\ i + k \in 1..Len(fs)
  BY DropFacts
<1> HIDE DEF gs
<1>2. ASSUME NEW k \in 1..Len(gs), NEW l \in 1..Len(gs), gs[k] = gs[l] PROVE k = l
  <2>1. i + k = i + l
    BY <1>1, <1>2 DEF Distinct
  <2> QED
    BY <1>1, <2>1
<1> QED
  BY <1>2 DEF Distinct, gs

\* A stream is the bytes of its whole frames, and those taken of the last when it is
\* not whole.
LEMMA StreamFlat ==
    ASSUME NEW s \in Seq(Cell), NEW fs \in Seq(Frame), NEW end, IsStream(s, fs, end), Distinct(fs),
           NEW w \in 0..Len(fs),
           \/ w = Len(fs) /\ (fs # <<>> => LastByte(end))
           \/ w + 1 = Len(fs) /\ ~LastByte(end)
    PROVE  s = FlattenSeq([k \in 1..w |-> FrameCells(fs[k])])
                   \o (IF w = Len(fs) THEN <<>> ELSE SubSeq(FrameCells(end[1]), 1, end[2] + 1))
<1> DEFINE q == [k \in 1..w |-> FrameCells(fs[k])]
           flat == FlattenSeq(q)
           left(i) == SubSeq(fs, i + 1, Len(fs))
           rest(m) == SubSeq(s, m + 1, Len(s))
<1>1. q \in Seq(Seq(Cell)) /\ Len(q) = w /\ w \in Nat /\ Len(fs) \in Nat
  BY FrameCellsType
<1>2. PICK g : w # 0 => flat = g[w] /\ Joins(g, w, q)
  <2>1. CASE w = 0
    BY <2>1
  <2>2. CASE w # 0
    <3>1. q # <<>>
      BY <1>1, <2>2
    <3> HIDE DEF q
    <3>2. \E g : FlattenSeq(q) = g[Len(q)] /\ Joins(g, Len(q), q)
      BY <1>1, <3>1, FlattenFacts
    <3> QED
      BY <1>1, <3>2
  <2> QED
    BY <2>1, <2>2
<1>3. flat = IF w = 0 THEN <<>> ELSE g[w]
  <2>1. CASE w = 0
    <3>1. q = <<>> /\ Len(q) = 0
      BY <2>1
    <3> QED
      BY <2>1, <3>1 DEF FlattenSeq
  <2> QED
    BY <1>2, <2>1
<1> HIDE DEF flat
<1> DEFINE Has(i, m) == /\ SubSeq(s, 1, m) = IF i = 0 THEN <<>> ELSE g[i]
                        /\ IsStream(rest(m), left(i), end)
           N == {i \in Nat : i <= w => \E m \in 0..Len(s) : Has(i, m)}
<1>4. 0 \in N
  <2>1. rest(0) = s /\ left(0) = fs /\ 0 \in 0..Len(s) /\ SubSeq(s, 1, 0) = <<>>
    OBVIOUS
  <2> QED
    BY <2>1
<1>5. ASSUME NEW i \in Nat, i \in N PROVE i + 1 \in N
  <2> SUFFICES ASSUME i + 1 <= w PROVE \E m \in 0..Len(s) : Has(i + 1, m)
    OBVIOUS
  <2>1. PICK m \in 0..Len(s) : Has(i, m)
    BY <1>1, <1>5
  <2> DEFINE r == rest(m)
             gs == left(i)
             n == FrameBytes(gs[1].len)
  <2>2. i \in 0..(Len(fs) - 1) /\ i \in 0..Len(fs) /\ i + 1 \in 1..w /\ i + 1 \in 1..Len(fs)
    BY <1>1
  <2>3. r \in Seq(Cell) /\ Len(r) = Len(s) - m
    BY DropFacts
  <2>4. gs \in Seq(Frame) /\ Len(gs) = Len(fs) - i /\ Distinct(gs)
    BY <2>2, DropFacts, DropDistinct
  <2>5. Tail(gs) = left(i + 1) /\ gs # <<>> /\ gs[1] = fs[i + 1]
    BY <2>2, TailDrop
  <2>6. IsStream(r, gs, end) /\ SubSeq(s, 1, m) = IF i = 0 THEN <<>> ELSE g[i]
    BY <2>1
  <2> HIDE DEF Has, r, gs, q
  <2>7. n \in Nat /\ gs[1] \in Frame
    <3>1. gs[1] \in Frame
      BY <2>4, <2>5
    <3> QED
      BY <3>1, FrameLength
  <2>8. n <= Len(r)
    <3>1. Len(gs) = 1 => w = Len(fs) /\ w + 1 # Len(fs) /\ Len(fs) # 0
      <4>1. Len(gs) = 1 => Len(fs) - i = 1
        BY <2>4, Zenon
      <4>2. Len(fs) - i = 1 => w = Len(fs) /\ w + 1 # Len(fs) /\ Len(fs) # 0
        BY <1>1
      <4> QED
        BY <4>1, <4>2, Zenon
    <3>2. ASSUME Len(r) < n PROVE Len(gs) = 1 /\ ~LastByte(end)
      BY <2>3, <2>4, <2>5, <2>6, <3>2, StreamShort
    <3>3. Len(fs) # 0 => fs # <<>>
      OBVIOUS
    <3>4. ~(Len(r) < n)
      BY <3>1, <3>2, <3>3
    <3> QED
      BY <2>3, <2>7, <3>4
  <2>9. SubSeq(r, 1, n) = FrameCells(gs[1]) /\ IsStream(SubSeq(r, n + 1, Len(r)), Tail(gs), end)
    BY <2>3, <2>4, <2>5, <2>6, <2>8, StreamTake
  <2>10. m \in Nat /\ n \in 0..(Len(s) - m) /\ m + n \in 0..Len(s)
    BY <2>3, <2>7, <2>8
  <2> HIDE DEF n
  <2>11. SubSeq(r, n + 1, Len(r)) = rest(m + n)
    BY <2>10, DropTwice DEF r
  <2>12. SubSeq(s, 1, m + n) = SubSeq(s, 1, m) \o SubSeq(r, 1, n)
    BY <2>10, JoinFirst DEF r
  <2>13. q[i + 1] = FrameCells(gs[1])
    BY <2>2, <2>5 DEF q
  <2>14. SubSeq(s, 1, m + n) = g[i + 1]
    <3>1. g[i + 1] = IF i + 1 = 1 THEN q[i + 1] ELSE g[(i + 1) - 1] \o q[i + 1]
      BY <1>1, <1>2, <2>2 DEF Joins
    <3>2. CASE i = 0
      <4>1. FrameCells(gs[1]) \in Seq(Cell)
        BY <2>7, FrameCellsType
      <4>2. SubSeq(s, 1, m + n) = <<>> \o FrameCells(gs[1])
        BY <2>6, <2>9, <2>12, <3>2
      <4>3. <<>> \o FrameCells(gs[1]) = FrameCells(gs[1])
        BY <4>1, ConcatEmptySeq
      <4> QED
        BY <2>13, <3>1, <3>2, <4>2, <4>3
    <3>3. CASE i # 0
      <4>1. i + 1 # 1 /\ (i + 1) - 1 = i
        BY <3>3
      <4> QED
        BY <2>6, <2>9, <2>12, <2>13, <3>1, <3>3, <4>1
    <3> QED
      BY <3>2, <3>3
  <2>15. Has(i + 1, m + n)
    <3>1. i + 1 # 0
      OBVIOUS
    <3> QED
      BY <2>5, <2>9, <2>11, <2>14, <3>1 DEF Has
  <2> QED
    BY <2>10, <2>15
<1> HIDE DEF N
<1>6. \A i \in Nat : i \in N
  BY <1>4, <1>5, NatInduct
<1>7. PICK m \in 0..Len(s) : Has(w, m)
  BY <1>1, <1>6 DEF N
<1> DEFINE r == rest(m)
           gs == left(w)
<1>8. SubSeq(s, 1, m) = flat /\ IsStream(r, gs, end)
  BY <1>3, <1>7
<1>9. s = flat \o r
  BY <1>8, Split
<1>10. r \in Seq(Cell) /\ Len(r) = Len(s) - m
  BY DropFacts
<1>11. gs \in Seq(Frame) /\ Len(gs) = Len(fs) - w /\ Distinct(gs)
  BY DropFacts, DropDistinct
<1> HIDE DEF r, gs, Has, left, rest, q
<1>12. CASE w = Len(fs)
  <2>1. gs = <<>>
    BY <1>1, <1>11, <1>12
  <2>2. r = <<>>
    BY <1>8, <2>1 DEF IsStream
  <2> QED
    BY <1>9, <1>12, <2>2 DEF flat, q
<1>13. CASE w + 1 = Len(fs) /\ ~LastByte(end)
  <2>1. Len(gs) = 1 /\ gs # <<>> /\ gs[1] \in Frame
    BY <1>1, <1>11, <1>13
  <2> DEFINE n == FrameBytes(gs[1].len)
  <2>2. n \in Nat /\ Len(r) \in Nat
    BY <1>10, <2>1, FrameLength
  <2>3. Len(r) < n
    <3> SUFFICES ASSUME n <= Len(r) PROVE FALSE
      BY <2>2
    <3> QED
      BY <1>8, <1>10, <1>11, <1>13, <2>1, StreamTake
  <2>4. end = <<gs[1], Len(r) - 1>> /\ end[1] = gs[1] /\ end[2] + 1 = Len(r)
    <3>1. end = <<gs[1], Len(r) - 1>>
      BY <1>8, <1>10, <1>11, <2>1, <2>3, StreamShort
    <3> QED
      BY <2>2, <3>1
  <2>5. \A k \in 1..Len(r) : r[k] = <<gs[1], k - 1>>
    <3>1. \A k \in 1..Len(r) : k <= FrameBytes(gs[1].len) => r[k] = <<gs[1], k - 1>>
      BY <1>8, <1>10, <1>11, <2>1, StreamHead
    <3>2. \A k \in 1..Len(r) : k <= n
      BY <2>2, <2>3
    <3> QED
      BY <3>1, <3>2
  <2>6. r = SubSeq(FrameCells(gs[1]), 1, Len(r))
    <3>1. FrameCells(gs[1]) \in Seq(Cell) /\ Len(FrameCells(gs[1])) = n
      BY <2>1, FrameCellsType
    <3>2. \A k \in 1..n : FrameCells(gs[1])[k] = <<gs[1], k - 1>>
      BY DEF FrameCells
    <3> DEFINE p == SubSeq(FrameCells(gs[1]), 1, Len(r))
    <3>3. Len(r) \in 0..n
      BY <2>2, <2>3
    <3> HIDE DEF n
    <3>4. p \in Seq(Cell) /\ Len(p) = Len(r) /\ \A k \in 1..Len(r) : p[k] = FrameCells(gs[1])[k] /\ k \in 1..n
      BY <3>1, <3>3, FirstFacts
    <3> HIDE DEF p
    <3>5. \A k \in 1..Len(r) : r[k] = p[k]
      BY <2>5, <3>2, <3>4
    <3>6. r = p
      BY <1>10, <3>4, <3>5, EqualSeqs
    <3> QED
      BY <3>6 DEF p
  <2>7. w # Len(fs)
    BY <1>1, <1>13
  <2>8. r = SubSeq(FrameCells(end[1]), 1, end[2] + 1)
    BY <2>4, <2>6
  <2> QED
    BY <1>9, <2>7, <2>8 DEF flat, q
<1> QED
  BY <1>12, <1>13

-----------------------------------------------------------------------------
(* From the clients to the ring *)

\* Frames of a client that are taken whole when cell is the byte recv took last, and
\* the bytes taken of the frame after them.
Done(cell) ==
    IF cell = Nothing THEN 0 ELSE IF LastByte(cell) THEN cell[1].num ELSE cell[1].num - 1
Begun(cell) == IF cell = Nothing \/ LastByte(cell) THEN 0 ELSE cell[2] + 1

\* next is the byte that the client sent after cell.
Follows(cell, next) == next[1].num = Done(cell) + 1 /\ next[2] = Begun(cell)

\* cell is a byte of one of the frames fs of a client.
ByteOf(fs, cell) ==
    IsByte(cell) /\ cell[1].num \in 1..Len(fs) /\ cell[1] = fs[cell[1].num]

\* Of the frames fs that client c has sent, w is on its way and t the byte taken last:
\* TCP hands on what was sent, in order.
Ordered(c, fs, w, t) ==
    /\ \A k \in 1..Len(fs) : fs[k].conn = c /\ fs[k].num = k
    /\ \A k \in 1..Len(w) : ByteOf(fs, w[k])
    /\ \A k \in 1..Len(w) : k + 1 \in 1..Len(w) => Follows(w[k], w[k + 1])
    /\ \A k, l \in 1..Len(w) : k <= l => w[k][1].num <= w[l][1].num
    /\ t # Nothing => ByteOf(fs, t)
    /\ w # <<>> => Follows(t, w[1])

\* Nothing is lost: the byte furthest on its way ends the frame sent last.
AllThere(fs, w, t) ==
    LET foremost == IF w = <<>> THEN t ELSE w[Len(w)]
    IN  Done(foremost) = Len(fs) /\ Begun(foremost) = 0

InOrder ==
    /\ taken \in [Conn -> Cell]
    /\ \A c \in Conn :
          /\ Ordered(c, sent[c], wire[c], taken[c])
          /\ link[c] \in {"none", "up"} => AllThere(sent[c], wire[c], taken[c])

\* arrived has the frames taken whole, each once.
Whole ==
    /\ arrived \in Seq(Frame) /\ Distinct(arrived)
    /\ \A k \in 1..Len(arrived) :
          LET c == arrived[k].conn
          IN  /\ arrived[k].num \in 1..Done(taken[c])
              /\ arrived[k] = sent[c][arrived[k].num]

\* The frames in the ring, and the byte it ends with.
RingHolds(fs, end) ==
    /\ fs \in Seq(Frame) /\ Distinct(fs) /\ IsStream(Contents(buf), fs, end)
    /\ \/ \E c \in Conn : Inside(c) /\ fs = Append(Waiting, taken[c][1]) /\ end = taken[c]
       \/ (\A c \in Conn : ~Inside(c)) /\ fs = Waiting /\ (fs # <<>> => LastByte(end))

\* What was dispatched are the first of the frames that arrived.
InTurn == Len(dispatched) <= Len(arrived) /\ \A k \in 1..Len(dispatched) : dispatched[k] = arrived[k]

InRing ==
    /\ dispatched \in Seq(Frame \cup {Torn})
    /\ ~torn => \A c, d \in Conn : Inside(c) /\ Inside(d) => c = d
    /\ ~torn /\ ~overrun => InTurn /\ \E fs, end : RingHolds(fs, end)

\* A client that waits has at most one frame that was not dispatched.
Paced ==
    Window = 1 =>
        /\ \A c \in Conn : Len(sent[c]) <= Answered(c) + 1
        /\ ~torn => ~overrun /\ Len(dispatched) = Len(arrived)
\* The chunk ch goes on where the stream s ends, with bytes of the frames gs.  The first
\* w of the frames fs are whole; pos says which frame a byte of the chunk belongs to.
GoesOnWith(s, fs, end, gs, w, ch, pos) ==
    /\ \A i \in 1..Len(fs) : i \in 1..Len(gs) /\ gs[i] = fs[i]
    /\ Len(fs) \in {w, w + 1}
    /\ \A k \in 1..Len(ch) : pos[k] \in (w + 1)..Len(gs) /\ IsByte(ch[k]) /\ ch[k][1] = gs[pos[k]]
    /\ \A k, l \in 1..Len(ch) : k <= l => pos[k] <= pos[l]
    /\ \A k \in 1..Len(ch) : k + 1 \in 1..Len(ch) =>
          IF LastByte(ch[k]) THEN pos[k + 1] = pos[k] + 1 /\ ch[k + 1][2] = 0
                             ELSE pos[k + 1] = pos[k] /\ ch[k + 1][2] = ch[k][2] + 1
    /\ pos[1] = w + 1 /\ pos[Len(ch)] = Len(gs)
    /\ IF Len(fs) = w + 1 THEN ~LastByte(end) /\ ch[1][2] = end[2] + 1
                          ELSE (fs # <<>> => LastByte(end)) /\ ch[1][2] = 0

\* It makes a longer stream.
LEMMA StreamAppend ==
    ASSUME NEW s \in Seq(Cell), NEW fs \in Seq(Frame), NEW end, IsStream(s, fs, end),
           NEW gs \in Seq(Frame), Distinct(gs), NEW w \in Nat, NEW ch \in Seq(Cell), ch # <<>>,
           NEW pos, GoesOnWith(s, fs, end, gs, w, ch, pos)
    PROVE  gs # <<>> /\ IsStream(s \o ch, gs, ch[Len(ch)])
<1> USE DEF GoesOnWith
<1> DEFINE m == Len(s)
           n == Len(ch)
           t == s \o ch
<1>1. m \in Nat /\ n \in Nat \ {0} /\ Len(gs) \in Nat /\ Len(fs) \in Nat
  OBVIOUS
<1>2. t \in Seq(Cell) /\ Len(t) = m + n
      /\ \A k \in 1..(m + n) : t[k] = IF k <= m THEN s[k] ELSE ch[k - m]
  BY ConcatProperties
<1>3. 1 \in 1..n /\ n \in 1..n
  BY <1>1
<1> HIDE DEF t, m, n
<1>4. \A k \in 1..m : k \in 1..(m + n) /\ t[k] = s[k]
  BY <1>1, <1>2
<1>5. \A k \in 1..n : m + k \in 1..(m + n) /\ t[m + k] = ch[k]
  <2>1. \A k \in 1..n : m + k \in 1..(m + n) /\ ~(m + k <= m) /\ (m + k) - m = k
    BY <1>1
  <2> QED
    BY <1>2, <2>1
<1>6. \A k \in 1..(m + n) : k \in 1..m \/ (k - m \in 1..n /\ m + (k - m) = k)
  BY <1>1
<1>7. \A k \in 1..n : /\ pos[k] \in 1..Len(gs) /\ w < pos[k]
                     /\ IsByte(ch[k]) /\ ch[k][1] = gs[pos[k]]
  BY <1>1 DEF n
<1>8. gs # <<>> /\ 1 \in 1..Len(gs) /\ Len(gs) \in 1..Len(gs) /\ w + 1 \in 1..Len(gs)
  BY <1>1, <1>3, <1>7 DEF n
\* Where a byte of s belongs
<1>9. ASSUME NEW k \in 1..m, NEW i \in 1..Len(gs), s[k][1] = gs[i]
      PROVE  i \in 1..Len(fs) /\ s[k][1] = fs[i]
  <2>1. PICK j \in 1..Len(fs) : s[k][1] = fs[j]
    BY DEF IsStream, m
  <2>2. j \in 1..Len(gs) /\ gs[j] = gs[i]
    BY <1>9, <2>1
  <2>3. i = j
    BY <2>2 DEF Distinct
  <2> QED
    BY <2>1, <2>3
\* Where a byte of the chunk belongs
<1>10. ASSUME NEW k \in 1..n, NEW i \in 1..Len(gs), ch[k][1] = gs[i]
       PROVE  i = pos[k]
  <2>1. pos[k] \in 1..Len(gs) /\ gs[pos[k]] = gs[i]
    BY <1>7, <1>10
  <2> QED
    BY <2>1 DEF Distinct
<1>11. ASSUME NEW k \in 1..(m + n)
       PROVE  IsByte(t[k]) /\ \E i \in 1..Len(gs) : t[k][1] = gs[i]
  <2>1. CASE k \in 1..m
    BY <1>4, <2>1 DEF IsStream, m
  <2>2. CASE k - m \in 1..n /\ m + (k - m) = k
    <3> DEFINE c == k - m
    <3>1. c \in 1..n /\ t[k] = ch[c]
      BY <1>5, <2>2
    <3> HIDE DEF c
    <3>2. IsByte(ch[c]) /\ pos[c] \in 1..Len(gs) /\ ch[c][1] = gs[pos[c]]
      BY <1>7, <3>1
    <3> QED
      BY <3>1, <3>2
  <2> QED
    BY <1>6, <2>1, <2>2
<1>12. ASSUME NEW k \in 1..(m + n), NEW l \in 1..(m + n), NEW i \in 1..Len(gs), NEW j \in 1..Len(gs),
              k <= l, t[k][1] = gs[i], t[l][1] = gs[j]
       PROVE  i <= j
  <2>1. CASE k \in 1..m /\ l \in 1..m
    <3>0. s[k][1] = gs[i] /\ s[l][1] = gs[j]
      BY <1>4, <1>12, <2>1
    <3>1. i \in 1..Len(fs) /\ s[k][1] = fs[i] /\ j \in 1..Len(fs) /\ s[l][1] = fs[j]
      BY <1>9, <2>1, <3>0
    <3> QED
      BY <1>12, <2>1, <3>1 DEF IsStream, m
  <2>2. CASE k \in 1..m /\ l - m \in 1..n /\ m + (l - m) = l
    <3>1. i \in 1..Len(fs)
      <4>1. s[k][1] = gs[i]
        BY <1>4, <1>12, <2>2
      <4> QED
        BY <1>9, <2>2, <4>1
    <3>2. t[l] = ch[l - m]
      BY <1>5, <2>2
    <3>3. j = pos[l - m]
      <4>1. ch[l - m][1] = gs[j]
        BY <1>12, <3>2
      <4> QED
        BY <1>10, <2>2, <4>1
    <3>4. w < j
      BY <1>7, <2>2, <3>3
    <3> QED
      BY <3>1, <3>4
  <2>3. CASE k - m \in 1..n /\ m + (k - m) = k /\ l - m \in 1..n /\ m + (l - m) = l
    <3> DEFINE a == k - m
               b == l - m
    <3>1. a \in 1..n /\ b \in 1..n /\ t[k] = ch[a] /\ t[l] = ch[b]
      BY <1>5, <2>3
    <3>2. a <= b
      BY <1>1, <1>12
    <3> HIDE DEF a, b
    <3>3. i = pos[a] /\ j = pos[b]
      BY <1>10, <1>12, <3>1
    <3> QED
      BY <3>1, <3>2, <3>3 DEF n
  <2>4. ~(k - m \in 1..n /\ l \in 1..m)
    BY <1>1, <1>12
  <2> QED
    BY <1>6, <2>1, <2>2, <2>3, <2>4
<1>13. t # <<>> /\ t[1] = <<gs[1], 0>>
  <2>1. t # <<>>
    BY <1>1, <1>2
  <2>2. CASE m # 0
    <3>1. 1 \in 1..m /\ t[1] = s[1]
      BY <1>1, <1>4, <2>2
    <3>2. s # <<>> /\ fs # <<>> /\ s[1] = <<fs[1], 0>>
      BY <2>2 DEF IsStream, m
    <3>3. 1 \in 1..Len(fs)
      BY <3>2
    <3> QED
      BY <2>1, <3>1, <3>2, <3>3
  <2>3. CASE m = 0
    <3>1. fs = <<>> /\ Len(fs) = 0
      BY <2>3 DEF IsStream, m
    <3>2. w = 0 /\ Len(fs) # w + 1
      BY <3>1
    <3>3. pos[1] = 1 /\ ch[1][2] = 0 /\ ch[1][1] = gs[1] /\ IsByte(ch[1])
      BY <1>3, <3>2 DEF n
    <3>4. ch[1] = <<gs[1], 0>>
      <4>1. ch[1] = <<ch[1][1], ch[1][2]>>
        BY <3>3, ByteFacts
      <4> QED
        BY <3>3, <4>1
    <3>5. t[1] = ch[1]
      <4>1. m + 1 = 1
        BY <2>3
      <4> QED
        BY <1>3, <1>5, <4>1
    <3> QED
      BY <2>1, <3>4, <3>5
  <2> QED
    BY <2>2, <2>3
<1>14. t[Len(t)] = ch[Len(ch)] /\ ch[Len(ch)][1] = gs[Len(gs)]
  <2>1. Len(t) = m + n /\ t[m + n] = ch[n]
    BY <1>2, <1>3, <1>5
  <2>2. ch[n][1] = gs[pos[n]] /\ pos[n] = Len(gs)
    BY <1>3 DEF n
  <2> QED
    BY <2>1, <2>2 DEF n
<1>15. ASSUME NEW k \in 1..(m + n), k + 1 \in 1..(m + n)
       PROVE  IF LastByte(t[k])
              THEN \E i \in 1..Len(gs) : i + 1 \in 1..Len(gs) /\ t[k][1] = gs[i] /\ t[k + 1] = <<gs[i + 1], 0>>
              ELSE t[k + 1] = <<t[k][1], t[k][2] + 1>>
  <2>1. CASE k \in 1..m /\ k + 1 \in 1..m
    <3>1. t[k] = s[k] /\ t[k + 1] = s[k + 1]
      BY <1>4, <2>1
    <3>2. fs # <<>>
      BY <2>1 DEF IsStream, m
    <3>3. CASE LastByte(s[k])
      <4>1. PICK i \in 1..Len(fs) : i + 1 \in 1..Len(fs) /\ s[k][1] = fs[i] /\ s[k + 1] = <<fs[i + 1], 0>>
        BY <2>1, <3>2, <3>3 DEF IsStream, m
      <4> QED
        BY <3>1, <3>3, <4>1
    <3>4. CASE ~LastByte(s[k])
      BY <2>1, <3>1, <3>2, <3>4 DEF IsStream, m
    <3> QED
      BY <3>3, <3>4
  <2>2. CASE k \in 1..m /\ ~(k + 1 \in 1..m)
    <3>1. k = m /\ k + 1 = m + 1 /\ m # 0
      BY <1>1, <2>2
    <3>2. t[k] = s[m] /\ t[k + 1] = ch[1]
      BY <1>3, <1>4, <1>5, <2>2, <3>1
    <3>3. s # <<>> /\ fs # <<>>
      BY <3>1 DEF IsStream, m
    <3>4. s[m] = end /\ end[1] = fs[Len(fs)] /\ Len(fs) \in 1..Len(fs)
      BY <3>3 DEF IsStream, m
    <3>5. IsByte(ch[1]) /\ ch[1][1] = gs[w + 1]
      BY <1>3 DEF n
    <3>6. ch[1] = <<gs[w + 1], ch[1][2]>>
      BY <3>5, ByteFacts
    <3>7. CASE Len(fs) = w + 1
      <4>1. ~LastByte(end) /\ ch[1][2] = end[2] + 1 /\ end[1] = gs[w + 1]
        BY <3>4, <3>7
      <4> QED
        BY <3>2, <3>4, <3>6, <4>1
    <3>8. CASE Len(fs) # w + 1
      <4>1. LastByte(end) /\ ch[1][2] = 0 /\ Len(fs) = w
        BY <3>3, <3>8
      <4>2. end[1] = gs[w] /\ w \in 1..Len(gs)
        BY <3>4, <4>1
      <4> QED
        BY <1>8, <3>2, <3>4, <3>6, <4>1, <4>2
    <3> QED
      BY <3>7, <3>8
  <2>3. CASE k - m \in 1..n /\ m + (k - m) = k
    <3> DEFINE c == k - m
    <3>1. c \in 1..n /\ c + 1 \in 1..n /\ m + (c + 1) = k + 1 /\ m + c = k
      BY <1>1, <1>15, <2>3
    <3> HIDE DEF c
    <3>2. t[k] = ch[c] /\ t[k + 1] = ch[c + 1]
      BY <1>5, <3>1
    <3>3. IsByte(ch[c + 1]) /\ ch[c + 1][1] = gs[pos[c + 1]] /\ ch[c][1] = gs[pos[c]]
      BY <3>1 DEF n
    <3>4. ch[c + 1] = <<gs[pos[c + 1]], ch[c + 1][2]>>
      BY <3>3, ByteFacts
    <3>5. IF LastByte(ch[c]) THEN pos[c + 1] = pos[c] + 1 /\ ch[c + 1][2] = 0
                             ELSE pos[c + 1] = pos[c] /\ ch[c + 1][2] = ch[c][2] + 1
      BY <3>1 DEF n
    <3>6. pos[c] \in 1..Len(gs) /\ pos[c + 1] \in 1..Len(gs)
      BY <1>7, <3>1
    <3>7. CASE LastByte(ch[c])
      <4>1. ch[c + 1] = <<gs[pos[c] + 1], 0>> /\ pos[c] + 1 \in 1..Len(gs)
        BY <3>4, <3>5, <3>6, <3>7
      <4> QED
        <5>1. LastByte(t[k]) /\ t[k][1] = gs[pos[c]] /\ t[k + 1] = <<gs[pos[c] + 1], 0>>
          BY <3>2, <3>3, <3>7, <4>1
        <5> QED
          BY <3>6, <4>1, <5>1
    <3>8. CASE ~LastByte(ch[c])
      <4>1. ch[c + 1] = <<gs[pos[c]], ch[c][2] + 1>>
        BY <3>4, <3>5, <3>8
      <4> QED
        BY <3>2, <3>3, <3>8, <4>1
    <3> QED
      BY <3>7, <3>8
  <2> QED
    BY <1>6, <2>1, <2>2, <2>3
<1> QED
  <2>1. Len(t) = m + n
    BY <1>2
  <2>2. IsStream(t, gs, ch[Len(ch)])
    BY <1>8, <1>11, <1>12, <1>13, <1>14, <1>15, <2>1 DEF IsStream
  <2> QED
    BY <1>8, <2>2 DEF t
\* gen_net_frm and the socket: a frame goes behind what is under way.
LEMMA OrderedSend ==
    ASSUME NEW c, NEW fs \in Seq(Frame), NEW w \in Seq(Cell), NEW t, Ordered(c, fs, w, t),
           AllThere(fs, w, t), NEW f \in Frame, f.conn = c, f.num = Len(fs) + 1
    PROVE  LET gs == Append(fs, f)
               v == w \o FrameCells(f)
           IN  Ordered(c, gs, v, t) /\ AllThere(gs, v, t)
<1> DEFINE gs == Append(fs, f)
           cells == FrameCells(f)
           v == w \o cells
           m == Len(w)
           n == FrameBytes(f.len)
<1>1. n \in Nat \ {0} /\ n <= FrmSize /\ FrmSize \in Nat /\ m \in Nat /\ Len(fs) \in Nat
  BY FrameLength, Lengths
<1>2. gs \in Seq(Frame) /\ Len(gs) = Len(fs) + 1 /\ gs[Len(fs) + 1] = f
      /\ \A k \in 1..Len(fs) : gs[k] = fs[k] /\ k \in 1..Len(gs)
  OBVIOUS
<1>3. cells \in Seq(Cell) /\ Len(cells) = n /\ \A k \in 1..n : cells[k] = <<f, k - 1>>
  BY FrameCellsType DEF FrameCells
<1> HIDE DEF cells, n, gs
<1>4. v \in Seq(Cell) /\ Len(v) = m + n
      /\ \A k \in 1..(m + n) : v[k] = IF k <= m THEN w[k] ELSE cells[k - m]
  BY <1>3, ConcatProperties
<1> HIDE DEF v, m
<1>5. \A k \in 1..m : k \in 1..(m + n) /\ v[k] = w[k]
  BY <1>1, <1>4
<1>6. \A k \in 1..n : m + k \in 1..(m + n) /\ v[m + k] = <<f, k - 1>>
  <2>1. \A k \in 1..n : m + k \in 1..(m + n) /\ ~(m + k <= m) /\ (m + k) - m = k
    BY <1>1
  <2> QED
    BY <1>3, <1>4, <2>1
<1>7. \A k \in 1..(m + n) : k \in 1..m \/ (k - m \in 1..n /\ m + (k - m) = k)
  BY <1>1
<1>8. \A k \in 1..n : /\ <<f, k - 1>>[1] = f /\ <<f, k - 1>>[2] = k - 1
                     /\ ByteOf(gs, <<f, k - 1>>) /\ (LastByte(<<f, k - 1>>) <=> k = n)
  <2> SUFFICES ASSUME NEW k \in 1..n
               PROVE  ByteOf(gs, <<f, k - 1>>) /\ (LastByte(<<f, k - 1>>) <=> k = n)
    OBVIOUS
  <2>1. k - 1 \in 0..FrmSize /\ k - 1 < n /\ (k - 1) + 1 = k
    BY <1>1
  <2>2. f.num \in 1..Len(gs) /\ gs[f.num] = f
    BY <1>1, <1>2
  <2> QED
    BY <2>1, <2>2 DEF ByteOf, IsByte, LastByte, n
<1>9. \A k \in 1..Len(gs) : gs[k].conn = c /\ gs[k].num = k
  <2>1. \A k \in 1..Len(gs) : k \in 1..Len(fs) \/ k = Len(fs) + 1
    BY <1>1, <1>2
  <2> QED
    BY <1>2, <2>1 DEF Ordered
<1>10. \A cell : ByteOf(fs, cell) => ByteOf(gs, cell) /\ cell[1].num \in Nat /\ cell[1].num < f.num
  BY <1>1, <1>2 DEF ByteOf
<1>11. \A k \in 1..(m + n) : ByteOf(gs, v[k])
  <2> TAKE k \in 1..(m + n)
  <2>1. CASE k \in 1..m
    BY <1>5, <1>10, <2>1 DEF Ordered, m
  <2>2. CASE k - m \in 1..n /\ m + (k - m) = k
    BY <1>6, <1>8, <2>2
  <2> QED
    BY <1>7, <2>1, <2>2
<1>12. v # <<>> /\ 1 \in 1..n /\ n \in 1..n /\ f.num \in Nat
  BY <1>1, <1>4
\* The frame begins where what is under way ends.
<1>13. \A l : Done(l) = Len(fs) /\ Begun(l) = 0 => Follows(l, <<f, 1 - 1>>)
  BY <1>8, <1>12 DEF Follows
<1>14. ASSUME NEW k \in 1..(m + n), k + 1 \in 1..(m + n)
       PROVE  Follows(v[k], v[k + 1])
  <2>1. CASE k \in 1..m /\ k + 1 \in 1..m
    BY <1>5, <2>1 DEF Ordered, m
  <2>2. CASE k = m /\ k \in 1..m
    <3>1. v[k + 1] = <<f, 1 - 1>>
      BY <1>6, <1>12, <2>2
    <3>2. w # <<>> /\ v[k] = w[Len(w)]
      BY <1>5, <2>2 DEF m
    <3>3. Done(v[k]) = Len(fs) /\ Begun(v[k]) = 0
      BY <3>2 DEF AllThere
    <3> QED
      BY <1>13, <3>1, <3>3
  <2>3. CASE k - m \in 1..n /\ m + (k - m) = k
    <3> DEFINE a == k - m
    <3>1. a \in 1..n /\ a + 1 \in 1..n /\ m + a = k /\ m + (a + 1) = k + 1 /\ a # n
      BY <1>1, <1>14, <2>3
    <3> HIDE DEF a
    <3>2. v[k] = <<f, a - 1>> /\ v[k + 1] = <<f, (a + 1) - 1>>
      BY <1>6, <3>1
    <3>3. /\ ~LastByte(<<f, a - 1>>) /\ IsByte(<<f, a - 1>>)
          /\ <<f, a - 1>>[1] = f /\ <<f, a - 1>>[2] = a - 1
      BY <1>8, <3>1 DEF ByteOf
    <3>4. Done(<<f, a - 1>>) = f.num - 1 /\ Begun(<<f, a - 1>>) = (a - 1) + 1
      BY <3>3, ByteFacts DEF Done, Begun
    <3> QED
      BY <1>8, <1>12, <3>1, <3>2, <3>4 DEF Follows
  <2>4. k \in 1..m => (k = m \/ k + 1 \in 1..m)
    BY <1>1
  <2> QED
    BY <1>7, <2>1, <2>2, <2>3, <2>4
<1>15. ASSUME NEW k \in 1..(m + n), NEW l \in 1..(m + n), k <= l
       PROVE  v[k][1].num <= v[l][1].num
  <2>1. \A j \in 1..(m + n) : ~(j \in 1..m) => v[j][1] = f
    BY <1>6, <1>7
  <2>2. \A j \in 1..m : v[j][1].num \in Nat /\ v[j][1].num <= f.num
    <3>1. \A j \in 1..m : ByteOf(fs, w[j])
      BY DEF Ordered, m
    <3> QED
      BY <1>5, <1>10, <1>12, <3>1
  <2>3. CASE k \in 1..m /\ l \in 1..m
    BY <1>5, <1>15, <2>3 DEF Ordered, m
  <2>4. CASE k \in 1..m /\ ~(l \in 1..m)
    BY <2>1, <2>2, <2>4
  <2>5. CASE ~(k \in 1..m)
    <3>1. ~(l \in 1..m)
      BY <1>1, <1>15, <2>5
    <3> QED
      BY <1>12, <2>1, <2>5, <3>1
  <2> QED
    BY <2>3, <2>4, <2>5
<1>16. t # Nothing => ByteOf(gs, t)
  BY <1>10 DEF Ordered
<1>17. Follows(t, v[1])
  <2>1. CASE w = <<>>
    <3>1. m = 0 /\ m + 1 = 1
      BY <2>1 DEF m
    <3>2. v[1] = <<f, 1 - 1>>
      BY <1>6, <1>12, <3>1
    <3> QED
      BY <1>13, <2>1, <3>2 DEF AllThere
  <2>2. CASE w # <<>>
    <3>1. 1 \in 1..m
      BY <2>2 DEF m
    <3> QED
      BY <1>5, <2>2, <3>1 DEF Ordered
  <2> QED
    BY <2>1, <2>2
<1>18. v[Len(v)] = <<f, n - 1>>
  BY <1>4, <1>6, <1>12
<1>19. Done(<<f, n - 1>>) = f.num /\ Begun(<<f, n - 1>>) = 0
  <2>1. LastByte(<<f, n - 1>>) /\ IsByte(<<f, n - 1>>) /\ <<f, n - 1>>[1] = f
    BY <1>8, <1>12 DEF ByteOf
  <2> QED
    BY <2>1, ByteFacts DEF Done, Begun
<1>20. AllThere(gs, v, t)
  BY <1>2, <1>12, <1>18, <1>19 DEF AllThere
<1>21. Len(v) = m + n
  BY <1>4
<1>22. Ordered(c, gs, v, t)
  BY <1>9, <1>11, <1>14, <1>15, <1>16, <1>17, <1>21 DEF Ordered
<1> QED
  BY <1>20, <1>22 DEF v, gs, cells

\* What is lost when a connection ends is lost from the end.
LEMMA OrderedCut ==
    ASSUME NEW c, NEW fs, NEW w \in Seq(Cell), NEW t, Ordered(c, fs, w, t), NEW n \in 0..Len(w)
    PROVE  Ordered(c, fs, SubSeq(w, 1, n), t)
<1> DEFINE v == SubSeq(w, 1, n)
<1>1. v \in Seq(Cell) /\ Len(v) = n /\ \A k \in 1..n : v[k] = w[k] /\ k \in 1..Len(w)
  BY FirstFacts
<1> HIDE DEF v
<1>2. v # <<>> => 1 \in 1..n /\ w # <<>>
  BY <1>1
<1>3. Ordered(c, fs, v, t)
  BY <1>1, <1>2 DEF Ordered
<1> QED
  BY <1>3 DEF v

\* recv takes from the front.
LEMMA OrderedTake ==
    ASSUME NEW c, NEW fs, NEW w \in Seq(Cell), NEW t, Ordered(c, fs, w, t), NEW n \in 1..Len(w)
    PROVE  LET v == SubSeq(w, n + 1, Len(w))
           IN  Ordered(c, fs, v, w[n]) /\ (AllThere(fs, w, t) => AllThere(fs, v, w[n]))
<1> DEFINE v == SubSeq(w, n + 1, Len(w))
<1>1. n \in 0..Len(w) /\ n \in Nat /\ Len(w) \in Nat
  OBVIOUS
<1>2. /\ v \in Seq(Cell) /\ Len(v) = Len(w) - n
      /\ \A k \in 1..(Len(w) - n) : v[k] = w[n + k] /\ n + k \in 1..Len(w)
  BY <1>1, DropFacts
<1> HIDE DEF v
<1>3. ASSUME NEW k \in 1..Len(v) PROVE v[k] = w[n + k] /\ n + k \in 1..Len(w)
  BY <1>2
<1>4. \A k \in 1..Len(v) : ByteOf(fs, v[k])
  BY <1>3 DEF Ordered
<1>5. ASSUME NEW k \in 1..Len(v), k + 1 \in 1..Len(v) PROVE Follows(v[k], v[k + 1])
  <2>1. v[k] = w[n + k] /\ n + k \in 1..Len(w) /\ v[k + 1] = w[(n + k) + 1] /\ (n + k) + 1 \in 1..Len(w)
    BY <1>1, <1>2, <1>5
  <2> QED
    BY <2>1 DEF Ordered
<1>6. ASSUME NEW k \in 1..Len(v), NEW l \in 1..Len(v), k <= l PROVE v[k][1].num <= v[l][1].num
  <2>1. n + k <= n + l
    BY <1>1, <1>6
  <2> QED
    BY <1>3, <2>1 DEF Ordered
<1>7. ByteOf(fs, w[n])
  BY DEF Ordered
<1>8. v # <<>> => Follows(w[n], v[1])
  <2> SUFFICES ASSUME v # <<>> PROVE Follows(w[n], v[1])
    OBVIOUS
  <2>1. 1 \in 1..Len(v)
    BY <1>2
  <2>2. v[1] = w[n + 1] /\ n + 1 \in 1..Len(w)
    BY <1>3, <2>1
  <2> QED
    BY <2>2 DEF Ordered
<1>9. Ordered(c, fs, v, w[n])
  BY <1>4, <1>5, <1>6, <1>7, <1>8 DEF Ordered
<1>10. ASSUME AllThere(fs, w, t) PROVE AllThere(fs, v, w[n])
  <2>1. w # <<>>
    BY <1>1
  <2>2. CASE v = <<>>
    <3>1. Len(w) = n
      BY <1>1, <1>2, <2>2
    <3> QED
      BY <1>10, <2>1, <2>2, <3>1 DEF AllThere
  <2>3. CASE v # <<>>
    <3>1. v[Len(v)] = w[Len(w)]
      <4>1. Len(v) \in 1..Len(v) /\ n + Len(v) = Len(w)
        BY <1>1, <1>2, <2>3
      <4> QED
        BY <1>3, <4>1
    <3> QED
      BY <1>10, <2>1, <2>3, <3>1 DEF AllThere
  <2> QED
    BY <2>2, <2>3
<1> QED
  BY <1>9, <1>10 DEF v
\* A piece out of the middle
LEMMA PieceFacts ==
    ASSUME NEW S, NEW s \in Seq(S), NEW m \in Nat, NEW hi \in m..Len(s)
    PROVE  LET r == SubSeq(s, m + 1, hi)
           IN  /\ r \in Seq(S) /\ Len(r) = hi - m
               /\ \A k \in 1..(hi - m) : r[k] = s[m + k] /\ m + k \in 1..Len(s)
<1>1. hi \in 0..Len(s) /\ m \in 0..hi /\ hi \in Nat /\ Len(s) \in Nat
  OBVIOUS
<1> DEFINE t == SubSeq(s, 1, hi)
           r == SubSeq(s, m + 1, hi)
           lo == m + 1
<1>2. lo \in Int /\ hi \in Int /\ \A i \in lo..hi : s[i] \in S
  BY <1>1
<1>3. /\ hi - lo + 1 = hi - m /\ (IF lo <= hi THEN hi - lo + 1 ELSE 0) = hi - m
      /\ \A k \in 1..(hi - m) : lo + k - 1 = m + k /\ m + k \in 1..Len(s)
  BY <1>1
<1> HIDE DEF lo
<1>4. /\ SubSeq(s, lo, hi) \in Seq(S)
      /\ Len(SubSeq(s, lo, hi)) = IF lo <= hi THEN hi - lo + 1 ELSE 0
      /\ \A k \in 1..(hi - lo + 1) : SubSeq(s, lo, hi)[k] = s[lo + k - 1]
  BY <1>2, SubSeqProperties
<1>5. /\ SubSeq(s, lo, hi) \in Seq(S) /\ Len(SubSeq(s, lo, hi)) = hi - m
      /\ \A k \in 1..(hi - m) : SubSeq(s, lo, hi)[k] = s[m + k]
  BY <1>3, <1>4
<1> QED
  BY <1>3, <1>5 DEF lo

\* What recv has taken of a client's frames
LEMMA DoneFacts ==
    ASSUME NEW c, NEW fs \in Seq(Frame), NEW w \in Seq(Cell), NEW t, Ordered(c, fs, w, t)
    PROVE  /\ Done(t) \in 0..Len(fs) /\ Done(t) \in Nat
           /\ \A n \in 1..Len(w) :
                 /\ IsByte(w[n]) /\ w[n] # Nothing /\ w[n][1] = fs[w[n][1].num]
                 /\ w[n][1].num \in (Done(t) + 1)..Len(fs)
                 /\ Done(w[n]) = IF LastByte(w[n]) THEN w[n][1].num ELSE w[n][1].num - 1
                 /\ Done(w[n]) \in Done(t)..Len(fs)
<1>1. ASSUME NEW cell, ByteOf(fs, cell)
      PROVE  /\ IsByte(cell) /\ cell # Nothing /\ cell[1] = fs[cell[1].num]
             /\ cell[1].num \in 1..Len(fs) /\ cell[1].num \in Nat
             /\ Done(cell) = IF LastByte(cell) THEN cell[1].num ELSE cell[1].num - 1
             /\ Done(cell) \in 0..Len(fs)
  <2>1. IsByte(cell) /\ cell[1].num \in 1..Len(fs) /\ cell[1] = fs[cell[1].num]
    BY <1>1 DEF ByteOf
  <2>2. cell # Nothing
    BY <2>1, ByteFacts
  <2> QED
    BY <2>1, <2>2 DEF Done
<1>2. Done(t) \in 0..Len(fs)
  <2>1. CASE t = Nothing
    BY <2>1 DEF Done
  <2>2. CASE t # Nothing
    BY <1>1, <2>2 DEF Ordered
  <2> QED
    BY <2>1, <2>2
<1>3. ASSUME NEW n \in 1..Len(w)
      PROVE  /\ IsByte(w[n]) /\ w[n] # Nothing /\ w[n][1] = fs[w[n][1].num]
             /\ w[n][1].num \in (Done(t) + 1)..Len(fs)
             /\ Done(w[n]) = IF LastByte(w[n]) THEN w[n][1].num ELSE w[n][1].num - 1
             /\ Done(w[n]) \in Done(t)..Len(fs)
  <2>1. w # <<>> /\ 1 \in 1..Len(w) /\ 1 <= n
    OBVIOUS
  <2>2. w[1][1].num = Done(t) + 1
    BY <2>1 DEF Ordered, Follows
  <2>3. w[1][1].num <= w[n][1].num
    BY <2>1 DEF Ordered
  <2>4. ByteOf(fs, w[n])
    BY DEF Ordered
  <2>5. w[n][1].num \in (Done(t) + 1)..Len(fs)
    BY <1>1, <1>2, <2>2, <2>3, <2>4
  <2>6. Done(w[n]) \in Done(t)..Len(fs)
    BY <1>1, <1>2, <2>4, <2>5
  <2> QED
    BY <1>1, <2>4, <2>5, <2>6
<1> QED
  BY <1>2, <1>3

\* The frames that arrived, and the next ones of a client up to number hi
LEMMA Arrive ==
    ASSUME NEW c \in Conn, Streams, InOrder, Whole, NEW hi \in Done(taken[c])..Len(sent[c])
    PROVE  LET done == Done(taken[c])
               all == arrived \o SubSeq(sent[c], done + 1, hi)
           IN  /\ all \in Seq(Frame) /\ Distinct(all)
               /\ Len(all) = Len(arrived) + (hi - done)
               /\ \A k \in 1..Len(arrived) : all[k] = arrived[k]
               /\ \A k \in 1..(hi - done) : all[Len(arrived) + k] = sent[c][done + k]
<1> DEFINE fs == sent[c]
           done == Done(taken[c])
           new == SubSeq(fs, done + 1, hi)
           all == arrived \o new
           a == Len(arrived)
           n == hi - done
<1>1. Ordered(c, fs, wire[c], taken[c]) /\ fs \in Seq(Frame) /\ wire[c] \in Seq(Cell) /\ arrived \in Seq(Frame)
  BY DEF InOrder, Streams, Whole
<1>2. done \in Nat /\ hi \in done..Len(fs) /\ a \in Nat /\ n \in Nat
  <2>1. done \in Nat
    BY <1>1, DoneFacts
  <2>2. hi \in done..Len(fs)
    OBVIOUS
  <2> HIDE DEF done, fs
  <2> QED
    BY <1>1, <2>1, <2>2
<1>3. new \in Seq(Frame) /\ Len(new) = n /\ \A k \in 1..n : new[k] = fs[done + k] /\ done + k \in 1..Len(fs)
  BY <1>1, <1>2, PieceFacts
<1> HIDE DEF new, fs, done, a, n
<1>4. /\ all \in Seq(Frame) /\ Len(all) = a + n
      /\ \A k \in 1..(a + n) : all[k] = IF k <= a THEN arrived[k] ELSE new[k - a]
  BY <1>1, <1>3, ConcatProperties DEF a
<1> HIDE DEF all
<1>5. \A k \in 1..a : all[k] = arrived[k]
  BY <1>2, <1>4
<1>6. \A k \in 1..n : all[a + k] = fs[done + k] /\ done + k \in 1..Len(fs)
  <2>1. \A k \in 1..n : a + k \in 1..(a + n) /\ ~(a + k <= a) /\ (a + k) - a = k
    BY <1>2
  <2> QED
    BY <1>3, <1>4, <2>1
<1>7. \A k \in 1..(a + n) : k \in 1..a \/ (k - a \in 1..n /\ a + (k - a) = k)
  BY <1>2
<1>8. \A k \in 1..Len(fs) : fs[k].conn = c /\ fs[k].num = k
  BY <1>1 DEF Ordered
<1>9. \A k \in 1..a : all[k].conn = c => all[k].num <= done /\ all[k].num \in Nat
  <2>1. \A k \in 1..a : arrived[k].conn = c => arrived[k].num \in 1..done
    BY DEF Whole, a, done
  <2> QED
    BY <1>2, <1>5, <2>1
<1>10. \A k \in 1..n : all[a + k].conn = c /\ all[a + k].num = done + k
  BY <1>6, <1>8
<1>11. ASSUME NEW k \in 1..(a + n), NEW l \in 1..(a + n), all[k] = all[l] PROVE k = l
  <2>1. CASE k \in 1..a /\ l \in 1..a
    BY <1>5, <1>11, <2>1 DEF Whole, Distinct, a
  <2>2. ASSUME NEW i \in 1..a, NEW j \in 1..n PROVE all[i] # all[a + j]
    <3> SUFFICES ASSUME all[i] = all[a + j] PROVE FALSE
      OBVIOUS
    <3>1. all[i].conn = c /\ all[i].num = done + j
      BY <1>10
    <3>2. all[i].num <= done
      BY <1>9, <3>1
    <3> QED
      BY <1>2, <3>1, <3>2
  <2>3. CASE k - a \in 1..n /\ a + (k - a) = k /\ l - a \in 1..n /\ a + (l - a) = l
    <3> DEFINE i == k - a
               j == l - a
    <3>1. i \in 1..n /\ j \in 1..n /\ all[a + i] = all[a + j] /\ k = a + i /\ l = a + j
      BY <1>11, <2>3
    <3> HIDE DEF i, j
    <3>2. done + i = done + j
      BY <1>10, <3>1
    <3> QED
      BY <1>2, <3>1, <3>2
  <2>4. CASE k \in 1..a /\ l - a \in 1..n /\ a + (l - a) = l
    BY <1>11, <2>2, <2>4
  <2>5. CASE l \in 1..a /\ k - a \in 1..n /\ a + (k - a) = k
    BY <1>11, <2>2, <2>5
  <2> QED
    BY <1>7, <2>1, <2>3, <2>4, <2>5
<1>12. Distinct(all)
  BY <1>4, <1>11 DEF Distinct
<1> QED
  BY <1>4, <1>5, <1>6, <1>12 DEF all, new, fs, done, a, n
\* What recv takes goes on where the ring ends.
LEMMA RecvStream ==
    ASSUME NEW c \in Conn, Streams, InOrder, Whole, InTurn, dispatched \in Seq(Frame \cup {Torn}),
           \A d \in Conn \ {c} : ~Inside(d),
           NEW fs, NEW end, RingHolds(fs, end), NEW n \in 1..Len(wire[c])
    PROVE  LET all == arrived \o SubSeq(sent[c], Done(taken[c]) + 1, wire[c][n][1].num)
               gs == SubSeq(all, Len(dispatched) + 1, Len(all))
           IN  /\ gs \in Seq(Frame) /\ gs # <<>> /\ Distinct(gs)
               /\ IsStream(Contents(buf) \o SubSeq(wire[c], 1, n), gs, wire[c][n])
<1> DEFINE s == Contents(buf)
           ch == SubSeq(wire[c], 1, n)
           done == Done(taken[c])
           hi == wire[c][n][1].num
           all == arrived \o SubSeq(sent[c], done + 1, hi)
           d == Len(dispatched)
           gs == SubSeq(all, d + 1, Len(all))
           w == Len(arrived) - d
           pos == [k \in 1..n |-> w + (wire[c][k][1].num - done)]
<1>1. /\ Ordered(c, sent[c], wire[c], taken[c]) /\ sent[c] \in Seq(Frame) /\ wire[c] \in Seq(Cell)
      /\ arrived \in Seq(Frame) /\ s \in Seq(Cell) /\ fs \in Seq(Frame) /\ IsStream(s, fs, end)
  BY RingContents DEF InOrder, Streams, Whole, RingHolds
<1>2. n \in 0..Len(wire[c]) /\ 1 \in 1..n /\ n \in 1..n /\ n \in Nat /\ wire[c] # <<>> /\ 1 \in 1..Len(wire[c])
  BY <1>1
<1>3. ch \in Seq(Cell) /\ Len(ch) = n /\ \A k \in 1..n : ch[k] = wire[c][k] /\ k \in 1..Len(wire[c])
  BY <1>1, <1>2, FirstFacts
<1>4. done \in Nat /\ hi \in Nat /\ done < hi /\ hi \in done..Len(sent[c])
  <2>1. done \in Nat
    BY <1>1, DoneFacts
  <2>2. hi \in (done + 1)..Len(sent[c])
    BY <1>1, DoneFacts
  <2>3. Len(sent[c]) \in Nat
    BY <1>1
  <2> HIDE DEF done, hi
  <2> QED
    BY <2>1, <2>2, <2>3
<1>5. d \in 0..Len(arrived) /\ d \in Nat /\ w \in Nat /\ d + w = Len(arrived) /\ Len(arrived) \in Nat
  BY <1>1 DEF InTurn
<1>6. /\ all \in Seq(Frame) /\ Distinct(all) /\ Len(all) = Len(arrived) + (hi - done)
      /\ \A k \in 1..Len(arrived) : all[k] = arrived[k]
      /\ \A k \in 1..(hi - done) : all[Len(arrived) + k] = sent[c][done + k]
  BY <1>4, Arrive
<1> HIDE DEF s, ch, done, hi, all, d, w
<1>7. d \in 0..Len(all) /\ Len(all) - d = w + (hi - done) /\ w + 1 <= w + (hi - done)
  <2>1. Len(all) = Len(arrived) + (hi - done)
    BY <1>6
  <2>2. done \in Nat /\ hi \in Nat /\ done < hi
    BY <1>4
  <2> QED
    BY <1>5, <2>1, <2>2
<1>8. gs \in Seq(Frame) /\ Len(gs) = w + (hi - done) /\ Distinct(gs)
      /\ \A k \in 1..(w + (hi - done)) : gs[k] = all[d + k]
  <2>1. /\ gs \in Seq(Frame) /\ Len(gs) = Len(all) - d
        /\ \A k \in 1..(Len(all) - d) : gs[k] = all[d + k]
    BY <1>6, <1>7, DropFacts
  <2>2. Distinct(gs)
    BY <1>6, <1>7, DropDistinct
  <2> QED
    BY <1>7, <2>1, <2>2
<1> HIDE DEF gs
<1>9. \A k \in 1..w : k \in 1..Len(gs) /\ gs[k] = arrived[d + k]
  <2>1. \A k \in 1..w : k \in 1..(w + (hi - done)) /\ d + k \in 1..Len(arrived)
    BY <1>4, <1>5, <1>7
  <2> QED
    BY <1>6, <1>8, <2>1
<1>10. \A k \in 1..(hi - done) : w + k \in 1..Len(gs) /\ gs[w + k] = sent[c][done + k]
  <2>1. \A k \in 1..(hi - done) : w + k \in 1..(w + (hi - done)) /\ d + (w + k) = Len(arrived) + k
    BY <1>4, <1>5
  <2> QED
    BY <1>6, <1>8, <2>1
\* The frames in the ring are the first of them.
<1>11. Waiting \in Seq(Frame) /\ Len(Waiting) = w /\ \A k \in 1..w : Waiting[k] = arrived[d + k]
  BY <1>1, <1>5, DropFacts DEF Waiting, d, w
<1>12. /\ Len(fs) \in {w, w + 1}
       /\ \A i \in 1..Len(fs) : i \in 1..Len(gs) /\ gs[i] = fs[i]
       /\ IF Len(fs) = w + 1 THEN ~LastByte(end) /\ wire[c][1][2] = end[2] + 1
                             ELSE (fs # <<>> => LastByte(end)) /\ wire[c][1][2] = 0
  <2>1. CASE Inside(c)
    <3>1. fs = Append(Waiting, taken[c][1]) /\ end = taken[c]
      BY <2>1 DEF RingHolds
    <3>2. taken[c] # Nothing /\ ~LastByte(taken[c]) /\ ByteOf(sent[c], taken[c])
      BY <1>1, <2>1 DEF Inside, Ordered
    <3>3. done = taken[c][1].num - 1 /\ Begun(taken[c]) = taken[c][2] + 1
      BY <3>2 DEF Done, Begun, done
    <3>4. taken[c][1] \in Frame /\ taken[c][1] = sent[c][done + 1]
      <4>1. taken[c][1] \in Frame /\ taken[c][1].num \in 1..Len(sent[c]) /\ taken[c][1] = sent[c][taken[c][1].num]
        BY <3>2, ByteFacts DEF ByteOf
      <4>2. taken[c][1].num = done + 1
        BY <3>3, <4>1
      <4> QED
        BY <4>1, <4>2
    <3>5. Len(fs) = w + 1 /\ fs[w + 1] = taken[c][1] /\ \A k \in 1..w : fs[k] = Waiting[k]
      BY <1>5, <1>11, <3>1, <3>4
    <3>6. 1 \in 1..(hi - done)
      BY <1>4
    <3>7. gs[w + 1] = taken[c][1] /\ w + 1 \in 1..Len(gs)
      BY <1>10, <3>4, <3>6
    <3>8. \A i \in 1..Len(fs) : i \in 1..w \/ i = w + 1
      BY <1>5, <3>5
    <3>9. \A i \in 1..Len(fs) : i \in 1..Len(gs) /\ gs[i] = fs[i]
      BY <1>9, <1>11, <3>5, <3>7, <3>8
    <3>10. wire[c][1][2] = end[2] + 1
      BY <1>1, <1>2, <3>1, <3>3 DEF Ordered, Follows
    <3> QED
      BY <3>1, <3>2, <3>5, <3>9, <3>10
  <2>2. CASE ~Inside(c)
    <3>1. \A e \in Conn : ~Inside(e)
      BY <2>2
    <3>2. fs = Waiting /\ (fs # <<>> => LastByte(end))
      BY <3>1 DEF RingHolds
    <3>3. Len(fs) = w /\ Len(fs) # w + 1
      BY <1>5, <1>11, <3>2
    <3>4. \A i \in 1..Len(fs) : i \in 1..Len(gs) /\ gs[i] = fs[i]
      BY <1>9, <1>11, <3>2, <3>3
    <3>5. Begun(taken[c]) = 0
      BY <2>2 DEF Inside, Begun
    <3>6. wire[c][1][2] = 0
      BY <1>1, <1>2, <3>5 DEF Ordered, Follows
    <3> QED
      BY <3>2, <3>3, <3>4, <3>6
  <2> QED
    BY <2>1, <2>2
\* The frame of each byte of the chunk
<1>13. ASSUME NEW k \in 1..n
       PROVE  /\ pos[k] = w + (ch[k][1].num - done) /\ pos[k] \in (w + 1)..Len(gs)
              /\ IsByte(ch[k]) /\ ch[k] # Nothing /\ ch[k][1].num \in Nat /\ ch[k][1] = gs[pos[k]]
  <2> DEFINE num == wire[c][k][1].num
  <2>1. /\ IsByte(wire[c][k]) /\ wire[c][k] # Nothing /\ wire[c][k][1] = sent[c][num]
        /\ num \in (done + 1)..Len(sent[c])
    <3>1. k \in 1..Len(wire[c])
      BY <1>3
    <3>2. /\ IsByte(wire[c][k]) /\ wire[c][k] # Nothing /\ wire[c][k][1] = sent[c][wire[c][k][1].num]
          /\ wire[c][k][1].num \in (Done(taken[c]) + 1)..Len(sent[c])
      <4>1. Ordered(c, sent[c], wire[c], taken[c]) /\ sent[c] \in Seq(Frame) /\ wire[c] \in Seq(Cell)
        BY <1>1
      <4> QED
        BY <3>1, <4>1, DoneFacts
    <3> QED
      BY <3>2 DEF done
  <2>2. num <= hi
    <3>1. k \in 1..Len(wire[c]) /\ k <= n
      BY <1>2, <1>3
    <3> QED
      BY <1>1, <3>1 DEF Ordered, hi
  <2>3. pos[k] = w + (num - done) /\ ch[k] = wire[c][k]
    BY <1>3
  <2> HIDE DEF num, pos
  <2>4. num - done \in 1..(hi - done) /\ done + (num - done) = num /\ num \in Nat
    BY <1>4, <2>1, <2>2
  <2>5. w + (num - done) \in 1..Len(gs) /\ gs[w + (num - done)] = sent[c][num]
    BY <1>10, <2>4
  <2>6. w + (num - done) \in (w + 1)..Len(gs)
    BY <1>4, <1>5, <2>4, <2>5
  <2> QED
    BY <2>1, <2>3, <2>4, <2>5, <2>6 DEF num
<1> HIDE DEF pos
<1>14. ASSUME NEW k \in 1..n, NEW l \in 1..n, k <= l PROVE pos[k] <= pos[l]
  <2>1. wire[c][k][1].num <= wire[c][l][1].num
    BY <1>1, <1>3, <1>14 DEF Ordered
  <2>2. ch[k][1].num <= ch[l][1].num
    BY <1>3, <2>1
  <2>3. pos[k] = w + (ch[k][1].num - done) /\ ch[k][1].num \in Nat
    BY <1>13
  <2>4. pos[l] = w + (ch[l][1].num - done) /\ ch[l][1].num \in Nat
    BY <1>13
  <2>5. w \in Nat /\ done \in Nat
    BY <1>4, <1>5
  <2>6. \A x, y, u, v \in Nat : x <= y => u + (x - v) <= u + (y - v)
    OBVIOUS
  <2>7. w + (ch[k][1].num - done) <= w + (ch[l][1].num - done)
    BY <2>2, <2>3, <2>4, <2>5, <2>6
  <2> QED
    BY <2>3, <2>4, <2>7
<1>15. ASSUME NEW k \in 1..n, k + 1 \in 1..n
       PROVE  IF LastByte(ch[k]) THEN pos[k + 1] = pos[k] + 1 /\ ch[k + 1][2] = 0
                                 ELSE pos[k + 1] = pos[k] /\ ch[k + 1][2] = ch[k][2] + 1
  <2>1. Follows(ch[k], ch[k + 1])
    <3>1. Follows(wire[c][k], wire[c][k + 1])
      BY <1>1, <1>3, <1>15 DEF Ordered
    <3> QED
      BY <1>3, <1>15, <3>1
  <2>2. ch[k + 1][1].num = IF LastByte(ch[k]) THEN ch[k][1].num + 1 ELSE ch[k][1].num
    BY <1>13, <2>1 DEF Follows, Done
  <2>3. ch[k + 1][2] = IF LastByte(ch[k]) THEN 0 ELSE ch[k][2] + 1
    BY <1>13, <2>1 DEF Follows, Begun
  <2>4. pos[k] = w + (ch[k][1].num - done) /\ ch[k][1].num \in Nat
    BY <1>13
  <2>5. pos[k + 1] = w + (ch[k + 1][1].num - done)
    BY <1>13, <1>15
  <2>6. CASE LastByte(ch[k])
    <3>1. ch[k + 1][1].num = ch[k][1].num + 1 /\ ch[k + 1][2] = 0
      BY <2>2, <2>3, <2>6
    <3>2. pos[k + 1] = pos[k] + 1
      <4>1. w \in Nat /\ done \in Nat
        BY <1>4, <1>5
      <4> QED
        BY <2>4, <2>5, <3>1, <4>1
    <3> QED
      BY <2>6, <3>1, <3>2
  <2>7. CASE ~LastByte(ch[k])
    BY <2>2, <2>3, <2>4, <2>5, <2>7
  <2> QED
    BY <2>6, <2>7
<1>16. pos[1] = w + 1 /\ pos[n] = Len(gs)
  <2>1. ch[1][1].num = done + 1
    BY <1>1, <1>2, <1>3 DEF Ordered, Follows, done
  <2>2. ch[n][1].num = hi
    BY <1>2, <1>3 DEF hi
  <2>3. pos[1] = w + (ch[1][1].num - done) /\ pos[n] = w + (ch[n][1].num - done)
    BY <1>2, <1>13
  <2> QED
    BY <1>4, <1>5, <1>8, <2>1, <2>2, <2>3
<1>17. ch # <<>> /\ ch[1][2] = wire[c][1][2] /\ ch[n] = wire[c][n]
  BY <1>2, <1>3
<1>18. gs # <<>> /\ IsStream(s \o ch, gs, ch[Len(ch)])
  <2>1. \A k \in 1..Len(ch) : pos[k] \in (w + 1)..Len(gs) /\ IsByte(ch[k]) /\ ch[k][1] = gs[pos[k]]
    BY <1>3, <1>13
  <2>2. \A k, l \in 1..Len(ch) : k <= l => pos[k] <= pos[l]
    BY <1>3, <1>14
  <2>3. \A k \in 1..Len(ch) : k + 1 \in 1..Len(ch) =>
              IF LastByte(ch[k]) THEN pos[k + 1] = pos[k] + 1 /\ ch[k + 1][2] = 0
                                 ELSE pos[k + 1] = pos[k] /\ ch[k + 1][2] = ch[k][2] + 1
    BY <1>3, <1>15
  <2>4. pos[Len(ch)] = Len(gs)
    BY <1>3, <1>16
  <2>5. IF Len(fs) = w + 1 THEN ~LastByte(end) /\ ch[1][2] = end[2] + 1
                           ELSE (fs # <<>> => LastByte(end)) /\ ch[1][2] = 0
    <3>1. ch[1][2] = wire[c][1][2]
      BY <1>17
    <3> QED
      BY <1>12, <3>1, Zenon
  <2>6. Len(fs) \in {w, w + 1} /\ \A i \in 1..Len(fs) : i \in 1..Len(gs) /\ gs[i] = fs[i]
    BY <1>12
  <2>7. pos[1] = w + 1 /\ w \in Nat /\ ch # <<>>
    BY <1>5, <1>16, <1>17
  <2>8. s \in Seq(Cell) /\ fs \in Seq(Frame) /\ IsStream(s, fs, end) /\ ch \in Seq(Cell)
        /\ gs \in Seq(Frame) /\ Distinct(gs)
    BY <1>1, <1>3, <1>8
  <2>9. GoesOnWith(s, fs, end, gs, w, ch, pos)
    BY <2>1, <2>2, <2>3, <2>4, <2>5, <2>6, <2>7 DEF GoesOnWith
  <2> QED
    BY <2>7, <2>8, <2>9, StreamAppend
<1> QED
  BY <1>3, <1>8, <1>17, <1>18 DEF s, ch, done, hi, all, d, gs
\* check_net_frm_valid and extract_net_frm on a ring that holds a stream: nothing is
\* taken as long as the first frame is not whole; then that frame is, and nothing else
\* (network_op.c:727-827).
LEMMA HandledStream ==
    ASSUME Agree(buf), NEW chunk \in Seq(Cell), CanWrite(buf, Len(chunk)),
           NEW gs \in Seq(Frame), gs # <<>>, Distinct(gs), NEW end,
           IsStream(Contents(buf) \o chunk, gs, end), HandleChunk(chunk)
    PROVE  LET m == FrameBytes(gs[1].len)
               t == Contents(buf) \o chunk
           IN  \/ /\ dispatched' = dispatched /\ IsStream(Contents(buf'), gs, end)
                  /\ Len(t) < m
               \/ /\ dispatched' = Append(dispatched, gs[1])
                  /\ IsStream(Contents(buf'), Tail(gs), end)
                  /\ Len(gs) = 1 => LastByte(end)
<1> DEFINE b == Stored(chunk)
           t == Contents(buf) \o chunk
           f == gs[1]
           m == FrameBytes(f.len)
<1>1. b = Written(buf, chunk)
  BY DEF Stored
<1>2. Agree(b) /\ Contents(b) = t
  BY <1>1, RingWrite
<1>3. t \in Seq(Cell) /\ Len(t) = b.size /\ b.size \in Nat
  BY <1>2, RingContents
<1>4. /\ f \in Frame /\ f # None /\ m \in Nat \ {0} /\ LenAt + LenBytes < m
      /\ LenAt \in Nat /\ LenBytes \in Nat \ {0}
  BY FrameLength, Lengths
<1>5. \A k \in 1..Len(t) : k <= m => t[k] = <<f, k - 1>>
  BY <1>3, StreamHead
<1>6. FrameCells(f) \in Seq(Cell) /\ Len(FrameCells(f)) = m
      /\ \A k \in 1..m : FrameCells(f)[k] = <<f, k - 1>>
  BY <1>4, FrameCellsType DEF FrameCells
<1> HIDE DEF b, t, m, f
<1>7. IsStream(t, gs, end)
  BY DEF t
<1>8. CASE buf' = b /\ dispatched' = dispatched /\ b.size < m
  BY <1>2, <1>3, <1>7, <1>8 DEF m, t, f
<1>9. CASE b.size < LenAt + LenBytes
  <2>1. buf' = b /\ dispatched' = dispatched
    BY <1>3, <1>4, <1>9 DEF HandleChunk, b
  <2>2. b.size < m
    BY <1>3, <1>4, <1>9
  <2> QED
    BY <1>8, <2>1, <2>2
<1>10. CASE b.size >= LenAt + LenBytes
  <2>1. PICK len \in DecodeLength(LengthField(b)) :
            \/ ~CanRead(b, FrameBytes(len)) /\ buf' = b /\ dispatched' = dispatched
            \/ /\ CanRead(b, FrameBytes(len))
               /\ buf' = Consumed(b, FrameBytes(len))
               /\ LET cells == ReadBytes(b, FrameBytes(len))
                  IN  \/ ~ValidFrame(cells) /\ dispatched' = dispatched
                      \/ ValidFrame(cells) /\ dispatched' = Append(dispatched, Extracted(cells))
    <3>1. ~(b.size < LenAt + LenBytes)
      BY <1>3, <1>4, <1>10
    <3> QED
      BY <3>1 DEF HandleChunk, b
  <2>2. LengthField(b) = SubSeq(FrameCells(f), LenAt + 1, LenAt + LenBytes)
    <3> DEFINE hi == LenAt + LenBytes
    <3>1. LengthField(b) = SubSeq(t, LenAt + 1, hi)
      BY <1>2, <1>10, RingPeek
    <3>2. hi \in LenAt..Len(t) /\ hi \in LenAt..Len(FrameCells(f)) /\ LenAt \in Nat
      BY <1>3, <1>4, <1>6, <1>10
    <3>3. /\ SubSeq(t, LenAt + 1, hi) \in Seq(Cell) /\ Len(SubSeq(t, LenAt + 1, hi)) = hi - LenAt
          /\ \A k \in 1..(hi - LenAt) : SubSeq(t, LenAt + 1, hi)[k] = t[LenAt + k]
      BY <1>3, <3>2, PieceFacts
    <3>4. /\ SubSeq(FrameCells(f), LenAt + 1, hi) \in Seq(Cell)
          /\ Len(SubSeq(FrameCells(f), LenAt + 1, hi)) = hi - LenAt
          /\ \A k \in 1..(hi - LenAt) : SubSeq(FrameCells(f), LenAt + 1, hi)[k] = FrameCells(f)[LenAt + k]
      BY <1>6, <3>2, PieceFacts
    <3>5. \A k \in 1..(hi - LenAt) : t[LenAt + k] = FrameCells(f)[LenAt + k]
      <4>1. \A k \in 1..(hi - LenAt) : LenAt + k \in 1..Len(t) /\ LenAt + k <= m /\ LenAt + k \in 1..m
        BY <1>3, <1>4, <1>6, <3>2
      <4> QED
        BY <1>5, <1>6, <4>1
    <3> HIDE DEF hi
    <3> DEFINE x == SubSeq(t, LenAt + 1, hi)
               y == SubSeq(FrameCells(f), LenAt + 1, hi)
    <3>6. x = y
      <4>1. x \in Seq(Cell) /\ y \in Seq(Cell) /\ Len(x) = Len(y) /\ Len(x) = hi - LenAt
        BY <3>3, <3>4
      <4>2. \A k \in 1..(hi - LenAt) : x[k] = y[k]
        BY <3>3, <3>4, <3>5
      <4> HIDE DEF x, y
      <4> QED
        BY <4>1, <4>2, EqualSeqs
    <3> QED
      BY <3>1, <3>6 DEF hi
  <2>3. LengthField(b)[1][1] = f
    <3>1. LenAt \in Nat /\ LenAt + LenBytes \in LenAt..Len(FrameCells(f)) /\ 1 \in 1..((LenAt + LenBytes) - LenAt)
          /\ LenAt + 1 \in 1..m
      BY <1>4, <1>6
    <3>2. LengthField(b)[1] = FrameCells(f)[LenAt + 1]
      BY <1>6, <2>2, <3>1, PieceFacts
    <3>3. LengthField(b)[1] = <<f, (LenAt + 1) - 1>>
      BY <1>6, <3>1, <3>2
    <3> QED
      BY <3>3
  <2>4. DecodeLength(LengthField(b)) = {f.len}
    BY <1>4, <2>2, <2>3 DEF DecodeLength
  <2>5. FrameBytes(len) = m
    BY <2>1, <2>4 DEF m
  <2>6. CASE ~CanRead(b, m)
    <3>1. b.size < m
      BY <1>3, <1>4, <2>6 DEF CanRead
    <3>2. buf' = b /\ dispatched' = dispatched
      BY <2>1, <2>5, <2>6
    <3> QED
      BY <1>8, <3>1, <3>2
  <2>7. CASE CanRead(b, m)
    <3> DEFINE cells == ReadBytes(b, m)
    <3>1. m <= Len(t) /\ m \in Nat
      BY <1>3, <1>4, <2>7 DEF CanRead
    <3>2. cells = SubSeq(t, 1, m) /\ Contents(Consumed(b, m)) = SubSeq(t, m + 1, Len(t))
      BY <1>2, <1>3, <2>7, <3>1, RingRead
    <3>3. /\ SubSeq(t, 1, m) = FrameCells(f) /\ IsStream(SubSeq(t, m + 1, Len(t)), Tail(gs), end)
          /\ Len(gs) = 1 => LastByte(end)
      BY <1>3, <1>7, <3>1, StreamTake DEF m, f
    <3> HIDE DEF cells
    <3>4. cells = FrameCells(f) /\ cells[1] = <<f, 0>> /\ cells[Len(cells)] = <<f, m - 1>>
      <4>1. 1 \in 1..m /\ m \in 1..m /\ 1 - 1 = 0
        BY <1>4
      <4> QED
        BY <1>6, <3>2, <3>3, <4>1
    <3>5. cells[1][1] = f /\ cells[1][2] = 0 /\ cells[Len(cells)][1] = f /\ cells[Len(cells)][2] = m - 1
      BY <3>4
    <3>6. ValidFrame(cells)
      <4>1. LastByte(cells[Len(cells)])
        BY <1>4, <3>5 DEF LastByte, m
      <4> QED
        BY <1>4, <3>5, <4>1 DEF ValidFrame
    <3>7. Extracted(cells) = f
      BY <3>4, <3>5 DEF Extracted
    <3>8. dispatched' = Append(dispatched, f) /\ buf' = Consumed(b, m)
      BY <2>1, <2>5, <2>7, <3>6, <3>7 DEF cells
    <3>9. IsStream(Contents(buf'), Tail(gs), end)
      BY <3>2, <3>3, <3>8
    <3> QED
      BY <3>1, <3>3, <3>8, <3>9 DEF m, t, f
  <2> QED
    BY <2>6, <2>7
<1> QED
  BY <1>3, <1>4, <1>9, <1>10
\* What a recv of n bytes changes
Takes(c, n) ==
    LET chunk == SubSeq(wire[c], 1, n)
        last == wire[c][n]
    IN  /\ UNCHANGED <<sent, link>> /\ n <= FrmSize
        /\ wire' = [wire EXCEPT ![c] = SubSeq(wire[c], n + 1, Len(wire[c]))]
        /\ HandleChunk(chunk)
        /\ arrived' = arrived \o SubSeq(sent[c], Done(taken[c]) + 1, Done(last))
        /\ taken' = [taken EXCEPT ![c] = last]
        /\ overrun' = (overrun \/ ~CanWrite(buf, n))
        /\ torn' = (torn \/ \E d \in Conn \ {c} : Inside(d))

LEMMA RecvTakes ==
    ASSUME NEW c \in Conn, Streams, InOrder, RecvData(c)
    PROVE  \E n \in 1..Len(wire[c]) : Takes(c, n)
<1>1. Ordered(c, sent[c], wire[c], taken[c]) /\ sent[c] \in Seq(Frame) /\ wire[c] \in Seq(Cell)
  BY DEF InOrder, Streams
<1>2. PICK n \in 1..Len(wire[c]) :
          LET chunk == SubSeq(wire[c], 1, n)
              last == chunk[n]
          IN  /\ n <= FrmSize
              /\ wire' = [wire EXCEPT ![c] = SubSeq(wire[c], n + 1, Len(wire[c]))]
              /\ HandleChunk(chunk)
              /\ arrived' = arrived \o Ended(c, n)
              /\ taken' = [taken EXCEPT ![c] = last]
              /\ overrun' = (overrun \/ ~CanWrite(buf, n))
  BY DEF RecvData
<1>3. n \in 0..Len(wire[c]) /\ n \in 1..n /\ wire[c] # <<>> /\ 1 \in 1..Len(wire[c])
  BY <1>1
<1>4. SubSeq(wire[c], 1, n)[n] = wire[c][n]
  BY <1>1, <1>3, FirstFacts
<1>5. wire[c][1][1].num = Done(taken[c]) + 1
  BY <1>1, <1>3 DEF Ordered, Follows
<1>6. Done(wire[c][n]) = IF LastByte(wire[c][n]) THEN wire[c][n][1].num ELSE wire[c][n][1].num - 1
  BY <1>1, DoneFacts
<1>7. Ended(c, n) = SubSeq(sent[c], Done(taken[c]) + 1, Done(wire[c][n]))
  BY <1>5, <1>6 DEF Ended
<1>8. UNCHANGED <<sent, link>> /\ torn' = (torn \/ \E d \in Conn \ {c} : Inside(d))
  BY DEF RecvData
<1>9. Takes(c, n)
  BY <1>2, <1>4, <1>7, <1>8 DEF Takes
<1> QED
  BY <1>9

LEMMA RecvInOrder ==
    ASSUME NEW c \in Conn, Streams, InOrder, NEW n \in 1..Len(wire[c]), Takes(c, n)
    PROVE  InOrder'
<1>1. wire[c] \in Seq(Cell) /\ wire \in [Conn -> Seq(Cell)] /\ wire[c][n] \in Cell
  BY DEF Streams
<1>2. /\ UNCHANGED <<sent, link>>
      /\ wire' = [wire EXCEPT ![c] = SubSeq(wire[c], n + 1, Len(wire[c]))]
      /\ taken' = [taken EXCEPT ![c] = wire[c][n]]
  BY DEF Takes
<1>3. taken' \in [Conn -> Cell]
  BY <1>1, <1>2 DEF InOrder
<1>4. ASSUME NEW d \in Conn
      PROVE  /\ Ordered(d, sent'[d], wire'[d], taken'[d])
             /\ link'[d] \in {"none", "up"} => AllThere(sent'[d], wire'[d], taken'[d])
  <2>1. CASE d = c
    <3>1. wire'[c] = SubSeq(wire[c], n + 1, Len(wire[c])) /\ taken'[c] = wire[c][n]
      BY <1>1, <1>2 DEF InOrder
    <3>2. /\ Ordered(c, sent[c], wire[c], taken[c])
          /\ link[c] \in {"none", "up"} => AllThere(sent[c], wire[c], taken[c])
      BY DEF InOrder
    <3>3. /\ Ordered(c, sent[c], wire'[c], taken'[c])
          /\ AllThere(sent[c], wire[c], taken[c]) => AllThere(sent[c], wire'[c], taken'[c])
      BY <1>1, <3>1, <3>2, OrderedTake
    <3> QED
      BY <1>2, <2>1, <3>2, <3>3
  <2>2. CASE d # c
    <3>1. wire'[d] = wire[d] /\ taken'[d] = taken[d]
      BY <1>1, <1>2, <2>2 DEF InOrder
    <3> QED
      BY <1>2, <3>1 DEF InOrder
  <2> QED
    BY <2>1, <2>2
<1> QED
  BY <1>3, <1>4 DEF InOrder

LEMMA RecvWhole ==
    ASSUME NEW c \in Conn, Streams, InOrder, Whole, NEW n \in 1..Len(wire[c]), Takes(c, n)
    PROVE  Whole'
<1> DEFINE done == Done(taken[c])
           hi == Done(wire[c][n])
           a == Len(arrived)
<1>1. /\ Ordered(c, sent[c], wire[c], taken[c]) /\ sent[c] \in Seq(Frame) /\ wire[c] \in Seq(Cell)
      /\ arrived \in Seq(Frame) /\ Len(arrived) \in Nat /\ taken \in [Conn -> Cell]
  BY DEF InOrder, Streams, Whole
<1>2. done \in Nat /\ hi \in done..Len(sent[c]) /\ done \in 0..Len(sent[c])
  BY <1>1, DoneFacts
<1>3. /\ UNCHANGED sent /\ taken' = [taken EXCEPT ![c] = wire[c][n]]
      /\ arrived' = arrived \o SubSeq(sent[c], done + 1, hi)
  BY DEF Takes
<1>4. /\ arrived' \in Seq(Frame) /\ Distinct(arrived') /\ Len(arrived') = a + (hi - done)
      /\ \A k \in 1..a : arrived'[k] = arrived[k]
      /\ \A k \in 1..(hi - done) : arrived'[a + k] = sent[c][done + k]
  BY <1>2, <1>3, Arrive
<1>5. /\ Done(taken'[c]) = hi
      /\ \A d \in Conn \ {c} : taken'[d] = taken[d]
  BY <1>1, <1>3
<1> HIDE DEF done, hi, a
<1>6. done \in Nat /\ hi \in Nat /\ done <= hi /\ a \in Nat /\ hi <= Len(sent[c])
  <2>1. Len(sent[c]) \in Nat
    BY <1>1
  <2> QED
    BY <1>1, <1>2, <2>1 DEF a
<1>7. ASSUME NEW k \in 1..Len(arrived')
      PROVE  LET d == arrived'[k].conn
             IN  arrived'[k].num \in 1..Done(taken'[d]) /\ arrived'[k] = sent[d][arrived'[k].num]
  <2>1. CASE k \in 1..a
    <3> DEFINE d == arrived[k].conn
    <3>0. arrived'[k] = arrived[k] /\ k \in 1..Len(arrived)
      BY <1>4, <2>1 DEF a
    <3>1. d \in Conn
      <4>1. arrived[k] \in Frame
        BY <1>1, <3>0
      <4> QED
        BY <4>1 DEF Frame
    <3>2. arrived[k].num \in 1..Done(taken[d]) /\ arrived[k] = sent[d][arrived[k].num]
      BY <3>0 DEF Whole
    <3>3. CASE d = c
      <4>1. arrived[k].num \in 1..done /\ Done(taken'[d]) = hi
        BY <1>5, <3>2, <3>3 DEF done
      <4>2. arrived[k].num \in 1..hi
        BY <1>6, <4>1
      <4> QED
        BY <3>0, <3>2, <4>1, <4>2
    <3>4. CASE d # c
      BY <1>5, <3>0, <3>1, <3>2, <3>4
    <3> QED
      BY <3>3, <3>4
  <2>2. CASE ~(k \in 1..a)
    <3> DEFINE i == k - a
    <3>1. i \in 1..(hi - done) /\ a + i = k
      BY <1>4, <1>6, <2>2
    <3> HIDE DEF i
    <3>2. arrived'[k] = sent[c][done + i]
      BY <1>4, <3>1
    <3>3. done + i \in 1..Len(sent[c]) /\ done + i \in 1..hi
      BY <1>6, <3>1
    <3>4. sent[c][done + i].conn = c /\ sent[c][done + i].num = done + i
      BY <1>1, <3>3 DEF Ordered
    <3> QED
      BY <1>5, <3>2, <3>3, <3>4
  <2> QED
    BY <2>1, <2>2
<1> QED
  BY <1>3, <1>4, <1>7 DEF Whole
\* Whatever the ring holds, a call dispatches one frame or nothing.
LEMMA HandledFrames ==
    ASSUME Agree(buf), NEW chunk \in Seq(Cell), HandleChunk(chunk)
    PROVE  \/ dispatched' = dispatched
           \/ \E f \in Frame \cup {Torn} : dispatched' = Append(dispatched, f)
<1> DEFINE b == Stored(chunk)
<1>1. Agree(b)
  BY RingWrite DEF Stored
<1> HIDE DEF b
<1>2. CASE dispatched' # dispatched
  <2>1. PICK len \in DecodeLength(LengthField(b)) :
            LET cells == ReadBytes(b, FrameBytes(len))
            IN  /\ b.size >= LenAt + LenBytes
                /\ CanRead(b, FrameBytes(len)) /\ ValidFrame(cells)
                /\ dispatched' = Append(dispatched, Extracted(cells))
    BY <1>2 DEF HandleChunk, b
  <2> DEFINE n == FrameBytes(len)
             cells == ReadBytes(b, n)
  <2>2. n \in Nat \ {0} /\ n <= b.size /\ b.size \in Nat
    BY <1>1, <2>1, DecodedIsLength, Lengths, RingContents DEF CanRead
  <2>3. Contents(b) \in Seq(Cell) /\ n \in 0..Len(Contents(b)) /\ cells = SubSeq(Contents(b), 1, n)
    BY <1>1, <2>1, <2>2, RingContents, RingRead
  <2> HIDE DEF n
  <2>4. cells[1] \in Cell
    <3>1. 1 \in 1..n /\ 1 \in 1..Len(Contents(b))
      BY <2>2, <2>3
    <3>2. cells[1] = Contents(b)[1]
      BY <2>3, <3>1, FirstFacts
    <3> QED
      BY <2>3, <3>1, <3>2
  <2> HIDE DEF cells
  <2>5. cells[1][1] # None /\ dispatched' = Append(dispatched, Extracted(cells))
    BY <2>1 DEF ValidFrame, cells, n
  <2>6. cells[1][1] \in Frame
    BY <2>4, <2>5 DEF Cell, Nothing
  <2>7. Extracted(cells) \in Frame \cup {Torn}
    BY <2>6 DEF Extracted
  <2> QED
    BY <2>5, <2>7
<1> QED
  BY <1>2

\* The ring after a recv holds the frames that wait then.
LEMMA RecvInRing ==
    ASSUME NEW c \in Conn, Streams, InOrder, Whole, InRing, NEW n \in 1..Len(wire[c]), Takes(c, n)
    PROVE  InRing'
<1> DEFINE last == wire[c][n]
           chunk == SubSeq(wire[c], 1, n)
           done == Done(taken[c])
           hi == last[1].num
           to == Done(last)
           a == Len(arrived)
           d == Len(dispatched)
<1>1. /\ Ordered(c, sent[c], wire[c], taken[c]) /\ sent[c] \in Seq(Frame) /\ wire[c] \in Seq(Cell)
      /\ arrived \in Seq(Frame) /\ taken \in [Conn -> Cell] /\ Agree(buf)
      /\ dispatched \in Seq(Frame \cup {Torn})
  BY DEF InOrder, Streams, Whole, InRing
<1>2. /\ HandleChunk(chunk)
      /\ arrived' = arrived \o SubSeq(sent[c], done + 1, to)
      /\ taken' = [taken EXCEPT ![c] = last]
      /\ overrun' = (overrun \/ ~CanWrite(buf, n))
      /\ torn' = (torn \/ \E e \in Conn \ {c} : Inside(e))
  BY DEF Takes
<1>3. chunk \in Seq(Cell) /\ Len(chunk) = n
  <2>1. n \in 0..Len(wire[c])
    BY <1>1
  <2> QED
    BY <1>1, <2>1, FirstFacts
<1>4. /\ last # Nothing /\ last[1] \in Frame /\ last[1] = sent[c][hi]
      /\ done \in Nat /\ hi \in (done + 1)..Len(sent[c]) /\ to \in done..Len(sent[c])
      /\ to = IF LastByte(last) THEN hi ELSE hi - 1
  BY <1>1, DoneFacts, ByteFacts
<1> HIDE DEF last, chunk, done, hi, to, a, d
<1>5. /\ Len(sent[c]) \in Nat /\ done \in Nat /\ hi \in Nat /\ to \in Nat /\ done < hi /\ done <= to
      /\ a \in Nat /\ d \in Nat /\ hi \in done..Len(sent[c])
  <2>1. Len(sent[c]) \in Nat /\ a \in Nat /\ d \in Nat
    BY <1>1 DEF a, d
  <2> QED
    BY <1>4, <2>1
<1>6. dispatched' \in Seq(Frame \cup {Torn})
  <2>1. dispatched' = dispatched \/ \E f \in Frame \cup {Torn} : dispatched' = Append(dispatched, f)
    BY <1>1, <1>2, <1>3, HandledFrames
  <2> DEFINE S == Frame \cup {Torn}
  <2>2. dispatched \in Seq(S) /\ (dispatched' = dispatched \/ \E f \in S : dispatched' = Append(dispatched, f))
    BY <1>1, <2>1
  <2> HIDE DEF S
  <2>3. dispatched' \in Seq(S)
    BY <2>2, AppendFacts
  <2> QED
    BY <2>3 DEF S
<1>7. /\ taken'[c] = last /\ Inside(c)' = ~LastByte(last)
      /\ \A e \in Conn \ {c} : Inside(e)' = Inside(e)
  <2>1. taken'[c] = last /\ \A e \in Conn \ {c} : taken'[e] = taken[e]
    BY <1>1, <1>2
  <2> QED
    BY <1>4, <2>1 DEF Inside
<1>8. ~torn' => \A e \in Conn \ {c} : ~Inside(e) /\ ~Inside(e)'
  BY <1>2, <1>7
<1>9. ~torn' => \A e, g \in Conn : Inside(e)' /\ Inside(g)' => e = g
  BY <1>8
<1>10. ASSUME ~torn', ~overrun'
       PROVE  InTurn' /\ (\E fs, end : RingHolds(fs, end))'
  <2>1. /\ CanWrite(buf, n) /\ InTurn /\ \A e \in Conn \ {c} : ~Inside(e)
        /\ \E fs, end : RingHolds(fs, end)
    BY <1>2, <1>8, <1>10 DEF InRing
  <2> DEFINE all == arrived \o SubSeq(sent[c], done + 1, hi)
             gs == SubSeq(all, d + 1, Len(all))
             W == SubSeq(arrived', d + 1, Len(arrived'))
  <2>2. gs \in Seq(Frame) /\ gs # <<>> /\ Distinct(gs) /\ IsStream(Contents(buf) \o chunk, gs, last)
    <3>1. PICK fs, end : RingHolds(fs, end)
      BY <2>1
    <3> QED
      BY <1>1, <2>1, <3>1, RecvStream DEF last, chunk, done, hi, d
  <2>3. d <= a
    BY <2>1 DEF InTurn, a, d
  <2>4. /\ all \in Seq(Frame) /\ Len(all) = a + (hi - done)
        /\ \A k \in 1..a : all[k] = arrived[k]
        /\ \A k \in 1..(hi - done) : all[a + k] = sent[c][done + k]
    <3>1. hi \in Done(taken[c])..Len(sent[c])
      BY <1>5 DEF done
    <3> QED
      BY <3>1, Arrive DEF done, a
  <2>5. /\ arrived' \in Seq(Frame) /\ Len(arrived') = a + (to - done)
        /\ \A k \in 1..a : arrived'[k] = arrived[k]
        /\ \A k \in 1..(to - done) : arrived'[a + k] = sent[c][done + k]
    <3>1. to \in Done(taken[c])..Len(sent[c])
      BY <1>4 DEF done
    <3> QED
      BY <1>2, <3>1, Arrive DEF done, a
  <2> HIDE DEF all
  <2>6. d \in 0..Len(all) /\ d \in 0..Len(arrived') /\ Len(arrived') \in Nat
    <3>1. Len(all) \in Nat /\ Len(arrived') \in Nat
      BY <2>4, <2>5
    <3>2. a \in Nat /\ d \in Nat /\ 0 <= hi - done /\ 0 <= to - done
      BY <1>4, <1>5
    <3>3. a <= Len(all) /\ a <= Len(arrived')
      BY <1>4, <1>5, <2>4, <2>5, <3>1, <3>2
    <3> QED
      BY <2>3, <3>1, <3>2, <3>3
  <2>7. W \in Seq(Frame) /\ Len(W) = Len(arrived') - d /\ \A k \in 1..(Len(arrived') - d) : W[k] = arrived'[d + k]
    BY <2>5, <2>6, DropFacts
  <2>8. gs \in Seq(Frame) /\ Len(gs) = Len(all) - d /\ \A k \in 1..(Len(all) - d) : gs[k] = all[d + k]
    BY <2>4, <2>6, DropFacts
  <2> HIDE DEF gs, W
  <2>9. gs = IF LastByte(last) THEN W ELSE Append(W, last[1])
    <3>1. CASE LastByte(last)
      <4>1. all = arrived'
        BY <1>2, <1>4, <3>1 DEF all
      <4> QED
        BY <3>1, <4>1 DEF gs, W
    <3>2. CASE ~LastByte(last)
      <4>1. to = hi - 1 /\ Len(all) = Len(arrived') + 1 /\ hi - done = (to - done) + 1
            /\ a + (hi - done) = Len(arrived') + 1
        <5>1. to = hi - 1
          BY <1>4, <3>2
        <5>2. Len(all) = a + (hi - done) /\ Len(arrived') = a + (to - done)
          BY <2>4, <2>5
        <5> QED
          BY <1>5, <5>1, <5>2
      <4>2. \A k \in 1..Len(arrived') : all[k] = arrived'[k]
        <5>1. \A k \in 1..Len(arrived') :
                 k \in 1..a \/ (k - a \in 1..(to - done) /\ k - a \in 1..(hi - done) /\ a + (k - a) = k)
          BY <1>5, <2>5, <4>1
        <5>2. ASSUME NEW k \in 1..Len(arrived'), ~(k \in 1..a) PROVE all[k] = arrived'[k]
          <6> DEFINE i == k - a
          <6>1. i \in 1..(to - done) /\ i \in 1..(hi - done) /\ a + i = k
            BY <5>1, <5>2
          <6> HIDE DEF i
          <6>2. all[a + i] = sent[c][done + i] /\ arrived'[a + i] = sent[c][done + i]
            BY <2>4, <2>5, <6>1
          <6> QED
            BY <6>1, <6>2
        <5> QED
          BY <2>4, <2>5, <5>2
      <4>3. all[Len(arrived') + 1] = last[1]
        <5>1. hi - done \in 1..(hi - done) /\ done + (hi - done) = hi
          BY <1>5
        <5>2. all[a + (hi - done)] = sent[c][hi]
          BY <2>4, <5>1
        <5> QED
          BY <1>4, <4>1, <5>2
      <4>4. Len(gs) = Len(W) + 1 /\ Len(W) \in Nat
        <5>1. Len(gs) = Len(all) - d /\ Len(W) = Len(arrived') - d
          BY <2>7, <2>8
        <5>2. d \in Nat /\ d <= Len(arrived') /\ Len(arrived') \in Nat /\ Len(all) = Len(arrived') + 1
          BY <2>6, <4>1
        <5> QED
          BY <5>1, <5>2
      <4>5. \A k \in 1..Len(W) : gs[k] = W[k]
        <5>1. \A k \in 1..Len(W) : k \in 1..(Len(all) - d) /\ d + k \in 1..Len(arrived')
          BY <1>5, <2>6, <2>7, <4>1
        <5> QED
          BY <2>7, <2>8, <4>2, <5>1
      <4>6. gs[Len(W) + 1] = last[1]
        <5>1. Len(W) + 1 \in 1..(Len(all) - d) /\ d + (Len(W) + 1) = Len(arrived') + 1
          BY <1>5, <2>6, <2>7, <4>1
        <5> QED
          BY <2>8, <4>3, <5>1
      <4> DEFINE v == Append(W, last[1])
      <4>7. v \in Seq(Frame) /\ Len(v) = Len(W) + 1 /\ v[Len(W) + 1] = last[1]
            /\ \A k \in 1..Len(W) : v[k] = W[k]
        BY <1>4, <2>7
      <4> HIDE DEF v
      <4>8. \A k \in 1..Len(gs) : gs[k] = v[k]
        <5>1. \A k \in 1..Len(gs) : k \in 1..Len(W) \/ k = Len(W) + 1
          BY <4>4
        <5> QED
          BY <4>5, <4>6, <4>7, <5>1
      <4>9. gs = v
        BY <2>8, <4>4, <4>7, <4>8, EqualSeqs
      <4> QED
        BY <3>2, <4>9 DEF v
    <3> QED
      BY <3>1, <3>2
  <2>10. \A k \in 1..d : dispatched[k] = arrived'[k] /\ k \in 1..a
    <3>1. \A k \in 1..d : k \in 1..a /\ dispatched[k] = arrived[k]
      BY <1>5, <2>1, <2>3 DEF InTurn, d
    <3> QED
      BY <2>5, <3>1
\* The frames fs in the ring, with the last one unfinished or not
  <2>11. ASSUME NEW fs \in Seq(Frame), NEW w, Distinct(fs), NEW e, e = last,
                IsStream(Contents(buf'), fs, e),
                Waiting' = w, fs = IF LastByte(last) THEN w ELSE Append(w, last[1])
         PROVE  (\E hs, end : RingHolds(hs, end))'
    <3> SUFFICES RingHolds(fs, e)'
      OBVIOUS
    <3>1. CASE LastByte(last)
      <4>1. \A g \in Conn : ~Inside(g)'
        BY <1>7, <1>8, <1>10, <3>1
      <4>2. fs = Waiting' /\ (fs # <<>> => LastByte(e))
        BY <2>11, <3>1
      <4> QED
        BY <2>11, <4>1, <4>2 DEF RingHolds
    <3>2. CASE ~LastByte(last)
      <4>1. Inside(c)' /\ fs = Append(Waiting', taken'[c][1]) /\ e = taken'[c]
        BY <1>7, <2>11, <3>2
      <4> QED
        BY <2>11, <4>1 DEF RingHolds
    <3> QED
      BY <3>1, <3>2
  <2>12. \/ dispatched' = dispatched /\ IsStream(Contents(buf'), gs, last)
         \/ /\ dispatched' = Append(dispatched, gs[1])
            /\ IsStream(Contents(buf'), Tail(gs), last)
            /\ Len(gs) = 1 => LastByte(last)
    BY <1>1, <1>2, <1>3, <2>1, <2>2, HandledStream
  <2>13. CASE dispatched' = dispatched /\ IsStream(Contents(buf'), gs, last)
    <3>1. Waiting' = W
      BY <2>13 DEF Waiting, W, d
    <3>2. (\E fs, end : RingHolds(fs, end))'
      BY <2>2, <2>9, <2>11, <2>13, <3>1
    <3>3. d <= Len(arrived')
      BY <2>6
    <3>4. InTurn'
      BY <2>10, <2>13, <3>3 DEF InTurn, d
    <3> QED
      BY <3>2, <3>4
  <2>14. CASE /\ dispatched' = Append(dispatched, gs[1])
              /\ IsStream(Contents(buf'), Tail(gs), last)
              /\ Len(gs) = 1 => LastByte(last)
    <3>1. W # <<>> /\ 1 \in 1..Len(W)
      <4>1. W = <<>> => ~LastByte(last) /\ gs = Append(<<>>, last[1])
        BY <2>2, <2>9
      <4>2. W = <<>> => Len(gs) = 1
        BY <4>1
      <4>3. W # <<>>
        BY <2>14, <4>1, <4>2
      <4> QED
        BY <2>7, <4>3
    <3>2. d \in 0..(Len(arrived') - 1) /\ 1 \in 1..(Len(arrived') - d)
      BY <1>5, <2>6, <2>7, <3>1
    <3>3. gs[1] = W[1] /\ W[1] = arrived'[d + 1] /\ d + 1 \in 1..Len(arrived')
      <4>1. Append(W, last[1])[1] = W[1]
        BY <2>7, <3>1
      <4> QED
        BY <2>6, <2>7, <2>9, <3>2, <4>1
    <3>4. Len(dispatched') = d + 1 /\ dispatched'[d + 1] = gs[1] /\ \A k \in 1..d : dispatched'[k] = dispatched[k]
      BY <1>1, <2>14 DEF d
    <3>5. Waiting' = Tail(W)
      <4>1. Tail(W) = SubSeq(arrived', (d + 1) + 1, Len(arrived'))
        BY <2>5, <3>2, TailDrop DEF W
      <4> QED
        BY <3>4, <4>1 DEF Waiting
    <3>6. Tail(gs) = IF LastByte(last) THEN Tail(W) ELSE Append(Tail(W), last[1])
      <4>1. CASE LastByte(last)
        BY <2>9, <4>1
      <4>2. CASE ~LastByte(last)
        <5>1. Tail(Append(W, last[1])) = Append(Tail(W), last[1])
          <6>1. last[1] \in Frame /\ W \in Seq(Frame) /\ W # <<>>
            BY <1>4, <2>7, <3>1
          <6> HIDE DEF W, last
          <6> QED
            BY <6>1
        <5> QED
          BY <2>9, <4>2, <5>1
      <4> QED
        BY <4>1, <4>2
    <3>7. Tail(gs) \in Seq(Frame) /\ Distinct(Tail(gs))
      <4>1. /\ Tail(gs) \in Seq(Frame) /\ Len(Tail(gs)) = Len(gs) - 1
            /\ \A k \in 1..Len(Tail(gs)) : Tail(gs)[k] = gs[k + 1] /\ k + 1 \in 1..Len(gs)
        BY <2>2, TailFacts
      <4>2. ASSUME NEW i \in 1..Len(Tail(gs)), NEW j \in 1..Len(Tail(gs)), Tail(gs)[i] = Tail(gs)[j]
            PROVE  i = j
        <5>1. i + 1 = j + 1
          BY <2>2, <4>1, <4>2 DEF Distinct
        <5> QED
          BY <5>1
      <4> QED
        BY <4>1, <4>2 DEF Distinct
    <3>8. (\E fs, end : RingHolds(fs, end))'
      BY <2>11, <2>14, <3>5, <3>6, <3>7
    <3>9. InTurn'
      <4>1. \A k \in 1..Len(dispatched') : k \in 1..d \/ k = d + 1
        BY <1>5, <3>4
      <4>2. \A k \in 1..Len(dispatched') : dispatched'[k] = arrived'[k]
        BY <2>10, <3>3, <3>4, <4>1
      <4>3. Len(dispatched') <= Len(arrived')
        BY <1>5, <2>6, <3>3, <3>4
      <4> QED
        BY <4>2, <4>3 DEF InTurn
    <3> QED
      BY <3>8, <3>9
  <2> QED
    BY <2>12, <2>13, <2>14
<1> QED
  BY <1>6, <1>9, <1>10 DEF InRing
\* The steps that take nothing from a client and send nothing to the server: a
\* connection comes up, or it ends and loses what is on its way.
Hushed ==
    /\ UNCHANGED <<sent, buf, dispatched, arrived, taken, overrun>>
    /\ torn => torn'
    /\ \A c \in Conn :
          \/ /\ wire'[c] = wire[c]
             /\ link'[c] \in {"none", "up"} => link[c] \in {"none", "up"}
          \/ /\ link'[c] \notin {"none", "up"}
             /\ \E n \in 0..Len(wire[c]) : wire'[c] = SubSeq(wire[c], 1, n)

\* A connection that the server closes.
LEMMA ClosedIsHushed ==
    ASSUME Streams, NEW gone \in SUBSET Conn, torn => torn',
           UNCHANGED <<sent, buf, dispatched, arrived, taken, overrun>>,
           \A c \in gone : link'[c] = "closed" /\ wire'[c] = <<>>,
           \A c \in Conn \ gone : link'[c] = link[c] /\ wire'[c] = wire[c]
    PROVE  Hushed
<1>1. ASSUME NEW c \in gone
      PROVE  link'[c] \notin {"none", "up"} /\ \E n \in 0..Len(wire[c]) : wire'[c] = SubSeq(wire[c], 1, n)
  <2>1. wire[c] \in Seq(Cell)
    BY DEF Streams
  <2>2. 0 \in 0..Len(wire[c]) /\ SubSeq(wire[c], 1, 0) = <<>>
    BY <2>1
  <2> QED
    BY <2>2
<1> QED
  BY <1>1 DEF Hushed

LEMMA SendIsHushed ==
    ASSUME SendAll, UNCHANGED <<sent, wire, buf, dispatched, arrived, taken, overrun, torn>>
    PROVE  Hushed
<1>1. ASSUME NEW c \in Conn, link'[c] \in {"none", "up"} PROVE link[c] \in {"none", "up"}
  BY <1>1 DEF SendAll, AfterSend
<1> QED
  BY <1>1 DEF Hushed

\* Every step is one of these, a frame that a client sends or a recv that takes bytes.
LEMMA StepKinds ==
    ASSUME Table, Streams, Step
    PROVE  Hushed \/ \E c \in Conn : Send(c) \/ RecvData(c)
<1>1. link \in [Conn -> LinkState] /\ wire \in [Conn -> Seq(Cell)] /\ backlog \in Seq(Conn)
      /\ client_info \in [Slot -> Conn \cup {None}] /\ Entries \subseteq Slot
  BY InUseFinite DEF Table, Typed, Streams
<1>2. ASSUME UNCHANGED <<link, wire, sent, buf, dispatched, arrived, taken, overrun, torn>>
      PROVE  Hushed
  BY <1>2 DEF Hushed
<1>3. CASE network_delete
  <2> DEFINE gone == {client_info[i] : i \in InUse} \cup {backlog[k] : k \in DOMAIN backlog}
  <2>1. gone \in SUBSET Conn
    BY <1>1 DEF InUse
  <2>2. /\ \A c \in gone : link'[c] = "closed" /\ wire'[c] = <<>>
        /\ \A c \in Conn \ gone : link'[c] = link[c] /\ wire'[c] = wire[c]
        /\ torn => torn'
        /\ UNCHANGED <<sent, buf, dispatched, arrived, taken, overrun>>
    BY <1>3, <2>1 DEF network_delete
  <2> HIDE DEF gone
  <2> QED
    BY <2>1, <2>2, ClosedIsHushed
<1>4. CASE net_resp_msg \/ network_write
  BY <1>4, SendIsHushed DEF net_resp_msg, network_write, history
<1>5. ASSUME NEW c \in Conn, Connect(c) \/ Hangup(c) PROVE Hushed
  <2>1. CASE Connect(c)
    <3>1. \A d \in Conn : link'[d] \in {"none", "up"} => link[d] \in {"none", "up"}
      BY <1>1, <2>1 DEF Connect
    <3> QED
      BY <2>1, <3>1 DEF Connect, Hushed, history
  <2>2. CASE Hangup(c)
    <3>1. \A d \in Conn \ {c} : link'[d] = link[d] /\ wire'[d] = wire[d]
      BY <1>1, <2>2 DEF Hangup
    <3>2. link'[c] \notin {"none", "up"} /\ \E n \in 0..Len(wire[c]) : wire'[c] = SubSeq(wire[c], 1, n)
      BY <1>1, <2>2 DEF Hangup
    <3> QED
      BY <2>2, <3>1, <3>2 DEF Hangup, Hushed, history
  <2> QED
    BY <1>5, <2>1, <2>2
<1>6. ASSUME NEW c \in Conn, Close(c), torn => torn',
             UNCHANGED <<sent, buf, dispatched, arrived, taken, overrun>>
      PROVE  Hushed
  <2>1. link'[c] = "closed" /\ wire'[c] = <<>>
        /\ \A d \in Conn \ {c} : link'[d] = link[d] /\ wire'[d] = wire[d]
    BY <1>1, <1>6 DEF Close
  <2> DEFINE gone == {c}
  <2>2. /\ gone \in SUBSET Conn
        /\ \A d \in gone : link'[d] = "closed" /\ wire'[d] = <<>>
        /\ \A d \in Conn \ gone : link'[d] = link[d] /\ wire'[d] = wire[d]
    BY <2>1
  <2> HIDE DEF gone
  <2> QED
    BY <1>6, <2>2, ClosedIsHushed
<1>7. CASE AcceptRefuse
  <2>1. Head(backlog) \in Conn
    BY <1>1, <1>7, TailFacts DEF AcceptRefuse
  <2> QED
    BY <1>6, <1>7, <2>1 DEF AcceptRefuse, history
<1>8. ASSUME Recv PROVE Hushed \/ \E c \in Conn : RecvData(c)
  <2> DEFINE c == client_info[pc]
  <2>1. c \in Conn /\ (RecvNothing(c) \/ RecvError(c) \/ RecvEnd(c) \/ RecvData(c))
    BY <1>1, <1>8 DEF Recv
  <2> HIDE DEF c
  <2>2. CASE RecvNothing(c)
    <3>1. UNCHANGED <<link, wire, sent, buf, dispatched, arrived, taken, overrun, torn>>
      BY <2>2 DEF RecvNothing, client, history
    <3> QED
      BY <1>2, <3>1
  <2>3. CASE RecvError(c)
    <3>1. \A d \in Conn : link'[d] \in {"none", "up"} => link[d] \in {"none", "up"}
      BY <1>1, <2>3 DEF RecvError
    <3> QED
      BY <2>3, <3>1 DEF RecvError, Hushed, history
  <2>4. CASE RecvEnd(c)
    BY <1>6, <2>1, <2>4 DEF RecvEnd
  <2> QED
    BY <2>1, <2>2, <2>3, <2>4
<1>9. CASE network_read
  <2>1. CASE AcceptNone \/ AcceptClient \/ SkipEmpty
    BY <1>2, <2>1 DEF AcceptNone, AcceptClient, SkipEmpty, client, history
  <2> QED
    BY <1>7, <1>8, <1>9, <2>1 DEF network_read
<1>10. CASE UNCHANGED vars \/ UNCHANGED allVars \/ UseWithoutTable \/ \E max_conn \in MaxConns : network_init(max_conn)
  BY <1>2, <1>10 DEF allVars, vars, client, history, UseWithoutTable, network_init
<1> QED
  BY <1>3, <1>4, <1>5, <1>9, <1>10 DEF Step, Next, ServerNext, Read, Clients

LEMMA HushedKeeps ==
    ASSUME Streams, InOrder, Whole, InRing, Hushed
    PROVE  InOrder' /\ Whole' /\ InRing'
<1>1. UNCHANGED <<sent, buf, dispatched, arrived, taken, overrun>> /\ (torn => torn')
  BY DEF Hushed
<1>2. InOrder'
  <2>1. ASSUME NEW c \in Conn
        PROVE  /\ Ordered(c, sent[c], wire'[c], taken[c])
               /\ link'[c] \in {"none", "up"} => AllThere(sent[c], wire'[c], taken[c])
    <3>1. Ordered(c, sent[c], wire[c], taken[c]) /\ wire[c] \in Seq(Cell)
          /\ (link[c] \in {"none", "up"} => AllThere(sent[c], wire[c], taken[c]))
      BY DEF InOrder, Streams
    <3>2. CASE /\ wire'[c] = wire[c]
               /\ link'[c] \in {"none", "up"} => link[c] \in {"none", "up"}
      BY <3>1, <3>2
    <3>3. CASE /\ link'[c] \notin {"none", "up"}
               /\ \E n \in 0..Len(wire[c]) : wire'[c] = SubSeq(wire[c], 1, n)
      BY <3>1, <3>3, OrderedCut
    <3> QED
      BY <3>2, <3>3 DEF Hushed
  <2> QED
    BY <1>1, <2>1 DEF InOrder
<1>3. Whole'
  BY <1>1 DEF Whole
<1>4. (\A c \in Conn : Inside(c)' = Inside(c)) /\ Waiting' = Waiting
  BY <1>1 DEF Inside, Waiting
<1>5. ASSUME NEW fs, NEW end, RingHolds(fs, end) PROVE RingHolds(fs, end)'
  BY <1>1, <1>4, <1>5 DEF RingHolds
<1>6. ASSUME \E fs, end : RingHolds(fs, end) PROVE (\E fs, end : RingHolds(fs, end))'
  <2>1. PICK fs, end : RingHolds(fs, end)
    BY <1>6
  <2> QED
    BY <1>5, <2>1
<1>7. InTurn => InTurn'
  BY <1>1 DEF InTurn
<1> HIDE DEF Inside, InTurn
<1>8. InRing'
  BY <1>1, <1>4, <1>6, <1>7 DEF InRing
<1> QED
  BY <1>2, <1>3, <1>8

LEMMA SendKeepsOrder ==
    ASSUME Streams, InOrder, Whole, InRing, NEW c \in Conn, Send(c)
    PROVE  InOrder' /\ Whole' /\ InRing'
<1>1. UNCHANGED <<link, buf, dispatched, arrived, taken, overrun, torn>> /\ link[c] = "up"
  BY DEF Send, history
<1>2. PICK len \in PayloadLen, type \in FrameType :
          LET f == [conn |-> c, num |-> Len(sent[c]) + 1, len |-> len, type |-> type]
          IN  /\ sent' = [sent EXCEPT ![c] = Append(@, f)]
              /\ wire' = [wire EXCEPT ![c] = @ \o FrameCells(f)]
  BY DEF Send
<1> DEFINE f == [conn |-> c, num |-> Len(sent[c]) + 1, len |-> len, type |-> type]
<1>3. f.conn = c /\ f.num = Len(sent[c]) + 1 /\ f \in Frame
  <2>1. Len(sent[c]) + 1 \in Nat \ {0}
    BY DEF Streams
  <2> QED
    BY <2>1 DEF Frame
<1>4. sent' = [sent EXCEPT ![c] = Append(sent[c], f)] /\ wire' = [wire EXCEPT ![c] = wire[c] \o FrameCells(f)]
  BY <1>2
<1> HIDE DEF f
<1>5. sent \in [Conn -> Seq(Frame)] /\ wire \in [Conn -> Seq(Cell)]
  BY DEF Streams
<1>6. /\ sent'[c] = Append(sent[c], f) /\ wire'[c] = wire[c] \o FrameCells(f)
      /\ \A d \in Conn \ {c} : sent'[d] = sent[d] /\ wire'[d] = wire[d]
  BY <1>4, <1>5
<1>7. InOrder'
  <2>1. Ordered(c, sent[c], wire[c], taken[c]) /\ AllThere(sent[c], wire[c], taken[c])
    BY <1>1 DEF InOrder
  <2>2. Ordered(c, sent'[c], wire'[c], taken[c]) /\ AllThere(sent'[c], wire'[c], taken[c])
    <3>1. sent[c] \in Seq(Frame) /\ wire[c] \in Seq(Cell)
      BY <1>5
    <3> QED
      BY <1>3, <1>6, <2>1, <3>1, OrderedSend
  <2> QED
    BY <1>1, <1>6, <2>2 DEF InOrder
<1>8. Whole'
  <2>1. ASSUME NEW k \in 1..Len(arrived)
        PROVE  LET d == arrived[k].conn IN arrived[k] = sent'[d][arrived[k].num]
    <3> DEFINE d == arrived[k].conn
               i == arrived[k].num
    <3>1. d \in Conn
      <4>1. arrived[k] \in Frame
        BY DEF Whole
      <4> QED
        BY <4>1 DEF Frame
    <3>2. i \in 1..Done(taken[d]) /\ arrived[k] = sent[d][i]
      BY DEF Whole
    <3>3. Done(taken[d]) \in 0..Len(sent[d])
      BY <1>5, <3>1, DoneFacts DEF InOrder
    <3>4. i \in 1..Len(sent[d])
      <4>1. Len(sent[d]) \in Nat
        BY <1>5, <3>1
      <4> HIDE DEF d, i
      <4> QED
        BY <3>2, <3>3, <4>1
    <3> HIDE DEF d, i
    <3>5. sent'[d][i] = sent[d][i]
      <4>1. CASE d = c
        <5>1. sent[c] \in Seq(Frame) /\ i \in 1..Len(sent[c])
          BY <1>5, <3>4, <4>1
        <5>2. Append(sent[c], f)[i] = sent[c][i]
          BY <1>3, <5>1, AppendFacts
        <5> QED
          BY <1>6, <4>1, <5>2
      <4>2. CASE d # c
        BY <1>6, <3>1, <4>2
      <4> QED
        BY <4>1, <4>2
    <3> QED
      BY <3>2, <3>5 DEF d, i
  <2> QED
    BY <1>1, <2>1 DEF Whole
<1>9. (\A d \in Conn : Inside(d)' = Inside(d)) /\ Waiting' = Waiting
  BY <1>1 DEF Inside, Waiting
<1>10. ASSUME NEW fs, NEW end, RingHolds(fs, end) PROVE RingHolds(fs, end)'
  BY <1>1, <1>9, <1>10 DEF RingHolds
<1>11. ASSUME \E fs, end : RingHolds(fs, end) PROVE (\E fs, end : RingHolds(fs, end))'
  <2>1. PICK fs, end : RingHolds(fs, end)
    BY <1>11
  <2> QED
    BY <1>10, <2>1
<1>12. InTurn => InTurn'
  BY <1>1 DEF InTurn
<1>13. InRing'
  BY <1>1, <1>9, <1>11, <1>12 DEF InRing
<1> QED
  BY <1>7, <1>8, <1>13

LEMMA StepKeepsOrder ==
    ASSUME Table, Streams, InOrder, Whole, InRing, Step
    PROVE  InOrder' /\ Whole' /\ InRing'
<1>1. ASSUME NEW c \in Conn, RecvData(c) PROVE InOrder' /\ Whole' /\ InRing'
  <2>1. PICK n \in 1..Len(wire[c]) : Takes(c, n)
    BY <1>1, RecvTakes
  <2> QED
    BY <2>1, RecvInOrder, RecvWhole, RecvInRing
<1> QED
  BY <1>1, StepKinds, HushedKeeps, SendKeepsOrder

LEMMA BootKeeps ==
    ASSUME Boot
    PROVE  InOrder /\ Whole /\ InRing
<1>1. /\ link = [c \in Conn |-> "none"] /\ wire = [c \in Conn |-> <<>>]
      /\ sent = [c \in Conn |-> <<>>] /\ taken = [c \in Conn |-> Nothing]
      /\ dispatched = <<>> /\ arrived = <<>> /\ buf.size = 0
  BY DEF Boot
<1>2. Agree(buf)
  BY BootStreams DEF Streams
<1>3. Contents(buf) = <<>>
  <2>1. Contents(buf) \in Seq(Cell) /\ Len(Contents(buf)) = 0
    BY <1>1, <1>2, RingContents
  <2> QED
    BY <2>1
<1>4. InOrder
  <2>1. taken \in [Conn -> Cell]
    BY <1>1 DEF Cell
  <2>2. ASSUME NEW c \in Conn
        PROVE  Ordered(c, sent[c], wire[c], taken[c]) /\ AllThere(sent[c], wire[c], taken[c])
    <3>1. sent[c] = <<>> /\ wire[c] = <<>> /\ taken[c] = Nothing
      BY <1>1
    <3> QED
      BY <3>1 DEF Ordered, AllThere, Done, Begun
  <2> QED
    BY <2>1, <2>2 DEF InOrder
<1>5. Whole
  BY <1>1 DEF Whole, Distinct
<1>6. \A c \in Conn : ~Inside(c)
  BY <1>1 DEF Inside
<1>7. Waiting = <<>> /\ InTurn /\ dispatched \in Seq(Frame \cup {Torn})
  BY <1>1 DEF Waiting, InTurn
<1>8. RingHolds(<<>>, Nothing)
  <2>1. IsStream(<<>>, <<>>, Nothing) /\ Distinct(<<>>) /\ <<>> \in Seq(Frame)
    BY DEF IsStream, Distinct
  <2> QED
    BY <1>3, <1>6, <1>7, <2>1 DEF RingHolds
<1> QED
  BY <1>4, <1>5, <1>6, <1>7, <1>8 DEF InRing

Kept == Streams /\ InOrder /\ Whole /\ InRing

\* TCP keeps the order of the bytes, recv takes them in that order, and the ring holds
\* those that were not dispatched (network_op.c:421-827).
THEOREM OrderKept == Spec \/ ServerSpec => []Kept
<1>1. Init \/ ServerInit => Kept
  BY BootStreams, BootKeeps DEF Init, ServerInit, Kept
<1>2. Table /\ Kept /\ [Next]_vars => Kept'
  BY StepStreams, StepKeepsOrder DEF Step, Kept
<1>3. Table /\ Kept /\ [ServerNext]_allVars => Kept'
  BY StepStreams, StepKeepsOrder DEF Step, Kept
<1> QED
  BY TableKept, <1>1, <1>2, <1>3, PTL DEF Spec, ServerSpec

LEMMA WaitingFacts ==
    ASSUME Whole, InTurn, dispatched \in Seq(Frame \cup {Torn})
    PROVE  /\ Waiting \in Seq(Frame) /\ Len(Waiting) \in Nat
           /\ Len(dispatched) \in 0..Len(arrived)
           /\ Len(Waiting) = Len(arrived) - Len(dispatched)
<1>1. Len(dispatched) \in Nat /\ Len(arrived) \in Nat /\ arrived \in Seq(Frame)
  BY DEF Whole
<1>2. Len(dispatched) \in 0..Len(arrived)
  BY <1>1 DEF InTurn
<1>3. Waiting \in Seq(Frame) /\ Len(Waiting) = Len(arrived) - Len(dispatched)
  BY <1>1, <1>2, DropFacts DEF Waiting
<1> QED
  BY <1>1, <1>2, <1>3

\* What the ring holds when at most client c is inside a frame
LEMMA RingAsSaid ==
    ASSUME Streams, InOrder, Whole, InTurn, dispatched \in Seq(Frame \cup {Torn}),
           NEW fs, NEW end, RingHolds(fs, end),
           NEW c \in Conn, \A d \in Conn : Inside(d) => d = c
    PROVE  Contents(buf) = FlattenSeq([k \in 1..Len(Waiting) |-> FrameCells(Waiting[k])]) \o Partial(c)
<1> DEFINE w == Len(Waiting)
           s == Contents(buf)
<1>1. /\ fs \in Seq(Frame) /\ Distinct(fs) /\ IsStream(s, fs, end)
      /\ Waiting \in Seq(Frame) /\ w \in Nat /\ s \in Seq(Cell)
  BY WaitingFacts, RingContents DEF RingHolds, Streams
<1>2. CASE Inside(c)
  <2>1. fs = Append(Waiting, taken[c][1]) /\ end = taken[c] /\ taken[c] \in Cell
    BY <1>2 DEF RingHolds, InOrder
  <2>2. taken[c] # Nothing /\ ~LastByte(taken[c])
    BY <1>2 DEF Inside
  <2>3. taken[c][1] \in Frame
    BY <2>1, <2>2 DEF Cell
  <2>4. Len(fs) = w + 1 /\ \A k \in 1..w : fs[k] = Waiting[k]
    BY <1>1, <2>1, <2>3, AppendFacts
  <2>5. Partial(c) = SubSeq(FrameCells(end[1]), 1, end[2] + 1)
    BY <1>2, <2>1 DEF Partial
  <2> HIDE DEF w, s
  <2>6. w \in 0..Len(fs) /\ w # Len(fs) /\ w + 1 = Len(fs)
    BY <1>1, <2>4
  <2> DEFINE flat == FlattenSeq([k \in 1..w |-> FrameCells(fs[k])])
             rest == SubSeq(FrameCells(end[1]), 1, end[2] + 1)
  <2>7. s = flat \o rest
    <3>1. w + 1 = Len(fs) /\ ~LastByte(end)
      BY <2>1, <2>2, <2>6
    <3>2. s = flat \o (IF w = Len(fs) THEN <<>> ELSE rest)
      <4>1. s \in Seq(Cell) /\ fs \in Seq(Frame) /\ IsStream(s, fs, end) /\ Distinct(fs)
        BY <1>1
      <4> QED
        BY <2>6, <3>1, <4>1, StreamFlat
    <3> HIDE DEF flat, rest
    <3> QED
      BY <2>6, <3>2
  <2>8. [k \in 1..w |-> FrameCells(fs[k])] = [k \in 1..w |-> FrameCells(Waiting[k])]
    BY <2>4
  <2> QED
    BY <2>5, <2>7, <2>8 DEF w, s
<1>3. CASE ~Inside(c)
  <2>1. fs = Waiting /\ (fs # <<>> => LastByte(end))
    BY <1>3 DEF RingHolds
  <2>2. Partial(c) = <<>>
    BY <1>3 DEF Partial
  <2> HIDE DEF s
  <2>3. w \in 0..Len(fs) /\ w = Len(fs)
    BY <1>1, <2>1
  <2> HIDE DEF w
  <2>4. s = FlattenSeq([k \in 1..w |-> FrameCells(fs[k])]) \o <<>>
    BY <1>1, <2>1, <2>3, StreamFlat
  <2> QED
    BY <2>1, <2>2, <2>4 DEF w, s
<1> QED
  BY <1>2, <1>3

\* However TCP cuts and joins the frames of any number of clients, and wherever the
\* ring wraps, what was dispatched is what arrived, in order and unchanged, and the
\* ring holds the frames that wait and the beginning of the next one; as long as no
\* two clients were inside a frame at once, no connection ended inside one and no
\* chunk was refused by a full ring (network_op.c:618-827).
THEOREM StreamStaysIntact == Spec \/ ServerSpec => []StreamIntact
<1>1. Kept => StreamIntact
  <2> SUFFICES ASSUME Streams, InOrder, Whole, InRing, ~torn, ~overrun
               PROVE  /\ IsPrefix(dispatched, arrived)
                      /\ \A c \in Conn : (\A d \in Conn : Inside(d) => d = c) =>
                            Contents(buf) = FlattenSeq([k \in 1..Len(Waiting) |-> FrameCells(Waiting[k])])
                                                \o Partial(c)
    BY DEF StreamIntact, Kept
  <2>1. InTurn /\ dispatched \in Seq(Frame \cup {Torn}) /\ \E fs, end : RingHolds(fs, end)
    BY DEF InRing
  <2>2. IsPrefix(dispatched, arrived)
    <3>1. arrived \in Seq(Frame) /\ Len(dispatched) \in 0..Len(arrived) /\ Len(dispatched) <= Len(arrived)
      BY <2>1, WaitingFacts DEF Whole, InTurn
    <3> DEFINE first == SubSeq(arrived, 1, Len(dispatched))
    <3>2. /\ first \in Seq(Frame) /\ Len(first) = Len(dispatched)
          /\ \A k \in 1..Len(dispatched) : first[k] = arrived[k]
      BY <3>1, FirstFacts
    <3> HIDE DEF first
    <3>3. \A k \in 1..Len(dispatched) : dispatched[k] = first[k]
      BY <2>1, <3>2 DEF InTurn
    <3>4. dispatched = first
      BY <2>1, <3>2, <3>3, EqualSeqs
    <3>5. SubSeq(dispatched, 1, Len(dispatched)) = dispatched
      BY <2>1
    <3> QED
      BY <3>1, <3>4, <3>5 DEF IsPrefix, first
  <2>3. PICK fs, end : RingHolds(fs, end)
    BY <2>1
  <2> QED
    BY <2>1, <2>2, <2>3, RingAsSaid
<1> QED
  BY OrderKept, <1>1, PTL

-----------------------------------------------------------------------------
(* A client that waits *)

HandledOf(c) == {k \in DOMAIN dispatched : dispatched[k] # Torn /\ dispatched[k].conn = c}

LEMMA AnsweredCounts ==
    ASSUME NEW c, dispatched \in Seq(Frame \cup {Torn})
    PROVE  /\ Answered(c) = Cardinality(HandledOf(c)) /\ Answered(c) \in Nat
           /\ IsFiniteSet(HandledOf(c)) /\ HandledOf(c) \subseteq 1..Len(dispatched)
<1>1. DOMAIN dispatched = 1..Len(dispatched) /\ Len(dispatched) \in Nat
  OBVIOUS
<1>2. HandledOf(c) \in SUBSET (1..Len(dispatched))
  BY <1>1 DEF HandledOf
<1>3. IsFiniteSet(1..Len(dispatched))
  BY <1>1, FS_Interval
<1> QED
  BY <1>2, <1>3, FS_Subset, FS_CardinalityType DEF Answered, HandledOf

\* What was handled stays handled.
LEMMA AnsweredGrows ==
    ASSUME NEW c, dispatched \in Seq(Frame \cup {Torn}),
           dispatched' = dispatched \/ \E f \in Frame \cup {Torn} : dispatched' = Append(dispatched, f)
    PROVE  Answered(c) <= Answered(c)' /\ Answered(c) \in Nat /\ Answered(c)' \in Nat
<1> DEFINE S == Frame \cup {Torn}
<1>1. dispatched' \in Seq(S) /\ \A k \in 1..Len(dispatched) : k \in 1..Len(dispatched') /\ dispatched'[k] = dispatched[k]
  <2>1. dispatched \in Seq(S) /\ (dispatched' = dispatched \/ \E f \in S : dispatched' = Append(dispatched, f))
    OBVIOUS
  <2> HIDE DEF S
  <2>2. CASE dispatched' = dispatched
    BY <2>1, <2>2
  <2>3. ASSUME NEW f \in S, dispatched' = Append(dispatched, f)
        PROVE  dispatched' \in Seq(S)
               /\ \A k \in 1..Len(dispatched) : k \in 1..Len(dispatched') /\ dispatched'[k] = dispatched[k]
    <3>1. /\ dispatched' \in Seq(S) /\ Len(dispatched') = Len(dispatched) + 1
          /\ \A k \in 1..Len(dispatched) : dispatched'[k] = dispatched[k]
      BY <2>1, <2>3, AppendFacts
    <3>2. Len(dispatched) \in Nat
      BY <2>1
    <3> QED
      BY <3>1, <3>2
  <2> QED
    BY <2>1, <2>2, <2>3
<1>2. Answered(c)' = Cardinality(HandledOf(c)') /\ Answered(c)' \in Nat /\ IsFiniteSet(HandledOf(c)')
  <2>1. DOMAIN dispatched' = 1..Len(dispatched') /\ Len(dispatched') \in Nat
    BY <1>1
  <2>2. HandledOf(c)' \in SUBSET (1..Len(dispatched'))
    BY <2>1 DEF HandledOf
  <2>3. IsFiniteSet(1..Len(dispatched'))
    <3>1. \A n \in Nat : IsFiniteSet(1..n)
      BY FS_Interval
    <3> QED
      BY <2>1, <3>1
  <2> QED
    BY <2>2, <2>3, FS_Subset, FS_CardinalityType DEF Answered, HandledOf
<1>3. HandledOf(c) \in SUBSET (HandledOf(c)')
  <2>1. DOMAIN dispatched' = 1..Len(dispatched') /\ DOMAIN dispatched = 1..Len(dispatched)
    BY <1>1
  <2> QED
    BY <1>1, <2>1 DEF HandledOf
<1>4. Answered(c) = Cardinality(HandledOf(c)) /\ Answered(c) \in Nat
  BY AnsweredCounts
<1> QED
  BY <1>2, <1>3, <1>4, FS_Subset

\* No frame is handled before it is taken whole.
LEMMA AnsweredTaken ==
    ASSUME NEW c \in Conn, Streams, InOrder, Whole, InTurn, dispatched \in Seq(Frame \cup {Torn})
    PROVE  Answered(c) <= Done(taken[c])
<1> DEFINE T == 1..Done(taken[c])
           f == [k \in HandledOf(c) |-> arrived[k].num]
<1>1. Done(taken[c]) \in Nat
  BY DoneFacts DEF Streams, InOrder
<1>2. ASSUME NEW k \in HandledOf(c)
      PROVE  k \in 1..Len(arrived) /\ arrived[k].num \in T /\ arrived[k] = sent[c][arrived[k].num]
  <2>1. k \in 1..Len(dispatched) /\ k \in 1..Len(arrived)
    BY AnsweredCounts, WaitingFacts
  <2>2. dispatched[k] = arrived[k] /\ dispatched[k].conn = c
    BY <2>1 DEF InTurn, HandledOf
  <2> QED
    BY <2>1, <2>2 DEF Whole
<1>3. f \in Injection(HandledOf(c), T)
  <2>1. f \in [HandledOf(c) -> T]
    BY <1>2
  <2>2. ASSUME NEW k \in HandledOf(c), NEW l \in HandledOf(c), f[k] = f[l] PROVE k = l
    <3>1. arrived[k] = arrived[l]
      BY <1>2, <2>2
    <3> QED
      BY <1>2, <3>1 DEF Whole, Distinct
  <2> QED
    BY <2>1, <2>2 DEF Injection, IsInjective
<1> HIDE DEF f
<1>4. IsFiniteSet(T) /\ Cardinality(T) = Done(taken[c])
  BY <1>1, FS_Interval
<1> HIDE DEF T
<1> QED
  BY <1>3, <1>4, AnsweredCounts, FS_Injection

\* A recv from clients that wait, none of the others inside a frame: one frame is in the
\* ring or on its way into it, and leaves the ring as soon as it is there whole.
LEMMA PacedRecv ==
    ASSUME NEW c \in Conn, Streams, InOrder, Whole, InRing, NEW n \in 1..Len(wire[c]), Takes(c, n),
           ~torn', ~overrun, Len(dispatched) = Len(arrived), Len(sent[c]) <= Answered(c) + 1
    PROVE  ~overrun' /\ Len(dispatched') = Len(arrived')
<1> DEFINE last == wire[c][n]
           chunk == SubSeq(wire[c], 1, n)
           done == Done(taken[c])
           hi == last[1].num
           to == Done(last)
           a == Len(arrived)
           all == arrived \o SubSeq(sent[c], done + 1, hi)
           gs == SubSeq(all, a + 1, Len(all))
           t == Contents(buf) \o chunk
<1>1. /\ Ordered(c, sent[c], wire[c], taken[c]) /\ sent[c] \in Seq(Frame) /\ wire[c] \in Seq(Cell)
      /\ arrived \in Seq(Frame) /\ Agree(buf)
      /\ dispatched \in Seq(Frame \cup {Torn})
  BY DEF InOrder, Streams, Whole, InRing
<1>2. /\ HandleChunk(chunk)
      /\ arrived' = arrived \o SubSeq(sent[c], done + 1, to)
      /\ overrun' = ~CanWrite(buf, n)
      /\ ~torn /\ \A e \in Conn \ {c} : ~Inside(e)
  BY DEF Takes
<1>3. InTurn /\ \E fs, end : RingHolds(fs, end)
  BY <1>2 DEF InRing
<1>4. chunk \in Seq(Cell) /\ Len(chunk) = n
  <2>1. n \in 0..Len(wire[c])
    BY <1>1
  <2> QED
    BY <1>1, <2>1, FirstFacts
<1>5. /\ last[1] = sent[c][hi]
      /\ done \in Nat /\ hi \in (done + 1)..Len(sent[c]) /\ to \in done..Len(sent[c])
      /\ to = IF LastByte(last) THEN hi ELSE hi - 1
  BY <1>1, DoneFacts
<1>6. gs \in Seq(Frame) /\ gs # <<>> /\ Distinct(gs) /\ IsStream(t, gs, last)
  <2>1. PICK fs, end : RingHolds(fs, end)
    BY <1>3
  <2> QED
    BY <1>1, <1>2, <1>3, <2>1, RecvStream
<1>7. Answered(c) <= done /\ Answered(c) \in Nat
  BY <1>1, <1>3, AnsweredTaken, AnsweredCounts
<1>8. hi \in Done(taken[c])..Len(sent[c]) /\ to \in Done(taken[c])..Len(sent[c])
  <2>1. Len(sent[c]) \in Nat
    BY <1>1
  <2> QED
    BY <1>5, <2>1
<1>9. all \in Seq(Frame) /\ Len(all) = a + (hi - done) /\ Len(arrived') = a + (to - done)
  BY <1>2, <1>8, Arrive
<1>10. t \in Seq(Cell) /\ Len(t) = buf.size + n /\ buf.size \in Nat /\ n \in Nat
  <2>1. Contents(buf) \in Seq(Cell) /\ Len(Contents(buf)) = buf.size /\ buf.size \in Nat
    BY <1>1, RingContents
  <2> QED
    BY <1>4, <2>1
<1>11. a \in Nat /\ Len(sent[c]) \in Nat
  BY <1>1
<1> HIDE DEF last, chunk, done, hi, to, a, t
<1>12. hi = done + 1 /\ Len(all) = a + 1 /\ a \in 0..Len(all)
  <2>1. hi = done + 1
    BY <1>5, <1>7, <1>11
  <2> QED
    BY <1>5, <1>9, <1>11, <2>1
<1> HIDE DEF all
<1>13. Len(gs) = 1
  <2>1. Len(gs) = Len(all) - a
    BY <1>9, <1>12, DropFacts
  <2> QED
    BY <1>11, <1>12, <2>1
<1> HIDE DEF gs
<1> DEFINE m == FrameBytes(gs[1].len)
<1>14. m \in Nat /\ m <= SaveSize
  <2>1. gs[1] \in Frame
    BY <1>6, <1>13
  <2>2. m \in Nat /\ m <= FrmSize
    BY <2>1, FrameLength
  <2> HIDE DEF m
  <2> QED
    BY <2>2, Lengths
<1>15. Len(t) <= m
  <2>1. m <= Len(t) => Len(t) = m
    BY <1>6, <1>10, <1>13, StreamTake
  <2>2. Len(t) \in Nat
    BY <1>10
  <2> HIDE DEF m
  <2> QED
    BY <1>14, <2>1, <2>2
<1>16. Len(t) < m => ~LastByte(last)
  BY <1>6, <1>10, StreamShort
<1> HIDE DEF m
<1>17. CanWrite(buf, n)
  <2>1. buf.size + n <= SaveSize /\ SaveSize \in Nat
    BY <1>10, <1>14, <1>15, Lengths
  <2> QED
    BY <1>10, <2>1 DEF CanWrite
<1>18. \/ dispatched' = dispatched /\ Len(t) < m
       \/ dispatched' = Append(dispatched, gs[1]) /\ LastByte(last)
  BY <1>1, <1>2, <1>4, <1>6, <1>13, <1>17, HandledStream DEF t, m
<1>19. CASE dispatched' = dispatched /\ Len(t) < m
  <2>1. to = done
    <3>1. to = hi - 1
      BY <1>5, <1>16, <1>19
    <3> QED
      BY <1>5, <1>12, <3>1
  <2>2. Len(arrived') = a
    BY <1>5, <1>9, <1>11, <2>1
  <2> QED
    BY <1>2, <1>17, <1>19, <2>2 DEF a
<1>20. CASE dispatched' = Append(dispatched, gs[1]) /\ LastByte(last)
  <2>1. to = hi
    BY <1>5, <1>20
  <2>2. Len(arrived') = a + 1
    BY <1>5, <1>9, <1>11, <1>12, <2>1
  <2>3. Len(dispatched') = Len(dispatched) + 1
    BY <1>1, <1>20
  <2> QED
    BY <1>2, <1>17, <2>2, <2>3 DEF a
<1> QED
  BY <1>18, <1>19, <1>20

LEMMA StepKeepsPace ==
    ASSUME Table, Streams, InOrder, Whole, InRing, Paced, Step
    PROVE  Paced'
<1> SUFFICES ASSUME Window = 1
             PROVE  /\ \A c \in Conn : Len(sent'[c]) <= Answered(c)' + 1
                    /\ ~torn' => ~overrun' /\ Len(dispatched') = Len(arrived')
  BY DEF Paced
<1>1. dispatched \in Seq(Frame \cup {Torn}) /\ sent \in [Conn -> Seq(Frame)]
  BY DEF InRing, Streams
<1>2. /\ \A c \in Conn : Len(sent[c]) <= Answered(c) + 1
      /\ ~torn => ~overrun /\ Len(dispatched) = Len(arrived)
  BY DEF Paced
<1>3. CASE Hushed
  BY <1>2, <1>3 DEF Hushed, Answered
<1>4. ASSUME NEW c \in Conn, Send(c)
      PROVE  /\ \A d \in Conn : Len(sent'[d]) <= Answered(d)' + 1
             /\ ~torn' => ~overrun' /\ Len(dispatched') = Len(arrived')
  <2>1. /\ UNCHANGED <<dispatched, arrived, overrun, torn>>
        /\ Len(sent[c]) - Answered(c) < 1
        /\ \E f : sent' = [sent EXCEPT ![c] = Append(sent[c], f)]
    BY <1>4 DEF Send, history
  <2>2. \A d \in Conn : Answered(d)' = Answered(d)
    BY <2>1 DEF Answered
  <2>3. Len(sent'[c]) = Len(sent[c]) + 1 /\ \A d \in Conn \ {c} : sent'[d] = sent[d]
    BY <1>1, <2>1
  <2>4. Answered(c) \in Nat /\ Len(sent[c]) \in Nat
    BY <1>1, AnsweredCounts
  <2>5. Len(sent'[c]) <= Answered(c) + 1
    BY <2>1, <2>3, <2>4
  <2> QED
    BY <1>2, <2>1, <2>2, <2>3, <2>5
<1>5. ASSUME NEW c \in Conn, RecvData(c)
      PROVE  /\ \A d \in Conn : Len(sent'[d]) <= Answered(d)' + 1
             /\ ~torn' => ~overrun' /\ Len(dispatched') = Len(arrived')
  <2>1. PICK n \in 1..Len(wire[c]) : Takes(c, n)
    BY <1>5, RecvTakes
  <2>2. sent' = sent /\ HandleChunk(SubSeq(wire[c], 1, n)) /\ (torn => torn')
    BY <2>1 DEF Takes
  <2>3. dispatched' = dispatched \/ \E f \in Frame \cup {Torn} : dispatched' = Append(dispatched, f)
    <3>1. SubSeq(wire[c], 1, n) \in Seq(Cell)
      <4>1. wire[c] \in Seq(Cell) /\ n \in 0..Len(wire[c])
        BY DEF Streams
      <4> QED
        BY <4>1, FirstFacts
    <3> QED
      BY <2>2, <3>1, HandledFrames DEF Streams
  <2>4. ASSUME NEW d \in Conn PROVE Len(sent'[d]) <= Answered(d)' + 1
    <3>1. Answered(d) <= Answered(d)' /\ Answered(d) \in Nat /\ Answered(d)' \in Nat
      BY <1>1, <2>3, AnsweredGrows
    <3>2. Len(sent'[d]) <= Answered(d) + 1 /\ Len(sent'[d]) \in Nat
      BY <1>1, <1>2, <2>2
    <3> QED
      BY <3>1, <3>2
  <2>5. ASSUME ~torn' PROVE ~overrun' /\ Len(dispatched') = Len(arrived')
    BY <1>2, <2>1, <2>2, <2>5, PacedRecv
  <2> QED
    BY <2>4, <2>5
<1> QED
  BY <1>3, <1>4, <1>5, StepKinds

\* For any number of clients and frames: a client that waits for each frame to be
\* handled before it sends the next finds it dispatched by the call that receives its
\* last byte, and never fills the ring (network_op.c:727-772).
THEOREM PacedIsServed == Spec \/ ServerSpec => []PacedNeverWaits
<1>1. Init \/ ServerInit => Paced
  <2> SUFFICES ASSUME Boot PROVE Paced
    BY DEF Init, ServerInit
  <2>1. sent = [c \in Conn |-> <<>>] /\ dispatched = <<>> /\ arrived = <<>> /\ ~overrun
    BY DEF Boot
  <2>2. \A c \in Conn : Len(sent[c]) = 0 /\ Answered(c) \in Nat
    <3>1. dispatched \in Seq(Frame \cup {Torn})
      BY <2>1
    <3> QED
      BY <2>1, <3>1, AnsweredCounts
  <2>3. \A c \in Conn : Len(sent[c]) <= Answered(c) + 1
    BY <2>2
  <2> QED
    BY <2>1, <2>3 DEF Paced
<1>2. Table /\ Kept /\ Paced /\ [Next]_vars => Paced'
  BY StepKeepsPace DEF Step, Kept
<1>3. Table /\ Kept /\ Paced /\ [ServerNext]_allVars => Paced'
  BY StepKeepsPace DEF Step, Kept
<1>4. Kept /\ Paced => PacedNeverWaits
  <2> SUFFICES ASSUME Whole, InRing, Paced, Window = 1, ~torn PROVE ~overrun /\ Waiting = <<>>
    BY DEF PacedNeverWaits, Kept
  <2>1. ~overrun /\ Len(dispatched) = Len(arrived)
    BY DEF Paced
  <2>2. InTurn /\ dispatched \in Seq(Frame \cup {Torn})
    BY <2>1 DEF InRing
  <2>3. Waiting \in Seq(Frame) /\ Len(Waiting) = 0
    BY <2>1, <2>2, WaitingFacts
  <2> QED
    BY <2>1, <2>3
<1> QED
  BY TableKept, OrderKept, <1>1, <1>2, <1>3, <1>4, PTL DEF Spec, ServerSpec

-----------------------------------------------------------------------------
(* What clients are promised *)

\* Of each client every frame that is taken whole has arrived, after those before it.
Sequenced ==
    /\ \A c \in Conn : \A m \in 1..Done(taken[c]) : \E l \in 1..Len(arrived) : arrived[l] = sent[c][m]
    /\ \A k \in 1..Len(arrived) : \A m \in 1..(arrived[k].num - 1) :
          \E l \in 1..(k - 1) : arrived[l] = sent[arrived[k].conn][m]

LEMMA RecvSequenced ==
    ASSUME NEW c \in Conn, Streams, InOrder, Whole, Sequenced, NEW n \in 1..Len(wire[c]), Takes(c, n)
    PROVE  Sequenced'
<1> DEFINE done == Done(taken[c])
           hi == Done(wire[c][n])
           a == Len(arrived)
<1>1. /\ Ordered(c, sent[c], wire[c], taken[c]) /\ sent[c] \in Seq(Frame) /\ wire[c] \in Seq(Cell)
      /\ arrived \in Seq(Frame) /\ a \in Nat /\ taken \in [Conn -> Cell]
  BY DEF InOrder, Streams, Whole
<1>2. done \in Nat /\ hi \in Nat /\ hi \in done..Len(sent[c]) /\ Len(sent[c]) \in Nat /\ done <= hi
  <2>1. done \in Nat /\ hi \in done..Len(sent[c])
    <3>1. Ordered(c, sent[c], wire[c], taken[c]) /\ sent[c] \in Seq(Frame) /\ wire[c] \in Seq(Cell)
      BY <1>1
    <3> QED
      BY <3>1, DoneFacts
  <2>2. Len(sent[c]) \in Nat
    BY <1>1
  <2> HIDE DEF done, hi
  <2> QED
    BY <2>1, <2>2
<1>3. /\ UNCHANGED sent /\ taken' = [taken EXCEPT ![c] = wire[c][n]]
      /\ arrived' = arrived \o SubSeq(sent[c], done + 1, hi)
  BY DEF Takes
<1>4. /\ arrived' \in Seq(Frame) /\ Len(arrived') = a + (hi - done)
      /\ \A k \in 1..a : arrived'[k] = arrived[k]
      /\ \A k \in 1..(hi - done) : arrived'[a + k] = sent[c][done + k]
  BY <1>2, <1>3, Arrive
<1>5. Done(taken'[c]) = hi /\ \A d \in Conn \ {c} : taken'[d] = taken[d]
  BY <1>1, <1>3
<1>6. \A k \in 1..Len(sent[c]) : sent[c][k].conn = c /\ sent[c][k].num = k
  BY <1>1 DEF Ordered
\* The next frames of the client, each after those before it
<1>7. \A m \in 1..done : \E l \in 1..a : arrived[l] = sent[c][m]
  BY DEF Sequenced
<1>n. a \in Nat
  BY <1>1
<1> HIDE DEF done, hi, a
<1>8. ASSUME NEW i \in 0..(hi - done), NEW m \in 1..(done + i)
      PROVE  \E l \in 1..(a + i) : arrived'[l] = sent[c][m]
  <2>1. CASE m \in 1..done
    <3>1. PICK l \in 1..a : arrived[l] = sent[c][m]
      BY <1>7, <2>1
    <3>2. arrived'[l] = arrived[l]
      BY <1>4
    <3>4. l \in 1..(a + i)
      <4>1. a \in Nat /\ i \in Nat
        BY <1>n, <1>2
      <4> QED
        BY <4>1
    <3> QED
      BY <3>1, <3>2, <3>4
  <2>2. CASE ~(m \in 1..done)
    <3> DEFINE j == m - done
    <3>1. j \in 1..(hi - done) /\ done + j = m /\ a + j \in 1..(a + i)
      <4>1. a \in Nat /\ i \in Nat /\ i <= hi - done /\ m \in Nat /\ done < m /\ m <= done + i
        BY <1>n, <1>2, <2>2
      <4> QED
        BY <1>2, <4>1
    <3> HIDE DEF j
    <3>2. arrived'[a + j] = sent[c][m]
      BY <1>4, <3>1
    <3> QED
      BY <3>1, <3>2
  <2> QED
    BY <2>1, <2>2
<1>9. ASSUME NEW d \in Conn, NEW m \in 1..Done(taken'[d])
      PROVE  \E l \in 1..Len(arrived') : arrived'[l] = sent'[d][m]
  <2>1. CASE d = c
    <3>1. m \in 1..hi
      BY <1>5, <1>9, <2>1
    <3>2. hi - done \in 0..(hi - done) /\ done + (hi - done) = hi
      BY <1>2
    <3>3. \E l \in 1..(a + (hi - done)) : arrived'[l] = sent[c][m]
      BY <1>8, <3>1, <3>2
    <3> QED
      BY <1>3, <1>4, <2>1, <3>3
  <2>2. CASE d # c
    <3>1. PICK l \in 1..a : arrived[l] = sent[d][m]
      <4>1. m \in 1..Done(taken[d])
        BY <1>5, <1>9, <2>2
      <4> QED
        BY <4>1 DEF Sequenced, a
    <3>2. l \in 1..Len(arrived') /\ arrived'[l] = arrived[l]
      BY <1>n, <1>2, <1>4
    <3> QED
      BY <1>3, <3>1, <3>2
  <2> QED
    BY <2>1, <2>2
<1>10. ASSUME NEW k \in 1..Len(arrived'), NEW m \in 1..(arrived'[k].num - 1)
       PROVE  \E l \in 1..(k - 1) : arrived'[l] = sent'[arrived'[k].conn][m]
  <2>1. CASE k \in 1..a
    <3>1. arrived'[k] = arrived[k]
      BY <1>4, <2>1
    <3>2. m \in 1..(arrived[k].num - 1)
      BY <1>10, <3>1
    <3>3. PICK l \in 1..(k - 1) : arrived[l] = sent[arrived[k].conn][m]
      BY <2>1, <3>2 DEF Sequenced, a
    <3>4. l \in 1..a
      BY <1>n, <2>1
    <3>5. arrived'[l] = arrived[l]
      BY <1>4, <3>4
    <3> QED
      BY <1>3, <3>1, <3>3, <3>5
  <2>2. CASE ~(k \in 1..a)
    <3> DEFINE i == k - a
               j == i - 1
    <3>1. i \in 1..(hi - done) /\ a + i = k /\ done + i \in 1..Len(sent[c])
      <4>1. k \in Nat /\ a < k /\ k <= a + (hi - done)
        BY <1>n, <1>2, <1>4, <2>2
      <4>2. Len(sent[c]) \in Nat /\ hi \in Nat /\ hi <= Len(sent[c])
        BY <1>2
      <4>3. i \in 1..(hi - done) /\ a + i = k
        BY <1>n, <1>2, <4>1
      <4> HIDE DEF i
      <4>4. done + i \in 1..hi
        BY <1>2, <4>3
      <4> QED
        BY <4>2, <4>3, <4>4
    <3>2. j \in 0..(hi - done) /\ a + j = k - 1 /\ done + j = (done + i) - 1
      BY <1>n, <1>2, <3>1
    <3> HIDE DEF i, j
    <3>3. arrived'[k] = sent[c][done + i]
      BY <1>4, <3>1
    <3>4. arrived'[k].conn = c /\ arrived'[k].num = done + i
      BY <1>6, <3>1, <3>3
    <3>5. m \in 1..(done + j)
      BY <1>10, <3>2, <3>4
    <3>6. \E l \in 1..(a + j) : arrived'[l] = sent[c][m]
      BY <1>8, <3>2, <3>5
    <3> QED
      BY <1>3, <3>2, <3>4, <3>6
  <2> QED
    BY <2>1, <2>2
<1> QED
  BY <1>9, <1>10 DEF Sequenced

LEMMA StepKeepsSequence ==
    ASSUME Table, Streams, InOrder, Whole, Sequenced, Step
    PROVE  Sequenced'
<1>1. CASE Hushed
  BY <1>1 DEF Hushed, Sequenced
<1>2. ASSUME NEW c \in Conn, RecvData(c) PROVE Sequenced'
  BY <1>2, RecvTakes, RecvSequenced
<1>3. ASSUME NEW c \in Conn, Send(c) PROVE Sequenced'
  <2>1. UNCHANGED <<arrived, taken>> /\ \E f : sent' = [sent EXCEPT ![c] = Append(sent[c], f)]
    BY <1>3 DEF Send, history
  <2>2. sent \in [Conn -> Seq(Frame)] /\ wire \in [Conn -> Seq(Cell)]
    BY DEF Streams
  <2>3. ASSUME NEW d \in Conn, NEW m \in 1..Done(taken[d])
        PROVE  sent'[d][m] = sent[d][m]
    <3>1. Done(taken[d]) \in 0..Len(sent[d]) /\ Len(sent[d]) \in Nat /\ sent[d] \in Seq(Frame)
      <4>1. Ordered(d, sent[d], wire[d], taken[d]) /\ sent[d] \in Seq(Frame) /\ wire[d] \in Seq(Cell)
        BY <2>2 DEF InOrder
      <4> QED
        <5>1. Done(taken[d]) \in 0..Len(sent[d])
          BY <4>1, DoneFacts
        <5> QED
          BY <4>1, <5>1
    <3>2. m \in 1..Len(sent[d])
      BY <3>1
    <3>3. CASE d = c
      <4>1. PICK f : sent'[c] = Append(sent[c], f)
        BY <2>1, <2>2
      <4>2. \A x : \A q \in Seq(Frame) : \A i \in 1..Len(q) : Append(q, x)[i] = q[i]
        OBVIOUS
      <4> QED
        BY <3>1, <3>2, <3>3, <4>1, <4>2
    <3>4. CASE d # c
      BY <2>1, <2>2, <3>4
    <3> QED
      BY <3>3, <3>4
  <2>4. ASSUME NEW k \in 1..Len(arrived), NEW m \in 1..(arrived[k].num - 1)
        PROVE  arrived[k].conn \in Conn /\ m \in 1..Done(taken[arrived[k].conn])
    <3>1. arrived[k] \in Frame /\ arrived[k].num \in 1..Done(taken[arrived[k].conn])
      BY DEF Whole
    <3>2. arrived[k].conn \in Conn /\ arrived[k].num \in Nat
      BY <3>1 DEF Frame
    <3>3. Done(taken[arrived[k].conn]) \in Nat
      BY <2>2, <3>2, DoneFacts DEF InOrder
    <3> QED
      BY <3>1, <3>2, <3>3
  <2>5. ASSUME NEW d \in Conn, NEW m \in 1..Done(taken'[d])
        PROVE  \E l \in 1..Len(arrived') : arrived'[l] = sent'[d][m]
    <3>1. m \in 1..Done(taken[d]) /\ arrived' = arrived
      BY <2>1, <2>5
    <3> QED
      BY <2>3, <3>1 DEF Sequenced
  <2>6. ASSUME NEW k \in 1..Len(arrived'), NEW m \in 1..(arrived'[k].num - 1)
        PROVE  \E l \in 1..(k - 1) : arrived'[l] = sent'[arrived'[k].conn][m]
    <3>1. arrived' = arrived /\ k \in 1..Len(arrived) /\ m \in 1..(arrived[k].num - 1)
      BY <2>1, <2>6
    <3>2. sent'[arrived[k].conn][m] = sent[arrived[k].conn][m]
      BY <2>3, <2>4, <3>1
    <3> QED
      BY <3>1, <3>2 DEF Sequenced
  <2> QED
    BY <2>5, <2>6 DEF Sequenced
<1> QED
  BY <1>1, <1>2, <1>3, StepKinds

\* How many of the frames handed on as d are of client c.
Of(d, c) == Cardinality({k \in DOMAIN d : d[k] # Torn /\ d[k].conn = c})

\* Of the frames that arrived as ar the first are handed on as d, and those of client c
\* among them are the first n of the frames fs.
FirstOfClient(d, ar, c, fs, n) ==
    /\ n \in Nat /\ ar \in Seq(Frame) /\ Distinct(ar)
    /\ Len(d) <= Len(ar) /\ \A k \in 1..Len(d) : d[k] = ar[k]
    /\ \A m \in 1..n : fs[m].conn = c /\ fs[m].num = m /\ \E l \in 1..Len(d) : ar[l] = fs[m]
    /\ \A k \in 1..Len(d) : ar[k].conn = c => ar[k].num \in 1..n /\ ar[k] = fs[ar[k].num]

LEMMA CountOfClient ==
    ASSUME NEW d \in Seq(Frame \cup {Torn}), NEW ar, NEW c, NEW fs, NEW n, FirstOfClient(d, ar, c, fs, n)
    PROVE  Of(d, c) = n
<1> USE DEF FirstOfClient
<1> DEFINE H == {k \in DOMAIN d : d[k] # Torn /\ d[k].conn = c}
           T == 1..n
           g == [k \in H |-> ar[k].num]
<1>1. /\ DOMAIN d = 1..Len(d) /\ Len(d) \in Nat
      /\ \A k \in 1..Len(d) : k \in 1..Len(ar) /\ ar[k] \in Frame /\ ar[k] # Torn
  <2>1. DOMAIN d = 1..Len(d) /\ Len(d) \in Nat /\ Len(ar) \in Nat
    OBVIOUS
  <2>2. \A k \in 1..Len(d) : k \in 1..Len(ar)
    BY <2>1
  <2> QED
    BY <2>1, <2>2, HistoryAssumption
<1>2. \A k \in H : k \in 1..Len(d) /\ ar[k].num \in T /\ ar[k] = fs[ar[k].num]
  BY <1>1
<1>3. \A m \in T : \E k \in H : ar[k] = fs[m]
  <2> SUFFICES ASSUME NEW m \in T PROVE \E k \in H : ar[k] = fs[m]
    OBVIOUS
  <2>1. PICK l \in 1..Len(d) : ar[l] = fs[m]
    OBVIOUS
  <2>2. fs[m].conn = c
    OBVIOUS
  <2>3. l \in H
    BY <1>1, <2>1, <2>2
  <2> QED
    BY <2>1, <2>3
<1>4. \A m \in T : fs[m].num = m
  OBVIOUS
<1>5. IsFiniteSet(T) /\ Cardinality(T) = n
  <2>1. n \in Nat
    OBVIOUS
  <2> QED
    BY <2>1, FS_Interval
<1> HIDE DEF H, T
<1>6. g \in Injection(H, T)
  <2>1. g \in [H -> T]
    BY <1>2
  <2>2. ASSUME NEW k \in H, NEW l \in H, g[k] = g[l] PROVE k = l
    <3>1. ar[k] = ar[l]
      BY <1>2, <2>2
    <3>2. k \in 1..Len(ar) /\ l \in 1..Len(ar)
      BY <1>1, <1>2
    <3> QED
      BY <3>1, <3>2 DEF Distinct
  <2> QED
    BY <2>1, <2>2 DEF Injection, IsInjective
<1>7. g \in Surjection(H, T)
  <2>1. \A m \in T : \E k \in H : g[k] = m
    BY <1>3, <1>4
  <2>2. g \in [H -> T]
    BY <1>2
  <2> QED
    BY <2>1, <2>2 DEF Surjection
<1> HIDE DEF g
<1>8. Cardinality(H) = Cardinality(T)
  BY <1>5, <1>6, <1>7, FS_Injection
<1> QED
  BY <1>5, <1>8 DEF H, Of

\* What is handed on is the next frame of its client.
LEMMA DispatchIsNext ==
    ASSUME InOrder', Whole', Sequenced', Streams', NEW d \in Seq(Frame \cup {Torn}),
           Len(d) + 1 <= Len(arrived'), \A k \in 1..Len(d) : d[k] = arrived'[k]
    PROVE  LET f == arrived'[Len(d) + 1]
               c == f.conn
               h == Of(d, c)
           IN  c \in Conn /\ h < Len(sent'[c]) /\ f = sent'[c][h + 1]
<1> DEFINE e == Len(d) + 1
           f == arrived'[e]
           c == f.conn
<1>1. /\ arrived' \in Seq(Frame) /\ Distinct(arrived') /\ Len(arrived') \in Nat /\ Len(d) \in Nat
      /\ e \in 1..Len(arrived') /\ e \in Nat
  <2>1. arrived' \in Seq(Frame) /\ Distinct(arrived')
    BY DEF Whole
  <2>2. Len(arrived') \in Nat /\ Len(d) \in Nat
    BY <2>1
  <2> QED
    BY <2>1, <2>2
<1>2. \A k \in 1..Len(d) : k \in 1..Len(arrived') /\ k # e /\ k - 1 < e /\ k - 1 \in Nat
  BY <1>1
<1>3. e - 1 = Len(d) /\ Len(d) <= Len(arrived')
  BY <1>1
<1> HIDE DEF e
<1>4. f \in Frame /\ c \in Conn /\ f.num \in Nat \ {0}
  <2>1. f \in Frame
    BY <1>1
  <2> QED
    BY <2>1 DEF Frame
<1>5. f.num \in 1..Done(taken'[c]) /\ f = sent'[c][f.num]
  BY <1>1 DEF Whole
<1>6. /\ Ordered(c, sent'[c], wire'[c], taken'[c]) /\ sent'[c] \in Seq(Frame) /\ wire'[c] \in Seq(Cell)
  BY <1>4 DEF InOrder, Streams
<1>7. Done(taken'[c]) \in 0..Len(sent'[c])
  BY <1>6, DoneFacts
<1>8. f.num \in 1..Len(sent'[c]) /\ Len(sent'[c]) \in Nat
  <2>1. Len(sent'[c]) \in Nat
    BY <1>6
  <2> QED
    BY <1>5, <1>7, <2>1
<1>9. \A m \in 1..(f.num - 1) : /\ sent'[c][m].conn = c /\ sent'[c][m].num = m
                               /\ \E l \in 1..Len(d) : arrived'[l] = sent'[c][m]
  <2> SUFFICES ASSUME NEW m \in 1..(f.num - 1)
               PROVE  /\ sent'[c][m].conn = c /\ sent'[c][m].num = m
                      /\ \E l \in 1..Len(d) : arrived'[l] = sent'[c][m]
    OBVIOUS
  <2>1. m \in 1..Len(sent'[c])
    BY <1>8
  <2>2. \E l \in 1..(e - 1) : arrived'[l] = sent'[c][m]
    BY <1>1 DEF Sequenced
  <2> QED
    BY <1>3, <1>6, <2>1, <2>2 DEF Ordered
<1>10. ASSUME NEW k \in 1..Len(d), arrived'[k].conn = c
       PROVE  arrived'[k].num \in 1..(f.num - 1) /\ arrived'[k] = sent'[c][arrived'[k].num]
  <2> DEFINE i == arrived'[k].num
  <2>1. k \in 1..Len(arrived') /\ k # e
    BY <1>2
  <2>2. i \in 1..Done(taken'[c]) /\ arrived'[k] = sent'[c][i]
    BY <1>10, <2>1 DEF Whole
  <2>3. i # f.num
    <3> SUFFICES ASSUME i = f.num PROVE FALSE
      OBVIOUS
    <3>1. arrived'[k] = arrived'[e]
      BY <1>5, <2>2
    <3> QED
      BY <1>1, <2>1, <3>1 DEF Distinct
  <2>4. ~(f.num \in 1..(i - 1))
    <3> SUFFICES ASSUME f.num \in 1..(i - 1) PROVE FALSE
      OBVIOUS
    <3>0. \A m \in 1..(i - 1) : \E l \in 1..(k - 1) : arrived'[l] = sent'[arrived'[k].conn][m]
      BY <2>1 DEF Sequenced
    <3>1. PICK l \in 1..(k - 1) : arrived'[l] = sent'[c][f.num]
      <4>1. \A m \in 1..(i - 1) : \E l \in 1..(k - 1) : arrived'[l] = sent'[c][m]
        BY <1>10, <3>0
      <4> HIDE DEF i
      <4> QED
        BY <4>1
    <3>2. l \in 1..Len(d)
      BY <1>1
    <3>3. arrived'[l] = arrived'[e] /\ l \in 1..Len(arrived') /\ l # e
      BY <1>2, <1>5, <3>1, <3>2
    <3> QED
      BY <1>1, <3>3 DEF Distinct
  <2>5. i \in Nat \ {0}
    BY <1>7, <1>8, <2>2
  <2> HIDE DEF i
  <2>6. i \in 1..(f.num - 1)
    BY <1>4, <2>3, <2>4, <2>5
  <2> QED
    BY <2>2, <2>6 DEF i
<1> DEFINE h == Of(d, c)
           n == f.num
           fs == sent'[c]
<1>11. h = n - 1
  <2>1. FirstOfClient(d, arrived', c, fs, n - 1)
    <3>1. n - 1 \in Nat
      BY <1>4
    <3> QED
      BY <1>1, <1>3, <1>9, <1>10, <3>1 DEF FirstOfClient
  <2> HIDE DEF n, c, fs
  <2> QED
    BY <2>1, CountOfClient
<1> HIDE DEF h
<1>12. h < Len(sent'[c]) /\ h + 1 = f.num
  <2>1. n \in Nat \ {0} /\ n <= Len(sent'[c]) /\ Len(sent'[c]) \in Nat
    BY <1>4, <1>8
  <2> HIDE DEF n
  <2>2. h < Len(sent'[c]) /\ h + 1 = n
    BY <1>11, <2>1
  <2> QED
    BY <2>2 DEF n
<1> QED
  BY <1>4, <1>5, <1>12 DEF h, e

\* The operators that Queue brings along are those used here.
LEMMA QueueOperators ==
    ASSUME NEW c
    PROVE  Queue!Handled(c) = Answered(c)
BY DEF Queue!Handled, Queue!Cardinality, Cardinality, Answered

\* What was handed on stays so.
LEMMA HandedOn ==
    ASSUME NEW S, NEW d \in Seq(S),
           dispatched = d, dispatched' = d \/ \E f \in S : dispatched' = Append(d, f)
    PROVE  Queue!IsPrefix(dispatched, dispatched')
<1>1. CASE dispatched' = d
  BY <1>1 DEF Queue!IsPrefix
<1>2. ASSUME NEW f \in S, dispatched' = Append(d, f)
      PROVE  Queue!IsPrefix(dispatched, dispatched')
  <2> DEFINE e == Append(d, f)
  <2>1. /\ e \in Seq(S) /\ Len(e) = Len(d) + 1 /\ Len(d) \in Nat
        /\ \A k \in 1..Len(d) : e[k] = d[k]
    BY AppendFacts
  <2> HIDE DEF e
  <2>2. Len(d) \in 0..Len(e) /\ Len(d) \in 0..Len(d) /\ Len(d) <= Len(e)
    BY <2>1
  <2> DEFINE a == SubSeq(d, 1, Len(d))
             b == SubSeq(e, 1, Len(d))
  <2>3. /\ a \in Seq(S) /\ Len(a) = Len(d) /\ \A k \in 1..Len(d) : a[k] = d[k]
        /\ b \in Seq(S) /\ Len(b) = Len(d) /\ \A k \in 1..Len(d) : b[k] = e[k]
    BY <2>1, <2>2, FirstFacts
  <2> HIDE DEF a, b
  <2>4. \A k \in 1..Len(a) : a[k] = b[k]
    BY <2>1, <2>3
  <2>5. a = b
    BY <2>3, <2>4, EqualSeqs
  <2> QED
    BY <1>2, <2>2, <2>5 DEF Queue!IsPrefix, a, b, e
<1> QED
  BY <1>1, <1>2

Promised == <<sent, dispatched, torn \/ overrun>>

LEMMA HushedRefines ==
    ASSUME InRing, Hushed
    PROVE  [Queue!Next]_Promised
<1>1. UNCHANGED <<sent, dispatched, overrun>> /\ (torn => torn')
  BY DEF Hushed
<1>2. CASE torn' \/ overrun'
  <2>1. Queue!IsPrefix(dispatched, dispatched')
    BY <1>1, HandedOn DEF InRing
  <2> QED
    BY <1>1, <1>2, <2>1 DEF Queue!Next, Queue!Spoil
<1>3. CASE ~(torn' \/ overrun')
  BY <1>1, <1>3 DEF Promised
<1> QED
  BY <1>2, <1>3

LEMMA SendRefines ==
    ASSUME NEW c \in Conn, Send(c)
    PROVE  Queue!Next
<1>1. PICK len \in PayloadLen, type \in FrameType :
          LET f == [conn |-> c, num |-> Len(sent[c]) + 1, len |-> len, type |-> type]
          IN  sent' = [sent EXCEPT ![c] = Append(@, f)]
  BY DEF Send
<1>2. UNCHANGED <<dispatched, torn, overrun>>
  BY DEF Send, history
<1> DEFINE f == [conn |-> c, num |-> Len(sent[c]) + 1, len |-> len, type |-> type]
<1>3. f \in Queue!FrameOf(c, Len(sent[c]) + 1)
  BY DEF Queue!FrameOf
<1>4. sent' = [sent EXCEPT ![c] = Append(@, f)]
  BY <1>1
<1> HIDE DEF f
<1>5. Queue!Send(c)
  BY <1>2, <1>3, <1>4 DEF Queue!Send
<1> QED
  BY <1>5 DEF Queue!Next

LEMMA RecvRefines ==
    ASSUME NEW c \in Conn, RecvData(c), Streams, InOrder, InRing,
           Streams', InOrder', Whole', InRing', Sequenced'
    PROVE  [Queue!Next]_Promised
<1>1. PICK n \in 1..Len(wire[c]) : Takes(c, n)
  BY RecvTakes
<1>2. UNCHANGED sent /\ (torn => torn') /\ (overrun => overrun')
  BY <1>1 DEF Takes
<1> DEFINE S == Frame \cup {Torn}
<1>3. dispatched \in Seq(S)
      /\ (dispatched' = dispatched \/ \E f \in S : dispatched' = Append(dispatched, f))
  <2>1. SubSeq(wire[c], 1, n) \in Seq(Cell)
    <3>1. wire[c] \in Seq(Cell) /\ n \in 0..Len(wire[c])
      BY DEF Streams
    <3> QED
      BY <3>1, FirstFacts
  <2> QED
    BY <1>1, <2>1, HandledFrames DEF Takes, Streams, InRing
<1>4. CASE torn' \/ overrun'
  <2>1. Queue!IsPrefix(dispatched, dispatched')
    BY <1>3, HandedOn
  <2> QED
    BY <1>2, <1>4, <2>1 DEF Queue!Next, Queue!Spoil
<1>5. CASE ~(torn' \/ overrun') /\ dispatched' = dispatched
  BY <1>2, <1>5 DEF Promised
<1>6. ASSUME ~(torn' \/ overrun'), NEW f \in S, dispatched' = Append(dispatched, f)
      PROVE  Queue!Next
  <2> DEFINE d == dispatched
             ar == arrived'
  <2>1. Len(dispatched') <= Len(ar) /\ \A k \in 1..Len(dispatched') : dispatched'[k] = ar[k]
    BY <1>6 DEF InRing, InTurn
  <2>2. Len(dispatched') = Len(d) + 1 /\ dispatched'[Len(d) + 1] = f /\ Len(d) \in Nat
        /\ \A k \in 1..Len(d) : dispatched'[k] = d[k]
    BY <1>3, <1>6, AppendFacts
  <2>3. Len(d) + 1 <= Len(ar) /\ f = ar[Len(d) + 1] /\ \A k \in 1..Len(d) : d[k] = ar[k]
    <3>1. Len(d) + 1 \in 1..Len(dispatched') /\ \A k \in 1..Len(d) : k \in 1..Len(dispatched')
      BY <2>2
    <3> QED
      BY <2>1, <2>2, <3>1
  <2> DEFINE e == f.conn
  <2>4. e \in Conn /\ Answered(e) < Len(sent'[e]) /\ f = sent'[e][Answered(e) + 1]
    <3> DEFINE h == Of(d, e)
    <3>1. d \in Seq(S)
      BY <1>3
    <3> HIDE DEF d
    <3>2. e \in Conn /\ h < Len(sent'[e]) /\ f = sent'[e][h + 1]
      BY <2>3, <3>1, DispatchIsNext
    <3> QED
      BY <3>2 DEF d, Answered, Of
  <2>5. Queue!Handled(e) < Len(sent[e]) /\ dispatched' = Append(dispatched, sent[e][Queue!Handled(e) + 1])
    BY <1>2, <1>6, <2>4, QueueOperators
  <2>6. Queue!Handle(e)
    BY <1>2, <1>6, <2>5 DEF Queue!Handle
  <2> QED
    BY <2>4, <2>6 DEF Queue!Next
<1> QED
  BY <1>3, <1>4, <1>5, <1>6

LEMMA StepRefines ==
    ASSUME Table, Kept, Kept', Sequenced', Step
    PROVE  [Queue!Next]_Promised
<1>1. CASE Hushed
  BY <1>1, HushedRefines DEF Kept
<1>2. ASSUME NEW c \in Conn, Send(c) PROVE Queue!Next
  BY <1>2, SendRefines
<1>3. ASSUME NEW c \in Conn, RecvData(c) PROVE [Queue!Next]_Promised
  BY <1>3, RecvRefines DEF Kept
<1> QED
  BY <1>1, <1>2, <1>3, StepKinds DEF Kept

LEMMA BootSequenced == Boot => Sequenced
<1> SUFFICES ASSUME Boot PROVE Sequenced
  OBVIOUS
<1>1. arrived = <<>> /\ \A c \in Conn : taken[c] = Nothing
  BY DEF Boot
<1>2. \A c \in Conn : Done(taken[c]) = 0
  BY <1>1 DEF Done
<1> QED
  BY <1>1, <1>2 DEF Sequenced

LEMMA SequenceKept == Spec \/ ServerSpec => []Sequenced
<1>1. Init \/ ServerInit => Sequenced
  BY BootSequenced DEF Init, ServerInit
<1>2. Table /\ Kept /\ Sequenced /\ [Next]_vars => Sequenced'
  BY StepKeepsSequence DEF Step, Kept
<1>3. Table /\ Kept /\ Sequenced /\ [ServerNext]_allVars => Sequenced'
  BY StepKeepsSequence DEF Step, Kept
<1> QED
  BY TableKept, OrderKept, <1>1, <1>2, <1>3, PTL DEF Spec, ServerSpec

\* The read path keeps what clients are promised, for any number of them, of frames and
\* of set-ups: the frames of each are dispatched in the order they were sent, none
\* twice and none left out, until the stream is spoiled (network_op.c:216-315, 727-827).
THEOREM ReadImplementsQueue == Spec \/ ServerSpec => ImplementsQueue
<1>1. Init \/ ServerInit => Queue!Init
  <2> SUFFICES ASSUME Boot PROVE Queue!Init
    BY DEF Init, ServerInit
  <2> QED
    BY DEF Boot, Queue!Init
<1>2. Table /\ Kept /\ Kept' /\ Sequenced' /\ [Next]_vars
          => [Queue!Next]_<<sent, dispatched, torn \/ overrun>>
  BY StepRefines DEF Step, Promised
<1>3. Table /\ Kept /\ Kept' /\ Sequenced' /\ [ServerNext]_allVars
          => [Queue!Next]_<<sent, dispatched, torn \/ overrun>>
  BY StepRefines DEF Step, Promised
<1> QED
  BY TableKept, OrderKept, SequenceKept, <1>1, <1>2, <1>3, PTL
     DEF Spec, ServerSpec, ImplementsQueue, Queue!Spec
=============================================================================
