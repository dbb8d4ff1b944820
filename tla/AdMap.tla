------------------------------- MODULE AdMap -------------------------------
(***************************************************************************)
(* What the registry of AD chips promises to the functions that drive the  *)
(* chips: a map from ids to paths that holds at most Capacity ids.         *)
(***************************************************************************)
EXTENDS Integers, FiniteSets

CONSTANTS
    Capacity,
    Id,         \* the ids it is called with; only positive ones can be registered
    Path, Name,
    NULL        \* no path, no name

VARIABLES
    map,        \* from the registered ids to their paths, name and state
    reply       \* what the last call returned

Known == DOMAIN map

Init == map = [ID \in {} |-> NULL] /\ reply = "none"

\* A new id when there is room for it, or a new entry for one that is there, which
\* keeps its name when none is given.
Register(ID, name, home, debugfs) ==
    /\ reply' = "ok"
    /\ ID > 0 /\ home # NULL
    /\ ID \in Known \/ Cardinality(Known) < Capacity
    /\ LET kept == IF ID \in Known THEN map[ID].name ELSE NULL
           entry == [home |-> home, debugfs |-> debugfs, ok |-> TRUE,
                     name |-> IF name # NULL THEN name ELSE kept]
       IN  map' = [k \in Known \cup {ID} |-> IF k = ID THEN entry ELSE map[k]]

Refuse(ID, home) ==
    /\ reply' = "failed"
    /\ ID <= 0 \/ home = NULL \/ (ID \notin Known /\ Cardinality(Known) >= Capacity)
    /\ UNCHANGED map

Delete(ID) ==
    /\ reply' = "void"
    /\ map' = [k \in Known \ {ID} |-> map[k]]

SetOk(ID, ok) ==
    IF ID \in Known
    THEN reply' = "ok" /\ map' = [map EXCEPT ![ID].ok = ok]
    ELSE reply' = "failed" /\ UNCHANGED map

CheckOk(ID) ==
    /\ reply' = IF ID \in Known /\ map[ID].ok THEN "ok" ELSE "failed"
    /\ UNCHANGED map

Search(ID, field) ==
    /\ reply' = IF ID \in Known THEN map[ID][field] ELSE NULL
    /\ UNCHANGED map

\* The caller makes another call.
Forget == reply' = "none" /\ UNCHANGED map

Next ==
    \/ Forget
    \/ \E ID \in Id :
          \/ \E name \in Name \cup {NULL}, home \in Path \cup {NULL}, debugfs \in Path :
                 Register(ID, name, home, debugfs) \/ Refuse(ID, home)
          \/ Delete(ID)
          \/ \E ok \in BOOLEAN : SetOk(ID, ok)
          \/ CheckOk(ID)
          \/ \E field \in {"home", "debugfs", "name"} : Search(ID, field)

Spec == Init /\ [][Next]_<<map, reply>>
=============================================================================
