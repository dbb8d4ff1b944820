----------------------------- MODULE AdRegistry -----------------------------
(***************************************************************************)
(* The registry of AD chips of prj-MDKServer, ad_func_internal_A.c: five   *)
(* arrays side by side, an id of 0 marking a free entry.  The server has   *)
(* one thread, so that a call is one step.                                 *)
(***************************************************************************)
EXTENDS Integers, FiniteSets

CONSTANTS
    AD_ARRAY_SIZE,
    Id,         \* the ids it is called with, also such as cannot be registered
    Path, Name,
    NULL

ASSUME RegistryAssumption ==
    /\ AD_ARRAY_SIZE \in Nat \ {0}
    /\ Id \subseteq Int
    /\ NULL \notin Path \cup Name
    /\ Path # {}

VARIABLES
    AD_ID, AD_NAME, AD_HOME, AD_DEBUGFS_HOME, AD_OK,
    reply       \* what the last call returned

arrays == <<AD_ID, AD_NAME, AD_HOME, AD_DEBUGFS_HOME, AD_OK>>
registry == <<arrays, reply>>

Entry == 0..(AD_ARRAY_SIZE - 1)

RegistryInit ==
    /\ AD_ID = [i \in Entry |-> 0]
    /\ AD_NAME = [i \in Entry |-> NULL]
    /\ AD_HOME = [i \in Entry |-> NULL]
    /\ AD_DEBUGFS_HOME = [i \in Entry |-> NULL]
    /\ AD_OK = [i \in Entry |-> FALSE]
    /\ reply = "none"

\* The loops stop at the first entry of an id, and at the first that is free.
First(i, found) == i \in found /\ \A j \in found : i <= j
Has(ID) == {i \in Entry : AD_ID[i] = ID}
Free == {i \in Entry : AD_ID[i] <= 0}
Absent(ID) == ID <= 0 \/ Has(ID) = {}

\* Mutant: the chip's state is left as it was.
Fill_KeepsState(i, ID, name, home, debugfs) ==
    /\ AD_ID' = [AD_ID EXCEPT ![i] = ID]
    /\ AD_HOME' = [AD_HOME EXCEPT ![i] = home]
    /\ AD_DEBUGFS_HOME' = [AD_DEBUGFS_HOME EXCEPT ![i] = debugfs]
    /\ AD_NAME' = IF name = NULL THEN AD_NAME ELSE [AD_NAME EXCEPT ![i] = name]
    /\ reply' = "ok" /\ UNCHANGED AD_OK

\* Entry i gets new paths, and a new name if there is one.
Fill(i, ID, name, home, debugfs) ==
    /\ AD_ID' = [AD_ID EXCEPT ![i] = ID]
    /\ AD_HOME' = [AD_HOME EXCEPT ![i] = home]
    /\ AD_DEBUGFS_HOME' = [AD_DEBUGFS_HOME EXCEPT ![i] = debugfs]
    /\ AD_NAME' = IF name = NULL THEN AD_NAME ELSE [AD_NAME EXCEPT ![i] = name]
    /\ AD_OK' = [AD_OK EXCEPT ![i] = TRUE]
    /\ reply' = "ok"

Refused == reply' = "failed" /\ UNCHANGED arrays

\* Mutant: one loop, that takes the first entry that is free or has the id.
register_ad_home_OneLoop(ID, name, home, debugfs) ==
    IF home = NULL \/ ID <= 0 \/ Has(ID) \cup Free = {}
    THEN Refused
    ELSE \E i \in Entry : First(i, Has(ID) \cup Free) /\ Fill(i, ID, name, home, debugfs)

register_ad_home(ID, name, home, debugfs) ==
    IF home = NULL \/ ID <= 0 \/ (Has(ID) = {} /\ Free = {})
    THEN Refused
    ELSE \E i \in Entry :
            /\ First(i, IF Has(ID) # {} THEN Has(ID) ELSE Free)
            /\ Fill(i, ID, name, home, debugfs)

\* Every entry with the id; with an id of 0 these are the free ones.
delete_ad_home(ID) ==
    /\ AD_ID' = [i \in Entry |-> IF i \in Has(ID) THEN 0 ELSE AD_ID[i]]
    /\ AD_HOME' = [i \in Entry |-> IF i \in Has(ID) THEN NULL ELSE AD_HOME[i]]
    /\ AD_DEBUGFS_HOME' = [i \in Entry |-> IF i \in Has(ID) THEN NULL ELSE AD_DEBUGFS_HOME[i]]
    /\ AD_NAME' = [i \in Entry |-> IF i \in Has(ID) THEN NULL ELSE AD_NAME[i]]
    /\ AD_OK' = [i \in Entry |-> IF i \in Has(ID) THEN FALSE ELSE AD_OK[i]]
    /\ reply' = "void"

__set_ad_ok(ID, ok) ==
    IF Absent(ID)
    THEN Refused
    ELSE \E i \in Entry :
            /\ First(i, Has(ID))
            /\ AD_OK' = [AD_OK EXCEPT ![i] = ok]
            /\ reply' = "ok"
            /\ UNCHANGED <<AD_ID, AD_NAME, AD_HOME, AD_DEBUGFS_HOME>>

\* What a search for an id in one of the arrays returns
Found(ID, array, nothing) ==
    IF Absent(ID) THEN nothing ELSE array[CHOOSE i \in Entry : First(i, Has(ID))]

check_ad_ok(ID) == Found(ID, AD_OK, FALSE)
search_ad_home(ID) == Found(ID, AD_HOME, NULL)
search_ad_debugfs(ID) == Found(ID, AD_DEBUGFS_HOME, NULL)
search_ad_name(ID) == Found(ID, AD_NAME, NULL)

\* __check_ad_ok, and __wait_ad_ok, during whose wait nobody changes the answer
CheckCall(ID) ==
    /\ reply' = IF check_ad_ok(ID) THEN "ok" ELSE "failed"
    /\ UNCHANGED arrays

SearchCall(ID) ==
    /\ reply' \in {search_ad_home(ID), search_ad_debugfs(ID), search_ad_name(ID)}
    /\ UNCHANGED arrays

OtherCall(ID) ==
    \/ delete_ad_home(ID)
    \/ \E ok \in BOOLEAN : __set_ad_ok(ID, ok)
    \/ CheckCall(ID)
    \/ SearchCall(ID)

\* The caller makes a call that returns nothing of the registry.
Forget == reply' = "none" /\ UNCHANGED arrays

RegistryNext ==
    \/ Forget
    \/ \E ID \in Id :
           \/ OtherCall(ID)
           \/ \E name \in Name \cup {NULL}, home \in Path \cup {NULL}, debugfs \in Path :
                  register_ad_home(ID, name, home, debugfs)

RegistrySpec == RegistryInit /\ [][RegistryNext]_registry

-----------------------------------------------------------------------------
RegistryTypeOK ==
    /\ AD_ID \in [Entry -> {ID \in Id : ID > 0} \cup {0}]
    /\ AD_NAME \in [Entry -> Name \cup {NULL}]
    /\ AD_HOME \in [Entry -> Path \cup {NULL}]
    /\ AD_DEBUGFS_HOME \in [Entry -> Path \cup {NULL}]
    /\ AD_OK \in [Entry -> BOOLEAN]
    /\ \A i, j \in Entry : AD_ID[i] = AD_ID[j] /\ AD_ID[i] # 0 => i = j

\* A free entry holds nothing of the chip that had it: neither its paths nor its name,
\* which a registration without one would keep (ad_func_internal_A.c:166, 186-216).
FreeIsBlank ==
    \A i \in Entry : AD_ID[i] = 0 =>
        AD_NAME[i] = NULL /\ AD_HOME[i] = NULL /\ AD_DEBUGFS_HOME[i] = NULL /\ ~AD_OK[i]

\* What a call may return
Reply == {"none", "ok", "failed", "void", NULL} \cup Path \cup Name

\* The map the arrays stand for
RegisteredIds == {AD_ID[i] : i \in Entry} \ {0}
EntryOf(ID) == CHOOSE i \in Entry : AD_ID[i] = ID
map ==
    [ID \in RegisteredIds |->
        LET i == EntryOf(ID)
        IN  [home |-> AD_HOME[i], debugfs |-> AD_DEBUGFS_HOME[i], ok |-> AD_OK[i],
             name |-> AD_NAME[i]]]

Map == INSTANCE AdMap WITH Capacity <- AD_ARRAY_SIZE

\* The arrays are a map with room for AD_ARRAY_SIZE ids, whatever was registered,
\* registered again and deleted before: no id has two entries, no entry is lost, a
\* new entry has nothing of the one that was there (ad_func_internal_A.c:113-276).
ImplementsMap == Map!Spec
=============================================================================
