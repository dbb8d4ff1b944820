------------------------------ MODULE ThreadMgr ------------------------------
(***************************************************************************)
(* The registry of libThread with several callers at once.  A caller runs  *)
(* the registry part of an API function: thread_ready_param and            *)
(* thread_ready_attribute (set_*_by_iden), thread_create_and_start         *)
(* (set_tid_by_iden) or thread_release_and_destroy (init_index_by_iden).   *)
(*                                                                         *)
(* Each write of an entry is under mutex_mgr; the searches are not, and    *)
(* search, write and naming of an entry are steps of their own.  A search  *)
(* by identity is one step: while callers use identities of their own, no  *)
(* other caller adds an entry with this identity during the search.  The   *)
(* search for a free entry looks at one entry per step.                    *)
(***************************************************************************)
EXTENDS MgrArray, Sequences

CONSTANTS
    Caller,     \* threads that use the library
    Iden,       \* identities, the refused 0 among them
    MayUse,     \* per caller, the identities it uses
    Wrap,       \* 2^32 in the source: the values of only_one
    MaxCalls,   \* bound: API calls in a behaviour
    None

ASSUME IdenAssumption == Iden \subseteq Nat
ASSUME MayUseAssumption == MayUse \in [Caller -> SUBSET Iden]
ASSUME WrapAssumption == Wrap \in Nat \ {0} /\ MaxCalls \in Nat

\* No identity is used by two callers.
Own == \A c, d \in Caller : c # d => MayUse[c] \cap MayUse[d] = {}

Field == {"param", "attr", "func", "tid"}

\* The registry functions that an API function calls, in their order.
Api == {<<"init", "param">>, <<"init", "param", "func">>,
        <<"init", "attr">>, <<"init", "attr", "func">>,
        <<"get", "tid">>, <<"delete">>}

VARIABLES
    arr,        \* mgr_array: the identity, and whose data each field holds
    only_one,   \* calls of frist_init_array, modulo Wrap
    todo,       \* per caller, the registry functions left in the current call
    step,       \* per caller, where it is in the first of them
    id,         \* per caller, the argument identify
    idx,        \* per caller, temp_index
    claimed,    \* per caller: temp_index comes from check_full
    calls,      \* history: API calls begun
    bound,      \* history: identities bound by a call that succeeded
    overlap     \* history: two callers were inside a call at the same time

control == <<todo, step, id, idx, claimed>>
vars == <<arr, only_one, control, calls, bound, overlap>>

Step == {"begin", "find", "full", "set", "name", "reset"}

EmptyEntry == [iden |-> MGR_IDEN_DEFAULT, data |-> [f \in Field |-> None]]

\* Static storage: all zero, so that no entry is free before frist_init_array.
Init ==
    /\ arr = [i \in Index |-> [EmptyEntry EXCEPT !.iden = 0]]
    /\ only_one = 0
    /\ todo = [c \in Caller |-> <<>>]
    /\ step = [c \in Caller |-> "begin"]
    /\ id = [c \in Caller |-> 0]
    /\ idx = [c \in Caller |-> 0]
    /\ claimed = [c \in Caller |-> FALSE]
    /\ calls = 0 /\ bound = {} /\ overlap = FALSE

At(c, functions, label) ==
    todo[c] # <<>> /\ todo[c][1] \in functions /\ step[c] = label

Goto(c, label, i, new) ==
    /\ step' = [step EXCEPT ![c] = label]
    /\ idx' = [idx EXCEPT ![c] = i]
    /\ claimed' = [claimed EXCEPT ![c] = new]
    /\ UNCHANGED <<todo, id>>

\* Go on with the next registry function of the call, or leave it with an error.
Continue(c, rest) ==
    /\ todo' = [todo EXCEPT ![c] = rest]
    /\ step' = [step EXCEPT ![c] = "begin"]
    /\ idx' = [idx EXCEPT ![c] = 0]
    /\ claimed' = [claimed EXCEPT ![c] = FALSE]
    /\ UNCHANGED id

Done(c) == Continue(c, Tail(todo[c]))
Fail(c) == Continue(c, <<>>) /\ UNCHANGED <<arr, bound>>

Call(c) ==
    /\ todo[c] = <<>> /\ calls < MaxCalls
    /\ \E functions \in Api : todo' = [todo EXCEPT ![c] = functions]
    /\ \E identify \in MayUse[c] : id' = [id EXCEPT ![c] = identify]
    /\ calls' = calls + 1
    /\ overlap' = (overlap \/ \E d \in Caller \ {c} : todo[d] # <<>>)
    /\ UNCHANGED <<arr, only_one, step, idx, claimed, bound>>

\* Under mutex_only_one; who comes second finds the array initialized.
frist_init_array(c) ==
    /\ At(c, {"init"}, "begin")
    /\ only_one' = (only_one + 1) % Wrap
    /\ \/ only_one = 0 /\ arr' = [i \in Index |-> EmptyEntry]
       \/ only_one > 0 /\ UNCHANGED arr
    /\ Done(c)
    /\ UNCHANGED <<calls, bound, overlap>>

\* thread_create_and_start: get_attr_by_iden and get_param_by_iden
GetByIden(c) ==
    /\ At(c, {"get"}, "begin")
    /\ \/ Found(arr, id[c]) /\ Done(c) /\ UNCHANGED <<arr, bound>>
       \/ ~Found(arr, id[c]) /\ Fail(c)
    /\ UNCHANGED <<only_one, calls, overlap>>

\* set_*_by_iden: the tests before the search
SetCheck(c) ==
    /\ At(c, Field, "begin")
    /\ IF id[c] <= 0 \/ find_array(arr, id[c]) = FIND_MULTY
       THEN Fail(c)
       ELSE Goto(c, "find", 0, FALSE) /\ UNCHANGED <<arr, bound>>
    /\ UNCHANGED <<only_one, calls, overlap>>

SetFind(c) ==
    /\ At(c, Field, "find")
    /\ LET i == find_array(arr, id[c])
       IN  IF i = FIND_NOTHING THEN Goto(c, "full", 0, FALSE) ELSE Goto(c, "set", i, FALSE)
    /\ UNCHANGED <<arr, only_one, calls, bound, overlap>>

\* Mutant: the search for a free entry runs past the last one.
check_full_PastEnd(c) ==
    /\ At(c, Field, "full")
    /\ \/ arr[idx[c]].iden < 0 /\ Goto(c, "set", idx[c], TRUE) /\ UNCHANGED <<arr, bound>>
       \/ arr[idx[c]].iden >= 0 /\ Goto(c, "full", idx[c] + 1, FALSE) /\ UNCHANGED <<arr, bound>>
    /\ UNCHANGED <<only_one, calls, overlap>>

\* check_full: one entry per step
check_full(c) ==
    /\ At(c, Field, "full")
    /\ \/ arr[idx[c]].iden < 0 /\ Goto(c, "set", idx[c], TRUE) /\ UNCHANGED <<arr, bound>>
       \/ /\ arr[idx[c]].iden >= 0 /\ idx[c] + 1 \in Index
          /\ Goto(c, "full", idx[c] + 1, FALSE) /\ UNCHANGED <<arr, bound>>
       \/ arr[idx[c]].iden >= 0 /\ idx[c] + 1 \notin Index /\ Fail(c)
    /\ UNCHANGED <<only_one, calls, overlap>>

\* Mutant: the entry that was claimed is not named.
SetField_NeverNames(c) ==
    /\ At(c, Field, "set")
    /\ arr' = IF idx[c] \in Index
              THEN [arr EXCEPT ![idx[c]].data[todo[c][1]] = id[c]] ELSE arr
    /\ Done(c) /\ bound' = bound \cup {id[c]}
    /\ UNCHANGED <<only_one, calls, overlap>>

\* set_param, set_attr, set_func, set_tid; FIND_MULTY is not an index they accept
SetField(c) ==
    /\ At(c, Field, "set")
    /\ arr' = IF idx[c] \in Index
              THEN [arr EXCEPT ![idx[c]].data[todo[c][1]] = id[c]] ELSE arr
    /\ IF claimed[c] THEN Goto(c, "name", idx[c], TRUE) /\ UNCHANGED bound
       ELSE Done(c) /\ bound' = bound \cup {id[c]}
    /\ UNCHANGED <<only_one, calls, overlap>>

set_iden(c) ==
    /\ At(c, Field, "name")
    /\ arr' = [arr EXCEPT ![idx[c]].iden = id[c]]
    /\ bound' = bound \cup {id[c]}
    /\ Done(c)
    /\ UNCHANGED <<only_one, calls, overlap>>

\* init_index_by_iden
DeleteFind(c) ==
    /\ At(c, {"delete"}, "begin")
    /\ IF Found(arr, id[c])
       THEN Goto(c, "reset", find_array(arr, id[c]), FALSE) /\ UNCHANGED <<arr, bound>>
       ELSE Fail(c)
    /\ UNCHANGED <<only_one, calls, overlap>>

init_index(c) ==
    /\ At(c, {"delete"}, "reset")
    /\ arr' = [arr EXCEPT ![idx[c]] = EmptyEntry]
    /\ bound' = bound \ {id[c]}
    /\ Done(c)
    /\ UNCHANGED <<only_one, calls, overlap>>

Next == \E c \in Caller :
    \/ Call(c) \/ frist_init_array(c) \/ GetByIden(c)
    \/ SetCheck(c) \/ SetFind(c) \/ check_full(c) \/ SetField(c) \/ set_iden(c)
    \/ DeleteFind(c) \/ init_index(c)

Spec == Init /\ [][Next]_vars

-----------------------------------------------------------------------------
(* Properties *)

\* "unique,identify" (mgr_data.h:43): an identity names at most one entry, although
\* callers search without the mutex and name the entry they found free several
\* steps later.  It holds as long as no two callers use the same identity.
IdenUnique == \A i, j \in Index : arr[i].iden > 0 /\ arr[i].iden = arr[j].iden => i = j

\* An identity that a call has bound names an entry until it is released.  Two
\* callers that find the same entry free break it: the second to name the entry
\* takes it from the first, whose call has succeeded.
BindingKept == \A identify \in bound : Found(arr, identify)

\* The data under an identity was stored under it, also in an entry that was
\* released and taken again (mgr_data.cpp:24-41).
DataIsOwn ==
    \A i \in Index : arr[i].iden > 0 =>
        \A f \in Field : arr[i].data[f] \in {None, arr[i].iden}

\* While the calls of different callers follow each other and never overlap, the
\* registry keeps its word however full it is: a bound identity stays bound, and
\* to its own data (mgr_ref_iden.cpp:18-203).
SerialBindingKept == ~overlap => BindingKept /\ DataIsOwn
=============================================================================
