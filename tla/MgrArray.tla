------------------------------ MODULE MgrArray ------------------------------
(***************************************************************************)
(* The array of threads of libThread (mgr_data.cpp) and the searches on    *)
(* it (mgr_search.cpp, mgr_ref_tid.cpp), as pure operators on a function   *)
(* from indices to records with at least the fields iden and tid.          *)
(***************************************************************************)
EXTENDS Integers, FiniteSetsExt

CONSTANT MGR_THREAD_MAX     \* entries of mgr_array

ASSUME MaxAssumption == MGR_THREAD_MAX \in Nat \ {0, 1}

MGR_IDEN_DEFAULT == -1
MGR_TID_DEFAULT == 0
FIND_NOTHING == -1
FIND_MULTY == -MGR_THREAD_MAX

Index == 0..(MGR_THREAD_MAX - 1)

\* The entries bound to an identity.  A negative one is the mark of a free entry.
Named(arr, identify) == {i \in Index : identify >= 0 /\ arr[i].iden = identify}

check_unique(arr, identify) == \A i, j \in Named(arr, identify) : i = j

\* Mutant: the search gives up at the first entry that is in use by another.
find_array_StopsEarly(arr, identify) ==
    CASE ~check_unique(arr, identify)  -> FIND_MULTY
      [] Named(arr, identify) = {}     -> FIND_NOTHING
      [] \E i \in Named(arr, identify) : i > 0 -> FIND_NOTHING
      [] OTHER                         -> CHOOSE i \in Named(arr, identify) : TRUE

find_array(arr, identify) ==
    CASE ~check_unique(arr, identify)  -> FIND_MULTY
      [] Named(arr, identify) = {}     -> FIND_NOTHING
      [] OTHER                         -> CHOOSE i \in Named(arr, identify) : TRUE

Found(arr, identify) == find_array(arr, identify) \in Index

\* Mutant: entries in use are offered too.
Free_All(arr) == Index

\* An entry that a new identity may take; check_full looks for the first one.
Free(arr) == {i \in Index : arr[i].iden < 0}

\* The last entry with this thread id wins; MGR_TID_DEFAULT is nobody's.
find_index_by_tid(arr, tid) ==
    LET mine == {i \in Index : tid # MGR_TID_DEFAULT /\ arr[i].tid = tid}
    IN  IF mine = {} THEN FIND_NOTHING ELSE Max(mine)
=============================================================================
