-------------------------- MODULE ThreadMgrProofs --------------------------
(***************************************************************************)
(* Whatever the number of entries, callers and identities: as long as no   *)
(* identity is used by two callers, an identity names at most one entry of *)
(* mgr_array, although every search runs without the mutex                 *)
(* (IdentityNamesOneEntry).  And whoever uses which identity: as long as   *)
(* calls follow each other, what a call has bound stays bound, to its own  *)
(* data (CallsInTurnKeepBindings).                                         *)
(***************************************************************************)
EXTENDS ThreadMgr, TLAPS

Call_ == Seq(Field \cup {"init", "get", "delete"})

Types ==
    /\ arr \in [Index -> [iden : Int, data : [Field -> Iden \cup {None}]]]
    /\ todo \in [Caller -> Call_]
    /\ step \in [Caller -> Step]
    /\ idx \in [Caller -> Int]
    /\ claimed \in [Caller -> BOOLEAN]
    /\ id \in [Caller -> Iden \cup {0}]

\* Nobody is in the middle of nothing; a caller uses its own identities, and
\* only positive ones get past the first test.
InCall ==
    \A c \in Caller :
        /\ todo[c] = <<>> => step[c] = "begin"
        /\ todo[c] # <<>> => id[c] \in MayUse[c]
        /\ step[c] \in {"find", "full", "set", "name"} => id[c] > 0

\* A caller that searches for a free entry, or that has found one and has not
\* yet named it.
Claiming(c) ==
    todo[c] # <<>> /\ (step[c] = "full" \/ step[c] = "name" \/ (step[c] = "set" /\ claimed[c]))

\* The bridge from the search to the naming, several steps later: no entry has
\* the identity of a caller that is about to give it to one.
Unclaimed == \A c \in Caller : Claiming(c) => \A i \in Index : arr[i].iden # id[c]

Inv == Types /\ InCall /\ Unclaimed /\ IdenUnique

-----------------------------------------------------------------------------
\* FIND_NOTHING is returned only when no entry has the identity
\* (mgr_search.cpp:52-71).
LEMMA NothingFound ==
    ASSUME NEW a, NEW k \in Nat, find_array(a, k) = FIND_NOTHING
    PROVE  \A i \in Index : a[i].iden # k
<1>1. FIND_MULTY # FIND_NOTHING
  BY MaxAssumption DEF FIND_MULTY, FIND_NOTHING
<1>2. CASE Named(a, k) = {}
  BY <1>2 DEF Named
<1>3. CASE Named(a, k) # {}
  <2> DEFINE n == CHOOSE i \in Named(a, k) : TRUE
  <2>1. n \in Index
    BY <1>3 DEF Named
  <2>2. find_array(a, k) = FIND_MULTY \/ find_array(a, k) = n
    BY <1>3 DEF find_array
  <2> HIDE DEF n
  <2>3. n # FIND_NOTHING
    BY <2>1, MaxAssumption DEF Index, FIND_NOTHING
  <2> QED
    BY <1>1, <2>2, <2>3
<1> QED
  BY <1>2, <1>3

\* A search that finds something returns an index or FIND_MULTY.
LEMMA FindType ==
    ASSUME NEW a, NEW k
    PROVE  find_array(a, k) \in Int
<1>1. Index \subseteq Int /\ FIND_MULTY \in Int /\ FIND_NOTHING \in Int
  BY MaxAssumption DEF Index, FIND_MULTY, FIND_NOTHING
<1>2. Named(a, k) # {} => (CHOOSE i \in Named(a, k) : TRUE) \in Index
  BY DEF Named
<1> QED
  BY <1>1, <1>2 DEF find_array

\* A step of one caller that names no entry keeps the invariant, if where it
\* goes is consistent and it does not start to claim an identity in use.
LEMMA Frame ==
    ASSUME Inv, NEW c \in Caller,
           NEW t \in Call_, NEW s \in Step, NEW x \in Int, NEW b \in BOOLEAN,
           NEW k \in Iden \cup {0},
           todo' = [todo EXCEPT ![c] = t], step' = [step EXCEPT ![c] = s],
           idx' = [idx EXCEPT ![c] = x], claimed' = [claimed EXCEPT ![c] = b],
           id' = [id EXCEPT ![c] = k],
           arr' \in [Index -> [iden : Int, data : [Field -> Iden \cup {None}]]],
           \A i \in Index : arr'[i].iden = arr[i].iden \/ arr'[i].iden = MGR_IDEN_DEFAULT,
           t = <<>> => s = "begin",
           t # <<>> => k \in MayUse[c],
           s \in {"find", "full", "set", "name"} => k > 0,
           t # <<>> /\ (s = "full" \/ s = "name" \/ (s = "set" /\ b))
               => \A i \in Index : arr[i].iden # k
    PROVE  Inv'
<1>1. Types'
  BY DEF Inv, Types
<1>2. ASSUME NEW d \in Caller
      PROVE  /\ d # c => todo'[d] = todo[d] /\ step'[d] = step[d] /\ claimed'[d] = claimed[d]
                           /\ id'[d] = id[d]
             /\ d = c => todo'[d] = t /\ step'[d] = s /\ claimed'[d] = b /\ id'[d] = k
  BY DEF Inv, Types
<1>3. InCall'
  <2> SUFFICES ASSUME NEW d \in Caller
               PROVE  /\ todo'[d] = <<>> => step'[d] = "begin"
                      /\ todo'[d] # <<>> => id'[d] \in MayUse[d]
                      /\ step'[d] \in {"find", "full", "set", "name"} => id'[d] > 0
    BY DEF InCall
  <2>1. CASE d = c
    BY <1>2, <2>1
  <2>2. CASE d # c
    BY <1>2, <2>2 DEF Inv, InCall
  <2> QED
    BY <2>1, <2>2
<1>4. Unclaimed'
  <2> SUFFICES ASSUME NEW d \in Caller, Claiming(d)', NEW i \in Index
               PROVE  arr'[i].iden # id'[d]
    BY DEF Unclaimed
  <2>1. id'[d] > 0 /\ id'[d] # MGR_IDEN_DEFAULT
    <3>1. step'[d] \in {"find", "full", "set", "name"}
      BY DEF Claiming
    <3>2. id'[d] > 0
      BY <1>3, <3>1 DEF InCall
    <3>3. id'[d] \in Iden \cup {0}
      BY <1>1 DEF Types
    <3> QED
      BY <3>2, <3>3, IdenAssumption DEF MGR_IDEN_DEFAULT
  <2>2. CASE d = c
    BY <1>2, <2>1, <2>2 DEF Claiming
  <2>3. CASE d # c
    BY <1>2, <2>1, <2>3 DEF Claiming, Inv, Unclaimed
  <2> QED
    BY <2>2, <2>3
<1>5. IdenUnique'
  BY DEF Inv, IdenUnique, MGR_IDEN_DEFAULT
<1> QED
  BY <1>1, <1>3, <1>4, <1>5 DEF Inv

\* An identity is a natural number.
LEMMA IdNat == ASSUME Inv, NEW c \in Caller PROVE id[c] \in Nat
<1>1. id[c] \in Iden \cup {0}
  BY DEF Inv, Types
<1>2. \A k \in Iden \cup {0} : k \in Nat
  BY IdenAssumption
<1> QED
  BY <1>1, <1>2

\* The rest of a call is again a list of registry functions.
LEMMA Rest ==
    ASSUME Types, NEW c \in Caller, todo[c] # <<>>
    PROVE  Tail(todo[c]) \in Call_ /\ <<>> \in Call_
<1>1. todo[c] \in Call_
  BY DEF Types
<1> QED
  BY <1>1 DEF Call_

\* Leaving a registry function, with the call's next one or with an error.
LEMMA Leave ==
    ASSUME Inv, NEW c \in Caller, NEW t \in Call_, Continue(c, t),
           todo[c] # <<>>,
           arr' \in [Index -> [iden : Int, data : [Field -> Iden \cup {None}]]],
           \A i \in Index : arr'[i].iden = arr[i].iden \/ arr'[i].iden = MGR_IDEN_DEFAULT
    PROVE  Inv'
<1>1. "begin" \in Step /\ 0 \in Int /\ FALSE \in BOOLEAN
  BY DEF Step
<1>2. /\ id[c] \in Iden \cup {0} /\ id' = [id EXCEPT ![c] = id[c]]
      /\ id[c] \in MayUse[c]
  BY DEF Continue, Inv, Types, InCall
<1>3. /\ todo' = [todo EXCEPT ![c] = t] /\ step' = [step EXCEPT ![c] = "begin"]
      /\ idx' = [idx EXCEPT ![c] = 0] /\ claimed' = [claimed EXCEPT ![c] = FALSE]
  BY DEF Continue
<1> QED
  BY <1>1, <1>2, <1>3, Frame

\* Going on inside a registry function with the array unchanged.
LEMMA Move ==
    ASSUME Inv, NEW c \in Caller, NEW s \in Step, NEW x \in Int, NEW b \in BOOLEAN,
           Goto(c, s, x, b), todo[c] # <<>>, 
           arr' \in [Index -> [iden : Int, data : [Field -> Iden \cup {None}]]],
           \A i \in Index : arr'[i].iden = arr[i].iden \/ arr'[i].iden = MGR_IDEN_DEFAULT,
           s \in {"find", "full", "set", "name"} => id[c] > 0,
           s = "full" \/ s = "name" \/ (s = "set" /\ b) => \A i \in Index : arr[i].iden # id[c]
    PROVE  Inv'
<1>1. /\ todo[c] \in Call_ /\ todo' = [todo EXCEPT ![c] = todo[c]]
      /\ id[c] \in Iden \cup {0} /\ id' = [id EXCEPT ![c] = id[c]]
      /\ id[c] \in MayUse[c]
  BY DEF Goto, Inv, Types, InCall
<1>2. /\ step' = [step EXCEPT ![c] = s] /\ idx' = [idx EXCEPT ![c] = x]
      /\ claimed' = [claimed EXCEPT ![c] = b]
  BY DEF Goto
<1> QED
  BY <1>1, <1>2, Frame

\* The array itself is well formed when it does not change.
LEMMA Same ==
    ASSUME Inv, arr' = arr
    PROVE  /\ arr' \in [Index -> [iden : Int, data : [Field -> Iden \cup {None}]]]
           /\ \A i \in Index : arr'[i].iden = arr[i].iden \/ arr'[i].iden = MGR_IDEN_DEFAULT
BY DEF Inv, Types

\* A new call starts outside any registry function.
LEMMA CallKeeps == ASSUME Inv, NEW c \in Caller, Call(c) PROVE Inv'
<1>1. PICK functions \in Api : todo' = [todo EXCEPT ![c] = functions]
  BY DEF Call
<1>2. PICK identify \in MayUse[c] : id' = [id EXCEPT ![c] = identify]
  BY DEF Call
<1>3. functions \in Call_
  <2> DEFINE F == Field \cup {"init", "get", "delete"}
  <2>1. {"init", "get", "delete", "param", "attr", "func", "tid"} \subseteq F
    BY DEF Field
  <2> HIDE DEF F
  <2>2. /\ <<"init", "param">> \in Seq(F) /\ <<"init", "attr">> \in Seq(F)
        /\ <<"get", "tid">> \in Seq(F) /\ <<"delete">> \in Seq(F)
    BY <2>1
  <2>3. <<"init", "param", "func">> \in Seq(F) /\ <<"init", "attr", "func">> \in Seq(F)
    BY <2>1
  <2> QED
    BY <1>1, <2>2, <2>3 DEF Api, Call_, F
<1>4. identify \in Iden \cup {0}
  BY <1>2, MayUseAssumption
<1>5. /\ step[c] = "begin" /\ step[c] \in Step
      /\ idx[c] \in Int /\ claimed[c] \in BOOLEAN
      /\ step' = [step EXCEPT ![c] = step[c]] /\ idx' = [idx EXCEPT ![c] = idx[c]]
      /\ claimed' = [claimed EXCEPT ![c] = claimed[c]] /\ arr' = arr
  BY DEF Call, Inv, Types, InCall
<1> QED
  BY <1>1, <1>2, <1>3, <1>4, <1>5, Same, Frame

\* frist_init_array frees entries, it names none (mgr_data.cpp:43-53).
LEMMA InitKeeps == ASSUME Inv, NEW c \in Caller, frist_init_array(c) PROVE Inv'
<1>1. todo[c] # <<>> /\ Done(c)
  BY DEF frist_init_array, At
<1>2. Tail(todo[c]) \in Call_
  BY <1>1, Rest DEF Inv
<1>3. CASE arr' = [i \in Index |-> EmptyEntry]
  <2>1. /\ EmptyEntry \in [iden : Int, data : [Field -> Iden \cup {None}]]
        /\ EmptyEntry.iden = MGR_IDEN_DEFAULT
    BY DEF EmptyEntry, MGR_IDEN_DEFAULT
  <2>2. arr' \in [Index -> [iden : Int, data : [Field -> Iden \cup {None}]]]
    BY <1>3, <2>1
  <2> QED
    BY <1>1, <1>2, <1>3, <2>1, <2>2, Leave DEF Done
<1>4. CASE arr' = arr
  BY <1>1, <1>2, <1>4, Same, Leave DEF Done
<1> QED
  BY <1>3, <1>4 DEF frist_init_array

\* A call that fails in a registry function leaves the array alone.
LEMMA FailKeeps == ASSUME Inv, NEW c \in Caller, todo[c] # <<>>, Fail(c) PROVE Inv'
<1>1. <<>> \in Call_ /\ Continue(c, <<>>) /\ arr' = arr
  BY DEF Fail, Call_
<1> QED
  BY <1>1, Same, Leave

\* Looking for the entry at the start of thread_create_and_start.
LEMMA GetKeeps == ASSUME Inv, NEW c \in Caller, GetByIden(c) PROVE Inv'
<1>1. todo[c] # <<>>
  BY DEF GetByIden, At
<1>2. CASE Fail(c)
  BY <1>1, <1>2, FailKeeps
<1>3. CASE Done(c) /\ arr' = arr
  <2>1. Tail(todo[c]) \in Call_
    BY <1>1, Rest DEF Inv
  <2> QED
    BY <1>1, <1>3, <2>1, Same, Leave DEF Done
<1> QED
  BY <1>2, <1>3 DEF GetByIden

\* The tests that let only positive identities through (mgr_ref_iden.cpp:38-45).
LEMMA CheckKeeps == ASSUME Inv, NEW c \in Caller, SetCheck(c) PROVE Inv'
<1>1. todo[c] # <<>>
  BY DEF SetCheck, At
<1>2. CASE Fail(c)
  BY <1>1, <1>2, FailKeeps
<1>3. CASE ~(id[c] <= 0) /\ Goto(c, "find", 0, FALSE) /\ arr' = arr
  <2>1. id[c] > 0
    BY <1>3, IdNat
  <2>2. "find" \in Step /\ "find" # "full" /\ "find" # "name" /\ "find" # "set"
    BY DEF Step
  <2>3. 0 \in Int /\ FALSE \in BOOLEAN
    OBVIOUS
  <2> QED
    BY <1>1, <1>3, <2>1, <2>2, <2>3, Same, Move
<1> QED
  BY <1>2, <1>3 DEF SetCheck

\* When nothing was found, nobody has the identity: its user is searching.
LEMMA FindKeeps == ASSUME Inv, NEW c \in Caller, SetFind(c) PROVE Inv'
<1> DEFINE i == find_array(arr, id[c])
<1>1. todo[c] # <<>> /\ step[c] = "find" /\ arr' = arr /\ id[c] > 0
  BY DEF SetFind, At, Inv, InCall
<1>2. id[c] \in Nat
  BY IdNat
<1>3. /\ "full" \in Step /\ "set" \in Step /\ "set" # "full" /\ "set" # "name"
      /\ 0 \in Int /\ FALSE \in BOOLEAN
  BY DEF Step
<1>4. i \in Int
  BY FindType
<1>5. CASE i = FIND_NOTHING /\ Goto(c, "full", 0, FALSE)
  <2>1. \A j \in Index : arr[j].iden # id[c]
    BY <1>2, <1>5, NothingFound
  <2> QED
    BY <1>1, <1>3, <1>5, <2>1, Same, Move
<1>6. CASE Goto(c, "set", i, FALSE)
  <2> HIDE DEF i
  <2> QED
    BY <1>1, <1>3, <1>4, <1>6, Same, Move
<1> QED
  BY <1>5, <1>6 DEF SetFind

\* The search for a free entry leaves the claim as it is (mgr_search.cpp:33-49).
LEMMA FullKeeps == ASSUME Inv, NEW c \in Caller, check_full(c) PROVE Inv'
<1>1. todo[c] # <<>> /\ step[c] = "full" /\ id[c] > 0 /\ idx[c] \in Int
  BY DEF check_full, At, Inv, InCall, Types
<1>2. \A i \in Index : arr[i].iden # id[c]
  BY <1>1 DEF Inv, Unclaimed, Claiming
<1>3. "full" \in Step /\ "set" \in Step /\ TRUE \in BOOLEAN /\ FALSE \in BOOLEAN
  BY DEF Step
<1>4. CASE Fail(c)
  BY <1>1, <1>4, FailKeeps
<1>5. CASE Goto(c, "set", idx[c], TRUE) /\ arr' = arr
  BY <1>1, <1>2, <1>3, <1>5, Same, Move
<1>6. CASE Goto(c, "full", idx[c] + 1, FALSE) /\ arr' = arr
  <2>1. idx[c] + 1 \in Int
    BY <1>1
  <2> QED
    BY <1>1, <1>2, <1>3, <1>6, <2>1, Same, Move
<1> QED
  BY <1>4, <1>5, <1>6 DEF check_full

\* Storing a field changes no identity, so that a caller that has claimed the
\* entry still finds its identity in no entry when it comes to name it.
LEMMA SetKeeps == ASSUME Inv, NEW c \in Caller, SetField(c) PROVE Inv'
<1>1. /\ todo[c] # <<>> /\ step[c] = "set" /\ id[c] > 0 /\ idx[c] \in Int
      /\ todo[c][1] \in Field /\ id[c] \in Iden
  BY MayUseAssumption DEF SetField, At, Inv, InCall, Types
<1>2. /\ arr' \in [Index -> [iden : Int, data : [Field -> Iden \cup {None}]]]
      /\ \A i \in Index : arr'[i].iden = arr[i].iden
  <2>1. CASE idx[c] \in Index
    <3>1. arr' = [arr EXCEPT ![idx[c]].data[todo[c][1]] = id[c]]
      BY <2>1 DEF SetField
    <3>2. /\ arr[idx[c]] \in [iden : Int, data : [Field -> Iden \cup {None}]]
          /\ arr \in [Index -> [iden : Int, data : [Field -> Iden \cup {None}]]]
      BY <2>1 DEF Inv, Types
    <3> QED
      BY <1>1, <2>1, <3>1, <3>2
  <2>2. CASE idx[c] \notin Index
    BY <2>2, Same DEF SetField, Inv, Types
  <2> QED
    BY <2>1, <2>2
<1>3. CASE claimed[c] /\ Goto(c, "name", idx[c], TRUE)
  <2>1. \A i \in Index : arr[i].iden # id[c]
    BY <1>1, <1>3 DEF Inv, Unclaimed, Claiming
  <2>2. "name" \in Step /\ TRUE \in BOOLEAN
    BY DEF Step
  <2> QED
    BY <1>1, <1>2, <1>3, <2>1, <2>2, Move
<1>4. CASE Done(c)
  <2>1. Tail(todo[c]) \in Call_
    BY <1>1, Rest DEF Inv
  <2> QED
    BY <1>1, <1>2, <1>4, <2>1, Leave DEF Done
<1> QED
  BY <1>3, <1>4 DEF SetField

\* No other caller is about to give the identity to an entry.
Sole(c) == \A d \in Caller : d # c /\ Claiming(d) => id[d] # id[c]

\* The one step that gives an entry an identity: no entry has it yet, and
\* no other caller is about to give the same one (mgr_ref_iden.cpp:58).
LEMMA NameKeeps == ASSUME Inv, NEW c \in Caller, set_iden(c), Sole(c) PROVE Inv'
<1>1. /\ todo[c] # <<>> /\ step[c] = "name" /\ id[c] > 0
      /\ arr' = [arr EXCEPT ![idx[c]].iden = id[c]] /\ Continue(c, Tail(todo[c]))
  BY DEF set_iden, At, Done, Inv, InCall
<1>2. \A i \in Index : arr[i].iden # id[c]
  BY <1>1 DEF Inv, Unclaimed, Claiming
<1>3. /\ todo' = [todo EXCEPT ![c] = Tail(todo[c])] /\ step' = [step EXCEPT ![c] = "begin"]
      /\ idx' = [idx EXCEPT ![c] = 0] /\ claimed' = [claimed EXCEPT ![c] = FALSE]
      /\ id' = id
  BY <1>1 DEF Continue
<1>4. arr' \in [Index -> [iden : Int, data : [Field -> Iden \cup {None}]]]
  <2>1. id[c] \in Int
    BY IdNat
  <2>2. arr \in [Index -> [iden : Int, data : [Field -> Iden \cup {None}]]]
    BY DEF Inv, Types
  <2> QED
    BY <1>1, <2>1, <2>2
<1>5. \A i \in Index : arr'[i].iden = arr[i].iden \/ (i = idx[c] /\ arr'[i].iden = id[c])
  BY <1>1 DEF Inv, Types
<1>6. Types'
  <2>1. Tail(todo[c]) \in Call_
    BY <1>1, Rest DEF Inv
  <2> QED
    BY <1>3, <1>4, <2>1 DEF Inv, Types, Step
<1>7. InCall'
  <2> SUFFICES ASSUME NEW d \in Caller
               PROVE  /\ todo'[d] = <<>> => step'[d] = "begin"
                      /\ todo'[d] # <<>> => id'[d] \in MayUse[d]
                      /\ step'[d] \in {"find", "full", "set", "name"} => id'[d] > 0
    BY DEF InCall
  <2>1. CASE d = c
    BY <1>1, <1>3, <2>1 DEF Inv, Types, InCall
  <2>2. CASE d # c
    BY <1>3, <2>2 DEF Inv, Types, InCall
  <2> QED
    BY <2>1, <2>2
<1>8. Unclaimed'
  <2> SUFFICES ASSUME NEW d \in Caller, Claiming(d)', NEW i \in Index
               PROVE  arr'[i].iden # id'[d]
    BY DEF Unclaimed
  <2>1. d # c
    BY <1>3 DEF Claiming, Inv, Types
  <2>2. Claiming(d) /\ id'[d] = id[d] /\ todo[d] # <<>>
    BY <1>3, <2>1 DEF Claiming, Inv, Types
  <2>3. id[d] # id[c]
    BY <2>1, <2>2 DEF Sole
  <2>4. arr[i].iden # id[d]
    BY <2>2 DEF Inv, Unclaimed
  <2> QED
    BY <1>5, <2>2, <2>3, <2>4
<1>9. IdenUnique'
  <2> SUFFICES ASSUME NEW i \in Index, NEW j \in Index,
                      arr'[i].iden > 0, arr'[i].iden = arr'[j].iden
               PROVE  i = j
    BY DEF IdenUnique
  <2>1. CASE arr'[i].iden = arr[i].iden /\ arr'[j].iden = arr[j].iden
    BY <2>1 DEF Inv, IdenUnique
  <2>2. CASE i = idx[c] /\ j = idx[c]
    BY <2>2
  <2>3. CASE arr'[i].iden = id[c] \/ arr'[j].iden = id[c]
    BY <1>2, <1>5, <2>3
  <2> QED
    BY <1>5, <2>1, <2>2, <2>3
<1> QED
  BY <1>6, <1>7, <1>8, <1>9 DEF Inv

\* Looking for the entry to release.
LEMMA DeleteKeeps == ASSUME Inv, NEW c \in Caller, DeleteFind(c) PROVE Inv'
<1>1. todo[c] # <<>>
  BY DEF DeleteFind, At
<1>2. CASE Fail(c)
  BY <1>1, <1>2, FailKeeps
<1>3. CASE Goto(c, "reset", find_array(arr, id[c]), FALSE) /\ arr' = arr
  <2> DEFINE i == find_array(arr, id[c])
  <2>1. i \in Int
    BY FindType
  <2>2. /\ "reset" \in Step /\ FALSE \in BOOLEAN
        /\ "reset" \notin {"find", "full", "set", "name"}
    BY DEF Step
  <2> HIDE DEF i
  <2>3. Goto(c, "reset", i, FALSE)
    BY <1>3 DEF i
  <2> QED
    BY <1>1, <1>3, <2>1, <2>2, <2>3, Same, Move
<1> QED
  BY <1>2, <1>3 DEF DeleteFind

\* A released entry is free (mgr_data.cpp:25-41).
LEMMA ResetKeeps == ASSUME Inv, NEW c \in Caller, init_index(c) PROVE Inv'
<1>1. /\ todo[c] # <<>> /\ Done(c) /\ arr' = [arr EXCEPT ![idx[c]] = EmptyEntry]
  BY DEF init_index, At
<1>2. Tail(todo[c]) \in Call_
  BY <1>1, Rest DEF Inv
<1>3. /\ EmptyEntry \in [iden : Int, data : [Field -> Iden \cup {None}]]
      /\ EmptyEntry.iden = MGR_IDEN_DEFAULT
  BY DEF EmptyEntry, MGR_IDEN_DEFAULT
<1>4. /\ arr' \in [Index -> [iden : Int, data : [Field -> Iden \cup {None}]]]
      /\ \A i \in Index : arr'[i].iden = arr[i].iden \/ arr'[i].iden = MGR_IDEN_DEFAULT
  BY <1>1, <1>3 DEF Inv, Types
<1> QED
  BY <1>1, <1>2, <1>4, Leave DEF Done

\* Static storage satisfies the invariant.
LEMMA InitInv == Init => Inv
<1> SUFFICES ASSUME Init PROVE Inv
  OBVIOUS
<1>1. Types
  BY DEF Init, Types, EmptyEntry, Step, Call_, MGR_IDEN_DEFAULT
<1>2. InCall
  BY DEF Init, InCall
<1>3. Unclaimed
  BY DEF Init, Unclaimed, Claiming
<1>4. IdenUnique
  BY DEF Init, IdenUnique, EmptyEntry, MGR_IDEN_DEFAULT
<1> QED
  BY <1>1, <1>2, <1>3, <1>4 DEF Inv

\* Every step keeps the invariant.
LEMMA StepInv ==
    ASSUME Inv, [Next]_vars, \A c \in Caller : set_iden(c) => Sole(c)
    PROVE  Inv'
<1>1. ASSUME NEW c \in Caller,
             \/ Call(c) \/ frist_init_array(c) \/ GetByIden(c)
             \/ SetCheck(c) \/ SetFind(c) \/ check_full(c) \/ SetField(c) \/ set_iden(c)
             \/ DeleteFind(c) \/ init_index(c)
      PROVE  Inv'
  BY <1>1, CallKeeps, InitKeeps, GetKeeps, CheckKeeps, FindKeeps, FullKeeps, SetKeeps,
     NameKeeps, DeleteKeeps, ResetKeeps
<1>2. CASE UNCHANGED vars
  BY <1>2 DEF vars, control, Inv, Types, InCall, Unclaimed, Claiming, IdenUnique
<1> QED
  BY <1>1, <1>2 DEF Next

\* While no two callers share an identity, an identity names at most one entry,
\* for any number of callers, entries and identities (mgr_data.h:43).
THEOREM IdentityNamesOneEntry == ASSUME Own PROVE Spec => []IdenUnique
<1>1. Init => Inv
  BY InitInv
<1>2. Inv /\ [Next]_vars => Inv'
  <2>1. ASSUME Own, Inv, NEW c \in Caller, set_iden(c) PROVE Sole(c)
    BY <2>1 DEF set_iden, At, Sole, Claiming, Own, Inv, InCall
  <2> QED
    BY <2>1, StepInv
<1>3. Inv => IdenUnique
  BY DEF Inv
<1> QED
  BY <1>1, <1>2, <1>3, PTL DEF Spec
-----------------------------------------------------------------------------
(* Calls that follow each other *)

Alone == \A c, d \in Caller : todo[c] # <<>> /\ todo[d] # <<>> => c = d

\* A call begins with at most one initialization, so that only_one does not come
\* round to 0; and the set functions come after it.
Counts == only_one \in Nat /\ calls \in Nat /\ only_one <= calls /\ calls <= MaxCalls

InOrder(c) ==
    todo[c] # <<>> =>
        /\ todo[c][1] = "init" => only_one < calls
        /\ todo[c][1] \in Field => only_one > 0
        /\ \A k \in 2..Len(todo[c]) : todo[c][k] \in Field

\* Before the first initialization no entry is free, and afterwards none is as in
\* static storage.
Initialized == IF only_one = 0 THEN bound = {} /\ \A i \in Index : arr[i].iden = 0
                               ELSE \A i \in Index : arr[i].iden # 0

Bound == \A k \in bound : k > 0 /\ k \in Nat /\ \E i \in Index : arr[i].iden = k

\* The data in an entry is of its identity, or of the one it is about to get.
Clean ==
    \A i \in Index : \A f \in Field :
        \/ arr[i].data[f] = None
        \/ arr[i].iden > 0 /\ arr[i].data[f] = arr[i].iden
        \/ \E c \in Caller : /\ todo[c] # <<>> /\ step[c] = "name" /\ idx[c] = i
                             /\ arr[i].data[f] = id[c]

\* What a search has found is still so when it is used.
Holds(c) ==
    todo[c] # <<>> =>
        /\ step[c] = "full" => idx[c] \in Index
        /\ step[c] = "set" => idx[c] \in Index /\ IF claimed[c] THEN arr[idx[c]].iden < 0
                                                                ELSE arr[idx[c]].iden = id[c]
        /\ step[c] = "name" => idx[c] \in Index /\ arr[idx[c]].iden < 0
        /\ step[c] = "reset" => idx[c] \in Index /\ arr[idx[c]].iden = id[c] /\ id[c] > 0

Serial ==
    /\ Alone /\ Counts /\ Initialized /\ Bound /\ Clean
    /\ \A c \in Caller : InOrder(c) /\ Holds(c)

SerialInv == ~overlap => Inv /\ Serial

\* Nobody but one caller is in a call.
Only(c) == \A d \in Caller : d # c => todo[d] = <<>>

\* What holds of the caller in a call, and of the array, is all there is to show.
LEMMA OnlyOne ==
    ASSUME NEW c \in Caller, Only(c)', Counts', Initialized', Bound', Clean', InOrder(c)', Holds(c)'
    PROVE  Serial'
<1>1. Alone'
  BY DEF Alone, Only
<1>2. ASSUME NEW d \in Caller PROVE InOrder(d)' /\ Holds(d)'
  <2>1. CASE d = c
    BY <2>1
  <2>2. CASE d # c
    BY <2>2 DEF Only, InOrder, Holds
  <2> QED
    BY <2>1, <2>2
<1> QED
  BY <1>1, <1>2 DEF Serial

\* A step that leaves the array alone and names nothing
LEMMA Quiet ==
    ASSUME Serial, NEW c \in Caller, UNCHANGED <<arr, bound, only_one>>, Counts',
           todo[c] = <<>> \/ step[c] # "name", Only(c), Only(c)', InOrder(c)', Holds(c)'
    PROVE  Serial'
<1>1. Initialized' /\ Bound'
  BY DEF Serial, Initialized, Bound
<1>2. \A d \in Caller : ~(todo[d] # <<>> /\ step[d] = "name")
  BY DEF Only
<1>3. Clean'
  BY <1>2 DEF Serial, Clean
<1> QED
  BY <1>1, <1>3, OnlyOne

\* The caller in a call is the only one, also after its step.
LEMMA StillOnly ==
    ASSUME Inv, Serial, NEW c \in Caller, todo[c] # <<>>, NEW t, todo' = [todo EXCEPT ![c] = t] \/ todo' = todo
    PROVE  Only(c) /\ Only(c)'
BY DEF Only, Serial, Alone, Inv, Types

\* After its first function a call has set functions left.
LEMMA RestInOrder ==
    ASSUME Inv, NEW c \in Caller, todo[c] # <<>>, InOrder(c), Done(c),
           Tail(todo[c]) # <<>> => only_one' > 0
    PROVE  InOrder(c)' /\ Holds(c)' /\ todo' = [todo EXCEPT ![c] = Tail(todo[c])]
<1>1. todo' = [todo EXCEPT ![c] = Tail(todo[c])] /\ todo'[c] = Tail(todo[c]) /\ step'[c] = "begin"
  BY DEF Done, Continue, Inv, Types
<1>2. Holds(c)'
  BY <1>1 DEF Holds
<1>3. todo[c] \in Seq(Field \cup {"init", "get", "delete"})
  BY DEF Inv, Types, Call_
<1>4. ASSUME Tail(todo[c]) # <<>>
      PROVE  /\ Tail(todo[c])[1] \in Field
             /\ \A k \in 2..Len(Tail(todo[c])) : Tail(todo[c])[k] \in Field
  <2>1. Len(todo[c]) \in Nat /\ Len(todo[c]) >= 2
    BY <1>3, <1>4
  <2>2. /\ Len(Tail(todo[c])) = Len(todo[c]) - 1
        /\ \A k \in 1..(Len(todo[c]) - 1) : Tail(todo[c])[k] = todo[c][k + 1]
    BY <1>3, <2>1
  <2>3. \A k \in 2..Len(todo[c]) : todo[c][k] \in Field
    BY DEF InOrder
  <2> QED
    BY <2>1, <2>2, <2>3
<1>5. "init" \notin Field
  BY DEF Field
<1> QED
  BY <1>1, <1>2, <1>4, <1>5 DEF InOrder

\* A call that fails is over.
LEMMA FailSerial ==
    ASSUME Inv, Serial, NEW c \in Caller, todo[c] # <<>>, step[c] # "name", Fail(c),
           UNCHANGED <<only_one, calls>>
    PROVE  Serial'
<1>1. todo' = [todo EXCEPT ![c] = <<>>] /\ todo'[c] = <<>> /\ UNCHANGED <<arr, bound>>
  BY DEF Fail, Continue, Inv, Types
<1>2. InOrder(c)' /\ Holds(c)' /\ Counts'
  BY <1>1 DEF InOrder, Holds, Serial, Counts
<1> QED
  BY <1>1, <1>2, StillOnly, Quiet

\* A search by a positive identity returns its one entry or nothing.
LEMMA FindPositive ==
    ASSUME Inv, NEW k \in Nat, k > 0
    PROVE  \/ find_array(arr, k) = FIND_NOTHING
           \/ find_array(arr, k) \in Index /\ arr[find_array(arr, k)].iden = k
<1>1. check_unique(arr, k)
  BY DEF check_unique, Named, Inv, IdenUnique
<1>2. CASE Named(arr, k) = {}
  BY <1>1, <1>2 DEF find_array
<1>3. CASE Named(arr, k) # {}
  <2>1. find_array(arr, k) \in Named(arr, k)
    BY <1>1, <1>3 DEF find_array
  <2> QED
    BY <2>1 DEF Named
<1> QED
  BY <1>2, <1>3

\* What is found has a positive identity, and the array was initialized.
LEMMA FoundPositive ==
    ASSUME Inv, Initialized, Counts, NEW k \in Nat, Found(arr, k)
    PROVE  k > 0 /\ only_one > 0 /\ find_array(arr, k) \in Index /\ arr[find_array(arr, k)].iden = k
<1>1. 0 \in Index /\ 1 \in Index /\ FIND_MULTY \notin Index /\ FIND_NOTHING \notin Index
  BY MaxAssumption DEF Index, FIND_MULTY, FIND_NOTHING
<1>2. check_unique(arr, k) /\ Named(arr, k) # {}
  BY <1>1 DEF Found, find_array
<1>3. find_array(arr, k) \in Named(arr, k)
  BY <1>2 DEF find_array
<1>4. find_array(arr, k) \in Index /\ arr[find_array(arr, k)].iden = k
  BY <1>3 DEF Named
<1>5. k # 0
  <2> SUFFICES ASSUME k = 0 PROVE FALSE
    OBVIOUS
  <2>1. \A i \in Index : arr[i].iden = 0
    BY <1>4 DEF Initialized
  <2>2. 0 \in Named(arr, k) /\ 1 \in Named(arr, k)
    BY <1>1, <2>1 DEF Named
  <2> QED
    BY <1>2, <2>2 DEF check_unique
<1>6. only_one # 0
  BY <1>4, <1>5 DEF Initialized
<1> QED
  BY <1>4, <1>5, <1>6 DEF Counts

-----------------------------------------------------------------------------
(* The steps that only search, or begin a call *)

\* A call begins when no other is under way.
LEMMA CallSerial ==
    ASSUME Inv, Inv', Serial, NEW c \in Caller, Call(c), ~overlap'
    PROVE  Serial'
<1>1. PICK functions \in Api : todo' = [todo EXCEPT ![c] = functions]
  BY DEF Call
<1>2. /\ todo[c] = <<>> /\ calls < MaxCalls /\ calls' = calls + 1 /\ UNCHANGED <<arr, only_one, step, idx, claimed, bound>>
      /\ \A d \in Caller : d # c => todo[d] = <<>>
  BY DEF Call
<1>3. todo'[c] = functions /\ \A d \in Caller : d # c => todo'[d] = todo[d]
  BY <1>1 DEF Inv, Types
<1>4. Only(c) /\ Only(c)'
  BY <1>2, <1>3 DEF Only
<1>5. Counts'
  BY <1>2, WrapAssumption DEF Serial, Counts
<1>6. Holds(c)'
  BY <1>2 DEF Holds, Inv, InCall
<1>7. InOrder(c)'
  <2>1. functions[1] \notin Field /\ \A k \in 2..Len(functions) : functions[k] \in Field
    BY DEF Api, Field
  <2>2. only_one' < calls'
    BY <1>2 DEF Serial, Counts
  <2> QED
    BY <1>3, <2>1, <2>2 DEF InOrder
<1> QED
  BY <1>2, <1>4, <1>5, <1>6, <1>7, Quiet

\* thread_create_and_start finds its entry or fails.
LEMMA GetSerial == ASSUME Inv, Serial, NEW c \in Caller, GetByIden(c) PROVE Serial'
<1>1. todo[c] # <<>> /\ step[c] = "begin" /\ UNCHANGED <<only_one, calls>>
  BY DEF GetByIden, At
<1>2. CASE Found(arr, id[c]) /\ Done(c) /\ UNCHANGED <<arr, bound>>
  <2>1. only_one > 0
    BY <1>2, IdNat, FoundPositive DEF Serial
  <2>2. InOrder(c)' /\ Holds(c)' /\ todo' = [todo EXCEPT ![c] = Tail(todo[c])]
    BY <1>1, <1>2, <2>1, RestInOrder DEF Serial
  <2>3. Counts'
    BY <1>1 DEF Serial, Counts
  <2>4. Only(c) /\ Only(c)'
    BY <1>1, <2>2, StillOnly
  <2> QED
    BY <1>1, <1>2, <2>2, <2>3, <2>4, Quiet
<1> QED
  BY <1>1, <1>2, FailSerial DEF GetByIden

\* A caller goes on inside a registry function, and what it has found is so.
LEMMA GotoSerial ==
    ASSUME Inv, Serial, NEW c \in Caller, todo[c] # <<>>, step[c] # "name",
           UNCHANGED <<arr, bound, only_one, calls, todo>>, Holds(c)'
    PROVE  Serial'
<1>1. InOrder(c)' /\ Counts'
  BY DEF Serial, InOrder, Counts
<1>2. Only(c) /\ Only(c)'
  BY StillOnly
<1> QED
  BY <1>1, <1>2, Quiet

\* The tests before the search
LEMMA CheckSerial == ASSUME Inv, Serial, NEW c \in Caller, SetCheck(c) PROVE Serial'
<1>1. todo[c] # <<>> /\ step[c] = "begin" /\ UNCHANGED <<only_one, calls>>
  BY DEF SetCheck, At
<1>2. CASE Goto(c, "find", 0, FALSE) /\ UNCHANGED <<arr, bound>>
  <2>1. Holds(c)' /\ todo' = todo
    BY <1>2 DEF Goto, Holds, Inv, Types
  <2> QED
    BY <1>1, <1>2, <2>1, GotoSerial
<1> QED
  BY <1>1, <1>2, FailSerial DEF SetCheck

\* The entry that is found has the identity.
LEMMA FindSerial == ASSUME Inv, Serial, NEW c \in Caller, SetFind(c) PROVE Serial'
<1>0. \/ find_array(arr, id[c]) = FIND_NOTHING
      \/ find_array(arr, id[c]) \in Index /\ arr[find_array(arr, id[c])].iden = id[c]
  <2>1. id[c] > 0
    BY DEF SetFind, At, Inv, InCall
  <2> QED
    BY <2>1, IdNat, FindPositive
<1> DEFINE i == find_array(arr, id[c])
<1>1. /\ todo[c] # <<>> /\ step[c] = "find" /\ UNCHANGED <<arr, only_one, calls, bound>>
      /\ id[c] > 0 /\ id[c] \in Nat /\ i \in Int
  BY IdNat, FindType DEF SetFind, At, Inv, InCall
<1>2. 0 \in Index
  BY MaxAssumption DEF Index
<1>3. i = FIND_NOTHING \/ (i \in Index /\ arr[i].iden = id[c])
  BY <1>0
<1>4. \/ Goto(c, "full", 0, FALSE)
      \/ Goto(c, "set", i, FALSE) /\ i \in Index /\ arr[i].iden = id[c]
  BY <1>3 DEF SetFind
<1> HIDE DEF i
<1>5. Holds(c)' /\ todo' = todo
  BY <1>1, <1>2, <1>4 DEF Goto, Holds, Inv, Types
<1> QED
  BY <1>1, <1>5, GotoSerial

\* The entry that is offered is free.
LEMMA FullSerial == ASSUME Inv, Serial, NEW c \in Caller, check_full(c) PROVE Serial'
<1>1. todo[c] # <<>> /\ step[c] = "full" /\ UNCHANGED <<only_one, calls>> /\ idx[c] \in Index
  BY DEF check_full, At, Serial, Holds
<1>2. CASE /\ arr[idx[c]].iden < 0 /\ Goto(c, "set", idx[c], TRUE) /\ UNCHANGED <<arr, bound>>
  <2>1. Holds(c)' /\ todo' = todo
    BY <1>1, <1>2 DEF Goto, Holds, Inv, Types
  <2> QED
    BY <1>1, <1>2, <2>1, GotoSerial
<1>3. CASE /\ idx[c] + 1 \in Index
           /\ Goto(c, "full", idx[c] + 1, FALSE) /\ UNCHANGED <<arr, bound>>
  <2>1. Holds(c)' /\ todo' = todo
    BY <1>1, <1>3 DEF Goto, Holds, Inv, Types
  <2> QED
    BY <1>1, <1>3, <2>1, GotoSerial
<1> QED
  BY <1>1, <1>2, <1>3, FailSerial DEF check_full

\* The entry to release is that of the identity.
LEMMA DeleteSerial == ASSUME Inv, Serial, NEW c \in Caller, DeleteFind(c) PROVE Serial'
<1> DEFINE i == find_array(arr, id[c])
<1>1. todo[c] # <<>> /\ step[c] = "begin" /\ UNCHANGED <<only_one, calls>>
  BY DEF DeleteFind, At
<1>2. CASE Found(arr, id[c]) /\ Goto(c, "reset", i, FALSE) /\ UNCHANGED <<arr, bound>>
  <2>1. i \in Index /\ arr[i].iden = id[c] /\ id[c] > 0
    BY <1>2, IdNat, FoundPositive DEF Serial
  <2>2. Goto(c, "reset", i, FALSE)
    BY <1>2
  <2> HIDE DEF i
  <2>3. Holds(c)' /\ todo' = todo
    BY <1>2, <2>1, <2>2 DEF Goto, Holds, Inv, Types
  <2> QED
    BY <1>1, <1>2, <2>3, GotoSerial
<1> QED
  BY <1>1, <1>2, FailSerial DEF DeleteFind

-----------------------------------------------------------------------------
(* The steps that write the array *)

\* The first initialization finds nothing bound, and none comes round.
LEMMA InitSerial ==
    ASSUME MaxCalls < Wrap, Inv, Inv', Serial, NEW c \in Caller, frist_init_array(c)
    PROVE  Serial'
<1>1. /\ todo[c] # <<>> /\ todo[c][1] = "init" /\ step[c] = "begin" /\ Done(c)
      /\ only_one' = (only_one + 1) % Wrap /\ UNCHANGED <<calls, bound>>
  BY DEF frist_init_array, At
<1>2. /\ only_one \in Nat /\ calls \in Nat /\ only_one < calls /\ calls <= MaxCalls
      /\ MaxCalls \in Nat /\ Wrap \in Nat
  BY <1>1, WrapAssumption DEF Serial, Counts, InOrder
<1>3. only_one' = only_one + 1
  <2>1. only_one + 1 < Wrap /\ only_one + 1 \in Nat
    BY <1>2
  <2> QED
    BY <1>1, <1>2, <2>1
<1>4. Counts' /\ only_one' > 0
  BY <1>1, <1>2, <1>3 DEF Counts
<1>5. InOrder(c)' /\ Holds(c)' /\ todo' = [todo EXCEPT ![c] = Tail(todo[c])]
  BY <1>1, <1>4, RestInOrder DEF Serial
<1>6. Only(c) /\ Only(c)'
  BY <1>1, <1>5, StillOnly
<1>7. CASE only_one = 0 /\ arr' = [i \in Index |-> EmptyEntry]
  <2>1. \A i \in Index : arr'[i].iden = -1 /\ \A f \in Field : arr'[i].data[f] = None
    BY <1>7 DEF EmptyEntry, MGR_IDEN_DEFAULT
  <2>2. Clean'
    BY <2>1 DEF Clean
  <2>3. Initialized' /\ Bound'
    BY <1>1, <1>4, <1>7, <2>1 DEF Serial, Initialized, Bound
  <2> QED
    BY <1>4, <1>5, <1>6, <2>2, <2>3, OnlyOne
<1>8. CASE only_one > 0 /\ UNCHANGED arr
  <2>1. Initialized' /\ Bound'
    BY <1>1, <1>2, <1>4, <1>8 DEF Serial, Initialized, Bound
  <2>2. \A d \in Caller : ~(todo[d] # <<>> /\ step[d] = "name")
    BY <1>1, <1>6 DEF Only
  <2>3. Clean'
    BY <1>8, <2>2 DEF Serial, Clean
  <2> QED
    BY <1>4, <1>5, <1>6, <2>1, <2>3, OnlyOne
<1> QED
  BY <1>7, <1>8 DEF frist_init_array

\* What is stored is of the entry's identity, or of the one that it gets next.
LEMMA SetSerial == ASSUME Inv, Inv', Serial, NEW c \in Caller, SetField(c) PROVE Serial'
<1> DEFINE f0 == todo[c][1]
           i0 == idx[c]
<1>1. /\ todo[c] # <<>> /\ f0 \in Field /\ step[c] = "set" /\ UNCHANGED <<only_one, calls>>
      /\ i0 \in Index /\ id[c] > 0 /\ id[c] \in Nat
      /\ IF claimed[c] THEN arr[i0].iden < 0 ELSE arr[i0].iden = id[c]
  BY IdNat DEF SetField, At, Serial, Holds, Inv, InCall
<1>2. arr' = [arr EXCEPT ![i0].data[f0] = id[c]]
  BY <1>1 DEF SetField
<1> HIDE DEF f0, i0
<1>3. /\ \A i \in Index : arr'[i].iden = arr[i].iden
      /\ \A i \in Index : \A f \in Field :
             arr'[i].data[f] = IF i = i0 /\ f = f0 THEN id[c] ELSE arr[i].data[f]
  BY <1>1, <1>2 DEF Inv, Types
<1>4. Counts' /\ only_one > 0
  BY <1>1 DEF Serial, Counts, InOrder, f0
<1>5. \A d \in Caller : todo[d] # <<>> => d = c
  BY <1>1 DEF Serial, Alone
<1>6. \A i \in Index : \A f \in Field :
          arr[i].data[f] = None \/ (arr[i].iden > 0 /\ arr[i].data[f] = arr[i].iden)
  BY <1>1, <1>5 DEF Serial, Clean
<1>7. CASE claimed[c] /\ Goto(c, "name", idx[c], TRUE) /\ UNCHANGED bound
  <2>1. /\ todo'[c] = todo[c] /\ step'[c] = "name" /\ idx'[c] = i0 /\ id'[c] = id[c]
        /\ todo' = todo
    BY <1>7 DEF Goto, Inv, Types, i0
  <2>2. InOrder(c)' /\ Holds(c)'
    BY <1>1, <1>3, <1>7, <2>1 DEF Serial, InOrder, Holds
  <2>3. Clean'
    <3> SUFFICES ASSUME NEW i \in Index, NEW f \in Field
                 PROVE  \/ arr'[i].data[f] = None
                        \/ arr'[i].iden > 0 /\ arr'[i].data[f] = arr'[i].iden
                        \/ \E d \in Caller : /\ todo'[d] # <<>> /\ step'[d] = "name"
                                             /\ idx'[d] = i /\ arr'[i].data[f] = id'[d]
      BY DEF Clean
    <3>1. CASE i = i0 /\ f = f0
      BY <1>1, <1>3, <2>1, <3>1
    <3>2. CASE ~(i = i0 /\ f = f0)
      BY <1>3, <1>6, <3>2
    <3> QED
      BY <3>1, <3>2
  <2>4. Initialized' /\ Bound'
    BY <1>1, <1>3, <1>7 DEF Serial, Initialized, Bound
  <2>5. Only(c)'
    BY <1>1, <2>1, StillOnly
  <2> QED
    BY <1>4, <2>2, <2>3, <2>4, <2>5, OnlyOne
<1>8. CASE ~claimed[c] /\ Done(c) /\ bound' = bound \cup {id[c]}
  <2>1. InOrder(c)' /\ Holds(c)' /\ todo' = [todo EXCEPT ![c] = Tail(todo[c])]
    BY <1>1, <1>4, <1>8, RestInOrder DEF Serial
  <2>2. Clean'
    <3> SUFFICES ASSUME NEW i \in Index, NEW f \in Field
                 PROVE  arr'[i].data[f] = None \/ (arr'[i].iden > 0 /\ arr'[i].data[f] = arr'[i].iden)
      BY DEF Clean
    <3> QED
      BY <1>1, <1>3, <1>6, <1>8
  <2>3. Initialized'
    BY <1>1, <1>3, <1>4 DEF Serial, Initialized
  <2>4. Bound'
    BY <1>1, <1>3, <1>8 DEF Serial, Bound
  <2>5. Only(c)'
    BY <1>1, <2>1, StillOnly
  <2> QED
    BY <1>4, <2>1, <2>2, <2>3, <2>4, <2>5, OnlyOne
<1> QED
  BY <1>7, <1>8 DEF SetField

\* The entry that is named was free, so that nobody loses one.
LEMMA NameSerial == ASSUME Inv, Inv', Serial, NEW c \in Caller, set_iden(c) PROVE Serial'
<1> DEFINE i0 == idx[c]
<1>1. /\ todo[c] # <<>> /\ todo[c][1] \in Field /\ step[c] = "name" /\ UNCHANGED <<only_one, calls>>
      /\ i0 \in Index /\ id[c] > 0 /\ id[c] \in Nat /\ Done(c)
      /\ arr[i0].iden < 0 /\ arr[i0].iden \in Int
      /\ arr' = [arr EXCEPT ![i0].iden = id[c]] /\ bound' = bound \cup {id[c]}
  BY IdNat DEF set_iden, At, Serial, Holds, Inv, InCall, Types
<1> HIDE DEF i0
<1>2. \A i \in Index : /\ arr'[i].iden = IF i = i0 THEN id[c] ELSE arr[i].iden
                       /\ \A f \in Field : arr'[i].data[f] = arr[i].data[f]
  BY <1>1 DEF Inv, Types
<1>3. Counts' /\ only_one > 0
  BY <1>1 DEF Serial, Counts, InOrder
<1>4. InOrder(c)' /\ Holds(c)' /\ todo' = [todo EXCEPT ![c] = Tail(todo[c])]
  BY <1>1, <1>3, RestInOrder DEF Serial
<1>5. \A d \in Caller : todo[d] # <<>> => d = c
  BY <1>1 DEF Serial, Alone
<1>6. \A i \in Index : \A f \in Field :
          \/ arr[i].data[f] = None
          \/ arr[i].iden > 0 /\ arr[i].data[f] = arr[i].iden
          \/ i = i0 /\ arr[i].data[f] = id[c]
  BY <1>5 DEF Serial, Clean, i0
<1>7. Clean'
  <2> SUFFICES ASSUME NEW i \in Index, NEW f \in Field
               PROVE  arr'[i].data[f] = None \/ (arr'[i].iden > 0 /\ arr'[i].data[f] = arr'[i].iden)
    BY DEF Clean
  <2>1. CASE i = i0
    BY <1>1, <1>2, <1>6, <2>1
  <2>2. CASE i # i0
    BY <1>2, <1>6, <2>2
  <2> QED
    BY <2>1, <2>2
<1>8. Initialized'
  BY <1>1, <1>2, <1>3 DEF Serial, Initialized
<1>9. Bound'
  <2> SUFFICES ASSUME NEW k \in bound' PROVE k > 0 /\ k \in Nat /\ \E i \in Index : arr'[i].iden = k
    BY DEF Bound
  <2>1. CASE k = id[c]
    BY <1>1, <1>2, <2>1
  <2>2. CASE k \in bound
    <3>1. k > 0 /\ k \in Nat
      BY <2>2 DEF Serial, Bound
    <3>2. PICK i \in Index : arr[i].iden = k
      BY <2>2 DEF Serial, Bound
    <3>3. i # i0
      BY <1>1, <3>1, <3>2
    <3> QED
      BY <1>2, <3>1, <3>2, <3>3
  <2> QED
    BY <1>1, <2>1, <2>2
<1>10. Only(c)'
  BY <1>1, <1>4, StillOnly
<1> QED
  BY <1>3, <1>4, <1>7, <1>8, <1>9, <1>10, OnlyOne

\* What is released is the entry of the identity that is no longer bound.
LEMMA ResetSerial == ASSUME Inv, Inv', Serial, NEW c \in Caller, init_index(c) PROVE Serial'
<1> DEFINE i0 == idx[c]
<1>1. /\ todo[c] # <<>> /\ step[c] = "reset" /\ UNCHANGED <<only_one, calls>>
      /\ i0 \in Index /\ arr[i0].iden = id[c] /\ id[c] > 0 /\ id[c] \in Nat /\ Done(c)
      /\ arr' = [arr EXCEPT ![i0] = EmptyEntry] /\ bound' = bound \ {id[c]}
  BY IdNat DEF init_index, At, Serial, Holds
<1> HIDE DEF i0
<1>2. \A i \in Index : arr'[i] = IF i = i0 THEN EmptyEntry ELSE arr[i]
  BY <1>1 DEF Inv, Types
<1>3. EmptyEntry.iden = -1 /\ \A f \in Field : EmptyEntry.data[f] = None
  BY DEF EmptyEntry, MGR_IDEN_DEFAULT
<1>4. Counts' /\ only_one > 0
  <2>1. only_one # 0
    BY <1>1 DEF Serial, Initialized
  <2> QED
    BY <1>1, <2>1 DEF Serial, Counts
<1>5. InOrder(c)' /\ Holds(c)' /\ todo' = [todo EXCEPT ![c] = Tail(todo[c])]
  BY <1>1, <1>4, RestInOrder DEF Serial
<1>6. \A d \in Caller : todo[d] # <<>> => d = c
  BY <1>1 DEF Serial, Alone
<1>7. \A i \in Index : \A f \in Field :
          arr[i].data[f] = None \/ (arr[i].iden > 0 /\ arr[i].data[f] = arr[i].iden)
  BY <1>1, <1>6 DEF Serial, Clean
<1>8. Clean'
  <2> SUFFICES ASSUME NEW i \in Index, NEW f \in Field
               PROVE  arr'[i].data[f] = None \/ (arr'[i].iden > 0 /\ arr'[i].data[f] = arr'[i].iden)
    BY DEF Clean
  <2> QED
    BY <1>2, <1>3, <1>7
<1>9. Initialized'
  BY <1>1, <1>2, <1>3, <1>4 DEF Serial, Initialized
<1>10. Bound'
  BY <1>1, <1>2 DEF Serial, Bound
<1>11. Only(c)'
  BY <1>1, <1>5, StillOnly
<1> QED
  BY <1>4, <1>5, <1>8, <1>9, <1>10, <1>11, OnlyOne

\* In static storage nothing is bound, and no call has begun.
LEMMA InitSerialInv == ASSUME Init PROVE SerialInv
<1>1. \A i \in Index : arr[i].iden = 0 /\ \A f \in Field : arr[i].data[f] = None
  BY DEF Init, EmptyEntry
<1>2. \A c \in Caller : todo[c] = <<>>
  BY DEF Init
<1>3. Alone /\ \A c \in Caller : InOrder(c) /\ Holds(c)
  BY <1>2 DEF Alone, InOrder, Holds
<1>4. Counts /\ Initialized /\ Bound /\ Clean
  BY <1>1, WrapAssumption DEF Init, Counts, Initialized, Bound, Clean
<1> QED
  BY <1>3, <1>4, InitInv DEF SerialInv, Serial

\* As long as calls follow each other, every step keeps the invariant.
LEMMA StepSerialInv ==
    ASSUME MaxCalls < Wrap, SerialInv, [Next]_vars
    PROVE  SerialInv'
<1> SUFFICES ASSUME ~overlap' PROVE Inv' /\ Serial'
  BY DEF SerialInv
<1>1. ~overlap
  BY DEF Next, Call, frist_init_array, GetByIden, SetCheck, SetFind, check_full, SetField, set_iden,
         DeleteFind, init_index, vars
<1>2. Inv /\ Serial
  BY <1>1 DEF SerialInv
<1>3. ASSUME NEW c \in Caller, set_iden(c) PROVE Sole(c)
  BY <1>2, <1>3 DEF set_iden, At, Sole, Claiming, Serial, Alone
<1>4. Inv'
  BY <1>2, <1>3, StepInv
<1>5. ASSUME NEW c \in Caller,
             \/ Call(c) \/ frist_init_array(c) \/ GetByIden(c)
             \/ SetCheck(c) \/ SetFind(c) \/ check_full(c) \/ SetField(c) \/ set_iden(c)
             \/ DeleteFind(c) \/ init_index(c)
      PROVE  Serial'
  BY <1>2, <1>4, <1>5, CallSerial, InitSerial, GetSerial, CheckSerial, FindSerial, FullSerial,
     SetSerial, NameSerial, DeleteSerial, ResetSerial
<1>6. CASE UNCHANGED vars
  <2>1. UNCHANGED <<arr, only_one, todo, step, id, idx, claimed, calls, bound>>
    BY <1>6 DEF vars, control
  <2>2. Alone' /\ Counts' /\ Initialized' /\ Bound' /\ Clean'
    BY <1>2, <2>1 DEF Serial, Alone, Counts, Initialized, Bound, Clean
  <2>3. ASSUME NEW c \in Caller PROVE InOrder(c)' /\ Holds(c)'
    <3>1. InOrder(c) /\ Holds(c)
      BY <1>2 DEF Serial
    <3> QED
      BY <2>1, <3>1 DEF InOrder, Holds
  <2> QED
    BY <1>4, <2>2, <2>3 DEF Serial
<1> QED
  BY <1>4, <1>5, <1>6 DEF Next

\* In fewer calls than only_one has values: while calls follow each other, even those
\* of callers that share identities, an identity that was bound names its entry until
\* it is released, and the data there is its own, in an array of any size, full or not
\* (mgr_ref_iden.cpp:18-203, mgr_data.cpp:24-53).
THEOREM CallsInTurnKeepBindings == ASSUME MaxCalls < Wrap PROVE Spec => []SerialBindingKept
<1>1. SerialInv => SerialBindingKept
  <2> SUFFICES ASSUME Inv, Serial PROVE BindingKept /\ DataIsOwn
    BY DEF SerialInv, SerialBindingKept
  <2>1. BindingKept
    <3> SUFFICES ASSUME NEW k \in bound PROVE find_array(arr, k) \in Index
      BY DEF BindingKept, Found
    <3>1. k > 0 /\ k \in Nat /\ \E i \in Index : arr[i].iden = k
      BY DEF Serial, Bound
    <3>2. find_array(arr, k) # FIND_NOTHING
      BY <3>1, NothingFound
    <3> QED
      BY <3>1, <3>2, FindPositive
  <2>2. DataIsOwn
    <3> SUFFICES ASSUME NEW i \in Index, arr[i].iden > 0, NEW f \in Field
                 PROVE  arr[i].data[f] \in {None, arr[i].iden}
      BY DEF DataIsOwn
    <3>1. ASSUME NEW c \in Caller, todo[c] # <<>>, step[c] = "name", idx[c] = i PROVE FALSE
      <4>1. arr[i].iden < 0 /\ arr[i].iden \in Int
        BY <3>1 DEF Serial, Holds, Inv, Types
      <4> QED
        BY <4>1
    <3> QED
      BY <3>1 DEF Serial, Clean
  <2> QED
    BY <2>1, <2>2
<1> QED
  BY <1>1, InitSerialInv, StepSerialInv, PTL DEF Spec
=============================================================================
