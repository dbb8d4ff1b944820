-------------------------- MODULE ThreadLifeProofs --------------------------
(***************************************************************************)
(* The life of libThread's workers, proved for any number of identities,   *)
(* entries and workers.  The invariant Inv says whose an entry is: thread  *)
(* ids in it are of workers whose parameter points there, and, while no    *)
(* identity is started again beside its worker, a worker that lives has an *)
(* entry and an identity of its own.                                       *)
(***************************************************************************)
EXTENDS ThreadLife, WellFoundedInduction, TLAPS

Data == [iden : Iden \cup {MGR_IDEN_DEFAULT}, tid : Worker \cup {0},
         thread_id : Worker \cup {0}, stop : BOOLEAN, pause : BOOLEAN]

Types ==
    /\ arr \in [Index -> Data]
    /\ phase \in [Worker -> {"none", "created", "sleeping", "check_exit", "check_pause",
                             "work", "returned", "joined"}]
    /\ param \in [Worker -> Index \cup {FIND_NOTHING}]
    /\ startedAs \in [Worker -> Iden \cup {None}]
    /\ new \in Worker \cup {0} /\ id \in Iden \cup {0} /\ released \in Iden \cup {None}
    /\ crash \in BOOLEAN /\ restarted \in BOOLEAN

\* An identity names one entry.
Unique == \A i, j \in Index : arr[i].iden = arr[j].iden /\ arr[i].iden # MGR_IDEN_DEFAULT => i = j

\* The thread ids in an entry are of workers whose parameter it is, or was.
Owned ==
    \A i \in Index : /\ arr[i].tid # 0 => param[arr[i].tid] = i
                     /\ arr[i].thread_id # 0 => param[arr[i].thread_id] = i

\* Only a worker that was created has an entry and an identity.
Created ==
    \A w \in Worker : IF phase[w] = "none" THEN param[w] = FIND_NOTHING
                      ELSE param[w] \in Index /\ startedAs[w] \in Iden

\* The entry of a call stays while it goes on; the worker it has created is of it.
Calling ==
    /\ pc # "ready" => id \in Iden /\ released = None /\ \E i \in Index : arr[i].iden = id
    /\ pc \in {"set_tid", "let_go"} => /\ new \in Worker /\ Live(new) /\ startedAs[new] = id
                                       /\ arr[param[new]].iden = id

\* While no identity is started again: a worker has an entry and an identity of its
\* own; one at work is recorded in it; and none is left where a call begins, is
\* about to give up the entry, or has released it.
Apart ==
    /\ \A w \in Worker : Live(w) => /\ arr[param[w]].iden = startedAs[w]
                                    /\ phase[w] = "work" => arr[param[w]].tid = w
                                    /\ startedAs[w] # released
    /\ \A v, w \in Worker : Live(v) /\ Live(w) /\ startedAs[v] = startedAs[w] => v = w
    /\ pc \in {"ready_attr", "start", "hold", "create", "reset"} =>
           \A w \in Worker : Live(w) => startedAs[w] # id

Inv == Types /\ Unique /\ Owned /\ Created /\ Calling /\ (~restarted => Apart)

-----------------------------------------------------------------------------
(* What the searches return *)

\* Min of a set of numbers is one of them.
LEMMA LeastIsOne == ASSUME NEW S, S \subseteq Nat, S # {} PROVE Min(S) \in S
<1> DEFINE R == {s \in Nat \X Nat : s[1] < s[2]}
<1>1. IsWellFoundedOn(R, Nat)
  BY NatLessThanWellFounded DEF OpToRel
<1>2. PICK n \in S : \A m \in S : <<m, n>> \notin R
  <2> HIDE DEF R
  <2> QED
    BY <1>1, WFMin
<1>3. \A m \in S : n \in Nat /\ m \in Nat /\ ~(m < n)
  BY <1>2
<1>4. \A m \in S : n <= m
  BY <1>3
<1> QED
  BY <1>4 DEF Min

\* What the searches return for a failure is no index.
LEMMA Indices == Index \subseteq Nat /\ FIND_NOTHING \notin Index /\ FIND_MULTY \notin Index
BY MaxAssumption DEF Index, FIND_NOTHING, FIND_MULTY

\* A search by identity finds its one entry, or nothing.
LEMMA FindOne ==
    ASSUME Unique, NEW k \in Iden
    PROVE  /\ \A i \in Index : arr[i].iden = k => find_array(arr, k) = i
           /\ Found(arr, k) <=> \E i \in Index : arr[i].iden = k
<1>1. k \in Nat /\ k >= 0 /\ k # MGR_IDEN_DEFAULT
  BY LifeAssumption DEF MGR_IDEN_DEFAULT
<1>2. Named(arr, k) = {i \in Index : arr[i].iden = k}
  BY <1>1 DEF Named
<1>3. check_unique(arr, k)
  BY <1>1, <1>2 DEF check_unique, Unique
<1>4. ASSUME NEW i \in Index, arr[i].iden = k PROVE find_array(arr, k) = i
  <2>1. Named(arr, k) = {i}
    BY <1>1, <1>2, <1>4 DEF Unique
  <2> QED
    BY <1>3, <2>1 DEF find_array
<1>5. (\A i \in Index : arr[i].iden # k) => find_array(arr, k) = FIND_NOTHING
  BY <1>2, <1>3 DEF find_array
<1> QED
  BY <1>4, <1>5, Indices DEF Found

\* The entry of the call that is under way
LEMMA TheEntry ==
    ASSUME Inv, pc # "ready"
    PROVE  Entry \in Index /\ arr[Entry].iden = id /\ id \in Iden
<1>1. id \in Iden /\ \E i \in Index : arr[i].iden = id
  BY DEF Inv, Calling
<1> QED
  BY <1>1, FindOne DEF Inv, Entry

\* The entry that a worker looks at is the one of its parameter, and is found when it
\* is recorded there and still has its identity.
LEMMA ControlIs ==
    ASSUME Inv, NEW w \in Worker
    PROVE  /\ Control(w) \in Index => param[w] \in Index /\ arr[param[w]].tid = w
           /\ param[w] \in Index /\ arr[param[w]].tid = w /\ arr[param[w]].iden \in Iden
                  => Control(w) = param[w]
<1> DEFINE mine == {i \in Index : w # MGR_TID_DEFAULT /\ arr[i].tid = w}
<1>1. w # 0 /\ w # MGR_TID_DEFAULT
  BY LifeAssumption DEF Worker, MGR_TID_DEFAULT
<1>2. \A i \in mine : i = param[w] /\ i \in Index /\ arr[i].tid = w
  BY <1>1 DEF Inv, Owned
<1>3. mine = {} => Control(w) = FIND_NOTHING
  BY DEF Control, find_index_by_tid
<1>4. ASSUME mine # {}
      PROVE  /\ param[w] \in Index /\ arr[param[w]].tid = w
             /\ Control(w) = find_array(arr, arr[param[w]].iden)
  <2>1. mine = {param[w]} /\ param[w] \in Index /\ arr[param[w]].tid = w
    BY <1>2, <1>4
  <2>2. param[w] \in Nat
    BY <2>1, Indices
  <2>3. Max(mine) = param[w]
    <3> HIDE DEF mine
    <3> QED
      BY <2>1, <2>2 DEF Max
  <2>4. find_index_by_tid(arr, w) = param[w]
    BY <1>4, <2>3 DEF find_index_by_tid
  <2>5. param[w] # FIND_NOTHING
    BY <2>1, Indices
  <2> QED
    BY <2>1, <2>4, <2>5 DEF Control
<1>5. param[w] \in Index /\ arr[param[w]].tid = w => mine # {}
  BY <1>1
<1> HIDE DEF mine
<1>6. ASSUME Control(w) \in Index PROVE param[w] \in Index /\ arr[param[w]].tid = w
  BY <1>3, <1>4, <1>6, Indices
<1>7. ASSUME param[w] \in Index, arr[param[w]].tid = w, arr[param[w]].iden \in Iden
      PROVE  Control(w) = param[w]
  BY <1>4, <1>5, <1>7, FindOne DEF Inv
<1> QED
  BY <1>6, <1>7

-----------------------------------------------------------------------------
(* The steps of the user *)

\* Only flags of the entries change.
SameNames == \A i \in Index : /\ arr'[i].iden = arr[i].iden /\ arr'[i].tid = arr[i].tid
                              /\ arr'[i].thread_id = arr[i].thread_id

\* A step that changes flags only keeps the invariant.
LEMMA FlagsKeep ==
    ASSUME Inv, Types', SameNames, UNCHANGED <<phase, param, startedAs, restarted>>,
           released' \in {None, released}, Calling',
           ~restarted /\ pc' \in {"ready_attr", "start", "hold", "create", "reset"} =>
               \A w \in Worker : Live(w) => startedAs[w] # id'
    PROVE  Inv'
<1>1. Unique' /\ Owned'
  BY DEF Inv, Unique, Owned, SameNames
<1>2. Created'
  BY DEF Inv, Created
<1>3. ASSUME ~restarted PROVE Apart'
  <2>1. Apart
    BY <1>3 DEF Inv
  <2>2. \A w \in Worker : Live(w)' <=> Live(w)
    BY DEF Live
  <2>3. \A w \in Worker : Live(w) => param[w] \in Index /\ startedAs[w] # None
    BY LifeAssumption DEF Live, Inv, Created
  <2>4. ASSUME NEW w \in Worker, Live(w)
        PROVE  /\ arr'[param[w]].iden = startedAs[w]
               /\ phase[w] = "work" => arr'[param[w]].tid = w
               /\ startedAs[w] # released'
    BY <2>1, <2>3, <2>4 DEF Apart, SameNames
  <2> QED
    BY <1>3, <2>1, <2>2, <2>4 DEF Apart
<1> QED
  BY <1>1, <1>2, <1>3 DEF Inv

\* A flag of an entry is set.
LEMMA EntryFlags ==
    ASSUME Inv, NEW e \in Index, NEW flag \in BOOLEAN,
           arr' = [arr EXCEPT ![e].pause = flag] \/ arr' = [arr EXCEPT ![e].stop = flag]
    PROVE  arr' \in [Index -> Data] /\ SameNames
<1>1. arr \in [Index -> Data] /\ arr[e] \in Data
  BY DEF Inv, Types
<1>2. CASE arr' = [arr EXCEPT ![e].pause = flag]
  <2>1. arr' = [arr EXCEPT ![e] = [arr[e] EXCEPT !.pause = flag]]
    BY <1>2
  <2>2. [arr[e] EXCEPT !.pause = flag] \in Data
    BY <1>1 DEF Data
  <2> QED
    BY <1>1, <2>1, <2>2 DEF SameNames, Data
<1>3. CASE arr' = [arr EXCEPT ![e].stop = flag]
  <2>1. arr' = [arr EXCEPT ![e] = [arr[e] EXCEPT !.stop = flag]]
    BY <1>3
  <2>2. [arr[e] EXCEPT !.stop = flag] \in Data
    BY <1>1 DEF Data
  <2> QED
    BY <1>1, <2>1, <2>2 DEF SameNames, Data
<1> QED
  BY <1>2, <1>3

\* Between two calls nothing is asked of a call.
LEMMA ReadyCalling == pc' = "ready" => Calling'
BY DEF Calling

\* A call goes on with its entry and its new worker.
LEMMA CallGoesOn ==
    ASSUME Inv, pc # "ready", SameNames, UNCHANGED <<phase, param, startedAs, id, released, new>>,
           pc' \in {"start", "hold", "create", "join"} \/ (pc = "set_tid" /\ pc' = "let_go")
    PROVE  Calling'
<1>1. id' \in Iden /\ released' = None /\ \E i \in Index : arr'[i].iden = id'
  BY DEF Inv, Calling, SameNames
<1>2. CASE pc' \in {"start", "hold", "create", "join"}
  BY <1>1, <1>2 DEF Calling
<1>3. CASE pc = "set_tid" /\ pc' = "let_go"
  <2>1. /\ new \in Worker /\ Live(new) /\ startedAs[new] = id /\ arr[param[new]].iden = id
        /\ param[new] \in Index
    BY <1>3 DEF Inv, Calling, Created, Live
  <2>2. new' \in Worker /\ Live(new)' /\ startedAs'[new'] = id' /\ arr'[param'[new']].iden = id'
    BY <2>1 DEF Live, SameNames
  <2> QED
    BY <1>1, <2>2 DEF Calling
<1> QED
  BY <1>2, <1>3

\* An array that does not change changes no names.
LEMMA SameSame == UNCHANGED arr => SameNames
BY DEF SameNames

\* The steps of a call that set flags of its entry, or nothing
LEMMA AttrFlagHoldKeep ==
    ASSUME Inv, ReadyAttr \/ StartFlag \/ HoldNew \/ ReleaseStop
    PROVE  Inv'
<1>1. /\ pc # "ready" /\ UNCHANGED <<phase, param, new, crash, startedAs, restarted>>
      /\ \/ pc' = "ready" /\ id' = 0 /\ released' = None
         \/ /\ UNCHANGED <<id, released>>
            /\ \/ pc' = "join"
               \/ pc \in {"ready_attr", "start", "hold"} /\ pc' \in {"start", "hold", "create"}
  BY DEF ReadyAttr, StartFlag, HoldNew, ReleaseStop, At, Goto, Return
<1>2. arr' \in [Index -> Data] /\ SameNames
  <2>1. CASE ReadyAttr
    BY <2>1, SameSame DEF ReadyAttr, Inv, Types
  <2>2. CASE StartFlag \/ HoldNew \/ ReleaseStop
    <3>1. PICK flag \in BOOLEAN :
              arr' = [arr EXCEPT ![Entry].pause = flag] \/ arr' = [arr EXCEPT ![Entry].stop = flag]
      BY <2>2 DEF StartFlag, HoldNew, ReleaseStop
    <3> QED
      BY <1>1, <3>1, TheEntry, EntryFlags
  <2> QED
    BY <2>1, <2>2
<1>3. Types'
  BY <1>1, <1>2 DEF Inv, Types
<1>4. Calling'
  BY <1>1, <1>2, ReadyCalling, CallGoesOn
<1>5. ~restarted /\ pc' \in {"ready_attr", "start", "hold", "create", "reset"} =>
               \A w \in Worker : Live(w) => startedAs[w] # id'
  BY <1>1 DEF Inv, Apart
<1> QED
  BY <1>1, <1>2, <1>3, <1>4, <1>5, FlagsKeep

\* The new worker is let go, and the call ends.
LEMMA LetGoKeeps == ASSUME Inv, LetGo PROVE Inv'
<1>1. /\ pc # "ready" /\ UNCHANGED <<phase, param, crash, startedAs, restarted>>
      /\ pc' = "ready" /\ id' = 0 /\ released' = None /\ new' = 0
      /\ arr' = [arr EXCEPT ![Entry].pause = FALSE]
  BY DEF LetGo, At, Return
<1>2. arr' \in [Index -> Data] /\ SameNames
  BY <1>1, TheEntry, EntryFlags
<1>3. Types'
  BY <1>1, <1>2 DEF Inv, Types
<1> QED
  BY <1>1, <1>2, <1>3, ReadyCalling, FlagsKeep

\* thread_pause, thread_resume and the beginning of a release
LEMMA PauseKeeps ==
    ASSUME Inv, NEW identify \in Iden,
           thread_pause(identify) \/ thread_resume(identify) \/ ReleaseResume(identify)
    PROVE  Inv'
<1>1. /\ UNCHANGED <<phase, param, new, crash, startedAs, restarted>>
      /\ \/ /\ pc' = "ready" /\ id' = 0 /\ released' = None /\ UNCHANGED arr
         \/ /\ Found(arr, identify)
            /\ \E flag \in BOOLEAN : arr' = [arr EXCEPT ![find_array(arr, identify)].pause = flag]
            /\ released' = None
            /\ \/ pc' = "ready" /\ id' = 0
               \/ pc' = "stop" /\ id' = identify
  BY DEF thread_pause, thread_resume, ReleaseResume, SetPause, Return, Begin
<1>2. arr' \in [Index -> Data] /\ SameNames
  <2>1. CASE UNCHANGED arr
    BY <2>1, SameSame DEF Inv, Types
  <2>2. ASSUME Found(arr, identify), NEW flag \in BOOLEAN,
               arr' = [arr EXCEPT ![find_array(arr, identify)].pause = flag]
        PROVE  arr' \in [Index -> Data] /\ SameNames
    BY <2>2, EntryFlags DEF Found
  <2> QED
    BY <1>1, <2>1, <2>2
<1>3. Types'
  BY <1>1, <1>2 DEF Inv, Types
<1>4. Calling'
  <2>1. CASE pc' = "ready"
    BY <2>1, ReadyCalling
  <2>2. CASE pc' # "ready"
    <3>1. \E i \in Index : arr[i].iden = identify
      BY <1>1, <2>2, FindOne DEF Inv
    <3> QED
      BY <1>1, <1>2, <2>2, <3>1 DEF Calling, SameNames
  <2> QED
    BY <2>1, <2>2
<1>5. pc' \notin {"ready_attr", "start", "hold", "create", "reset"} /\ released' = None
  BY <1>1
<1> QED
  BY <1>1, <1>2, <1>3, <1>4, <1>5, FlagsKeep

\* An identity takes its own entry, or one that is free.
LEMMA ReadyParamKeeps == ASSUME Inv, NEW identify \in Iden, ReadyParam(identify) PROVE Inv'
<1> DEFINE entry == IF Found(arr, identify) THEN {find_array(arr, identify)} ELSE Free(arr)
           e == Min(entry)
<1>1. /\ UNCHANGED <<phase, param, new, crash, startedAs>> /\ pc = "ready"
      /\ restarted' = (restarted \/ \E w \in Worker : startedAs[w] = identify /\ Live(w))
  BY DEF ReadyParam, At
<1>2. CASE entry = {}
  <2>1. pc' = "ready" /\ id' = 0 /\ released' = None /\ UNCHANGED arr
    BY <1>2 DEF ReadyParam, Return
  <2>2. Types' /\ Unique' /\ Owned' /\ Created'
    BY <1>1, <2>1 DEF Inv, Types, Unique, Owned, Created
  <2>3. ASSUME ~restarted' PROVE Apart'
    <3>1. Apart /\ \A w \in Worker : Live(w) => startedAs[w] # None
      BY <1>1, <2>3, LifeAssumption DEF Inv, Created, Live
    <3> QED
      BY <1>1, <2>1, <3>1 DEF Apart, Live
  <2> QED
    BY <2>1, <2>2, <2>3, ReadyCalling DEF Inv
<1>3. CASE entry # {}
  <2>1. /\ pc' = "ready_attr" /\ id' = identify /\ released' = None
        /\ arr' = [arr EXCEPT ![e].thread_id = 0, ![e].iden = identify]
    BY <1>3 DEF ReadyParam, Begin
  <2>2. e \in entry /\ e \in Index
    <3>1. entry \subseteq Index
      BY DEF Found, Free
    <3>2. entry \subseteq Nat
      BY <3>1, Indices
    <3> HIDE DEF entry
    <3> QED
      BY <1>3, <3>1, <3>2, LeastIsOne
  <2>3. /\ \A i \in Index : i # e => arr[i].iden # identify
        /\ arr[e].iden = identify \/ arr[e].iden = MGR_IDEN_DEFAULT
    <3>1. CASE Found(arr, identify)
      <4>1. PICK i \in Index : arr[i].iden = identify /\ find_array(arr, identify) = i
        BY <3>1, FindOne DEF Inv
      <4>2. e = i
        BY <2>2, <3>1, <4>1
      <4>3. identify # MGR_IDEN_DEFAULT
        BY LifeAssumption DEF MGR_IDEN_DEFAULT
      <4> QED
        BY <4>1, <4>2, <4>3 DEF Inv, Unique
    <3>2. CASE ~Found(arr, identify)
      <4>1. \A i \in Index : arr[i].iden # identify
        BY <3>2, FindOne DEF Inv
      <4>2. arr[e].iden < 0 /\ arr[e].iden \in Iden \cup {MGR_IDEN_DEFAULT}
        BY <2>2, <3>2 DEF Free, Inv, Types, Data
      <4>3. arr[e].iden = MGR_IDEN_DEFAULT
        BY <4>2, LifeAssumption
      <4> QED
        BY <4>1, <4>3
    <3> QED
      BY <3>1, <3>2
  <2> HIDE DEF e, entry
  <2>4. /\ arr \in [Index -> Data] /\ arr[e] \in Data
        /\ arr' = [arr EXCEPT ![e] = [arr[e] EXCEPT !.thread_id = 0, !.iden = identify]]
    BY <2>1, <2>2 DEF Inv, Types
  <2>5. /\ arr' \in [Index -> Data]
        /\ \A i \in Index : /\ arr'[i].tid = arr[i].tid
                            /\ arr'[i].thread_id = IF i = e THEN 0 ELSE arr[i].thread_id
                            /\ arr'[i].iden = IF i = e THEN identify ELSE arr[i].iden
    BY <2>2, <2>4 DEF Data
  <2>6. Types'
    BY <1>1, <2>1, <2>5 DEF Inv, Types
  <2>7. Unique' /\ Owned' /\ Created'
    BY <1>1, <2>3, <2>5 DEF Inv, Unique, Owned, Created
  <2>8. Calling'
    BY <2>1, <2>2, <2>5 DEF Calling
  <2>9. ASSUME ~restarted' PROVE Apart'
    <3>1. Apart /\ \A w \in Worker : Live(w) => startedAs[w] # identify
      BY <1>1, <2>9 DEF Inv
    <3>2. \A w \in Worker : Live(w) => param[w] \in Index /\ startedAs[w] \in Iden
      BY DEF Inv, Created, Live
    <3>3. \A w \in Worker : Live(w) => startedAs[w] # None /\ startedAs[w] # MGR_IDEN_DEFAULT
      BY <3>2, LifeAssumption DEF MGR_IDEN_DEFAULT
    <3>4. \A w \in Worker : Live(w) => param[w] # e
      BY <2>3, <3>1, <3>3 DEF Apart
    <3>5. \A w \in Worker : Live(w)' <=> Live(w)
      BY <1>1 DEF Live
    <3> QED
      BY <1>1, <2>1, <2>5, <3>1, <3>2, <3>3, <3>4, <3>5 DEF Apart
  <2> QED
    BY <2>6, <2>7, <2>8, <2>9 DEF Inv
<1> QED
  BY <1>2, <1>3

\* A worker that never was gets the entry and the identity of the call.
LEMMA CreateKeeps == ASSUME Inv, Create PROVE Inv'
<1>1. pc = "create" /\ UNCHANGED <<arr, crash, restarted>>
  BY DEF Create, At
<1>2. CASE Return /\ UNCHANGED <<new, phase, param, startedAs>>
  <2>1. pc' = "ready" /\ released' = None /\ id' = 0
    BY <1>2 DEF Return
  <2>2. Types' /\ SameNames /\ Calling'
    BY <1>1, <1>2, <2>1, ReadyCalling, SameSame DEF Inv, Types
  <2> QED
    BY <1>1, <1>2, <2>1, <2>2, FlagsKeep
<1>3. CASE \E w \in Worker : phase[w] = "none"
  <2> DEFINE fresh == {w \in Worker : phase[w] = "none"}
             v == Min(fresh)
  <2>0. SUFFICES ASSUME /\ new' = v /\ phase' = [phase EXCEPT ![new'] = "created"]
                        /\ param' = [param EXCEPT ![new'] = Entry]
                        /\ startedAs' = [startedAs EXCEPT ![new'] = id]
                        /\ Goto("set_tid")
                 PROVE  Inv'
    BY <1>2, <1>3 DEF Create
  <2>1. v \in Worker /\ phase[v] = "none"
    <3>1. fresh \subseteq Nat /\ fresh # {}
      BY <1>3, LifeAssumption DEF Worker
    <3>2. v \in fresh
      <4> HIDE DEF fresh
      <4> QED
        BY <3>1, LeastIsOne
    <3> QED
      BY <3>2
  <2> HIDE DEF v
  <2>2. Entry \in Index /\ arr[Entry].iden = id /\ id \in Iden /\ released = None
    BY <1>1, TheEntry DEF Inv, Calling
  <2>3. pc' = "set_tid" /\ id' = id /\ released' = released
    BY <2>0 DEF Goto
  <2>4. \A w \in Worker : /\ phase'[w] = IF w = v THEN "created" ELSE phase[w]
                          /\ param'[w] = IF w = v THEN Entry ELSE param[w]
                          /\ startedAs'[w] = IF w = v THEN id ELSE startedAs[w]
    BY <2>0, <2>1 DEF Inv, Types
  <2>5. Types'
    BY <1>1, <2>0, <2>1, <2>2, <2>3 DEF Inv, Types
  <2>6. Unique' /\ Created'
    BY <1>1, <2>2, <2>4 DEF Inv, Unique, Created
  <2>7. v # 0 /\ \A i \in Index : arr[i].tid # v /\ arr[i].thread_id # v
    <3>1. v # 0
      BY <2>1 DEF Worker
    <3>2. param[v] \notin Index
      BY <2>1, Indices DEF Inv, Created
    <3> QED
      BY <3>1, <3>2 DEF Inv, Owned
  <2>8. Owned'
    <3>1. \A i \in Index : arr[i].tid \in Worker \cup {0} /\ arr[i].thread_id \in Worker \cup {0}
      BY DEF Inv, Types, Data
    <3> QED
      BY <1>1, <2>4, <2>7, <3>1 DEF Inv, Owned
  <2>9. Calling'
    <3>1. v \in Worker /\ phase'[v] = "created" /\ startedAs'[v] = id /\ param'[v] = Entry
      BY <2>1, <2>4
    <3>2. new' \in Worker /\ Live(new)' /\ startedAs'[new'] = id' /\ arr'[param'[new']].iden = id'
      BY <1>1, <2>0, <2>2, <2>3, <3>1 DEF Live
    <3>3. id' \in Iden /\ released' = None /\ \E i \in Index : arr'[i].iden = id'
      BY <1>1, <2>2, <2>3
    <3> QED
      BY <3>2, <3>3 DEF Calling
  <2>10. ASSUME ~restarted' PROVE Apart'
    <3>1. Apart /\ \A w \in Worker : Live(w) => startedAs[w] # id
      BY <1>1, <2>10 DEF Inv, Apart
    <3>2. \A w \in Worker : w # v => (Live(w)' <=> Live(w))
      BY <2>4 DEF Live
    <3>3. \A w \in Worker : w # v /\ Live(w) => w # v /\ startedAs'[w] = startedAs[w] /\ param'[w] = param[w]
                                       /\ phase'[w] = phase[w]
      BY <2>4
    <3>4. v \in Worker /\ phase'[v] = "created" /\ startedAs'[v] = id /\ param'[v] = Entry
      BY <2>1, <2>4
    <3>5. id # None
      BY <2>2, LifeAssumption
    <3>6. ASSUME NEW w \in Worker, Live(w)'
          PROVE  /\ arr'[param'[w]].iden = startedAs'[w]
                 /\ phase'[w] = "work" => arr'[param'[w]].tid = w
                 /\ startedAs'[w] # released'
      <4>1. CASE w = v
        BY <1>1, <2>2, <2>3, <3>4, <3>5, <4>1
      <4>2. CASE w # v
        BY <1>1, <2>3, <3>1, <3>2, <3>3, <3>6, <4>2 DEF Apart
      <4> QED
        BY <4>1, <4>2
    <3>7. ASSUME NEW u \in Worker, NEW w \in Worker, Live(u)', Live(w)', startedAs'[u] = startedAs'[w]
          PROVE  u = w
      BY <3>1, <3>2, <3>3, <3>4, <3>7 DEF Apart
    <3> QED
      BY <2>3, <3>6, <3>7 DEF Apart
  <2> QED
    BY <2>5, <2>6, <2>8, <2>9, <2>10, <1>1 DEF Inv
<1> QED
  BY <1>2, <1>3 DEF Create

\* The worker just created is recorded in its own entry.
LEMMA SetTidKeeps == ASSUME Inv, SetTid PROVE Inv'
<1>1. /\ pc = "set_tid" /\ pc' = "let_go" /\ arr' = [arr EXCEPT ![Entry].tid = new]
      /\ UNCHANGED <<id, released, phase, param, new, crash, startedAs, restarted>>
  BY DEF SetTid, At, Goto
<1>2. Entry \in Index /\ arr[Entry].iden = id /\ id \in Iden /\ id # MGR_IDEN_DEFAULT
  BY <1>1, TheEntry, LifeAssumption DEF MGR_IDEN_DEFAULT
<1>3. /\ new \in Worker /\ Live(new) /\ startedAs[new] = id /\ arr[param[new]].iden = id
      /\ param[new] \in Index
  BY <1>1 DEF Inv, Calling, Created, Live
<1>4. param[new] = Entry
  BY <1>2, <1>3 DEF Inv, Unique
<1>5. /\ arr \in [Index -> Data] /\ arr[Entry] \in Data
      /\ arr' = [arr EXCEPT ![Entry] = [arr[Entry] EXCEPT !.tid = new]]
  BY <1>1, <1>2 DEF Inv, Types
<1>6. /\ arr' \in [Index -> Data]
      /\ \A i \in Index : /\ arr'[i].iden = arr[i].iden /\ arr'[i].thread_id = arr[i].thread_id
                          /\ arr'[i].tid = IF i = Entry THEN new ELSE arr[i].tid
  BY <1>2, <1>3, <1>5 DEF Data
<1>7. Types'
  BY <1>1, <1>6 DEF Inv, Types
<1>8. Unique' /\ Owned' /\ Created'
  BY <1>1, <1>4, <1>6 DEF Inv, Unique, Owned, Created
<1>9. Live(new)' /\ new' \in Worker
  BY <1>1, <1>3 DEF Live
<1>10. Calling'
  BY <1>1, <1>2, <1>3, <1>6, <1>9 DEF Inv, Calling
<1>11. ASSUME ~restarted PROVE Apart'
  <2>1. Apart
    BY <1>11 DEF Inv
  <2>2. \A w \in Worker : Live(w)' <=> Live(w)
    BY <1>1 DEF Live
  <2>3. \A w \in Worker : Live(w) => param[w] \in Index
    BY DEF Live, Inv, Created
  <2>4. \A w \in Worker : Live(w) /\ param[w] = Entry => w = new
    BY <1>2, <1>3, <2>1 DEF Apart
  <2>5. ASSUME NEW w \in Worker, Live(w)
        PROVE  /\ arr'[param[w]].iden = startedAs[w]
               /\ phase[w] = "work" => arr'[param[w]].tid = w
               /\ startedAs[w] # released
    BY <1>6, <2>1, <2>3, <2>4, <2>5 DEF Apart
  <2> QED
    BY <1>1, <2>1, <2>2, <2>5 DEF Apart
<1> QED
  BY <1>1, <1>7, <1>8, <1>10, <1>11 DEF Inv

\* The worker that is joined is the only one of the identity.
LEMMA ReleaseJoinKeeps == ASSUME Inv, ReleaseJoin PROVE Inv'
<1> DEFINE w == arr[Entry].thread_id
<1>1. pc = "join" /\ UNCHANGED <<arr, param, new, startedAs, restarted>>
  BY DEF ReleaseJoin, At
<1>2. Entry \in Index /\ arr[Entry].iden = id /\ id \in Iden
  BY <1>1, TheEntry
<1>3. CASE crash' = TRUE /\ UNCHANGED <<pc, id, released, phase>>
  <2>1. Types' /\ Unique' /\ Owned' /\ Created' /\ Calling' /\ Apart' = Apart
    BY <1>1, <1>3 DEF Inv, Types, Unique, Owned, Created, Calling, Apart, Live
  <2> QED
    BY <1>1, <2>1 DEF Inv
<1>4. CASE /\ w \in Worker /\ phase[w] = "returned"
           /\ phase' = [phase EXCEPT ![w] = "joined"]
           /\ Goto("reset") /\ UNCHANGED crash
  <2>1. w # 0 /\ param[w] = Entry
    BY <1>2, <1>4 DEF Inv, Owned, Worker
  <2> HIDE DEF w
  <2>2. pc' = "reset" /\ UNCHANGED <<id, released, crash>>
    BY <1>4 DEF Goto
  <2>3. \A u \in Worker : phase'[u] = IF u = w THEN "joined" ELSE phase[u]
    BY <1>4 DEF Inv, Types
  <2>4. Types'
    BY <1>1, <1>4, <2>2 DEF Inv, Types
  <2>5. Unique' /\ Owned' /\ Created'
    BY <1>1, <1>4, <2>3 DEF Inv, Unique, Owned, Created
  <2>6. Calling'
    BY <1>1, <1>2, <2>2 DEF Inv, Calling
  <2>7. ASSUME ~restarted PROVE Apart'
    <3>1. Apart
      BY <2>7 DEF Inv
    <3>2. \A u \in Worker : Live(u)' => Live(u) /\ u # w /\ phase'[u] = phase[u]
      BY <2>3 DEF Live
    <3>3. Live(w) /\ startedAs[w] = id
      BY <1>2, <1>4, <2>1, <3>1 DEF Apart, Live
    <3>4. \A u \in Worker : Live(u)' => startedAs[u] # id
      BY <1>4, <3>1, <3>2, <3>3 DEF Apart
    <3> QED
      BY <1>1, <2>2, <3>1, <3>2, <3>4 DEF Apart
  <2> QED
    BY <1>1, <2>4, <2>5, <2>6, <2>7 DEF Inv
<1> QED
  BY <1>3, <1>4 DEF ReleaseJoin

\* The entry that is given up is no worker's.
LEMMA ReleaseResetKeeps == ASSUME Inv, ReleaseReset PROVE Inv'
<1>1. /\ pc = "reset" /\ pc' = "ready" /\ id' = 0 /\ released' = id
      /\ arr' = [arr EXCEPT ![Entry] = EmptyEntry]
      /\ UNCHANGED <<phase, param, new, crash, startedAs, restarted>>
  BY DEF ReleaseReset, At
<1>2. Entry \in Index /\ arr[Entry].iden = id /\ id \in Iden
  BY <1>1, TheEntry
<1>3. EmptyEntry \in Data /\ EmptyEntry.iden = MGR_IDEN_DEFAULT /\ EmptyEntry.tid = 0 /\ EmptyEntry.thread_id = 0
  BY DEF EmptyEntry, Data, MGR_TID_DEFAULT
<1>4. \A i \in Index : arr'[i] = IF i = Entry THEN EmptyEntry ELSE arr[i]
  BY <1>1 DEF Inv, Types
<1>5. Types'
  BY <1>1, <1>2, <1>3 DEF Inv, Types
<1>6. Unique' /\ Owned' /\ Created' /\ Calling'
  BY <1>1, <1>3, <1>4, ReadyCalling DEF Inv, Unique, Owned, Created
<1>7. ASSUME ~restarted PROVE Apart'
  <2>1. Apart /\ \A w \in Worker : Live(w) => startedAs[w] # id
    BY <1>1, <1>7 DEF Inv, Apart
  <2>2. \A w \in Worker : Live(w)' <=> Live(w)
    BY <1>1 DEF Live
  <2>3. \A w \in Worker : Live(w) => param[w] \in Index /\ param[w] # Entry
    BY <1>2, <2>1 DEF Apart, Live, Inv, Created
  <2> QED
    BY <1>1, <1>4, <2>1, <2>2, <2>3 DEF Apart
<1> QED
  BY <1>1, <1>5, <1>6, <1>7 DEF Inv

-----------------------------------------------------------------------------
(* The steps of a worker *)

\* A worker moves on inside its function.
Moves(w) ==
    /\ UNCHANGED <<param, user, startedAs, restarted>>
    /\ phase' \in [Worker -> {"none", "created", "sleeping", "check_exit", "check_pause",
                              "work", "returned", "joined"}]
    /\ \A u \in Worker : u # w => phase'[u] = phase[u]
    /\ Live(w) /\ Live(w)'

\* A worker that moves on keeps the invariant, if it starts to work only where it is recorded.
LEMMA MovesKeep ==
    ASSUME Inv, NEW w \in Worker, Moves(w), arr' \in [Index -> Data], Owned',
           \A i \in Index : arr'[i].iden = arr[i].iden /\ arr'[i].tid = arr[i].tid,
           phase'[w] = "work" => arr[param[w]].tid = w
    PROVE  Inv'
<1>1. UNCHANGED <<param, pc, id, new, released, crash, startedAs, restarted>>
  BY DEF Moves, user
<1>2. \A u \in Worker : /\ Live(u)' <=> Live(u)
                        /\ phase'[u] = "none" <=> phase[u] = "none"
                        /\ Live(u) => param[u] \in Index
  BY DEF Moves, Live, Inv, Created
<1>3. Types'
  BY <1>1 DEF Inv, Types, Moves
<1>4. Unique' /\ Created'
  BY <1>1, <1>2 DEF Inv, Unique, Created
<1>5. Calling'
  <2>1. pc # "ready" => id \in Iden /\ released = None /\ \E i \in Index : arr'[i].iden = id
    BY DEF Inv, Calling
  <2>2. ASSUME pc \in {"set_tid", "let_go"}
        PROVE  /\ new \in Worker /\ Live(new) /\ startedAs[new] = id
               /\ arr'[param[new]].iden = id
    BY <1>2, <2>2 DEF Inv, Calling
  <2>3. new \in Worker => (Live(new)' <=> Live(new))
    BY <1>1 DEF Moves, Live
  <2> QED
    BY <1>1, <2>1, <2>2, <2>3 DEF Calling
<1>6. ASSUME ~restarted PROVE Apart'
  <2>1. Apart
    BY <1>6 DEF Inv
  <2>2. \A u \in Worker : Live(u) /\ phase'[u] = "work" => arr[param[u]].tid = u
    BY <2>1 DEF Apart, Moves
  <2> QED
    BY <1>1, <1>2, <2>1, <2>2 DEF Apart
<1> QED
  BY <1>1, <1>3, <1>4, <1>5, <1>6 DEF Inv

\* The worker writes into its own entry.
LEMMA WriteThreadIdKeeps == ASSUME Inv, NEW w \in Worker, WriteThreadId(w) PROVE Inv'
<1>1. /\ phase[w] = "created" /\ phase' = [phase EXCEPT ![w] = "sleeping"]
      /\ arr' = [arr EXCEPT ![param[w]].thread_id = w]
      /\ UNCHANGED <<param, user, startedAs, restarted>>
  BY DEF WriteThreadId, Move
<1>2. param[w] \in Index /\ w # 0
  BY <1>1 DEF Inv, Created, Worker
<1>3. /\ arr \in [Index -> Data] /\ arr[param[w]] \in Data
      /\ arr' = [arr EXCEPT ![param[w]] = [arr[param[w]] EXCEPT !.thread_id = w]]
  BY <1>1, <1>2 DEF Inv, Types
<1>4. /\ arr' \in [Index -> Data]
      /\ \A i \in Index : /\ arr'[i].iden = arr[i].iden /\ arr'[i].tid = arr[i].tid
                          /\ arr'[i].thread_id = IF i = param[w] THEN w ELSE arr[i].thread_id
  BY <1>2, <1>3 DEF Data
<1>5. Owned'
  BY <1>1, <1>2, <1>4 DEF Inv, Owned
<1>6. Moves(w) /\ phase'[w] # "work"
  BY <1>1 DEF Moves, Live, Inv, Types
<1> QED
  BY <1>4, <1>5, <1>6, MovesKeep

\* The steps of local_loop: a pause that is not found sends the worker back.
LEMMA LoopKeeps ==
    ASSUME Inv, NEW w \in Worker, Wake(w) \/ CheckExit(w) \/ CheckPause(w) \/ Work(w)
    PROVE  Inv'
<1>1. /\ UNCHANGED <<arr, param, user, startedAs, restarted>>
      /\ phase[w] \in {"sleeping", "check_exit", "check_pause", "work"}
      /\ \E to \in {"check_exit", "returned", "check_pause", "work"} :
            phase' = [phase EXCEPT ![w] = to]
  BY DEF Wake, CheckExit, CheckPause, Work, Move
<1>2. Moves(w)
  BY <1>1 DEF Moves, Live, Inv, Types
<1>3. phase'[w] = "work" => arr[param[w]].tid = w
  <2>1. ASSUME CheckPause(w), phase'[w] = "work" PROVE Control(w) \in Index
    BY <2>1 DEF CheckPause, Move, Inv, Types
  <2>2. ASSUME Wake(w) \/ CheckExit(w) \/ Work(w) PROVE phase'[w] # "work"
    BY <2>2 DEF Wake, CheckExit, Work, Move, Inv, Types
  <2> QED
    BY <2>1, <2>2, ControlIs
<1>4. Owned' /\ arr' \in [Index -> Data]
  BY <1>1 DEF Inv, Owned, Types
<1> QED
  BY <1>1, <1>2, <1>3, <1>4, MovesKeep

-----------------------------------------------------------------------------
(* The invariant *)

\* The invariant holds at first.
LEMMA InitInv == ASSUME Init PROVE Inv
<1>1. arr = [i \in Index |-> EmptyEntry] /\ EmptyEntry \in Data
  BY DEF Init, EmptyEntry, Data, MGR_TID_DEFAULT
<1>2. \A i \in Index : arr[i].iden = MGR_IDEN_DEFAULT /\ arr[i].tid = 0 /\ arr[i].thread_id = 0
  BY <1>1 DEF EmptyEntry, MGR_TID_DEFAULT
<1>3. Types
  BY <1>1 DEF Init, Types
<1>4. \A w \in Worker : ~Live(w)
  BY DEF Init, Live
<1>5. Unique /\ Owned /\ Created /\ Calling
  BY <1>2 DEF Init, Unique, Owned, Created, Calling
<1>6. Apart
  BY <1>4 DEF Apart
<1> QED
  BY <1>3, <1>5, <1>6 DEF Inv

\* Every step keeps it.
LEMMA StepInv == ASSUME Inv, [Next]_vars PROVE Inv'
<1>1. CASE Call
  <2>1. PICK identify \in Iden :
            \/ ReadyParam(identify)
            \/ thread_pause(identify) \/ thread_resume(identify) \/ ReleaseResume(identify)
    BY <1>1 DEF Call
  <2> QED
    BY <2>1, ReadyParamKeeps, PauseKeeps
<1>2. CASE Library
  BY <1>2, AttrFlagHoldKeep, CreateKeeps, SetTidKeeps, LetGoKeeps, ReleaseJoinKeeps, ReleaseResetKeeps
     DEF Library, thread_ready_and_start, thread_release_and_destroy
<1>3. CASE \E w \in Worker : work_thread(w)
  <2>1. PICK w \in Worker : work_thread(w)
    BY <1>3
  <2> QED
    BY <2>1, WriteThreadIdKeeps, LoopKeeps DEF work_thread
<1>4. CASE UNCHANGED vars
  <2>1. UNCHANGED <<arr, phase, param, pc, id, new, released, crash, startedAs, restarted>>
    BY <1>4 DEF vars, user
  <2>2. Types' /\ Unique' /\ Owned' /\ Created' /\ Calling' /\ Apart' = Apart
    BY <2>1 DEF Inv, Types, Unique, Owned, Created, Calling, Apart, Live
  <2> QED
    BY <2>1, <2>2 DEF Inv
<1> QED
  BY <1>1, <1>2, <1>3, <1>4 DEF Next

\* It holds always.
LEMMA LifeInv == Spec => []Inv
BY InitInv, StepInv, PTL DEF Spec

-----------------------------------------------------------------------------
(* Theorems *)

\* Whatever the program calls and however its workers are scheduled, the entries hold
\* identities, thread ids and flags, a worker is at a point of work_thread or
\* local_loop, and its parameter points into mgr_array (ThreadImpl_Init.cpp:245-310,
\* demo-thread/Start.cpp).
THEOREM TypeCorrect == Spec => []TypeOK
<1>1. Inv => TypeOK
  BY DEF Inv, Types, TypeOK, Data
<1> QED
  BY <1>1, LifeInv, PTL

\* When a release reports success, no worker of that identity is left, unless an
\* identity was started again while its worker lived (ThreadImpl_Init.cpp:283-310).
THEOREM ReleaseJoinsWorker == Spec => []ReleaseEndsWorker
<1>1. Inv => ReleaseEndsWorker
  BY DEF Inv, Apart, ReleaseEndsWorker
<1> QED
  BY <1>1, LifeInv, PTL

\* A worker that lives keeps an entry of its own with the identity it was started for,
\* and works only while the user's pause and stop reach it there, unless an identity
\* was started again (ThreadImpl_Init.cpp:245-306, ThreadImpl_Check.cpp).
THEOREM WorkerKeepsEntry == Spec => []ParamStaysValid
<1>1. Inv => ParamStaysValid
  <2> SUFFICES ASSUME Inv, ~restarted, NEW w \in Worker, Live(w)
               PROVE  /\ arr[param[w]].iden = startedAs[w]
                      /\ \A v \in Worker : Live(v) /\ param[v] = param[w] => v = w
                      /\ phase[w] = "work" => arr[param[w]].tid = w /\ Control(w) = param[w]
    BY DEF ParamStaysValid
  <2>1. Apart
    BY DEF Inv
  <2>2. param[w] \in Index /\ startedAs[w] \in Iden
    BY DEF Inv, Created, Live
  <2>3. arr[param[w]].iden = startedAs[w]
    BY <2>1 DEF Apart
  <2>4. \A v \in Worker : Live(v) /\ param[v] = param[w] => v = w
    BY <2>1 DEF Apart
  <2>5. phase[w] = "work" => arr[param[w]].tid = w
    BY <2>1 DEF Apart
  <2> QED
    BY <2>2, <2>3, <2>4, <2>5, ControlIs
<1> QED
  BY <1>1, LifeInv, PTL
=============================================================================
