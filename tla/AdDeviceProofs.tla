--------------------------- MODULE AdDeviceProofs ---------------------------
(***************************************************************************)
(* For every size of the arrays and every ids, paths and names: the arrays *)
(* of the registry implement a bounded map (RegistryImplementsMap).  The   *)
(* inductive invariant adds to the types and to the uniqueness of ids that *)
(* a free entry is blank (FreeIsBlank), without which a new id could get   *)
(* an old name.                                                            *)
(*                                                                         *)
(* The functions that register, set and read the AD chips use the registry *)
(* as AdRegistry has it, so that what is proved of it holds for them       *)
(* (DevicesUseMap); the frequencies and bandwidths of the chips are those  *)
(* their callers were told of (DevicesAsTold), and what is read of a chip  *)
(* is so (DevicesReadTrue).  Of the registers the first is not true.       *)
(***************************************************************************)
EXTENDS AdDevice, FiniteSetTheorems, TLAPS

PositiveId == {ID \in Id : ID > 0}
Inv == RegistryTypeOK /\ FreeIsBlank

\* Ids in an array are of the right type and not repeated.
Sound(a) ==
    /\ a \in [Entry -> PositiveId \cup {0}]
    /\ \A i, j \in Entry : a[i] = a[j] /\ a[i] # 0 => i = j

LEMMA InvSound == Inv => Sound(AD_ID)
BY DEF Inv, RegistryTypeOK, Sound, PositiveId

-----------------------------------------------------------------------------
\* The entry that is searched for is the only one with its id.
LEMMA TheEntry ==
    ASSUME NEW a, Sound(a), NEW i \in Entry, a[i] # 0
    PROVE  (CHOOSE j \in Entry : a[j] = a[i]) = i
<1> DEFINE c == CHOOSE j \in Entry : a[j] = a[i]
<1>1. c \in Entry /\ a[c] = a[i]
  OBVIOUS
<1> HIDE DEF c
<1>2. c = i
  BY <1>1 DEF Sound
<1> QED
  BY <1>2 DEF c

\* What the loop over the arrays finds for an id
LEMMA Lookup ==
    ASSUME Inv, NEW ID \in Id
    PROVE  /\ Absent(ID) <=> ID \notin RegisteredIds
           /\ ID \in RegisteredIds =>
                  /\ EntryOf(ID) \in Entry /\ AD_ID[EntryOf(ID)] = ID /\ ID > 0
                  /\ Has(ID) = {EntryOf(ID)}
                  /\ \A i \in Entry : First(i, Has(ID)) <=> i = EntryOf(ID)
<1>1. Sound(AD_ID)
  BY InvSound
<1>2. Entry \subseteq Int /\ Id \subseteq Int
  BY RegistryAssumption DEF Entry
<1>3. ID \in RegisteredIds => ID > 0
  BY <1>1 DEF RegisteredIds, Sound, PositiveId
<1>4. Absent(ID) <=> ID \notin RegisteredIds
  <2>1. CASE ID <= 0
    BY <2>1, <1>2, <1>3 DEF Absent
  <2>2. CASE ~(ID <= 0)
    <3>1. ID # 0
      BY <2>2, <1>2
    <3>2. ID \in RegisteredIds <=> \E i \in Entry : AD_ID[i] = ID
      BY <3>1 DEF RegisteredIds
    <3> QED
      BY <2>2, <3>2 DEF Absent, Has
  <2> QED
    BY <2>1, <2>2
<1>5. ASSUME ID \in RegisteredIds
      PROVE  /\ EntryOf(ID) \in Entry /\ AD_ID[EntryOf(ID)] = ID
             /\ Has(ID) = {EntryOf(ID)}
             /\ \A i \in Entry : First(i, Has(ID)) <=> i = EntryOf(ID)
  <2>1. PICK k \in Entry : AD_ID[k] = ID /\ AD_ID[k] # 0
    BY <1>5 DEF RegisteredIds
  <2>2. EntryOf(ID) = k
    BY <2>1, <1>1, TheEntry DEF EntryOf
  <2>3. Has(ID) = {k}
    BY <2>1, <1>1 DEF Has, Sound
  <2>4. \A i \in Entry : First(i, {k}) <=> i = k
    BY <1>2, <2>1 DEF First
  <2> QED
    BY <2>1, <2>2, <2>3, <2>4
<1> QED
  BY <1>3, <1>4, <1>5

\* There is room for an id exactly when an entry is free.
LEMMA Room ==
    ASSUME Inv
    PROVE  /\ Cardinality(RegisteredIds) < AD_ARRAY_SIZE <=> Free # {}
           /\ Cardinality(RegisteredIds) \in Nat
<1> DEFINE used == Entry \ Free
           f == [i \in used |-> AD_ID[i]]
<1>1. Sound(AD_ID) /\ PositiveId \subseteq Int
  BY InvSound, RegistryAssumption DEF PositiveId
<1>2. IsFiniteSet(Entry) /\ Cardinality(Entry) = AD_ARRAY_SIZE
  BY FS_Interval, RegistryAssumption DEF Entry
<1>3. used \in SUBSET Entry
  OBVIOUS
<1>4. /\ IsFiniteSet(used) /\ Cardinality(used) <= AD_ARRAY_SIZE
      /\ Cardinality(used) = AD_ARRAY_SIZE => used = Entry
  <2> HIDE DEF used
  <2> QED
    BY <1>2, <1>3, FS_Subset
<1>5. \A i \in Entry : i \in Free <=> AD_ID[i] = 0
  BY <1>1 DEF Free, Sound, PositiveId
<1>6. f \in Bijection(used, RegisteredIds)
  <2>1. f \in [used -> RegisteredIds]
    BY <1>5 DEF RegisteredIds
  <2>2. \A i, j \in used : f[i] = f[j] => i = j
    BY <1>1, <1>5 DEF Sound
  <2>3. \A n \in RegisteredIds : \E i \in used : f[i] = n
    BY <1>5 DEF RegisteredIds
  <2> QED
    BY <2>1, <2>2, <2>3 DEF Bijection, Injection, Surjection, IsInjective
<1>7. Cardinality(RegisteredIds) = Cardinality(used)
  <2> HIDE DEF used, f
  <2> QED
    BY <1>4, <1>6, FS_Bijection DEF ExistsBijection
<1>8. Cardinality(used) \in Nat
  BY <1>4, FS_CardinalityType
<1>9. used = Entry <=> Free = {}
  BY DEF Free
<1>10. used = Entry => Cardinality(used) = AD_ARRAY_SIZE
  BY <1>2
<1> HIDE DEF used
<1> QED
  BY <1>4, <1>7, <1>8, <1>9, <1>10, RegistryAssumption

-----------------------------------------------------------------------------
(* The calls keep the invariant. *)

\* Where register_ad_home puts a chip: in the entry of its id, or in a free one
\* when the id has none.
Target(i, ID) == AD_ID[i] = ID \/ (AD_ID[i] = 0 /\ ID \notin RegisteredIds)

LEMMA RegisterCases ==
    ASSUME Inv, NEW ID \in Id, NEW name, NEW home, NEW debugfs,
           register_ad_home(ID, name, home, debugfs)
    PROVE  \/ /\ ID <= 0 \/ home = NULL \/ (ID \notin RegisteredIds /\ Free = {})
              /\ Refused
           \/ /\ ID > 0 /\ home # NULL
              /\ ID \in RegisteredIds \/ Free # {}
              /\ \E i \in Entry : Target(i, ID) /\ Fill(i, ID, name, home, debugfs)
<1>1. ID > 0 => (Has(ID) = {} <=> ID \notin RegisteredIds)
  <2> SUFFICES ASSUME ID > 0 PROVE Has(ID) = {} <=> ID \notin RegisteredIds
    OBVIOUS
  <2>1. ~(ID <= 0)
    BY RegistryAssumption
  <2> QED
    BY <2>1, Lookup DEF Absent
<1>2. CASE home = NULL \/ ID <= 0 \/ (Has(ID) = {} /\ Free = {})
  <2>1. Refused
    BY <1>2 DEF register_ad_home
  <2>2. ID <= 0 \/ ID > 0
    BY RegistryAssumption
  <2> QED
    BY <1>1, <1>2, <2>1, <2>2
<1>3. CASE ~(home = NULL \/ ID <= 0 \/ (Has(ID) = {} /\ Free = {}))
  <2>1. PICK i \in Entry : /\ First(i, IF Has(ID) # {} THEN Has(ID) ELSE Free)
                           /\ Fill(i, ID, name, home, debugfs)
    BY <1>3 DEF register_ad_home
  <2>2. ID > 0
    BY <1>3, RegistryAssumption
  <2>3. \A k \in Free : AD_ID[k] = 0
    <3>1. Sound(AD_ID)
      BY InvSound
    <3>2. \A n \in PositiveId \cup {0} : n <= 0 => n = 0
      BY RegistryAssumption DEF PositiveId
    <3> QED
      BY <3>1, <3>2 DEF Sound, Free
  <2>4. Target(i, ID)
    BY <1>1, <2>1, <2>2, <2>3 DEF First, Has, Target
  <2> QED
    BY <1>1, <1>3, <2>1, <2>2, <2>4
<1> QED
  BY <1>2, <1>3

\* A new array of ids is sound.
LEMMA FillSound ==
    ASSUME Inv, NEW ID \in Id, ID > 0, NEW i \in Entry, Target(i, ID)
    PROVE  /\ Sound([AD_ID EXCEPT ![i] = ID])
           /\ {[AD_ID EXCEPT ![i] = ID][k] : k \in Entry} \ {0} = RegisteredIds \cup {ID}
<1> DEFINE a == [AD_ID EXCEPT ![i] = ID]
<1>1. Sound(AD_ID) /\ ID # 0 /\ ID \in PositiveId
  BY InvSound, RegistryAssumption DEF PositiveId
<1>2. a \in [Entry -> PositiveId \cup {0}]
  BY <1>1 DEF Sound
<1>3. \A k \in Entry : AD_ID[k] = ID => k = i
  BY <1>1 DEF Target, Sound, RegisteredIds
<1>4. \A j, k \in Entry : a[j] = a[k] /\ a[j] # 0 => j = k
  BY <1>1, <1>3 DEF Sound
<1>5. {a[k] : k \in Entry} \ {0} = RegisteredIds \cup {ID}
  <2>1. \A n : n \in {a[k] : k \in Entry} \ {0} => n \in RegisteredIds \cup {ID}
    BY <1>1 DEF RegisteredIds, Sound
  <2>2. \A n : n \in RegisteredIds \cup {ID} => n \in {a[k] : k \in Entry} \ {0}
    <3> SUFFICES ASSUME NEW n \in RegisteredIds, n # ID
                 PROVE  \E k \in Entry : a[k] = n /\ n # 0
      <4>1. a[i] = ID
        BY <1>1 DEF Sound
      <4> QED
        BY <1>1, <4>1
    <3>1. PICK k \in Entry : AD_ID[k] = n /\ n # 0
      BY DEF RegisteredIds
    <3>2. k # i
      BY <3>1 DEF Target
    <3> QED
      BY <1>1, <3>1, <3>2 DEF Sound
  <2> QED
    BY <2>1, <2>2
<1> QED
  BY <1>2, <1>4, <1>5 DEF Sound

LEMMA FillInv ==
    ASSUME Inv, NEW ID \in Id, ID > 0, NEW i \in Entry, Target(i, ID),
           NEW name \in Name \cup {NULL}, NEW home \in Path, NEW debugfs \in Path,
           Fill(i, ID, name, home, debugfs)
    PROVE  Inv'
<1>1. Sound(AD_ID)'
  <2>1. Sound([AD_ID EXCEPT ![i] = ID])
    BY FillSound
  <2> QED
    BY <2>1 DEF Fill, Sound
<1>2. /\ AD_NAME' \in [Entry -> Name \cup {NULL}]
      /\ AD_HOME' \in [Entry -> Path \cup {NULL}]
      /\ AD_DEBUGFS_HOME' \in [Entry -> Path \cup {NULL}]
      /\ AD_OK' \in [Entry -> BOOLEAN]
  BY DEF Inv, RegistryTypeOK, Fill
<1>3. FreeIsBlank'
  <2> SUFFICES ASSUME NEW k \in Entry, AD_ID'[k] = 0
               PROVE  /\ AD_NAME'[k] = NULL /\ AD_HOME'[k] = NULL
                      /\ AD_DEBUGFS_HOME'[k] = NULL /\ ~AD_OK'[k]
    BY DEF FreeIsBlank
  <2>1. k # i
    BY RegistryAssumption DEF Inv, RegistryTypeOK, Fill
  <2> QED
    BY <2>1 DEF Inv, RegistryTypeOK, FreeIsBlank, Fill
<1> QED
  BY <1>1, <1>2, <1>3 DEF Inv, RegistryTypeOK, Sound, PositiveId

LEMMA DeleteInv ==
    ASSUME Inv, NEW ID \in Id, delete_ad_home(ID)
    PROVE  Inv'
<1> USE DEF Inv, RegistryTypeOK, delete_ad_home
<1>1. AD_ID' \in [Entry -> {k \in Id : k > 0} \cup {0}]
  OBVIOUS
<1>2. /\ AD_NAME' \in [Entry -> Name \cup {NULL}]
      /\ AD_HOME' \in [Entry -> Path \cup {NULL}]
      /\ AD_DEBUGFS_HOME' \in [Entry -> Path \cup {NULL}]
      /\ AD_OK' \in [Entry -> BOOLEAN]
  OBVIOUS
<1>3. \A i, j \in Entry : AD_ID'[i] = AD_ID'[j] /\ AD_ID'[i] # 0 => i = j
  OBVIOUS
<1>4. FreeIsBlank'
  BY DEF FreeIsBlank
<1> QED
  BY <1>1, <1>2, <1>3, <1>4

LEMMA SetOkInv ==
    ASSUME Inv, NEW ID \in Id, NEW ok \in BOOLEAN, __set_ad_ok(ID, ok)
    PROVE  Inv'
<1>1. AD_OK' \in [Entry -> BOOLEAN]
  BY DEF Inv, RegistryTypeOK, __set_ad_ok, Refused, arrays
<1>2. UNCHANGED <<AD_ID, AD_NAME, AD_HOME, AD_DEBUGFS_HOME>>
  BY DEF __set_ad_ok, Refused, arrays
<1>3. FreeIsBlank'
  <2>1. CASE Absent(ID)
    BY <2>1 DEF __set_ad_ok, Refused, arrays, Inv, FreeIsBlank
  <2>2. CASE ~Absent(ID)
    <3>1. PICK i \in Entry : AD_ID[i] = ID /\ AD_OK' = [AD_OK EXCEPT ![i] = ok]
      BY <2>2 DEF __set_ad_ok, First, Has
    <3>2. AD_ID[i] # 0
      BY <2>2, <3>1, RegistryAssumption DEF Absent
    <3> QED
      BY <1>2, <3>1, <3>2 DEF Inv, RegistryTypeOK, FreeIsBlank
  <2> QED
    BY <2>1, <2>2
<1> QED
  BY <1>1, <1>2, <1>3 DEF Inv, RegistryTypeOK

LEMMA Stays == ASSUME Inv, UNCHANGED arrays PROVE Inv'
BY DEF Inv, RegistryTypeOK, FreeIsBlank, arrays

LEMMA InvInit == RegistryInit => Inv
BY DEF RegistryInit, Inv, RegistryTypeOK, FreeIsBlank

LEMMA InvStep == Inv /\ [RegistryNext]_registry => Inv'
<1> SUFFICES ASSUME Inv, [RegistryNext]_registry PROVE Inv'
  OBVIOUS
<1>1. CASE UNCHANGED registry
  BY <1>1, Stays DEF registry
<1>2. CASE Forget
  BY <1>2, Stays DEF Forget
<1>3. ASSUME NEW ID \in Id, OtherCall(ID) PROVE Inv'
  <2>1. CASE delete_ad_home(ID)
    BY <2>1, DeleteInv
  <2>2. ASSUME NEW ok \in BOOLEAN, __set_ad_ok(ID, ok) PROVE Inv'
    BY <2>2, SetOkInv
  <2>3. CASE CheckCall(ID) \/ SearchCall(ID)
    BY <2>3, Stays DEF CheckCall, SearchCall
  <2> QED
    BY <1>3, <2>1, <2>2, <2>3 DEF OtherCall
<1>4. ASSUME NEW ID \in Id, NEW name \in Name \cup {NULL}, NEW home \in Path \cup {NULL},
             NEW debugfs \in Path, register_ad_home(ID, name, home, debugfs)
      PROVE  Inv'
  <2>1. CASE Refused
    BY <2>1, Stays DEF Refused
  <2>2. CASE ID > 0 /\ home # NULL
             /\ \E i \in Entry : Target(i, ID) /\ Fill(i, ID, name, home, debugfs)
    BY <2>2, FillInv
  <2> QED
    BY <1>4, <2>1, <2>2, RegisterCases
<1> QED
  BY <1>1, <1>2, <1>3, <1>4 DEF RegistryNext

-----------------------------------------------------------------------------
(* The calls are those of the map. *)

\* The entries of the map, from those of the arrays
At(i) == [home |-> AD_HOME[i], debugfs |-> AD_DEBUGFS_HOME[i], ok |-> AD_OK[i],
          name |-> AD_NAME[i]]

LEMMA MapIs ==
    /\ Map!Known = RegisteredIds
    /\ \A ID \in RegisteredIds : map[ID] = At(EntryOf(ID))
BY DEF map, At, Map!Known

\* The map after a step, when what it does to the ids is known
LEMMA MapNext ==
    ASSUME Inv', NEW m, DOMAIN m = RegisteredIds', m = [ID \in DOMAIN m |-> m[ID]],
           \A i \in Entry : AD_ID'[i] # 0 => m[AD_ID'[i]] = At(i)'
    PROVE  map' = m
<1>1. Sound(AD_ID)'
  BY DEF Inv, RegistryTypeOK, Sound, PositiveId
<1>2. \A ID \in RegisteredIds' : m[ID] = map'[ID]
  <2> SUFFICES ASSUME NEW ID \in RegisteredIds' PROVE m[ID] = map'[ID]
    OBVIOUS
  <2>1. PICK i \in Entry : AD_ID'[i] = ID /\ ID # 0
    BY DEF RegisteredIds
  <2>2. (CHOOSE j \in Entry : AD_ID'[j] = AD_ID'[i]) = i
    <3>1. Sound(AD_ID')
      BY <1>1 DEF Sound
    <3> QED
      BY <2>1, <3>1, TheEntry
  <2>3. map'[ID] = At(i)'
    BY <2>1, <2>2 DEF map, EntryOf, At
  <2> QED
    BY <2>1, <2>3
<1>3. map' = [ID \in RegisteredIds' |-> map'[ID]]
  BY DEF map
<1> QED
  BY <1>2, <1>3

\* The instance of AdMap counts as this module does.
LEMMA SameCardinality == ASSUME NEW S PROVE Map!Cardinality(S) = Cardinality(S)
BY DEF Cardinality, Map!Cardinality

LEMMA FillImplements ==
    ASSUME Inv, NEW ID \in Id, ID > 0, NEW i \in Entry, Target(i, ID),
           NEW name \in Name \cup {NULL}, NEW home \in Path, NEW debugfs \in Path,
           Fill(i, ID, name, home, debugfs), ID \in RegisteredIds \/ Free # {}
    PROVE  Map!Register(ID, name, home, debugfs)
<1> DEFINE kept == IF ID \in RegisteredIds THEN map[ID].name ELSE NULL
           entry == [home |-> home, debugfs |-> debugfs, ok |-> TRUE,
                     name |-> IF name # NULL THEN name ELSE kept]
           m == [k \in RegisteredIds \cup {ID} |-> IF k = ID THEN entry ELSE map[k]]
<1>1. Inv' /\ Sound(AD_ID) /\ ID # 0 /\ home # NULL
  BY FillInv, InvSound, RegistryAssumption
<1>2. RegisteredIds' = RegisteredIds \cup {ID}
  BY FillSound DEF Fill, RegisteredIds
<1>3. kept = AD_NAME[i]
  <2>1. CASE AD_ID[i] = ID
    <3>1. ID \in RegisteredIds /\ EntryOf(ID) = i
      BY <1>1, <2>1, TheEntry DEF RegisteredIds, EntryOf
    <3>2. map[ID] = At(i)
      BY <3>1, MapIs
    <3>3. map[ID].name = AD_NAME[i]
      BY <3>2 DEF At
    <3> QED
      BY <3>1, <3>3
  <2>2. CASE AD_ID[i] = 0 /\ ID \notin RegisteredIds
    BY <2>2 DEF Inv, FreeIsBlank
  <2> QED
    BY <2>1, <2>2 DEF Target
<1>4. ASSUME NEW k \in Entry, AD_ID'[k] # 0
      PROVE  m[AD_ID'[k]] = At(k)'
  <2>1. CASE k = i
    <3>1. AD_ID'[k] = ID
      BY <2>1, <1>1 DEF Fill, Sound
    <3>2. At(i)' = [home |-> home, debugfs |-> debugfs, ok |-> TRUE,
                    name |-> IF name # NULL THEN name ELSE AD_NAME[i]]
      BY DEF At, Fill, Inv, RegistryTypeOK
    <3> QED
      BY <1>3, <2>1, <3>1, <3>2
  <2>2. CASE k # i
    <3>1. AD_ID'[k] = AD_ID[k] /\ AD_ID[k] # 0 /\ At(k)' = At(k)
      BY <1>4, <2>2, <1>1 DEF Fill, At, Inv, RegistryTypeOK, Sound
    <3>2. AD_ID[k] \in RegisteredIds /\ AD_ID[k] # ID
      <4>1. AD_ID[k] \in RegisteredIds
        BY <3>1 DEF RegisteredIds
      <4> QED
        BY <4>1, <2>2, <3>1, <1>1 DEF Target, Sound
    <3>3. EntryOf(AD_ID[k]) = k
      BY <1>1, <3>1, TheEntry DEF EntryOf
    <3> QED
      BY <3>1, <3>2, <3>3, MapIs
  <2> QED
    BY <2>1, <2>2
<1>5. map' = m
  <2>1. DOMAIN m = RegisteredIds' /\ m = [k \in DOMAIN m |-> m[k]]
    BY <1>2
  <2> HIDE DEF m
  <2> QED
    BY <1>1, <1>4, <2>1, MapNext
<1>6. ID \in RegisteredIds \/ Cardinality(RegisteredIds) < AD_ARRAY_SIZE
  BY Room
<1>7. reply' = "ok"
  BY DEF Fill
<1>8. Map!Cardinality(RegisteredIds) = Cardinality(RegisteredIds)
  BY SameCardinality
<1>9. Map!Known = RegisteredIds
  BY MapIs
<1> QED
  BY <1>1, <1>5, <1>6, <1>7, <1>8, <1>9 DEF Map!Register

LEMMA MapStays == ASSUME UNCHANGED arrays PROVE map' = map
BY DEF arrays, map, RegisteredIds, EntryOf

LEMMA RefusedImplements ==
    ASSUME Inv, NEW ID \in Id, NEW home, Refused,
           ID <= 0 \/ home = NULL \/ (ID \notin RegisteredIds /\ Free = {})
    PROVE  Map!Refuse(ID, home)
<1>1. map' = map /\ reply' = "failed"
  BY MapStays DEF Refused
<1>2. Map!Known = RegisteredIds /\ Map!Cardinality(RegisteredIds) = Cardinality(RegisteredIds)
  BY MapIs, SameCardinality
<1>3. Free = {} => Cardinality(RegisteredIds) >= AD_ARRAY_SIZE
  BY Room, RegistryAssumption
<1> QED
  BY <1>1, <1>2, <1>3 DEF Map!Refuse

LEMMA DeleteImplements ==
    ASSUME Inv, NEW ID \in Id, delete_ad_home(ID)
    PROVE  Map!Delete(ID)
<1> DEFINE m == [k \in RegisteredIds \ {ID} |-> map[k]]
<1>1. Inv' /\ Sound(AD_ID)
  BY DeleteInv, InvSound
<1>2. RegisteredIds' = RegisteredIds \ {ID}
  BY DEF delete_ad_home, RegisteredIds, Has
<1>3. ASSUME NEW k \in Entry, AD_ID'[k] # 0
      PROVE  m[AD_ID'[k]] = At(k)'
  <2>1. k \notin Has(ID) /\ AD_ID'[k] = AD_ID[k] /\ AD_ID[k] # ID
    BY <1>3 DEF delete_ad_home, Has
  <2>2. At(k)' = At(k)
    BY <2>1 DEF delete_ad_home, At
  <2>3. AD_ID[k] \in RegisteredIds \ {ID}
    BY <1>3, <2>1 DEF RegisteredIds
  <2>4. EntryOf(AD_ID[k]) = k
    BY <1>1, <1>3, <2>1, TheEntry DEF EntryOf
  <2> QED
    BY <2>1, <2>2, <2>3, <2>4, MapIs
<1>4. map' = m
  <2>1. DOMAIN m = RegisteredIds' /\ m = [k \in DOMAIN m |-> m[k]]
    BY <1>2
  <2> HIDE DEF m
  <2> QED
    BY <1>1, <1>3, <2>1, MapNext
<1> QED
  BY <1>4, MapIs DEF Map!Delete, delete_ad_home

LEMMA SetOkImplements ==
    ASSUME Inv, NEW ID \in Id, NEW ok \in BOOLEAN, __set_ad_ok(ID, ok)
    PROVE  Map!SetOk(ID, ok)
<1>1. Map!Known = RegisteredIds
  BY MapIs
<1>2. CASE Absent(ID)
  <2>1. Refused /\ ID \notin RegisteredIds
    BY <1>2, Lookup DEF __set_ad_ok
  <2>2. map' = map /\ reply' = "failed"
    BY <2>1, MapStays DEF Refused
  <2> QED
    BY <1>1, <2>1, <2>2 DEF Map!SetOk
<1>3. CASE ~Absent(ID)
  <2> DEFINE m == [map EXCEPT ![ID].ok = ok]
  <2>1. PICK i \in Entry : i = EntryOf(ID) /\ ID \in RegisteredIds /\ AD_ID[i] = ID /\ Sound(AD_ID)
    BY <1>3, Lookup, InvSound
  <2>2. /\ AD_OK' = [AD_OK EXCEPT ![i] = ok]
        /\ reply' = "ok"
        /\ UNCHANGED <<AD_ID, AD_NAME, AD_HOME, AD_DEBUGFS_HOME>>
    BY <1>3, <2>1, Lookup DEF __set_ad_ok
  <2>3. RegisteredIds' = RegisteredIds
    BY <2>2 DEF RegisteredIds
  <2>4. ASSUME NEW k \in Entry, AD_ID'[k] # 0
        PROVE  m[AD_ID'[k]] = At(k)'
    <3>1. AD_ID'[k] = AD_ID[k] /\ AD_ID[k] \in RegisteredIds /\ EntryOf(AD_ID[k]) = k
      BY <2>1, <2>2, <2>4, TheEntry DEF RegisteredIds, EntryOf
    <3>2. map[AD_ID[k]] = At(k)
      BY <3>1, MapIs
    <3>3. CASE k = i
      <4> DEFINE r == [home |-> AD_HOME[i], debugfs |-> AD_DEBUGFS_HOME[i], ok |-> ok,
                       name |-> AD_NAME[i]]
      <4>1. m[ID] = r
        BY <2>1, <3>2, <3>3, MapIs DEF map, At
      <4>2. AD_OK'[i] = ok
        BY <2>1, <2>2 DEF Inv, RegistryTypeOK
      <4>3. At(i)' = r
        BY <2>2, <4>2 DEF At
      <4>4. AD_ID'[k] = ID
        BY <2>1, <3>1, <3>3
      <4> HIDE DEF m, r
      <4> QED
        BY <3>3, <4>1, <4>3, <4>4
    <3>4. CASE k # i
      <4>1. AD_ID[k] # ID
        BY <2>1, <3>1, <3>4
      <4>2. At(k)' = At(k)
        BY <2>2, <3>4 DEF At, Inv, RegistryTypeOK
      <4>3. m[AD_ID[k]] = map[AD_ID[k]]
        BY <3>1, <4>1 DEF map
      <4> QED
        BY <3>1, <3>2, <4>2, <4>3
    <3> QED
      BY <3>3, <3>4
  <2>5. map' = m
    <3>1. DOMAIN m = RegisteredIds' /\ m = [k \in DOMAIN m |-> m[k]]
      BY <2>3 DEF map
    <3>2. Inv'
      BY SetOkInv
    <3> HIDE DEF m
    <3> QED
      BY <2>4, <3>1, <3>2, MapNext
  <2> QED
    BY <1>1, <2>1, <2>2, <2>5 DEF Map!SetOk
<1> QED
  BY <1>2, <1>3

\* What a search returns is what the map has.
LEMMA SearchIs ==
    ASSUME Inv, NEW ID \in Id, NEW array, NEW nothing
    PROVE  Found(ID, array, nothing) =
               IF ID \in RegisteredIds THEN array[EntryOf(ID)] ELSE nothing
<1>1. CASE ID \notin RegisteredIds
  BY <1>1, Lookup DEF Found
<1>2. CASE ID \in RegisteredIds
  <2>1. ~Absent(ID) /\ EntryOf(ID) \in Entry
        /\ \A i \in Entry : First(i, Has(ID)) <=> i = EntryOf(ID)
    BY <1>2, Lookup
  <2>2. (CHOOSE i \in Entry : First(i, Has(ID))) = EntryOf(ID)
    BY <2>1
  <2> QED
    BY <1>2, <2>1, <2>2 DEF Found
<1> QED
  BY <1>1, <1>2

LEMMA CheckImplements ==
    ASSUME Inv, NEW ID \in Id, CheckCall(ID)
    PROVE  Map!CheckOk(ID)
<1>1. map' = map /\ Map!Known = RegisteredIds
  BY MapStays, MapIs DEF CheckCall
<1>2. check_ad_ok(ID) <=> ID \in RegisteredIds /\ map[ID].ok
  <2>1. CASE ID \notin RegisteredIds
    <3>1. check_ad_ok(ID) = FALSE
      BY <2>1, SearchIs DEF check_ad_ok
    <3> QED
      BY <2>1, <3>1
  <2>2. CASE ID \in RegisteredIds
    <3>1. check_ad_ok(ID) = AD_OK[EntryOf(ID)]
      BY <2>2, SearchIs DEF check_ad_ok
    <3>2. map[ID].ok = AD_OK[EntryOf(ID)]
      BY <2>2 DEF map
    <3> QED
      BY <2>2, <3>1, <3>2
  <2> QED
    BY <2>1, <2>2
<1> QED
  BY <1>1, <1>2 DEF CheckCall, Map!CheckOk

LEMMA SearchImplements ==
    ASSUME Inv, NEW ID \in Id, SearchCall(ID)
    PROVE  \E field \in {"home", "debugfs", "name"} : Map!Search(ID, field)
<1>1. map' = map /\ Map!Known = RegisteredIds
  BY MapStays, MapIs DEF SearchCall
<1>2. CASE ID \notin RegisteredIds
  <2>1. reply' = NULL
    BY <1>2, SearchIs DEF SearchCall, search_ad_home, search_ad_debugfs, search_ad_name
  <2> QED
    BY <1>1, <1>2, <2>1 DEF Map!Search
<1>3. CASE ID \in RegisteredIds
  <2>1. map[ID] = At(EntryOf(ID))
    BY <1>3, MapIs
  <2>2. reply' \in {map[ID]["home"], map[ID]["debugfs"], map[ID]["name"]}
    BY <1>3, <2>1, SearchIs DEF SearchCall, search_ad_home, search_ad_debugfs, search_ad_name, At
  <2> QED
    BY <1>1, <1>3, <2>2 DEF Map!Search
<1> QED
  BY <1>2, <1>3

LEMMA ReplyTyped ==
    ASSUME Inv, reply \in Reply, [RegistryNext]_registry
    PROVE  reply' \in Reply
<1>1. CASE UNCHANGED registry \/ Forget
  BY <1>1 DEF registry, Forget, Reply
<1>2. ASSUME NEW ID \in Id, OtherCall(ID) PROVE reply' \in Reply
  <2>1. CASE delete_ad_home(ID) \/ CheckCall(ID)
    BY <2>1 DEF delete_ad_home, CheckCall, Reply
  <2>2. ASSUME NEW ok \in BOOLEAN, __set_ad_ok(ID, ok) PROVE reply' \in Reply
    BY <2>2 DEF __set_ad_ok, Refused, Reply
  <2>3. CASE SearchCall(ID)
    <3>1. ID \in RegisteredIds => EntryOf(ID) \in Entry
      BY Lookup
    <3>2. ASSUME NEW array \in [Entry -> Path \cup Name \cup {NULL}]
          PROVE  Found(ID, array, NULL) \in Path \cup Name \cup {NULL}
      BY <3>1, SearchIs
    <3>3. \A array \in {AD_HOME, AD_DEBUGFS_HOME, AD_NAME} :
              array \in [Entry -> Path \cup Name \cup {NULL}]
      BY DEF Inv, RegistryTypeOK
    <3>4. reply' \in Path \cup Name \cup {NULL}
      BY <2>3, <3>2, <3>3 DEF SearchCall, search_ad_home, search_ad_debugfs, search_ad_name
    <3> QED
      BY <3>4 DEF Reply
  <2> QED
    BY <1>2, <2>1, <2>2, <2>3 DEF OtherCall
<1>3. ASSUME NEW ID \in Id, NEW name, NEW home, NEW debugfs,
             register_ad_home(ID, name, home, debugfs)
      PROVE  reply' \in Reply
  BY <1>3, RegisterCases DEF Refused, Fill, Reply
<1> QED
  BY <1>1, <1>2, <1>3 DEF RegistryNext

LEMMA InitImplements == RegistryInit => Map!Init
<1> SUFFICES ASSUME RegistryInit PROVE Map!Init
  OBVIOUS
<1>1. RegisteredIds = {}
  BY DEF RegistryInit, RegisteredIds
<1>2. map = [ID \in {} |-> NULL]
  BY <1>1 DEF map
<1> QED
  BY <1>2 DEF RegistryInit, Map!Init

LEMMA StepImplements == Inv /\ [RegistryNext]_registry => [Map!Next]_<<map, reply>>
<1> SUFFICES ASSUME Inv, [RegistryNext]_registry PROVE Map!Next \/ UNCHANGED <<map, reply>>
  OBVIOUS
<1>1. CASE UNCHANGED registry
  BY <1>1, MapStays DEF registry
<1>2. CASE Forget
  BY <1>2, MapStays DEF Forget, Map!Next, Map!Forget
<1>3. ASSUME NEW ID \in Id, OtherCall(ID) PROVE Map!Next
  <2>1. CASE delete_ad_home(ID)
    BY <2>1, DeleteImplements DEF Map!Next
  <2>2. ASSUME NEW ok \in BOOLEAN, __set_ad_ok(ID, ok) PROVE Map!Next
    BY <2>2, SetOkImplements DEF Map!Next
  <2>3. CASE CheckCall(ID)
    BY <2>3, CheckImplements DEF Map!Next
  <2>4. CASE SearchCall(ID)
    BY <2>4, SearchImplements DEF Map!Next
  <2> QED
    BY <1>3, <2>1, <2>2, <2>3, <2>4 DEF OtherCall
<1>4. ASSUME NEW ID \in Id, NEW name \in Name \cup {NULL}, NEW home \in Path \cup {NULL},
             NEW debugfs \in Path, register_ad_home(ID, name, home, debugfs)
      PROVE  Map!Next
  <2>1. CASE /\ ID <= 0 \/ home = NULL \/ (ID \notin RegisteredIds /\ Free = {})
             /\ Refused
    <3>1. Map!Refuse(ID, home)
      BY <2>1, RefusedImplements
    <3> QED
      BY <3>1 DEF Map!Next
  <2>2. CASE /\ ID > 0 /\ home # NULL
             /\ ID \in RegisteredIds \/ Free # {}
             /\ \E i \in Entry : Target(i, ID) /\ Fill(i, ID, name, home, debugfs)
    <3>1. Map!Register(ID, name, home, debugfs)
      BY <2>2, FillImplements
    <3> QED
      BY <3>1 DEF Map!Next
  <2> QED
    BY <1>4, <2>1, <2>2, RegisterCases
<1> QED
  BY <1>1, <1>2, <1>3, <1>4 DEF RegistryNext

\* No two entries have one id, every field has its type, and a free entry holds
\* nothing of the chip that had it, in every behaviour of the registry
\* (ad_func_internal_A.c:113-216).
THEOREM RegistrySound == RegistrySpec => [](RegistryTypeOK /\ FreeIsBlank)
<1>1. Inv => RegistryTypeOK /\ FreeIsBlank
  BY DEF Inv
<1> QED
  BY InvInit, InvStep, <1>1, PTL DEF RegistrySpec

\* The arrays of the registry, with their loops, are a map from ids that holds at
\* most AD_ARRAY_SIZE of them (ad_func_internal_A.c:35-276).
THEOREM RegistryImplementsMap == RegistrySpec => ImplementsMap
<1> QED
  BY InvInit, InvStep, InitImplements, StepImplements, PTL
     DEF RegistrySpec, ImplementsMap, Map!Spec

-----------------------------------------------------------------------------
(* The calls of the registry that the functions of the chips make *)

LEMMA NamesFound ==
    ASSUME NEW tag, NEW home \in find_ad_home(tag), home # NULL
    PROVE  home \in Path /\ find_ad_debugfs(home) \in Path
BY DEF find_ad_home, find_ad_debugfs

LEMMA ByNameRegisters ==
    ASSUME Inv, NEW id \in Id, NEW name, register_ad_byname(id, name)
    PROVE  RegistryNext \/ Refused
<1>1. PICK home \in find_ad_home(name) :
          IF home = NULL THEN Refused
                         ELSE register_ad_home(id, NULL, home, find_ad_debugfs(home))
  BY DEF register_ad_byname
<1>2. CASE home = NULL
  BY <1>1, <1>2
<1>3. CASE home # NULL
  BY <1>1, <1>3, NamesFound DEF RegistryNext
<1> QED
  BY <1>2, <1>3

\* A name that is not found is refused as a missing path is.
LEMMA RefusedIsCall ==
    ASSUME NEW id \in Id, NEW debugfs \in Path, Refused
    PROVE  register_ad_home(id, NULL, NULL, debugfs)
BY DEF register_ad_home

LEMMA StepUsesRegistry == Inv /\ [Next]_vars => [RegistryNext]_registry
<1> SUFFICES ASSUME Inv, [Next]_vars PROVE RegistryNext \/ UNCHANGED registry
  OBVIOUS
<1>1. CASE UNCHANGED vars
  BY <1>1 DEF vars
<1>2. CASE RegistryCall
  <2>1. ASSUME NEW id \in Id, NEW name \in Tag, register_ad_byname(id, name)
        PROVE  RegistryNext
    BY <2>1, ByNameRegisters, RefusedIsCall, RegistryAssumption DEF RegistryNext
  <2>2. ASSUME NEW id \in Id, NEW path \in Path, NEW home \in {path, NULL},
               register_ad_bypath(id, home, path)
        PROVE  RegistryNext
    BY <2>2 DEF register_ad_bypath, RegistryNext
  <2>3. ASSUME NEW id \in Id, OtherCall(id)
        PROVE  RegistryNext
    BY <2>3 DEF RegistryNext
  <2> QED
    BY <1>2, <2>1, <2>2, <2>3 DEF RegistryCall
<1>3. CASE SetCall \/ ad_reset \/ GetCall
  BY <1>3 DEF SetCall, ad_reset, GetCall, RegistryNext
<1> QED
  BY <1>1, <1>2, <1>3 DEF Next

\* However chips are registered, by name or by path, set, reset and read in between,
\* the arrays behave as a bounded map (ad_func_impl_A.c:25-75).
THEOREM DevicesUseMap == Spec => ImplementsMap
<1>1. Init => RegistryInit
  BY DEF Init
<1> QED
  BY <1>1, StepUsesRegistry, InvInit, InvStep, InitImplements, StepImplements, PTL
     DEF Spec, ImplementsMap, Map!Spec

-----------------------------------------------------------------------------
(* The chips *)

Chips == [Path -> [File -> Nat]]

Answers ==
    [from : Id \cup {0}, file : File \cup {"none", "rssi", "att"}, value : Nat]

\* What the calls leave of the chips
ChipsInv == file \in Chips /\ told \in Chips /\ SettingsAsTold

DeviceInv == Inv /\ TypeOK /\ SettingsAsTold /\ ReadsAreTrue

\* What a search finds is the entry of the map.
LEMMA Paths ==
    ASSUME Inv, NEW id \in Id
    PROVE  /\ search_ad_home(id) \in Path \cup {NULL} /\ search_ad_debugfs(id) \in Path \cup {NULL}
           /\ id \in RegisteredIds => /\ search_ad_home(id) = map[id].home
                                     /\ search_ad_debugfs(id) = map[id].debugfs
                                     /\ check_ad_ok(id) = map[id].ok
           /\ id \notin RegisteredIds => /\ search_ad_home(id) = NULL
                                        /\ search_ad_debugfs(id) = NULL
                                        /\ check_ad_ok(id) = FALSE
<1>1. CASE id \in RegisteredIds
  <2>1. EntryOf(id) \in Entry
    BY <1>1, Lookup
  <2>2. map[id] = At(EntryOf(id))
    BY <1>1, MapIs
  <2>3. /\ search_ad_home(id) = AD_HOME[EntryOf(id)]
        /\ search_ad_debugfs(id) = AD_DEBUGFS_HOME[EntryOf(id)]
        /\ check_ad_ok(id) = AD_OK[EntryOf(id)]
    BY <1>1, SearchIs DEF search_ad_home, search_ad_debugfs, check_ad_ok
  <2>4. AD_HOME[EntryOf(id)] \in Path \cup {NULL} /\ AD_DEBUGFS_HOME[EntryOf(id)] \in Path \cup {NULL}
    BY <2>1 DEF Inv, RegistryTypeOK
  <2> QED
    BY <1>1, <2>2, <2>3, <2>4 DEF At
<1>2. CASE id \notin RegisteredIds
  BY <1>2, SearchIs DEF search_ad_home, search_ad_debugfs, check_ad_ok
<1> QED
  BY <1>1, <1>2

LEMMA SettingNames ==
    /\ \A dir \in Dir : Frequency[dir] \in Setting /\ Bandwidth[dir] \in Setting
    /\ \A setting \in Setting : /\ setting \in File
                               /\ setting \notin {"none", "rssi", "att"} \cup Reg
    /\ Reg \subseteq File
BY DEF Dir, Frequency, Bandwidth, Setting, File, Reg

-----------------------------------------------------------------------------
(* Writing *)

LEMMA MaxIsMember == ASSUME NEW S \in SUBSET (1..3), S # {} PROVE Max(S) \in S
<1>1. \E m \in S : \A k \in S : m >= k
  <2>1. CASE 3 \in S
    BY <2>1
  <2>2. CASE 3 \notin S /\ 2 \in S
    BY <2>2
  <2>3. CASE 3 \notin S /\ 2 \notin S
    <3>1. \A k \in S : k = 1
      BY <2>3
    <3>2. PICK m \in S : TRUE
      OBVIOUS
    <3>3. \A k \in S : m >= k
      BY <3>1
    <3> QED
      BY <3>3
  <2> QED
    BY <2>1, <2>2, <2>3
<1> QED
  BY <1>1 DEF Max

\* Parts that name registers leave the settings.
LEMMA RegistersOverwritten ==
    ASSUME NEW content \in [File -> Nat], NEW parts, NEW n \in 0..3,
           \A k \in 1..n : parts[k][1] \in Reg /\ parts[k][2] \in Nat
    PROVE  /\ Overwritten(content, parts, n) \in [File -> Nat]
           /\ \A setting \in Setting :
                  Overwritten(content, parts, n)[setting] = content[setting]
<1> DEFINE last(f) == {k \in 1..n : parts[k][1] = f}
           new(f) == IF last(f) = {} THEN content[f] ELSE parts[Max(last(f))][2]
<1>1. Overwritten(content, parts, n) = [f \in File |-> new(f)]
  BY DEF Overwritten
<1>2. \A f \in File : new(f) \in Nat
  <2> SUFFICES ASSUME NEW f \in File, last(f) # {} PROVE parts[Max(last(f))][2] \in Nat
    OBVIOUS
  <2>1. last(f) \in SUBSET (1..3) /\ last(f) \subseteq 1..n
    OBVIOUS
  <2>2. Max(last(f)) \in 1..n
    <3> HIDE DEF last
    <3> QED
      BY <2>1, MaxIsMember
  <2> QED
    BY <2>2
<1>3. \A setting \in Setting : setting \in File /\ last(setting) = {}
  BY SettingNames
<1> HIDE DEF last
<1> QED
  BY <1>1, <1>2, <1>3

\* A string that is not there writes nothing ...
LEMMA NothingWritten ==
    ASSUME file \in Chips, NEW path \in Path \cup {NULL}, NEW ok \in BOOLEAN,
           sysctrl_write(path, <<>>, ok)
    PROVE  file' = file
<1>1. CASE path = NULL
  BY <1>1 DEF sysctrl_write
<1>2. CASE path # NULL
  <2>1. PICK done \in 0..0 : writeData(path, <<>>, done)
    BY <1>2 DEF sysctrl_write
  <2>2. done = 0
    OBVIOUS
  <2>3. file' = [file EXCEPT ![path] = [f \in File |-> file[path][f]]]
    BY <2>1, <2>2 DEF writeData, Overwritten
  <2>4. path \in Path /\ file[path] = [f \in File |-> file[path][f]]
    BY <1>2 DEF Chips
  <2> QED
    BY <2>3, <2>4 DEF Chips
<1> QED
  BY <1>1, <1>2

\* ... and one of a single part writes it, or nothing when it fails.
LEMMA OneWritten ==
    ASSUME file \in Chips, NEW path \in Path \cup {NULL}, NEW ok \in BOOLEAN,
           NEW setting \in File, NEW value \in Nat,
           sysctrl_write(path, << <<setting, value>> >>, ok)
    PROVE  /\ ok => path \in Path /\ file' = [file EXCEPT ![path][setting] = value]
           /\ ~ok => file' = file
<1> DEFINE parts == << <<setting, value>> >>
<1>1. CASE path = NULL
  BY <1>1 DEF sysctrl_write
<1>2. CASE path # NULL
  <2>1. PICK done \in 0..Len(parts) :
            /\ ok => done = Len(parts)
            /\ ~ok => done < Len(parts) \/ done = 0
            /\ writeData(path, parts, done)
    BY <1>2 DEF sysctrl_write
  <2>2. Len(parts) = 1 /\ parts[1][1] = setting /\ parts[1][2] = value
    OBVIOUS
  <2>3. path \in Path /\ file[path] \in [File -> Nat]
    BY <1>2 DEF Chips
  <2>4. ASSUME ~ok PROVE file' = file
    <3>1. done = 0
      BY <2>1, <2>2, <2>4
    <3>2. file' = [file EXCEPT ![path] = [f \in File |-> file[path][f]]]
      BY <2>1, <3>1 DEF writeData, Overwritten
    <3> QED
      BY <2>3, <3>2 DEF Chips
  <2>5. ASSUME ok PROVE file' = [file EXCEPT ![path][setting] = value]
    <3>1. done = 1
      BY <2>1, <2>2, <2>5
    <3> DEFINE last(f) == {k \in 1..1 : parts[k][1] = f}
    <3>2. file' = [file EXCEPT ![path] =
                      [f \in File |-> IF last(f) = {} THEN file[path][f] ELSE parts[Max(last(f))][2]]]
      BY <2>1, <3>1 DEF writeData, Overwritten
    <3>3. last(setting) = {1} /\ \A f \in File \ {setting} : last(f) = {}
      BY <2>2
    <3>4. Max({1}) = 1
      BY DEF Max
    <3>5. [f \in File |-> IF last(f) = {} THEN file[path][f] ELSE parts[Max(last(f))][2]]
              = [file[path] EXCEPT ![setting] = value]
      <4> HIDE DEF last, parts
      <4> QED
        BY <2>2, <2>3, <3>3, <3>4
    <3> HIDE DEF last, parts
    <3> QED
      BY <2>3, <3>2, <3>5
  <2> QED
    BY <2>3, <2>4, <2>5
<1> QED
  BY <1>1, <1>2

-----------------------------------------------------------------------------
(* Setting: what the calls keep *)

LEMMA SetFileKeeps ==
    ASSUME Inv, ChipsInv, NEW id \in Id, NEW setting \in Setting,
           NEW value \in Value, SetFile(id, setting, value)
    PROVE  ChipsInv'
<1>1. PICK ok \in BOOLEAN :
          /\ sysctrl_write(get_ad_home(id), << <<setting, value>> >>, ok)
          /\ told' = IF ok /\ id \in RegisteredIds
                     THEN [told EXCEPT ![map[id].home][setting] = value] ELSE told
  BY DEF SetFile
<1>2. value \in Nat /\ setting \in File /\ Setting \subseteq File
  BY DeviceAssumption, SettingNames
<1>3. get_ad_home(id) \in Path \cup {NULL}
  BY Paths DEF get_ad_home
<1>4. /\ ok => get_ad_home(id) \in Path /\ file' = [file EXCEPT ![get_ad_home(id)][setting] = value]
      /\ ~ok => file' = file
  BY <1>1, <1>2, <1>3, OneWritten DEF ChipsInv
<1>5. CASE ~ok
  BY <1>1, <1>4, <1>5 DEF ChipsInv, SettingsAsTold
<1>6. CASE ok
  <2>1. id \in RegisteredIds /\ get_ad_home(id) = map[id].home
    BY <1>4, <1>6, Paths, RegistryAssumption DEF get_ad_home
  <2> DEFINE home == get_ad_home(id)
  <2>2. /\ home \in Path
        /\ file' = [file EXCEPT ![home][setting] = value]
        /\ told' = [told EXCEPT ![home][setting] = value]
    BY <1>1, <1>4, <1>6, <2>1
  <2> HIDE DEF home
  <2>3. file' \in Chips /\ told' \in Chips
    BY <1>2, <2>2 DEF ChipsInv, Chips
  <2>4. ASSUME NEW p \in Path, NEW s \in Setting PROVE file'[p][s] = told'[p][s]
    BY <1>2, <2>2 DEF ChipsInv, Chips, SettingsAsTold
  <2> QED
    BY <2>3, <2>4 DEF ChipsInv, SettingsAsTold
<1> QED
  BY <1>5, <1>6

LEMMA SetRegistersKeeps ==
    ASSUME Inv, ChipsInv, NEW id \in Id, NEW parts, Len(parts) \in 0..3,
           \A k \in 1..Len(parts) : parts[k][1] \in Reg /\ parts[k][2] \in Nat,
           SetRegisters(id, parts)
    PROVE  ChipsInv'
<1>1. PICK ok \in BOOLEAN :
          /\ sysctrl_write(get_ad_debugfs(id), <<>>, ok)
          /\ told' = IF ok /\ id \in RegisteredIds
                     THEN [told EXCEPT ![map[id].debugfs] = Overwritten(@, parts, Len(parts))]
                     ELSE told
  BY DEF SetRegisters, Cleared
<1>2. get_ad_debugfs(id) \in Path \cup {NULL}
  BY Paths DEF get_ad_debugfs
<1>3. file' = file
  BY <1>1, <1>2, NothingWritten DEF ChipsInv
<1>4. ASSUME NEW p \in Path
      PROVE  LET new == Overwritten(told[p], parts, Len(parts))
             IN  new \in [File -> Nat] /\ \A s \in Setting : new[s] = told[p][s]
  <2>1. told[p] \in [File -> Nat]
    BY DEF ChipsInv, Chips
  <2> QED
    BY <2>1, RegistersOverwritten
<1> DEFINE d == map[id].debugfs
<1>5. /\ told' \in Chips
      /\ \A p \in Path, s \in Setting : told'[p][s] = told[p][s]
  <2>1. CASE ok /\ id \in RegisteredIds
    <3>1. told' = [told EXCEPT ![d] = Overwritten(told[d], parts, Len(parts))]
      BY <1>1, <2>1
    <3> HIDE DEF d
    <3> QED
      BY <1>4, <3>1 DEF ChipsInv, Chips
  <2>2. CASE ~(ok /\ id \in RegisteredIds)
    BY <1>1, <2>2 DEF ChipsInv
  <2> QED
    BY <2>1, <2>2
<1> QED
  BY <1>3, <1>5 DEF ChipsInv, SettingsAsTold

LEMMA SetCallKeeps ==
    ASSUME Inv, ChipsInv, SetCall
    PROVE  ChipsInv'
<1>1. PICK id \in Id, value \in Value :
          \/ \E dir \in Dir : ad9361_set_freq(id, dir, value) \/ ad9361_set_bd(id, dir, value)
          \/ ad9361_set_rxgain(id, value)
          \/ ad9361_set_rxgain_mod(id)
          \/ ad9361_set_att(id, value, 1)
  BY DEF SetCall
<1>2. value \in Nat /\ M_HANDLE \in Nat /\ M_AUTO \in Nat
  BY DeviceAssumption DEF M_HANDLE, M_AUTO
<1>3. CASE \E dir \in Dir : ad9361_set_freq(id, dir, value) \/ ad9361_set_bd(id, dir, value)
  BY <1>3, SetFileKeeps, SettingNames DEF ad9361_set_freq, ad9361_set_bd
<1>4. CASE ad9361_set_rxgain(id, value)
  <2> DEFINE parts == << <<"0x109", value>> >>
  <2>1. /\ Len(parts) \in 0..3
        /\ \A k \in 1..Len(parts) : parts[k][1] \in Reg /\ parts[k][2] \in Nat
    BY <1>2 DEF Reg
  <2>2. SetRegisters(id, parts)
    BY <1>4 DEF ad9361_set_rxgain
  <2> HIDE DEF parts
  <2> QED
    BY <2>1, <2>2, SetRegistersKeeps
<1>5. CASE ad9361_set_rxgain_mod(id)
  <2> DEFINE handle == << <<"0xFA", M_HANDLE>>, <<"0xFB", 8>> >>
             auto == << <<"0xFA", M_AUTO>> >>
  <2>1. /\ Len(handle) \in 0..3
        /\ \A k \in 1..Len(handle) : handle[k][1] \in Reg /\ handle[k][2] \in Nat
    BY <1>2 DEF Reg
  <2>2. /\ Len(auto) \in 0..3
        /\ \A k \in 1..Len(auto) : auto[k][1] \in Reg /\ auto[k][2] \in Nat
    BY <1>2 DEF Reg
  <2>3. SetRegisters(id, handle) \/ SetRegisters(id, auto)
    BY <1>5 DEF ad9361_set_rxgain_mod
  <2> HIDE DEF handle, auto
  <2> QED
    BY <2>1, <2>2, <2>3, SetRegistersKeeps
<1>6. CASE ad9361_set_att(id, value, 1)
  <2> DEFINE parts == << <<"0x73", value>>, <<"0x74", 1>>, <<"0x7C", 64>> >>
  <2>1. /\ Len(parts) \in 0..3
        /\ \A k \in 1..Len(parts) : parts[k][1] \in Reg /\ parts[k][2] \in Nat
    BY <1>2 DEF Reg
  <2>2. SetRegisters(id, parts)
    BY <1>6 DEF ad9361_set_att
  <2> HIDE DEF parts
  <2> QED
    BY <2>1, <2>2, SetRegistersKeeps
<1> QED
  BY <1>1, <1>3, <1>4, <1>5, <1>6

LEMMA ResetKeeps ==
    ASSUME ChipsInv, ad_reset
    PROVE  ChipsInv'
<1>1. PICK done \in {<<>>, <<get_ad_debugfs(AD_ONE_ID)>>,
                     <<get_ad_debugfs(AD_ONE_ID), get_ad_debugfs(AD_TWO_ID)>>} :
          /\ file' = [p \in Path |-> IF p \in ToSet(done) THEN Preset[p] ELSE file[p]]
          /\ told' = [p \in Path |-> IF p \in ToSet(done) THEN Preset[p] ELSE told[p]]
  BY DEF ad_reset
<1>2. file' \in Chips /\ told' \in Chips
  BY <1>1, DeviceAssumption DEF ChipsInv, Chips
<1> QED
  BY <1>1, <1>2 DEF ChipsInv, SettingsAsTold

-----------------------------------------------------------------------------
(* Reading *)

\* What a chip that may be read holds
LEMMA ReadIsTyped ==
    ASSUME Inv, ChipsInv, NEW id \in Id
    PROVE  /\ Readable(id, search_ad_home(id)) =>
                  /\ map[id].ok /\ search_ad_home(id) = map[id].home
                  /\ search_ad_home(id) \in Path
           /\ Readable(id, search_ad_debugfs(id)) =>
                  /\ map[id].ok /\ search_ad_debugfs(id) = map[id].debugfs
                  /\ \A reg \in Reg : Given(search_ad_debugfs(id), reg) \subseteq Nat
<1>1. /\ search_ad_home(id) \in Path \cup {NULL}
      /\ search_ad_debugfs(id) \in Path \cup {NULL}
  BY Paths
<1>2. \A p \in Path, reg \in Reg : Given(p, reg) \subseteq Nat
  BY SettingNames DEF Given, ChipsInv, Chips
<1>3. check_ad_ok(id) => /\ id \in RegisteredIds /\ map[id].ok
                         /\ search_ad_home(id) = map[id].home
                         /\ search_ad_debugfs(id) = map[id].debugfs
  BY Paths
<1> QED
  BY <1>1, <1>2, <1>3 DEF Readable

\* The registry is not called, and what is read is what the chip holds.
LEMMA GetCallTrue ==
    ASSUME Inv, ChipsInv, GetCall
    PROVE  ReadsAreTrue' /\ answer' \in Answers
<1> USE DEF Reads
<1>1. UNCHANGED <<arrays, told, file>> /\ map' = map
  BY MapStays DEF GetCall, Forget
<1>2. ASSUME NEW id \in Id, NEW setting \in Setting, AD_getSetting(id, setting)
      PROVE  ReadsAreTrue' /\ answer' \in Answers
  <2> DEFINE home == search_ad_home(id)
  <2>1. /\ Readable(id, home)
        /\ answer' = [from |-> id, file |-> setting, value |-> file[home][setting]]
    BY <1>2 DEF AD_getSetting
  <2>2. map[id].ok /\ home = map[id].home /\ home \in Path
    BY <2>1, ReadIsTyped
  <2> HIDE DEF home
  <2>3. file[home][setting] = told[home][setting] /\ file[home][setting] \in Nat
    BY <2>2, SettingNames DEF ChipsInv, Chips, SettingsAsTold
  <2> QED
    BY <1>1, <2>1, <2>2, <2>3, SettingNames DEF ReadsAreTrue, Answers, Reg
<1>3. ASSUME NEW id \in Id, AD_getRSSIValue(id) PROVE ReadsAreTrue' /\ answer' \in Answers
  <2>1. PICK rssi \in Value : answer' = [from |-> id, file |-> "rssi", value |-> rssi]
    BY <1>3 DEF AD_getRSSIValue
  <2>2. map[id].ok
    BY <1>3, ReadIsTyped DEF AD_getRSSIValue
  <2> QED
    BY <1>1, <2>1, <2>2, SettingNames, DeviceAssumption DEF ReadsAreTrue, Answers
<1>4. "0x109" \in Reg /\ "0xFA" \in Reg /\ "0x73" \in Reg /\ "0x74" \in Reg
  BY DEF Reg
<1>5. ASSUME NEW id \in Id, AD_getGCValue(id) PROVE ReadsAreTrue' /\ answer' \in Answers
  <2>1. PICK value \in Given(search_ad_debugfs(id), "0x109") :
            answer' = [from |-> id, file |-> "0x109", value |-> value]
    BY <1>5 DEF AD_getGCValue
  <2>2. map[id].ok /\ search_ad_debugfs(id) = map[id].debugfs /\ value \in Nat
    BY <1>4, <1>5, <2>1, ReadIsTyped DEF AD_getGCValue
  <2>3. answer' \in Answers
    BY <1>4, <2>1, <2>2, SettingNames DEF Answers
  <2> QED
    BY <1>1, <1>4, <2>1, <2>2, <2>3, SettingNames DEF ReadsAreTrue, Given
<1>6. ASSUME NEW id \in Id, AD_getGCMode(id) PROVE ReadsAreTrue' /\ answer' \in Answers
  <2>1. PICK value \in Given(search_ad_debugfs(id), "0xFA") \cap {M_AUTO, M_HANDLE} :
            answer' = [from |-> id, file |-> "0xFA", value |-> value]
    BY <1>6 DEF AD_getGCMode
  <2>2. map[id].ok /\ search_ad_debugfs(id) = map[id].debugfs /\ value \in Nat
    BY <1>4, <1>6, <2>1, ReadIsTyped DEF AD_getGCMode
  <2>3. value = file[search_ad_debugfs(id)]["0xFA"]
    BY <2>1 DEF Given, M_AUTO, M_HANDLE
  <2>4. answer' \in Answers
    BY <1>4, <2>1, <2>2, SettingNames DEF Answers
  <2> QED
    BY <1>1, <1>4, <2>1, <2>2, <2>3, <2>4, SettingNames DEF ReadsAreTrue
<1>7. ASSUME NEW id \in Id, AD_getATTValue(id) PROVE ReadsAreTrue' /\ answer' \in Answers
  <2>1. PICK low \in Given(search_ad_debugfs(id), "0x73"),
             high \in Given(search_ad_debugfs(id), "0x74") :
            answer' = [from |-> id, file |-> "att", value |-> low + 256 * high]
    BY <1>7 DEF AD_getATTValue
  <2>2. map[id].ok /\ search_ad_debugfs(id) = map[id].debugfs /\ low \in Nat /\ high \in Nat
    BY <1>4, <1>7, <2>1, ReadIsTyped DEF AD_getATTValue
  <2>3. answer' \in Answers
    BY <2>1, <2>2 DEF Answers
  <2>4. "att" \notin Setting
    BY SettingNames
  <2>5. /\ low \in {file'[map'[id].debugfs]["0x73"], 0}
        /\ high \in {file'[map'[id].debugfs]["0x74"], 0}
    BY <1>1, <2>1, <2>2 DEF Given
  <2>6. answer'.file = "att" /\ answer'.from = id /\ answer'.value = low + 256 * high
    BY <2>1
  <2> QED
    BY <1>1, <2>2, <2>3, <2>4, <2>5, <2>6 DEF ReadsAreTrue
<1>8. CASE GetFails
  BY <1>8, SettingNames DEF GetFails, Nothing, ReadsAreTrue, Answers
<1> QED
  BY <1>2, <1>3, <1>5, <1>6, <1>7, <1>8, SettingNames
     DEF GetCall, AD_getFrequency, AD_getBandwidth

LEMMA NothingRead == answer = Nothing => ReadsAreTrue /\ answer \in Answers
BY SettingNames DEF Nothing, ReadsAreTrue, Answers

LEMMA DeviceParts ==
    DeviceInv <=> /\ Inv /\ ChipsInv /\ ReadsAreTrue
                  /\ reply \in Reply /\ answer \in Answers /\ sets \in 0..MaxSets
BY DEF DeviceInv, TypeOK, Inv, ChipsInv, Chips, Answers

LEMMA DeviceInit == Init => DeviceInv
<1> SUFFICES ASSUME Init PROVE DeviceInv
  OBVIOUS
<1>1. Inv /\ ReadsAreTrue /\ answer \in Answers
  BY InvInit, NothingRead DEF Init
<1>2. ChipsInv /\ sets \in 0..MaxSets
  BY DeviceAssumption DEF Init, Chips, ChipsInv, SettingsAsTold
<1>3. reply \in Reply
  BY DEF Init, RegistryInit, Reply
<1> QED
  BY <1>1, <1>2, <1>3, DeviceParts

LEMMA DeviceStep == DeviceInv /\ [Next]_vars => DeviceInv'
<1> SUFFICES ASSUME DeviceInv, [Next]_vars PROVE DeviceInv'
  OBVIOUS
<1>1. /\ Inv /\ ChipsInv /\ ReadsAreTrue
      /\ reply \in Reply /\ answer \in Answers /\ sets \in 0..MaxSets
  BY DeviceParts
<1>2. Inv' /\ reply' \in Reply
  BY <1>1, StepUsesRegistry, InvStep, ReplyTyped
<1>3. SUFFICES ChipsInv' /\ ReadsAreTrue' /\ answer' \in Answers /\ sets' \in 0..MaxSets
  BY <1>2 DEF DeviceInv, TypeOK, Inv, ChipsInv, Chips, Answers
<1>4. answer' = Nothing => ReadsAreTrue' /\ answer' \in Answers
  BY SettingNames DEF Nothing, ReadsAreTrue, Answers
<1>5. UNCHANGED <<file, told>> => ChipsInv'
  BY <1>1 DEF ChipsInv, SettingsAsTold
<1>6. CASE RegistryCall
  BY <1>1, <1>4, <1>5, <1>6 DEF RegistryCall
<1>7. CASE SetCall \/ ad_reset
  <2>1. answer' = Nothing /\ sets' \in 0..MaxSets
    BY <1>1, <1>7, DeviceAssumption DEF SetCall, ad_reset
  <2> QED
    BY <1>1, <1>4, <1>7, <2>1, SetCallKeeps, ResetKeeps
<1>8. CASE GetCall
  <2>1. UNCHANGED <<file, sets, told>>
    BY <1>8 DEF GetCall
  <2> QED
    BY <1>1, <1>5, <1>8, <2>1, GetCallTrue
<1>9. CASE UNCHANGED vars
  <2>1. UNCHANGED <<file, sets, told, answer, arrays>> /\ map' = map
    BY <1>9, MapStays DEF vars, chips, registry
  <2>2. ReadsAreTrue'
    BY <1>1, <2>1 DEF ReadsAreTrue
  <2> QED
    BY <1>1, <1>5, <2>1, <2>2
<1> QED
  BY <1>6, <1>7, <1>8, <1>9 DEF Next

\* What the files and registers of the chips hold, what was told of them, what the
\* calls return and what is read are of their types, whatever fails on the way
\* (sysfs_op.c:45-65, ad_func_impl_B.c).
THEOREM DevicesTyped == Spec => []TypeOK
<1>1. DeviceInv => TypeOK
  BY DEF DeviceInv
<1> QED
  BY <1>1, DeviceInit, DeviceStep, PTL DEF Spec

\* For any number of chips, ids and registrations, the frequencies and bandwidths of
\* the chips are those whose set was reported as done, on the chip the id named at the
\* time (device_ctrl.c:191-260).  Nothing is said of the registers, whose sets are
\* reported as done and write nothing (device_ctrl.c:276, 306, 345).
THEOREM DevicesAsTold == Spec => []SettingsAsTold
<1>1. DeviceInv => SettingsAsTold
  BY DEF DeviceInv
<1> QED
  BY <1>1, DeviceInit, DeviceStep, PTL DEF Spec

\* For any number of chips, ids and registrations, what is read for an id is of the
\* chip the id names and of the file asked for, a setting as it was told and a register
\* as the chip holds it, but for the register reads that give no bytes
\* (ad_func_impl_B.c:68, 129, 340, 418, 441).
THEOREM DevicesReadTrue == Spec => []ReadsAreTrue
<1>1. DeviceInv => ReadsAreTrue
  BY DEF DeviceInv
<1> QED
  BY <1>1, DeviceInit, DeviceStep, PTL DEF Spec
=============================================================================
