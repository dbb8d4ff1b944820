---------------------------- MODULE LogLibProofs ----------------------------
(***************************************************************************)
(* The log under two threads, or under main and its signal handler, and    *)
(* any number of initializations: what loses the process (FaultsExplained),*)
(* what a successful initialization gives (InitSound), what a release      *)
(* closes (ReleaseCloses), that lines stay whole (LinesStayWhole) and that *)
(* datagrams have an address (DatagramsHaveAddress).                       *)
(***************************************************************************)
EXTENDS LogLib, FiniteSetTheorems, TLAPS

Late == "late" \in misuse

\* An initialization in libLog holds its mutex; it opens things in between.
Holding == InitCalls \ {"initLock"}
Building == {"initMutexes", "initBuffer", "initFile", "initSocket", "initDefaults"}

Types ==
    /\ version \in {"libLog", "MDKServer"}
    /\ pc \in [Caller -> Place]
    /\ lock \in [Mutex -> Caller \cup {None, Destroyed}]
    /\ status \in BOOLEAN
    /\ inits \in Nat
    /\ handle \in [Resource -> 0..inits]
    /\ live \subseteq Resource \X (1..inits)
    /\ temp_ptr \in [Caller -> Nat]
    /\ era \in {"new", "ready", "released"}

\* The calls that must not go on in a log that is released
Active == InitCalls \cup PrintCalls \cup {"flush"}

\* Only a release destroys the mutex of the data, nothing makes it anew, and a release
\* begins when nothing else goes on, or the callers are late.
Sound ==
    ~Late =>
        /\ lock["data"] = Destroyed => era = "released"
        /\ \A t \in Caller :
              /\ InLine(t) => lock["data"] = t
              /\ pc[t] \in Active => era # "released"
              /\ pc[t] \in ReleaseCalls => era = "released"

\* One caller at a time initializes: by the mutex in libLog, and in the server because
\* only main does, once.
OneInit ==
    /\ lock["init"] # Destroyed
    /\ version = "libLog" => \A t \in Caller : pc[t] \in Holding => lock["init"] = t
    /\ version = "MDKServer" =>
           /\ pc[Other] \notin InitCalls
           /\ pc[Main] \notin {"initLock", "initTest"}
           /\ pc[Main] = "initMutexes" => inits = 0
    /\ inits = 0 => ~status
    /\ \A t \in Caller : pc[t] \in Building \ {"initMutexes"} => inits > 0

\* What an initialization has opened at each of its steps.
HasOpen(t) ==
    /\ pc[t] \in Building => ~status
    /\ pc[t] = "initDone" => status
    /\ pc[t] \in {"initFile", "initSocket", "initDefaults"} => IsLive("buffer")
    /\ pc[t] \in {"initSocket", "initDefaults"} => IsLive("file")
    /\ pc[t] = "initDefaults" => IsLive("socket")

\* The status says that everything is open.
Opened ==
    ~Late /\ era # "released" =>
        /\ lock["local"] # Destroyed
        /\ era = "ready" => status
        /\ \A r \in Resource : status => IsLive(r)
        /\ \A t \in Caller : HasOpen(t)

\* A handle is nothing or open: a second set-up that fails clears the handle it replaces.
Usable == ~Late /\ era # "released" =>
        /\ \A r \in Resource : handle[r] = 0 \/ IsLive(r)

\* A print or a flush has found the log ready, or was begun too early.
Printing ==
    ~Late => \A t \in Caller :
        /\ pc[t] \in PrintCalls \ {"printStatus"} => status
        /\ pc[t] \in PrintCalls =>
               IF temp_ptr[t] = 0 THEN "early" \in misuse
                                  ELSE <<"buffer", temp_ptr[t]>> \in live
        /\ pc[t] = "flush" => "earlyflush" \in misuse \/ status

\* A release has unmarked what it has closed, and no other goes on.
Flags ==
    ~Late =>
        /\ \A s, t \in Caller : pc[s] \in ReleaseCalls /\ pc[t] \in ReleaseCalls => s = t
        /\ \A t \in Caller :
              /\ pc[t] \in {"relFile", "relNull", "relBuffer", "relMutex"} => "socket" \notin success
              /\ pc[t] \in {"relBuffer", "relMutex"} => "file" \notin success
              /\ pc[t] = "relMutex" => "buffer" \notin success
        /\ success \subseteq Resource \cup {"mutex"}
        /\ era = "released" /\ (\A t \in Caller : pc[t] \notin ReleaseCalls) => success = {}

\* What a release has still to close can be closed.
Closing ==
    ~Late => \A t \in Caller :
        /\ pc[t] \in {"relSocket", "relFile"} => handle["file"] = 0 \/ IsLive("file")
        /\ pc[t] \in {"relSocket", "relFile", "relNull", "relBuffer"}
               => handle["buffer"] = 0 \/ IsLive("buffer")

\* What success says is open: RelFile closes the file before RelNull unmarks it.
Marked == {r \in success \cap Resource : r = "file" => \A t \in Caller : pc[t] # "relNull"}

\* While there is one initialization only, the marks say what is open.
Once ==
    ~Late /\ inits <= 1 =>
        /\ live = {<<r, 1>> : r \in Marked}
        /\ \A r \in success \cap Resource : handle[r] = 1
        /\ inits = 0 => success = {}
        /\ \A t \in Caller :
              /\ pc[t] = "initBuffer" => success \cap Resource = {}
              /\ pc[t] = "initFile" => "file" \notin success
              /\ pc[t] \in {"initFile", "initSocket"} => "socket" \notin success
              /\ pc[t] = "relNull" => "file" \in success

\* Once the net has been on, the address is not written any more, or the callers
\* have moved it.
Quiet == ~Late /\ "netmoved" \notin misuse
Address ==
    /\ net \in BOOLEAN /\ temp_net \in [Caller -> BOOLEAN] /\ remote \in {"zero", "whole"}
    /\ Quiet =>
        /\ net => "neton" \in misuse
        /\ \A t \in Caller : temp_net[t] => "neton" \in misuse
        /\ "neton" \in misuse => \A t \in Caller : pc[t] \notin NetCalls
    /\ ~Late /\ era # "released" /\ remote = "zero"
             /\ (status \/ \E t \in Caller : pc[t] = "initDefaults")
           => \E t \in Caller : pc[t] = "netFill"

Inv ==
    /\ Types /\ Sound /\ OneInit /\ Opened /\ Usable /\ Printing
    /\ Flags /\ Closing /\ Once /\ Address /\ FaultsHaveCause

-----------------------------------------------------------------------------
\* Only late calls make the history forget.
LEMMA Noted ==
  ASSUME NEW what, Note(what)
  PROVE  /\ Late' <=> Late \/ "late" \in what
         /\ ~Late' => /\ "early" \in misuse' <=> "early" \in misuse \cup what
                      /\ "earlyflush" \in misuse' <=> "earlyflush" \in misuse \cup what
  BY DEF Note, Late

LEMMA LiveIsOpen ==
  ASSUME Types, NEW r \in Resource, IsLive(r)
  PROVE  handle[r] # 0
  BY DEF Types, IsLive

\* A lock that is got was free, or is no lock any more.
LEMMA Locked ==
  ASSUME NEW t \in Caller, NEW m \in Mutex, Types, Lock(t, m)
  PROVE  /\ lock' \in [Mutex -> Caller \cup {None, Destroyed}]
         /\ \A n \in Mutex \ {m} : lock'[n] = lock[n]
         /\ \/ lock[m] = None /\ lock'[m] = t
            \/ lock[m] = Destroyed /\ lock'[m] = Destroyed
  BY LogAssumption DEF Types, Lock

-----------------------------------------------------------------------------
(* One lemma for each action: it keeps every part of the invariant. *)

LEMMA InitializeLogKeeps ==
  ASSUME NEW t \in Caller, Inv, Runs(t), InitializeLog(t)
  PROVE  Inv'
<1>1. Types'
  BY DEF InitializeLog, Go, Inv, Types, Place, Mutex, Resource, Caller, InitCalls,
      PrintCalls, ReleaseCalls, NetCalls, SetCalls, opened, temps
<1>2. Sound'
  BY DEF InitializeLog, Go, Note, Inv, Types, Sound, Late, InLine, Active, Mutex,
      Caller, InitCalls, PrintCalls, ReleaseCalls, opened
<1>3. OneInit'
  <2>1. /\ pc[t] = "idle"
        /\ pc' = [pc EXCEPT ![t] = IF version = "libLog" THEN "initLock" ELSE "initMutexes"]
        /\ UNCHANGED <<version, lock, status, inits>>
        /\ version = "MDKServer" => t # Other /\ inits = 0
    BY DEF InitializeLog, MayCall, Go, opened
  <2>2. CASE version = "libLog"
    <3>1. /\ pc'[t] = "initLock"
          /\ \A s \in Caller : s # t => pc'[s] = pc[s]
      BY <2>1, <2>2 DEF Inv, Types
    <3>2. ASSUME NEW s \in Caller
          PROVE  /\ pc'[s] \in Holding => lock["init"] = s
                 /\ pc'[s] \in Building \ {"initMutexes"} => inits > 0
      BY <3>1, <2>2 DEF Inv, OneInit, Holding, Building
    <3> QED
      BY <2>1, <2>2, <3>2 DEF Inv, OneInit
  <2>3. CASE version = "MDKServer"
    <3>1. t = Main
      BY <2>1, <2>3 DEF Caller
    <3> QED
      BY <2>1, <2>3, <3>1, LogAssumption DEF Inv, Types, OneInit, Building, InitCalls, Caller
  <2> QED
    BY <2>2, <2>3 DEF Inv, Types
<1>4. Opened'
  BY DEF InitializeLog, Go, MayCall, Note, Inv, Types, Sound, OneInit, Opened,
      Late, HasOpen, Active, Holding, Building, IsLive, Mutex, Resource, Caller,
      InitCalls, ReleaseCalls, opened
<1>5. Usable'
  BY DEF InitializeLog, Note, Inv, Types, Sound, Opened, Usable, Late, IsLive,
      Active, Mutex, Resource, Caller, InitCalls, ReleaseCalls, opened
<1>6. Printing'
  BY DEF InitializeLog, Go, Note, Inv, Types, Sound, Opened, Usable, Printing,
      Late, IsLive, HasOpen, Building, Active, Mutex, Resource, Caller,
      InitCalls, ReleaseCalls, PrintCalls, opened, temps
<1>7. Flags'
  BY DEF InitializeLog, Go, Note, Inv, Types, Sound, Flags, Late, Active, Resource,
      Caller, InitCalls, ReleaseCalls, opened
<1>8. Closing'
  BY DEF InitializeLog, Note, Inv, Types, Sound, Usable, Flags, Closing, Late,
      IsLive, Active, Resource, Caller, InitCalls, ReleaseCalls, opened
<1>9. Once'
  BY DEF InitializeLog, Go, Note, Inv, Types, Sound, OneInit, Flags, Once, Marked,
      Late, Active, Holding, Building, Resource, Caller, InitCalls,
      ReleaseCalls, opened
<1>10. Address'
  BY DEF InitializeLog, Go, MayCall, Note, Inv, Types, Sound, OneInit, Opened,
      Address, Quiet, Late, Active, HasOpen, Building, Holding, Caller,
      InitCalls, ReleaseCalls, NetCalls, network, temps, opened
<1>11. FaultsHaveCause'
  BY DEF InitializeLog, Note, Inv, Types, Sound, Opened, Usable, Printing, Closing,
      Once, FaultsHaveCause, Late, InLine, Active, IsLive, Resource, Caller,
      PrintCalls, InitCalls, Runs, opened
<1> QED
  BY <1>1, <1>2, <1>3, <1>4, <1>5, <1>6, <1>7, <1>8, <1>9, <1>10, <1>11 DEF Inv

LEMMA InitLockKeeps ==
  ASSUME NEW t \in Caller, Inv, Runs(t), InitLock(t)
  PROVE  Inv'
<1>0. /\ lock' \in [Mutex -> Caller \cup {None, Destroyed}]
      /\ lock'["local"] = lock["local"] /\ lock'["data"] = lock["data"]
      /\ \/ lock["init"] = None /\ lock'["init"] = t
         \/ lock["init"] = Destroyed /\ lock'["init"] = Destroyed
  BY Locked DEF InitLock, Inv, Mutex
<1>1. Types'
  BY <1>0
  DEF InitLock, Go, At, Inv, Types, Place, Mutex, Resource, Caller, InitCalls,
      PrintCalls, ReleaseCalls, NetCalls, SetCalls, history, opened, temps
<1>2. Sound'
  BY <1>0
  DEF InitLock, Go, At, Inv, Types, Sound, Late, InLine, Active, Mutex, Caller,
      InitCalls, PrintCalls, ReleaseCalls, history, opened
<1>3. OneInit'
  <2>1. t # Destroyed /\ lock["init"] = None /\ lock'["init"] = t
    BY <1>0, LogAssumption DEF Inv, OneInit
  <2>2. version = "libLog" => \A s \in Caller : pc[s] \notin Holding
    BY <2>1, LogAssumption DEF Inv, OneInit
  <2>3. /\ pc' = [pc EXCEPT ![t] = "initTest"] /\ pc[t] = "initLock"
        /\ UNCHANGED <<version, status, inits>>
    BY DEF InitLock, At, Go, opened
  <2>4. version # "MDKServer"
    BY <2>3 DEF Inv, OneInit, Caller, InitCalls
  <2> QED
    BY <2>1, <2>2, <2>3, <2>4, <1>1 DEF Inv, Types, OneInit, Building
<1>4. Opened'
  BY <1>0
  DEF InitLock, Go, At, Inv, Types, Sound, OneInit, Opened, Late, HasOpen,
      Active, Holding, Building, IsLive, Mutex, Resource, Caller, InitCalls,
      ReleaseCalls, history, opened
<1>5. Usable'
  BY DEF InitLock, Go, At, Inv, Types, Sound, Opened, Usable, Late, IsLive, Active,
      Mutex, Resource, Caller, InitCalls, ReleaseCalls, history, opened
<1>6. Printing'
  BY DEF InitLock, Go, At, Inv, Types, Sound, Opened, Usable, Printing, Late,
      IsLive, HasOpen, Building, Active, Mutex, Resource, Caller, InitCalls,
      ReleaseCalls, PrintCalls, history, opened, temps
<1>7. Flags'
  BY DEF InitLock, Go, At, Inv, Types, Sound, Flags, Late, Active, Resource,
      Caller, InitCalls, ReleaseCalls, history, opened
<1>8. Closing'
  BY DEF InitLock, Go, At, Inv, Types, Sound, Usable, Flags, Closing, Late, IsLive,
      Active, Resource, Caller, InitCalls, ReleaseCalls, history, opened
<1>9. Once'
  BY DEF InitLock, Go, At, Inv, Types, Sound, OneInit, Flags, Once, Marked, Late,
      Active, Holding, Building, Resource, Caller, InitCalls, ReleaseCalls,
      history, opened
<1>10. Address'
  BY DEF InitLock, Go, At, Inv, Types, Sound, OneInit, Opened, Address, Quiet,
      Late, Active, HasOpen, Building, Holding, Caller, InitCalls, ReleaseCalls,
      NetCalls, network, temps, history, opened
<1>11. FaultsHaveCause'
  BY DEF InitLock, Go, At, Inv, Types, Sound, Opened, Usable, Printing, Closing,
      Once, FaultsHaveCause, Late, InLine, Active, IsLive, Resource, Caller,
      PrintCalls, InitCalls, history, opened
<1> QED
  BY <1>1, <1>2, <1>3, <1>4, <1>5, <1>6, <1>7, <1>8, <1>9, <1>10, <1>11 DEF Inv

LEMMA InitTestKeeps ==
  ASSUME NEW t \in Caller, Inv, Runs(t), InitTest(t)
  PROVE  Inv'
<1>1. Types'
  BY DEF InitTest, Go, At, Inv, Types, Place, Mutex, Resource, Caller, InitCalls,
      PrintCalls, ReleaseCalls, NetCalls, SetCalls, history, opened, temps
<1>2. Sound'
  BY DEF InitTest, Go, At, Inv, Types, Sound, Late, InLine, Active, Mutex, Caller,
      InitCalls, PrintCalls, ReleaseCalls, history, opened
<1>3. OneInit'
  BY DEF InitTest, Go, At, Inv, Types, OneInit, Holding, Building, Mutex, Caller,
      InitCalls, history, opened
<1>4. Opened'
  BY DEF InitTest, Go, At, Inv, Types, Sound, OneInit, Opened, Late, HasOpen,
      Active, Holding, Building, IsLive, Mutex, Resource, Caller, InitCalls,
      ReleaseCalls, history, opened
<1>5. Usable'
  BY DEF InitTest, Inv, Types, Sound, Opened, Usable, Late, IsLive, Active, Mutex,
      Resource, Caller, InitCalls, ReleaseCalls, history, opened
<1>6. Printing'
  BY DEF InitTest, Go, At, Inv, Types, Sound, Opened, Usable, Printing, Late,
      IsLive, HasOpen, Building, Active, Mutex, Resource, Caller, InitCalls,
      ReleaseCalls, PrintCalls, history, opened, temps
<1>7. Flags'
  BY DEF InitTest, Go, At, Inv, Types, Sound, Flags, Late, Active, Resource,
      Caller, InitCalls, ReleaseCalls, history, opened
<1>8. Closing'
  BY DEF InitTest, At, Inv, Types, Sound, Usable, Flags, Closing, Late, IsLive,
      Active, Resource, Caller, InitCalls, ReleaseCalls, history, opened
<1>9. Once'
  BY DEF InitTest, Go, At, Inv, Types, Sound, OneInit, Flags, Once, Marked, Late,
      Active, Holding, Building, Resource, Caller, InitCalls, ReleaseCalls,
      history, opened
<1>10. Address'
  BY DEF InitTest, Go, At, Inv, Types, Sound, OneInit, Opened, Address, Quiet,
      Late, Active, HasOpen, Building, Holding, Caller, InitCalls, ReleaseCalls,
      NetCalls, network, temps, history, opened
<1>11. FaultsHaveCause'
  BY DEF InitTest, Inv, Types, Sound, Opened, Usable, Printing, Closing, Once,
      FaultsHaveCause, Late, InLine, Active, IsLive, Resource, Caller,
      PrintCalls, InitCalls, history, opened
<1> QED
  BY <1>1, <1>2, <1>3, <1>4, <1>5, <1>6, <1>7, <1>8, <1>9, <1>10, <1>11 DEF Inv

LEMMA InitMutexesKeeps ==
  ASSUME NEW t \in Caller, Inv, Runs(t), InitMutexes(t)
  PROVE  Inv'
<1>1. Types'
  BY DEF InitMutexes, Go, At, Inv, Types, Place, Mutex, Resource, Caller,
      InitCalls, PrintCalls, ReleaseCalls, NetCalls, SetCalls, history, temps
<1>2. Sound'
  BY DEF InitMutexes, Go, At, Inv, Types, Sound, Late, InLine, Active, Mutex,
      Caller, InitCalls, PrintCalls, ReleaseCalls, history
<1>3. OneInit'
  BY DEF InitMutexes, Go, At, Inv, Types, OneInit, Holding, Building, Mutex,
      Caller, InitCalls, history
<1>4. Opened'
  BY LogAssumption
  DEF InitMutexes, Go, At, Inv, Types, Sound, OneInit, Opened, Late, HasOpen,
      Active, Holding, Building, IsLive, Mutex, Resource, Caller, InitCalls,
      ReleaseCalls, history
<1>5. Usable'
  BY DEF InitMutexes, At, Inv, Types, Sound, Opened, Usable, Late, IsLive, Active,
      Mutex, Resource, Caller, InitCalls, ReleaseCalls, history
<1>6. Printing'
  BY DEF InitMutexes, Go, At, Inv, Types, Sound, Opened, Usable, Printing, Late,
      IsLive, HasOpen, Building, Active, Mutex, Resource, Caller, InitCalls,
      ReleaseCalls, PrintCalls, history, temps
<1>7. Flags'
  BY DEF InitMutexes, Go, At, Inv, Types, Sound, Flags, Late, Active, Resource,
      Caller, InitCalls, ReleaseCalls, history
<1>8. Closing'
  BY DEF InitMutexes, At, Inv, Types, Sound, Usable, Flags, Closing, Late, IsLive,
      Active, Resource, Caller, InitCalls, ReleaseCalls, history
<1>9. Once'
  BY DEF InitMutexes, Go, At, Inv, Types, Sound, OneInit, Flags, Once, Marked,
      Late, Active, Holding, Building, Resource, Caller, InitCalls,
      ReleaseCalls, history
<1>10. Address'
  BY DEF InitMutexes, Go, At, Inv, Types, Sound, OneInit, Opened, Address, Quiet,
      Late, Active, HasOpen, Building, Holding, Caller, InitCalls, ReleaseCalls,
      NetCalls, network, temps, history
<1>11. FaultsHaveCause'
  BY DEF InitMutexes, At, Inv, Types, Sound, Opened, Usable, Printing, Closing,
      Once, FaultsHaveCause, Late, InLine, Active, IsLive, Resource, Caller,
      PrintCalls, InitCalls, history
<1> QED
  BY <1>1, <1>2, <1>3, <1>4, <1>5, <1>6, <1>7, <1>8, <1>9, <1>10, <1>11 DEF Inv

LEMMA InitBufferKeeps ==
  ASSUME NEW t \in Caller, Inv, Runs(t), InitBuffer(t)
  PROVE  Inv'
<1>1. Types'
  <2>1. inits \in 1..inits
    BY DEF Inv, Types, OneInit, Building, InitBuffer
  <2>2. handle' \in [Resource -> 0..inits] /\ live' \subseteq Resource \X (1..inits)
    BY <2>1 DEF Inv, Types, InitBuffer, Open, Resource, opened
  <2>3. pc' \in [Caller -> Place] /\ status' \in BOOLEAN
    BY DEF Inv, Types, Place, InitCalls, InitBuffer, Open, Go, opened
  <2> QED
    BY <2>2, <2>3 DEF Inv, Types, InitBuffer, Open, opened, temps, history
<1>2. Sound'
  BY DEF InitBuffer, Go, Open, Inv, Types, Sound, Late, InLine, Active, Mutex,
      Caller, InitCalls, PrintCalls, ReleaseCalls, history
<1>3. OneInit'
  BY DEF InitBuffer, Go, Open, Inv, Types, OneInit, Holding, Building, Mutex,
      Caller, InitCalls, history
<1>4. Opened'
  BY DEF InitBuffer, Go, Open, Inv, Types, Sound, OneInit, Opened, Late, HasOpen,
      Active, Holding, Building, IsLive, Mutex, Resource, Caller, InitCalls,
      ReleaseCalls, history
<1>5. Usable'
  BY DEF InitBuffer, Open, Inv, Types, Sound, Opened, Usable, Late, IsLive, Active,
      Mutex, Resource, Caller, InitCalls, ReleaseCalls, history
<1>6. Printing'
  BY DEF InitBuffer, Go, Open, Inv, Types, Sound, Opened, Usable, Printing, Late,
      IsLive, HasOpen, Building, Active, Mutex, Resource, Caller, InitCalls,
      ReleaseCalls, PrintCalls, history, temps
<1>7. Flags'
  BY DEF InitBuffer, Go, Open, Inv, Types, Sound, Flags, Late, Active, Resource,
      Caller, InitCalls, ReleaseCalls, history
<1>8. Closing'
  BY DEF InitBuffer, Open, Inv, Types, Sound, Usable, Flags, Closing, Late, IsLive,
      Active, Resource, Caller, InitCalls, ReleaseCalls, history
<1>9. Once'
  BY DEF InitBuffer, Go, Open, Inv, Types, Sound, OneInit, Flags, Once, Marked,
      Late, Active, Holding, Building, Resource, Caller, InitCalls,
      ReleaseCalls, history
<1>10. Address'
  BY DEF InitBuffer, Go, Open, Inv, Types, Sound, OneInit, Opened, Address, Quiet,
      Late, Active, HasOpen, Building, Holding, Caller, InitCalls, ReleaseCalls,
      NetCalls, temps, history
<1>11. FaultsHaveCause'
  BY DEF InitBuffer, Open, Inv, Types, Sound, Opened, Usable, Printing, Closing,
      Once, FaultsHaveCause, Late, InLine, Active, IsLive, Resource, Caller,
      PrintCalls, InitCalls, history
<1> QED
  BY <1>1, <1>2, <1>3, <1>4, <1>5, <1>6, <1>7, <1>8, <1>9, <1>10, <1>11 DEF Inv

LEMMA InitFileKeeps ==
  ASSUME NEW t \in Caller, Inv, Runs(t), InitFile(t)
  PROVE  Inv'
<1>1. Types'
  <2>1. inits \in 1..inits
    BY DEF Inv, Types, OneInit, Building, InitFile
  <2>2. handle' \in [Resource -> 0..inits] /\ live' \subseteq Resource \X (1..inits)
    BY <2>1 DEF Inv, Types, InitFile, Open, Resource, opened
  <2>3. pc' \in [Caller -> Place] /\ status' \in BOOLEAN
    BY DEF Inv, Types, Place, InitCalls, InitFile, Open, Go, opened
  <2> QED
    BY <2>2, <2>3 DEF Inv, Types, InitFile, Open, opened, temps, history
<1>2. Sound'
  BY DEF InitFile, Go, Open, Inv, Types, Sound, Late, InLine, Active, Mutex,
      Caller, InitCalls, PrintCalls, ReleaseCalls, history, opened
<1>3. OneInit'
  BY DEF InitFile, Go, Open, Inv, Types, OneInit, Holding, Building, Mutex, Caller,
      InitCalls, history, opened
<1>4. Opened'
  BY DEF InitFile, Go, Open, Inv, Types, Sound, OneInit, Opened, Late, HasOpen,
      Active, Holding, Building, IsLive, Mutex, Resource, Caller, InitCalls,
      ReleaseCalls, history, opened
<1>5. Usable'
  BY DEF InitFile, Open, Inv, Types, Sound, Opened, Usable, Late, IsLive, Active,
      Mutex, Resource, Caller, InitCalls, ReleaseCalls, history, opened
<1>6. Printing'
  BY DEF InitFile, Go, Open, Inv, Types, Sound, Opened, Usable, Printing, Late,
      IsLive, HasOpen, Building, Active, Mutex, Resource, Caller, InitCalls,
      ReleaseCalls, PrintCalls, history, opened, temps
<1>7. Flags'
  BY DEF InitFile, Go, Open, Inv, Types, Sound, Flags, Late, Active, Resource,
      Caller, InitCalls, ReleaseCalls, history, opened
<1>8. Closing'
  BY DEF InitFile, Open, Inv, Types, Sound, Usable, Flags, Closing, Late, IsLive,
      Active, Resource, Caller, InitCalls, ReleaseCalls, history, opened
<1>9. Once'
  BY DEF InitFile, Go, Open, Inv, Types, Sound, OneInit, Flags, Once, Marked, Late,
      Active, Holding, Building, Resource, Caller, InitCalls, ReleaseCalls,
      history, opened
<1>10. Address'
  BY DEF InitFile, Go, Open, Inv, Types, Sound, OneInit, Opened, Address, Quiet,
      Late, Active, HasOpen, Building, Holding, Caller, InitCalls, ReleaseCalls,
      NetCalls, network, temps, history, opened
<1>11. FaultsHaveCause'
  BY DEF InitFile, Open, Inv, Types, Sound, Opened, Usable, Printing, Closing,
      Once, FaultsHaveCause, Late, InLine, Active, IsLive, Resource, Caller,
      PrintCalls, InitCalls, history, opened
<1> QED
  BY <1>1, <1>2, <1>3, <1>4, <1>5, <1>6, <1>7, <1>8, <1>9, <1>10, <1>11 DEF Inv

LEMMA InitSocketKeeps ==
  ASSUME NEW t \in Caller, Inv, Runs(t), InitSocket(t)
  PROVE  Inv'
<1>1. Types'
  <2>1. inits \in 1..inits
    BY DEF Inv, Types, OneInit, Building, InitSocket
  <2>2. handle' \in [Resource -> 0..inits] /\ live' \subseteq Resource \X (1..inits)
    BY <2>1 DEF Inv, Types, InitSocket, Open, Resource, opened
  <2>3. pc' \in [Caller -> Place] /\ status' \in BOOLEAN
    BY DEF Inv, Types, Place, InitCalls, InitSocket, Open, Go, opened
  <2> QED
    BY <2>2, <2>3 DEF Inv, Types, InitSocket, Open, opened, temps, history
<1>2. Sound'
  BY DEF InitSocket, Go, Open, Inv, Types, Sound, Late, InLine, Active, Mutex,
      Caller, InitCalls, PrintCalls, ReleaseCalls, history
<1>3. OneInit'
  BY DEF InitSocket, Go, Open, Inv, Types, OneInit, Holding, Building, Mutex,
      Caller, InitCalls, history
<1>4. Opened'
  BY DEF InitSocket, Go, Open, Inv, Types, Sound, OneInit, Opened, Late, HasOpen,
      Active, Holding, Building, IsLive, Mutex, Resource, Caller, InitCalls,
      ReleaseCalls, history
<1>5. Usable'
  BY DEF InitSocket, Open, Inv, Types, Sound, Opened, Usable, Late, IsLive, Active,
      Mutex, Resource, Caller, InitCalls, ReleaseCalls, history
<1>6. Printing'
  BY DEF InitSocket, Go, Open, Inv, Types, Sound, Opened, Usable, Printing, Late,
      IsLive, HasOpen, Building, Active, Mutex, Resource, Caller, InitCalls,
      ReleaseCalls, PrintCalls, history, temps
<1>7. Flags'
  BY DEF InitSocket, Go, Open, Inv, Types, Sound, Flags, Late, Active, Resource,
      Caller, InitCalls, ReleaseCalls, history
<1>8. Closing'
  BY DEF InitSocket, Open, Inv, Types, Sound, Usable, Flags, Closing, Late, IsLive,
      Active, Resource, Caller, InitCalls, ReleaseCalls, history
<1>9. Once'
  BY DEF InitSocket, Go, Open, Inv, Types, Sound, OneInit, Flags, Once, Marked,
      Late, Active, Holding, Building, Resource, Caller, InitCalls,
      ReleaseCalls, history
<1>10. Address'
  BY DEF InitSocket, Go, Open, Inv, Types, Sound, OneInit, Opened, Address, Quiet,
      Late, Active, HasOpen, Building, Holding, Caller, InitCalls, ReleaseCalls,
      NetCalls, temps, history
<1>11. FaultsHaveCause'
  BY DEF InitSocket, Open, Inv, Types, Sound, Opened, Usable, Printing, Closing,
      Once, FaultsHaveCause, Late, InLine, Active, IsLive, Resource, Caller,
      PrintCalls, InitCalls, history
<1> QED
  BY <1>1, <1>2, <1>3, <1>4, <1>5, <1>6, <1>7, <1>8, <1>9, <1>10, <1>11 DEF Inv

LEMMA InitDefaultsKeeps ==
  ASSUME NEW t \in Caller, Inv, Runs(t), InitDefaults(t)
  PROVE  Inv'
<1>1. Types'
  BY DEF InitDefaults, Go, At, Inv, Types, Place, Mutex, Resource, Caller,
      InitCalls, PrintCalls, ReleaseCalls, NetCalls, SetCalls, history, temps
<1>2. Sound'
  BY DEF InitDefaults, Go, At, Inv, Types, Sound, Late, InLine, Active, Mutex,
      Caller, InitCalls, PrintCalls, ReleaseCalls, history
<1>3. OneInit'
  BY DEF InitDefaults, Go, At, Inv, Types, OneInit, Holding, Building, Mutex,
      Caller, InitCalls, history
<1>4. Opened'
  BY DEF InitDefaults, Go, At, Inv, Types, Sound, OneInit, Opened, Late, HasOpen,
      Active, Holding, Building, IsLive, Mutex, Resource, Caller, InitCalls,
      ReleaseCalls, history
<1>5. Usable'
  BY DEF InitDefaults, Inv, Types, Sound, Opened, Usable, Late, IsLive, Active,
      Mutex, Resource, Caller, InitCalls, ReleaseCalls, history
<1>6. Printing'
  BY DEF InitDefaults, Go, At, Inv, Types, Sound, Opened, Usable, Printing, Late,
      IsLive, HasOpen, Building, Active, Mutex, Resource, Caller, InitCalls,
      ReleaseCalls, PrintCalls, history, temps
<1>7. Flags'
  BY DEF InitDefaults, Go, At, Inv, Types, Sound, Flags, Late, Active, Resource,
      Caller, InitCalls, ReleaseCalls, history
<1>8. Closing'
  BY DEF InitDefaults, At, Inv, Types, Sound, Usable, Flags, Closing, Late, IsLive,
      Active, Resource, Caller, InitCalls, ReleaseCalls, history
<1>9. Once'
  BY DEF InitDefaults, Go, At, Inv, Types, Sound, OneInit, Flags, Once, Marked,
      Late, Active, Holding, Building, Resource, Caller, InitCalls,
      ReleaseCalls, history
<1>10. Address'
  <2>1. /\ net' \in BOOLEAN /\ temp_net' \in [Caller -> BOOLEAN]
        /\ remote' \in {"zero", "whole"}
    BY DEF Inv, Address, InitDefaults, At, temps, network, opened, history
  <2>2. Quiet' => /\ net' => "neton" \in misuse'
                  /\ \A s \in Caller : temp_net'[s] => "neton" \in misuse'
                  /\ "neton" \in misuse' => \A s \in Caller : pc'[s] \notin NetCalls
    BY DEF Inv, Types, Address, Quiet, Late, NetCalls, Go, InitDefaults, At, temps, network, opened, history
  <2>3. ~Late' /\ era' # "released" /\ remote' = "zero"
               /\ (status' \/ \E s \in Caller : pc'[s] = "initDefaults")
           => \E s \in Caller : pc'[s] = "netFill"
    BY DEF Inv, Types, Address, Late, Go, InitDefaults, At, temps, network, opened, history
  <2> QED
    BY <2>1, <2>2, <2>3 DEF Address
<1>11. FaultsHaveCause'
  BY DEF InitDefaults, Inv, Types, Sound, Opened, Usable, Printing, Closing, Once,
      FaultsHaveCause, Late, InLine, Active, IsLive, Resource, Caller,
      PrintCalls, InitCalls, history
<1> QED
  BY <1>1, <1>2, <1>3, <1>4, <1>5, <1>6, <1>7, <1>8, <1>9, <1>10, <1>11 DEF Inv

LEMMA InitReturnKeeps ==
  ASSUME NEW t \in Caller, Inv, Runs(t), InitReturn(t)
  PROVE  Inv'
<1>1. Types'
  BY DEF InitReturn, Go, Unlocked, Inv, Types, Place, Mutex, Resource, Caller,
      InitCalls, PrintCalls, ReleaseCalls, NetCalls, SetCalls, opened, temps
<1>2. Sound'
  BY DEF InitReturn, Go, Unlocked, Inv, Types, Sound, Late, InLine, Active, Mutex,
      Caller, InitCalls, PrintCalls, ReleaseCalls, opened
<1>3. OneInit'
  BY LogAssumption
  DEF InitReturn, Go, Unlocked, Inv, Types, OneInit, Holding, Building, Mutex,
      Caller, InitCalls, opened
<1>4. Opened'
  BY DEF InitReturn, Go, Unlocked, Inv, Types, Sound, OneInit, Opened, Late,
      HasOpen, Active, Holding, Building, IsLive, Mutex, Resource, Caller,
      InitCalls, ReleaseCalls, opened
<1>5. Usable'
  BY DEF InitReturn, Unlocked, Inv, Types, Sound, Opened, Usable, Late, IsLive,
      Active, Mutex, Resource, Caller, InitCalls, ReleaseCalls, opened
<1>6. Printing'
  BY DEF InitReturn, Go, Unlocked, Inv, Types, Sound, Opened, Usable, Printing,
      Late, IsLive, HasOpen, Building, Active, Mutex, Resource, Caller,
      InitCalls, ReleaseCalls, PrintCalls, opened, temps
<1>7. Flags'
  BY DEF InitReturn, Go, Unlocked, Inv, Types, Sound, Flags, Late, Active,
      Resource, Caller, InitCalls, ReleaseCalls, opened
<1>8. Closing'
  BY DEF InitReturn, Unlocked, Inv, Types, Sound, Usable, Flags, Closing, Late,
      IsLive, Active, Resource, Caller, InitCalls, ReleaseCalls, opened
<1>9. Once'
  BY DEF InitReturn, Go, Unlocked, Inv, Types, Sound, OneInit, Flags, Once, Marked,
      Late, Active, Holding, Building, Resource, Caller, InitCalls,
      ReleaseCalls, opened
<1>10. Address'
  BY DEF InitReturn, Go, Unlocked, Inv, Types, Sound, OneInit, Opened, Address,
      Quiet, Late, Active, HasOpen, Building, Holding, Caller, InitCalls,
      ReleaseCalls, NetCalls, network, temps, opened
<1>11. FaultsHaveCause'
  BY DEF InitReturn, Unlocked, Inv, Types, Sound, Opened, Usable, Printing,
      Closing, Once, FaultsHaveCause, Late, InLine, Active, IsLive, Resource,
      Caller, PrintCalls, InitCalls, opened
<1> QED
  BY <1>1, <1>2, <1>3, <1>4, <1>5, <1>6, <1>7, <1>8, <1>9, <1>10, <1>11 DEF Inv

LEMMA ReleaseLogKeeps ==
  ASSUME NEW t \in Caller, Inv, Runs(t), ReleaseLog(t)
  PROVE  Inv'
<1>1. Types'
  BY DEF ReleaseLog, Go, Busy, Inv, Types, Place, Mutex, Resource, Caller,
      InitCalls, PrintCalls, ReleaseCalls, NetCalls, SetCalls, opened, temps
<1>2. Sound'
  BY DEF ReleaseLog, Go, Note, Busy, Inv, Types, Sound, Late, InLine, Active,
      Mutex, Caller, InitCalls, PrintCalls, ReleaseCalls, opened
<1>3. OneInit'
  BY DEF ReleaseLog, Go, Note, Busy, Inv, Types, OneInit, Holding, Building, Mutex,
      Caller, InitCalls, Runs, opened
<1>4. Opened'
  BY DEF ReleaseLog, Note, Busy, Inv, Types, Sound, OneInit, Opened, Late, HasOpen,
      Active, Holding, Building, IsLive, Mutex, Resource, Caller, InitCalls,
      ReleaseCalls, opened
<1>5. Usable'
  BY DEF ReleaseLog, Note, Busy, Inv, Types, Sound, Opened, Usable, Late, IsLive,
      Active, Mutex, Resource, Caller, InitCalls, ReleaseCalls, opened
<1>6. Printing'
  BY DEF ReleaseLog, Go, Note, Busy, Inv, Types, Sound, Opened, Usable, Printing,
      Late, IsLive, HasOpen, Building, Active, Mutex, Resource, Caller,
      InitCalls, ReleaseCalls, PrintCalls, opened, temps
<1>7. Flags'
  BY DEF ReleaseLog, Go, Note, Busy, Inv, Types, Sound, Flags, Late, Active,
      Resource, Caller, InitCalls, ReleaseCalls, opened
<1>8. Closing'
  BY DEF ReleaseLog, Go, Note, Busy, Inv, Types, Sound, Usable, Flags, Closing,
      Late, IsLive, Active, Resource, Caller, InitCalls, ReleaseCalls, opened
<1>9. Once'
  BY DEF ReleaseLog, Go, Note, Busy, Inv, Types, Sound, OneInit, Flags, Once,
      Marked, Late, Active, Holding, Building, Resource, Caller, InitCalls,
      ReleaseCalls, opened
<1>10. Address'
  BY DEF ReleaseLog, Go, Note, Busy, Inv, Types, Sound, OneInit, Opened, Address,
      Quiet, Late, Active, HasOpen, Building, Holding, Caller, InitCalls,
      ReleaseCalls, NetCalls, network, temps, opened
<1>11. FaultsHaveCause'
  BY DEF ReleaseLog, Note, Busy, Inv, Types, Sound, Opened, Usable, Printing,
      Closing, Once, FaultsHaveCause, Late, InLine, Active, IsLive, Resource,
      Caller, PrintCalls, InitCalls, Runs, opened
<1> QED
  BY <1>1, <1>2, <1>3, <1>4, <1>5, <1>6, <1>7, <1>8, <1>9, <1>10, <1>11 DEF Inv

LEMMA RelSocketKeeps ==
  ASSUME NEW t \in Caller, Inv, Runs(t), RelSocket(t)
  PROVE  Inv'
<1>1. Types'
  BY DEF RelSocket, Go, At, Inv, Types, Place, Mutex, Resource, Caller, InitCalls,
      PrintCalls, ReleaseCalls, NetCalls, SetCalls, Closed, history, temps
<1>2. Sound'
  BY DEF RelSocket, Go, At, Inv, Types, Sound, Late, InLine, Active, Mutex, Caller,
      InitCalls, PrintCalls, ReleaseCalls, history
<1>3. OneInit'
  BY DEF RelSocket, Go, At, Inv, Types, OneInit, Holding, Building, Mutex, Caller,
      InitCalls, history
<1>4. Opened'
  BY DEF RelSocket, At, Inv, Types, Sound, OneInit, Opened, Late, HasOpen, Active,
      Holding, Building, IsLive, Closed, Mutex, Resource, Caller, InitCalls,
      ReleaseCalls, history
<1>5. Usable'
  BY DEF RelSocket, Inv, Types, Sound, Opened, Usable, Late, IsLive, Active,
      Closed, Mutex, Resource, Caller, InitCalls, ReleaseCalls, history
<1>6. Printing'
  BY DEF RelSocket, Go, At, Inv, Types, Sound, Opened, Usable, Printing, Late,
      IsLive, HasOpen, Building, Active, Closed, Mutex, Resource, Caller,
      InitCalls, ReleaseCalls, PrintCalls, history, temps
<1>7. Flags'
  BY DEF RelSocket, Go, At, Inv, Types, Sound, Flags, Late, Active, Resource,
      Caller, InitCalls, ReleaseCalls, history
<1>8. Closing'
  BY DEF RelSocket, At, Inv, Types, Sound, Usable, Flags, Closing, Late, IsLive,
      Closed, Active, Resource, Caller, InitCalls, ReleaseCalls, history
<1>9. Once'
  BY DEF RelSocket, Go, At, Inv, Types, Sound, OneInit, Flags, Once, Marked, Late,
      Closed, Active, Holding, Building, Resource, Caller, InitCalls,
      ReleaseCalls, history
<1>10. Address'
  BY DEF RelSocket, Go, At, Inv, Types, Sound, OneInit, Opened, Address, Quiet,
      Late, Active, HasOpen, Building, Holding, Caller, InitCalls, ReleaseCalls,
      NetCalls, temps, history
<1>11. FaultsHaveCause'
  BY DEF RelSocket, Inv, Types, Sound, Opened, Usable, Printing, Closing, Once,
      FaultsHaveCause, Late, InLine, Active, IsLive, Resource, Caller,
      PrintCalls, InitCalls, history
<1> QED
  BY <1>1, <1>2, <1>3, <1>4, <1>5, <1>6, <1>7, <1>8, <1>9, <1>10, <1>11 DEF Inv

LEMMA RelFileKeeps ==
  ASSUME NEW t \in Caller, Inv, Runs(t), RelFile(t)
  PROVE  Inv'
<1>1. Types'
  BY DEF RelFile, Go, Inv, Types, Place, Mutex, Resource, Caller, InitCalls,
      PrintCalls, ReleaseCalls, NetCalls, SetCalls, Closed, UseOf, temps
<1>2. Sound'
  BY DEF RelFile, Go, Inv, Types, Sound, Late, InLine, Active, Mutex, Caller,
      InitCalls, PrintCalls, ReleaseCalls
<1>3. OneInit'
  BY DEF RelFile, Go, Inv, Types, OneInit, Holding, Building, Mutex, Caller,
      InitCalls
<1>4. Opened'
  BY DEF RelFile, Inv, Types, Sound, OneInit, Opened, Late, HasOpen, Active,
      Holding, Building, IsLive, Closed, Mutex, Resource, Caller, InitCalls,
      ReleaseCalls
<1>5. Usable'
  BY DEF RelFile, Inv, Types, Sound, Opened, Usable, Late, IsLive, Active, Closed,
      Mutex, Resource, Caller, InitCalls, ReleaseCalls
<1>6. Printing'
  BY DEF RelFile, Go, Inv, Types, Sound, Opened, Usable, Printing, Late, IsLive,
      HasOpen, Building, Active, Closed, Mutex, Resource, Caller, InitCalls,
      ReleaseCalls, PrintCalls, temps
<1>7. Flags'
  BY DEF RelFile, Go, Inv, Types, Sound, Flags, Late, Active, Resource, Caller,
      InitCalls, ReleaseCalls
<1>8. Closing'
  BY DEF RelFile, Go, Inv, Types, Sound, Usable, Flags, Closing, Late, IsLive,
      Closed, Active, Resource, Caller, InitCalls, ReleaseCalls
<1>9. Once'
  BY DEF RelFile, Go, Inv, Types, Sound, OneInit, Flags, Once, Marked, Late,
      Closed, Active, Holding, Building, Resource, Caller, InitCalls,
      ReleaseCalls
<1>10. Address'
  BY DEF RelFile, Go, Inv, Types, Sound, OneInit, Opened, Address, Quiet, Late,
      Active, HasOpen, Building, Holding, Caller, InitCalls, ReleaseCalls,
      NetCalls, network, temps
<1>11. FaultsHaveCause'
  BY DEF RelFile, Inv, Types, Sound, Opened, Usable, Printing, Closing, Once,
      FaultsHaveCause, Late, InLine, Active, IsLive, UseOf, Resource, Caller,
      PrintCalls, InitCalls
<1> QED
  BY <1>1, <1>2, <1>3, <1>4, <1>5, <1>6, <1>7, <1>8, <1>9, <1>10, <1>11 DEF Inv

LEMMA RelNullKeeps ==
  ASSUME NEW t \in Caller, Inv, Runs(t), RelNull(t)
  PROVE  Inv'
<1>1. Types'
  BY DEF RelNull, Go, At, Inv, Types, Place, Mutex, Resource, Caller, InitCalls,
      PrintCalls, ReleaseCalls, NetCalls, SetCalls, history, temps
<1>2. Sound'
  BY DEF RelNull, Go, At, Inv, Types, Sound, Late, InLine, Active, Mutex, Caller,
      InitCalls, PrintCalls, ReleaseCalls, history
<1>3. OneInit'
  BY DEF RelNull, Go, At, Inv, Types, OneInit, Holding, Building, Mutex, Caller,
      InitCalls, history
<1>4. Opened'
  BY DEF RelNull, At, Inv, Types, Sound, OneInit, Opened, Late, HasOpen, Active,
      Holding, Building, IsLive, Mutex, Resource, Caller, InitCalls,
      ReleaseCalls, history
<1>5. Usable'
  BY DEF RelNull, Inv, Types, Sound, Opened, Usable, Late, IsLive, Active, Mutex,
      Resource, Caller, InitCalls, ReleaseCalls, history
<1>6. Printing'
  BY DEF RelNull, Go, At, Inv, Types, Sound, Opened, Usable, Printing, Late,
      IsLive, HasOpen, Building, Active, Mutex, Resource, Caller, InitCalls,
      ReleaseCalls, PrintCalls, history, temps
<1>7. Flags'
  BY DEF RelNull, Go, At, Inv, Types, Sound, Flags, Late, Active, Resource, Caller,
      InitCalls, ReleaseCalls, history
<1>8. Closing'
  BY DEF RelNull, At, Inv, Types, Sound, Usable, Flags, Closing, Late, IsLive,
      Active, Resource, Caller, InitCalls, ReleaseCalls, history
<1>9. Once'
  BY DEF RelNull, Go, At, Inv, Types, Sound, OneInit, Flags, Once, Marked, Late,
      Active, Holding, Building, Resource, Caller, InitCalls, ReleaseCalls,
      history
<1>10. Address'
  BY DEF RelNull, Go, At, Inv, Types, Sound, OneInit, Opened, Address, Quiet, Late,
      Active, HasOpen, Building, Holding, Caller, InitCalls, ReleaseCalls,
      NetCalls, network, temps, history
<1>11. FaultsHaveCause'
  BY DEF RelNull, Inv, Types, Sound, Opened, Usable, Printing, Closing, Once,
      FaultsHaveCause, Late, InLine, Active, IsLive, Resource, Caller,
      PrintCalls, InitCalls, history
<1> QED
  BY <1>1, <1>2, <1>3, <1>4, <1>5, <1>6, <1>7, <1>8, <1>9, <1>10, <1>11 DEF Inv

LEMMA RelBufferKeeps ==
  ASSUME NEW t \in Caller, Inv, Runs(t), RelBuffer(t)
  PROVE  Inv'
<1>1. Types'
  BY DEF RelBuffer, Go, At, Inv, Types, Place, Mutex, Resource, Caller, InitCalls,
      PrintCalls, ReleaseCalls, NetCalls, SetCalls, Closed, UseOf, temps
<1>2. Sound'
  BY DEF RelBuffer, Go, At, Inv, Types, Sound, Late, InLine, Active, Mutex, Caller,
      InitCalls, PrintCalls, ReleaseCalls
<1>3. OneInit'
  BY DEF RelBuffer, Go, At, Inv, Types, OneInit, Holding, Building, Mutex, Caller,
      InitCalls
<1>4. Opened'
  BY DEF RelBuffer, At, Inv, Types, Sound, OneInit, Opened, Late, HasOpen, Active,
      Holding, Building, IsLive, Closed, Mutex, Resource, Caller, InitCalls,
      ReleaseCalls
<1>5. Usable'
  BY DEF RelBuffer, At, Inv, Types, Sound, Opened, Usable, Late, IsLive, Active,
      Closed, Mutex, Resource, Caller, InitCalls, ReleaseCalls
<1>6. Printing'
  BY DEF RelBuffer, Go, At, Inv, Types, Sound, Opened, Usable, Printing, Late,
      IsLive, HasOpen, Building, Active, Closed, Mutex, Resource, Caller,
      InitCalls, ReleaseCalls, PrintCalls, temps
<1>7. Flags'
  BY DEF RelBuffer, Go, At, Inv, Types, Sound, Flags, Late, Active, Resource,
      Caller, InitCalls, ReleaseCalls
<1>8. Closing'
  BY DEF RelBuffer, Go, At, Inv, Types, Sound, Usable, Flags, Closing, Late,
      IsLive, Closed, Active, Resource, Caller, InitCalls, ReleaseCalls
<1>9. Once'
  BY DEF RelBuffer, Go, At, Inv, Types, Sound, OneInit, Flags, Once, Marked, Late,
      Closed, Active, Holding, Building, Resource, Caller, InitCalls,
      ReleaseCalls
<1>10. Address'
  BY DEF RelBuffer, Go, At, Inv, Types, Sound, OneInit, Opened, Address, Quiet,
      Late, Active, HasOpen, Building, Holding, Caller, InitCalls, ReleaseCalls,
      NetCalls, network, temps
<1>11. FaultsHaveCause'
  BY DEF RelBuffer, At, Inv, Types, Sound, Opened, Usable, Printing, Closing, Once,
      FaultsHaveCause, Late, InLine, Active, IsLive, UseOf, Resource, Caller,
      PrintCalls, InitCalls
<1> QED
  BY <1>1, <1>2, <1>3, <1>4, <1>5, <1>6, <1>7, <1>8, <1>9, <1>10, <1>11 DEF Inv

LEMMA RelMutexKeeps ==
  ASSUME NEW t \in Caller, Inv, Runs(t), RelMutex(t)
  PROVE  Inv'
<1>1. Types'
  BY DEF RelMutex, Go, At, DestroyAll, Inv, Types, Place, Mutex, Resource, Caller,
      InitCalls, PrintCalls, ReleaseCalls, NetCalls, SetCalls, history, temps
<1>2. Sound'
  BY DEF RelMutex, Go, At, DestroyAll, Inv, Types, Sound, Late, InLine, Active,
      Mutex, Caller, InitCalls, PrintCalls, ReleaseCalls, history
<1>3. OneInit'
  BY DEF RelMutex, Go, At, DestroyAll, Inv, Types, OneInit, Holding, Building,
      Mutex, Caller, InitCalls, history
<1>4. Opened'
  BY DEF RelMutex, At, DestroyAll, Inv, Types, Sound, OneInit, Opened, Late,
      HasOpen, Active, Holding, Building, IsLive, Mutex, Resource, Caller,
      InitCalls, ReleaseCalls, history
<1>5. Usable'
  BY DEF RelMutex, At, DestroyAll, Inv, Types, Sound, Opened, Usable, Late, IsLive,
      Active, Mutex, Resource, Caller, InitCalls, ReleaseCalls, history
<1>6. Printing'
  BY DEF RelMutex, Go, At, DestroyAll, Inv, Types, Sound, Opened, Usable, Printing,
      Late, IsLive, HasOpen, Building, Active, Mutex, Resource, Caller,
      InitCalls, ReleaseCalls, PrintCalls, history, temps
<1>7. Flags'
  BY DEF RelMutex, Go, At, DestroyAll, Inv, Types, Sound, Flags, Late, Active,
      Resource, Caller, InitCalls, ReleaseCalls, history
<1>8. Closing'
  BY DEF RelMutex, Go, At, DestroyAll, Inv, Types, Sound, Usable, Flags, Closing,
      Late, IsLive, Active, Resource, Caller, InitCalls, ReleaseCalls, history
<1>9. Once'
  BY DEF RelMutex, Go, At, DestroyAll, Inv, Types, Sound, OneInit, Flags, Once,
      Marked, Late, Active, Holding, Building, Resource, Caller, InitCalls,
      ReleaseCalls, history
<1>10. Address'
  BY DEF RelMutex, Go, At, DestroyAll, Inv, Types, Sound, OneInit, Opened, Address,
      Quiet, Late, Active, HasOpen, Building, Holding, Caller, InitCalls,
      ReleaseCalls, NetCalls, network, temps, history
<1>11. FaultsHaveCause'
  BY DEF RelMutex, At, DestroyAll, Inv, Types, Sound, Opened, Usable, Printing,
      Closing, Once, FaultsHaveCause, Late, InLine, Active, IsLive, Resource,
      Caller, PrintCalls, InitCalls, history
<1> QED
  BY <1>1, <1>2, <1>3, <1>4, <1>5, <1>6, <1>7, <1>8, <1>9, <1>10, <1>11 DEF Inv

LEMMA LogPrintKeeps ==
  ASSUME NEW t \in Caller, Inv, Runs(t), LogPrint(t)
  PROVE  Inv'
<1>1. Types'
  BY DEF LogPrint, Go, Begun, Busy, Inv, Types, Place, Mutex, Resource, Caller,
      InitCalls, PrintCalls, ReleaseCalls, NetCalls, SetCalls, opened
<1>2. Sound'
  BY DEF LogPrint, Go, Note, Begun, Busy, Inv, Types, Sound, Late, InLine, Active,
      Mutex, Caller, InitCalls, PrintCalls, ReleaseCalls, opened
<1>3. OneInit'
  BY DEF LogPrint, Go, Note, Begun, Busy, Inv, Types, OneInit, Holding, Building,
      Mutex, Caller, InitCalls, Runs, opened
<1>4. Opened'
  BY DEF LogPrint, Go, Note, Begun, Busy, Inv, Types, Sound, OneInit, Opened, Late,
      HasOpen, Active, Holding, Building, IsLive, Mutex, Resource, Caller,
      InitCalls, ReleaseCalls, opened
<1>5. Usable'
  BY DEF LogPrint, Note, Begun, Busy, Inv, Types, Sound, Opened, Usable, Late,
      IsLive, Active, Mutex, Resource, Caller, InitCalls, ReleaseCalls, opened
<1>6. Printing'
  <2> SUFFICES ASSUME ~Late', NEW s \in Caller
               PROVE  /\ pc'[s] \in PrintCalls \ {"printStatus"} => status'
                      /\ pc'[s] \in PrintCalls =>
                             IF temp_ptr'[s] = 0 THEN "early" \in misuse'
                             ELSE <<"buffer", temp_ptr'[s]>> \in live'
                      /\ pc'[s] = "flush" => "earlyflush" \in misuse' \/ status'
    BY DEF Printing
  <2>2. /\ ~Late
        /\ "early" \in misuse => "early" \in misuse'
        /\ "earlyflush" \in misuse => "earlyflush" \in misuse'
        /\ era # "released"
        /\ era = "new" => "early" \in misuse'
    BY Noted DEF LogPrint, Begun
  <2>3. CASE s # t
    BY <2>2, <2>3 DEF Inv, Types, Printing, LogPrint, Go, opened, temps
  <2>4. CASE s = t
    BY <2>2, <2>4, LiveIsOpen DEF Inv, Types, Opened, Usable, IsLive, Resource, PrintCalls, LogPrint, Go, opened, temps
  <2> QED
    BY <2>3, <2>4
<1>7. Flags'
  BY DEF LogPrint, Go, Note, Begun, Busy, Inv, Types, Sound, Flags, Late, Active,
      Resource, Caller, InitCalls, ReleaseCalls, opened
<1>8. Closing'
  BY DEF LogPrint, Note, Begun, Busy, Inv, Types, Sound, Usable, Flags, Closing,
      Late, IsLive, Active, Resource, Caller, InitCalls, ReleaseCalls, opened
<1>9. Once'
  BY DEF LogPrint, Go, Note, Begun, Busy, Inv, Types, Sound, OneInit, Flags, Once,
      Marked, Late, Active, Holding, Building, Resource, Caller, InitCalls,
      ReleaseCalls, opened
<1>10. Address'
  BY DEF LogPrint, Go, MayCall, Note, Begun, Busy, Inv, Types, Sound, OneInit,
      Opened, Address, Quiet, Late, Active, HasOpen, Building, Holding, Caller,
      InitCalls, ReleaseCalls, NetCalls, network, opened
<1>11. FaultsHaveCause'
  BY DEF LogPrint, Note, Begun, Busy, Inv, Types, Sound, Opened, Usable, Printing,
      Closing, Once, FaultsHaveCause, Late, InLine, Active, IsLive, Resource,
      Caller, PrintCalls, InitCalls, Runs, opened
<1> QED
  BY <1>1, <1>2, <1>3, <1>4, <1>5, <1>6, <1>7, <1>8, <1>9, <1>10, <1>11 DEF Inv

LEMMA PrintStatusKeeps ==
  ASSUME NEW t \in Caller, Inv, Runs(t), PrintStatus(t)
  PROVE  Inv'
<1>1. Types'
  BY DEF PrintStatus, Go, At, Inv, Types, Place, Mutex, Resource, Caller,
      InitCalls, PrintCalls, ReleaseCalls, NetCalls, SetCalls, Forget, history,
      opened, temps
<1>2. Sound'
  BY DEF PrintStatus, Go, At, Inv, Types, Sound, Late, InLine, Active, Mutex,
      Caller, InitCalls, PrintCalls, ReleaseCalls, history, opened
<1>3. OneInit'
  BY DEF PrintStatus, Go, At, Inv, Types, OneInit, Holding, Building, Mutex,
      Caller, InitCalls, history, opened
<1>4. Opened'
  BY DEF PrintStatus, Go, At, Inv, Types, Sound, OneInit, Opened, Late, HasOpen,
      Active, Holding, Building, IsLive, Mutex, Resource, Caller, InitCalls,
      ReleaseCalls, history, opened
<1>5. Usable'
  BY DEF PrintStatus, Inv, Types, Sound, Opened, Usable, Late, IsLive, Active,
      Mutex, Resource, Caller, InitCalls, ReleaseCalls, history, opened
<1>6. Printing'
  BY DEF PrintStatus, Go, At, Inv, Types, Sound, Opened, Usable, Printing, Late,
      IsLive, HasOpen, Building, Active, Mutex, Resource, Caller, InitCalls,
      ReleaseCalls, PrintCalls, Forget, history, opened, temps
<1>7. Flags'
  BY DEF PrintStatus, Go, At, Inv, Types, Sound, Flags, Late, Active, Resource,
      Caller, InitCalls, ReleaseCalls, history, opened
<1>8. Closing'
  BY DEF PrintStatus, Go, At, Inv, Types, Sound, Usable, Flags, Closing, Late,
      IsLive, Active, Resource, Caller, InitCalls, ReleaseCalls, history,
      opened
<1>9. Once'
  BY DEF PrintStatus, Go, At, Inv, Types, Sound, OneInit, Flags, Once, Marked,
      Late, Active, Holding, Building, Resource, Caller, InitCalls,
      ReleaseCalls, history, opened
<1>10. Address'
  <2>1. /\ net' \in BOOLEAN /\ temp_net' \in [Caller -> BOOLEAN]
        /\ remote' \in {"zero", "whole"}
    BY DEF Inv, Address, PrintStatus, At, Forget, temps, network, opened, history
  <2>2. Quiet' => /\ net' => "neton" \in misuse'
                  /\ \A s \in Caller : temp_net'[s] => "neton" \in misuse'
                  /\ "neton" \in misuse' => \A s \in Caller : pc'[s] \notin NetCalls
    BY DEF Inv, Types, Address, Quiet, Late, NetCalls, Go, PrintStatus, At, Forget, temps, network, opened, history
  <2>3. ~Late' /\ era' # "released" /\ remote' = "zero"
               /\ (status' \/ \E s \in Caller : pc'[s] = "initDefaults")
           => \E s \in Caller : pc'[s] = "netFill"
    BY DEF Inv, Types, Address, Late, Go, PrintStatus, At, Forget, temps, network, opened, history
  <2> QED
    BY <2>1, <2>2, <2>3 DEF Address
<1>11. FaultsHaveCause'
  BY DEF PrintStatus, Inv, Types, Sound, Opened, Usable, Printing, Closing, Once,
      FaultsHaveCause, Late, InLine, Active, IsLive, Resource, Caller,
      PrintCalls, InitCalls, history, opened
<1> QED
  BY <1>1, <1>2, <1>3, <1>4, <1>5, <1>6, <1>7, <1>8, <1>9, <1>10, <1>11 DEF Inv

LEMMA PrintLevelKeeps ==
  ASSUME NEW t \in Caller, Inv, Runs(t), PrintLevel(t)
  PROVE  Inv'
<1>0. /\ lock' \in [Mutex -> Caller \cup {None, Destroyed}]
      /\ lock'["data"] = lock["data"] /\ lock'["init"] = lock["init"]
      /\ \/ lock["local"] = None /\ lock'["local"] = t
         \/ lock["local"] = Destroyed /\ lock'["local"] = Destroyed
  BY Locked DEF PrintLevel, Inv, Mutex
<1>1. Types'
  BY <1>0
  DEF PrintLevel, Go, At, Inv, Types, Place, Mutex, Resource, Caller, InitCalls,
      PrintCalls, ReleaseCalls, NetCalls, SetCalls, history, opened, temps
<1>2. Sound'
  BY <1>0
  DEF PrintLevel, Go, At, Inv, Types, Sound, Late, InLine, Active, Mutex,
      Caller, InitCalls, PrintCalls, ReleaseCalls, history, opened
<1>3. OneInit'
  BY <1>0
  DEF PrintLevel, Go, At, Inv, Types, OneInit, Holding, Building, Mutex, Caller,
      InitCalls, history, opened
<1>4. Opened'
  <2> SUFFICES ASSUME ~Late, era # "released"
               PROVE  /\ lock'["local"] # Destroyed
                      /\ \A s \in Caller : HasOpen(s)'
    BY DEF Opened, Inv, PrintLevel, opened, history, Late, IsLive
  <2>1. lock'["local"] # Destroyed
    BY <1>0, LogAssumption DEF Opened, Inv
  <2>2. ASSUME NEW s \in Caller PROVE HasOpen(s)'
    BY DEF Inv, Types, Opened, HasOpen, PrintLevel, At, Go, IsLive, opened, Building
  <2> QED
    BY <2>1, <2>2
<1>5. Usable'
  BY DEF PrintLevel, Go, At, Inv, Types, Sound, Opened, Usable, Late, IsLive,
      Active, Mutex, Resource, Caller, InitCalls, ReleaseCalls, history, opened
<1>6. Printing'
  BY DEF PrintLevel, Go, At, Inv, Types, Sound, Opened, Usable, Printing, Late,
      IsLive, HasOpen, Building, Active, Mutex, Resource, Caller, InitCalls,
      ReleaseCalls, PrintCalls, history, opened, temps
<1>7. Flags'
  BY DEF PrintLevel, Go, At, Inv, Types, Sound, Flags, Late, Active, Resource,
      Caller, InitCalls, ReleaseCalls, history, opened
<1>8. Closing'
  BY DEF PrintLevel, Go, At, Inv, Types, Sound, Usable, Flags, Closing, Late,
      IsLive, Active, Resource, Caller, InitCalls, ReleaseCalls, history,
      opened
<1>9. Once'
  BY DEF PrintLevel, Go, At, Inv, Types, Sound, OneInit, Flags, Once, Marked, Late,
      Active, Holding, Building, Resource, Caller, InitCalls, ReleaseCalls,
      history, opened
<1>10. Address'
  BY DEF PrintLevel, Go, At, Inv, Types, Sound, OneInit, Opened, Address, Quiet,
      Late, Active, HasOpen, Building, Holding, Caller, InitCalls, ReleaseCalls,
      NetCalls, network, temps, history, opened
<1>11. FaultsHaveCause'
  BY DEF PrintLevel, Go, At, Inv, Types, Sound, Opened, Usable, Printing, Closing,
      Once, FaultsHaveCause, Late, InLine, Active, IsLive, Resource, Caller,
      PrintCalls, InitCalls, history, opened
<1> QED
  BY <1>1, <1>2, <1>3, <1>4, <1>5, <1>6, <1>7, <1>8, <1>9, <1>10, <1>11 DEF Inv

LEMMA PrintLevelReadKeeps ==
  ASSUME NEW t \in Caller, Inv, Runs(t), PrintLevelRead(t)
  PROVE  Inv'
<1>1. Types'
  BY DEF PrintLevelRead, Go, Unlocked, Inv, Types, Place, Mutex, Resource, Caller,
      InitCalls, PrintCalls, ReleaseCalls, NetCalls, SetCalls, Forget, history,
      opened, temps
<1>2. Sound'
  BY DEF PrintLevelRead, Go, Unlocked, Inv, Types, Sound, Late, InLine, Active,
      Mutex, Caller, InitCalls, PrintCalls, ReleaseCalls, history, opened
<1>3. OneInit'
  BY DEF PrintLevelRead, Go, Unlocked, Inv, Types, OneInit, Holding, Building,
      Mutex, Caller, InitCalls, history, opened
<1>4. Opened'
  BY LogAssumption
  DEF PrintLevelRead, Go, Unlocked, Inv, Types, Sound, OneInit, Opened, Late,
      HasOpen, Active, Holding, Building, IsLive, Mutex, Resource, Caller,
      InitCalls, ReleaseCalls, history, opened
<1>5. Usable'
  BY DEF PrintLevelRead, Unlocked, Inv, Types, Sound, Opened, Usable, Late, IsLive,
      Active, Mutex, Resource, Caller, InitCalls, ReleaseCalls, history, opened
<1>6. Printing'
  BY DEF PrintLevelRead, Go, Unlocked, Inv, Types, Sound, Opened, Usable, Printing,
      Late, IsLive, HasOpen, Building, Active, Mutex, Resource, Caller,
      InitCalls, ReleaseCalls, PrintCalls, Forget, history, opened, temps
<1>7. Flags'
  BY DEF PrintLevelRead, Go, Unlocked, Inv, Types, Sound, Flags, Late, Active,
      Resource, Caller, InitCalls, ReleaseCalls, history, opened
<1>8. Closing'
  BY DEF PrintLevelRead, Go, Unlocked, Inv, Types, Sound, Usable, Flags, Closing,
      Late, IsLive, Active, Resource, Caller, InitCalls, ReleaseCalls, history,
      opened
<1>9. Once'
  BY DEF PrintLevelRead, Go, Unlocked, Inv, Types, Sound, OneInit, Flags, Once,
      Marked, Late, Active, Holding, Building, Resource, Caller, InitCalls,
      ReleaseCalls, history, opened
<1>10. Address'
  <2>1. /\ net' \in BOOLEAN /\ temp_net' \in [Caller -> BOOLEAN]
        /\ remote' \in {"zero", "whole"}
    BY DEF Inv, Address, PrintLevelRead, Forget, temps, network, opened, history
  <2>2. Quiet' => /\ net' => "neton" \in misuse'
                  /\ \A s \in Caller : temp_net'[s] => "neton" \in misuse'
                  /\ "neton" \in misuse' => \A s \in Caller : pc'[s] \notin NetCalls
    BY DEF Inv, Types, Address, Quiet, Late, NetCalls, Go, PrintLevelRead, Forget, temps, network, opened, history
  <2>3. ~Late' /\ era' # "released" /\ remote' = "zero"
               /\ (status' \/ \E s \in Caller : pc'[s] = "initDefaults")
           => \E s \in Caller : pc'[s] = "netFill"
    BY DEF Inv, Types, Address, Late, Go, PrintLevelRead, Forget, temps, network, opened, history
  <2> QED
    BY <2>1, <2>2, <2>3 DEF Address
<1>11. FaultsHaveCause'
  BY DEF PrintLevelRead, Unlocked, Inv, Types, Sound, Opened, Usable, Printing,
      Closing, Once, FaultsHaveCause, Late, InLine, Active, IsLive, Resource,
      Caller, PrintCalls, InitCalls, history, opened
<1> QED
  BY <1>1, <1>2, <1>3, <1>4, <1>5, <1>6, <1>7, <1>8, <1>9, <1>10, <1>11 DEF Inv

LEMMA PrintSetKeeps ==
  ASSUME NEW t \in Caller, Inv, Runs(t), PrintSet(t)
  PROVE  Inv'
<1>0. /\ lock' \in [Mutex -> Caller \cup {None, Destroyed}]
      /\ lock'["data"] = lock["data"] /\ lock'["init"] = lock["init"]
      /\ \/ lock["local"] = None /\ lock'["local"] = t
         \/ lock["local"] = Destroyed /\ lock'["local"] = Destroyed
  BY Locked DEF PrintSet, Inv, Mutex
<1>1. Types'
  BY <1>0
  DEF PrintSet, Go, At, Inv, Types, Place, Mutex, Resource, Caller, InitCalls,
      PrintCalls, ReleaseCalls, NetCalls, SetCalls, history, opened, temps
<1>2. Sound'
  BY <1>0
  DEF PrintSet, Go, At, Inv, Types, Sound, Late, InLine, Active, Mutex, Caller,
      InitCalls, PrintCalls, ReleaseCalls, history, opened
<1>3. OneInit'
  BY <1>0
  DEF PrintSet, Go, At, Inv, Types, OneInit, Holding, Building, Mutex, Caller,
      InitCalls, history, opened
<1>4. Opened'
  <2> SUFFICES ASSUME ~Late, era # "released"
               PROVE  /\ lock'["local"] # Destroyed
                      /\ \A s \in Caller : HasOpen(s)'
    BY DEF Opened, Inv, PrintSet, opened, history, Late, IsLive
  <2>1. lock'["local"] # Destroyed
    BY <1>0, LogAssumption DEF Opened, Inv
  <2>2. ASSUME NEW s \in Caller PROVE HasOpen(s)'
    BY DEF Inv, Types, Opened, HasOpen, PrintSet, At, Go, IsLive, opened, Building
  <2> QED
    BY <2>1, <2>2
<1>5. Usable'
  BY DEF PrintSet, Go, At, Inv, Types, Sound, Opened, Usable, Late, IsLive, Active,
      Mutex, Resource, Caller, InitCalls, ReleaseCalls, history, opened
<1>6. Printing'
  BY DEF PrintSet, Go, At, Inv, Types, Sound, Opened, Usable, Printing, Late,
      IsLive, HasOpen, Building, Active, Mutex, Resource, Caller, InitCalls,
      ReleaseCalls, PrintCalls, history, opened, temps
<1>7. Flags'
  BY DEF PrintSet, Go, At, Inv, Types, Sound, Flags, Late, Active, Resource,
      Caller, InitCalls, ReleaseCalls, history, opened
<1>8. Closing'
  BY DEF PrintSet, Go, At, Inv, Types, Sound, Usable, Flags, Closing, Late, IsLive,
      Active, Resource, Caller, InitCalls, ReleaseCalls, history, opened
<1>9. Once'
  BY DEF PrintSet, Go, At, Inv, Types, Sound, OneInit, Flags, Once, Marked, Late,
      Active, Holding, Building, Resource, Caller, InitCalls, ReleaseCalls,
      history, opened
<1>10. Address'
  BY DEF PrintSet, Go, At, Inv, Types, Sound, OneInit, Opened, Address, Quiet,
      Late, Active, HasOpen, Building, Holding, Caller, InitCalls, ReleaseCalls,
      NetCalls, network, temps, history, opened
<1>11. FaultsHaveCause'
  BY DEF PrintSet, Go, At, Inv, Types, Sound, Opened, Usable, Printing, Closing,
      Once, FaultsHaveCause, Late, InLine, Active, IsLive, Resource, Caller,
      PrintCalls, InitCalls, history, opened
<1> QED
  BY <1>1, <1>2, <1>3, <1>4, <1>5, <1>6, <1>7, <1>8, <1>9, <1>10, <1>11 DEF Inv

LEMMA PrintSetReadKeeps ==
  ASSUME NEW t \in Caller, Inv, Runs(t), PrintSetRead(t)
  PROVE  Inv'
<1>1. Types'
  BY DEF PrintSetRead, Go, At, Unlocked, Inv, Types, Place, Mutex, Resource,
      Caller, InitCalls, PrintCalls, ReleaseCalls, NetCalls, SetCalls, history,
      opened
<1>2. Sound'
  BY DEF PrintSetRead, Go, At, Unlocked, Inv, Types, Sound, Late, InLine, Active,
      Mutex, Caller, InitCalls, PrintCalls, ReleaseCalls, history, opened
<1>3. OneInit'
  BY DEF PrintSetRead, Go, At, Unlocked, Inv, Types, OneInit, Holding, Building,
      Mutex, Caller, InitCalls, history, opened
<1>4. Opened'
  BY LogAssumption
  DEF PrintSetRead, Go, At, Unlocked, Inv, Types, Sound, OneInit, Opened, Late,
      HasOpen, Active, Holding, Building, IsLive, Mutex, Resource, Caller,
      InitCalls, ReleaseCalls, history, opened
<1>5. Usable'
  BY DEF PrintSetRead, At, Unlocked, Inv, Types, Sound, Opened, Usable, Late,
      IsLive, Active, Mutex, Resource, Caller, InitCalls, ReleaseCalls, history,
      opened
<1>6. Printing'
  BY DEF PrintSetRead, Go, At, Unlocked, Inv, Types, Sound, Opened, Usable,
      Printing, Late, IsLive, HasOpen, Building, Active, Mutex, Resource,
      Caller, InitCalls, ReleaseCalls, PrintCalls, history, opened
<1>7. Flags'
  BY DEF PrintSetRead, Go, At, Unlocked, Inv, Types, Sound, Flags, Late, Active,
      Resource, Caller, InitCalls, ReleaseCalls, history, opened
<1>8. Closing'
  BY DEF PrintSetRead, Go, At, Unlocked, Inv, Types, Sound, Usable, Flags, Closing,
      Late, IsLive, Active, Resource, Caller, InitCalls, ReleaseCalls, history,
      opened
<1>9. Once'
  BY DEF PrintSetRead, Go, At, Unlocked, Inv, Types, Sound, OneInit, Flags, Once,
      Marked, Late, Active, Holding, Building, Resource, Caller, InitCalls,
      ReleaseCalls, history, opened
<1>10. Address'
  BY DEF PrintSetRead, Go, At, Unlocked, Inv, Types, Sound, OneInit, Opened,
      Address, Quiet, Late, Active, HasOpen, Building, Holding, Caller,
      InitCalls, ReleaseCalls, NetCalls, network, history, opened
<1>11. FaultsHaveCause'
  BY DEF PrintSetRead, At, Unlocked, Inv, Types, Sound, Opened, Usable, Printing,
      Closing, Once, FaultsHaveCause, Late, InLine, Active, IsLive, Resource,
      Caller, PrintCalls, InitCalls, history, opened
<1> QED
  BY <1>1, <1>2, <1>3, <1>4, <1>5, <1>6, <1>7, <1>8, <1>9, <1>10, <1>11 DEF Inv

LEMMA PrintDataKeeps ==
  ASSUME NEW t \in Caller, Inv, Runs(t), PrintData(t)
  PROVE  Inv'
<1>0. /\ lock' \in [Mutex -> Caller \cup {None, Destroyed}]
      /\ lock'["local"] = lock["local"] /\ lock'["init"] = lock["init"]
      /\ \/ lock["data"] = None /\ lock'["data"] = t
         \/ lock["data"] = Destroyed /\ lock'["data"] = Destroyed
  BY Locked DEF PrintData, Inv, Mutex
<1>1. Types'
  BY <1>0
  DEF PrintData, Go, At, Inv, Types, Place, Mutex, Resource, Caller, InitCalls,
      PrintCalls, ReleaseCalls, NetCalls, SetCalls, history, opened, temps
<1>2. Sound'
  <2> SUFFICES ASSUME ~Late
               PROVE  /\ lock'["data"] # Destroyed
                      /\ \A s \in Caller :
                            /\ InLine(s)' => lock'["data"] = s
                            /\ pc'[s] \in Active => era # "released"
                            /\ pc'[s] \in ReleaseCalls => era = "released"
    BY DEF Sound, PrintData, history, Late
  <2>1. era # "released"
    BY DEF PrintData, At, Inv, Sound, Active, PrintCalls
  <2>2. lock["data"] = None /\ lock'["data"] = t
    BY <1>0, <2>1 DEF Inv, Sound
  <2>3. ASSUME NEW s \in Caller PROVE ~InLine(s)
    BY <2>2, LogAssumption DEF Inv, Sound
  <2> QED
    BY <2>1, <2>2, <2>3, LogAssumption
    DEF Inv, Types, Sound, PrintData, At, Go, InLine, ReleaseCalls
<1>3. OneInit'
  BY <1>0
  DEF PrintData, Go, At, Inv, Types, OneInit, Holding, Building, Mutex, Caller,
      InitCalls, history, opened
<1>4. Opened'
  BY <1>0
  DEF PrintData, Go, At, Inv, Types, Sound, OneInit, Opened, Late, HasOpen,
      Active, Holding, Building, IsLive, Mutex, Resource, Caller, InitCalls,
      ReleaseCalls, history, opened
<1>5. Usable'
  BY DEF PrintData, Go, At, Inv, Types, Sound, Opened, Usable, Late, IsLive,
      Active, Mutex, Resource, Caller, InitCalls, ReleaseCalls, history, opened
<1>6. Printing'
  BY DEF PrintData, Go, At, Inv, Types, Sound, Opened, Usable, Printing, Late,
      IsLive, HasOpen, Building, Active, Mutex, Resource, Caller, InitCalls,
      ReleaseCalls, PrintCalls, history, opened, temps
<1>7. Flags'
  BY DEF PrintData, Go, At, Inv, Types, Sound, Flags, Late, Active, Resource,
      Caller, InitCalls, ReleaseCalls, history, opened
<1>8. Closing'
  BY DEF PrintData, Go, At, Inv, Types, Sound, Usable, Flags, Closing, Late,
      IsLive, Active, Resource, Caller, InitCalls, ReleaseCalls, history,
      opened
<1>9. Once'
  BY DEF PrintData, Go, At, Inv, Types, Sound, OneInit, Flags, Once, Marked, Late,
      Active, Holding, Building, Resource, Caller, InitCalls, ReleaseCalls,
      history, opened
<1>10. Address'
  BY DEF PrintData, Go, At, Inv, Types, Sound, OneInit, Opened, Address, Quiet,
      Late, Active, HasOpen, Building, Holding, Caller, InitCalls, ReleaseCalls,
      NetCalls, network, temps, history, opened
<1>11. FaultsHaveCause'
  BY DEF PrintData, Go, At, Inv, Types, Sound, Opened, Usable, Printing, Closing,
      Once, FaultsHaveCause, Late, InLine, Active, IsLive, Resource, Caller,
      PrintCalls, InitCalls, history, opened
<1> QED
  BY <1>1, <1>2, <1>3, <1>4, <1>5, <1>6, <1>7, <1>8, <1>9, <1>10, <1>11 DEF Inv

LEMMA PrintLineKeeps ==
  ASSUME NEW t \in Caller, Inv, Runs(t), PrintLine(t)
  PROVE  Inv'
<1>1. Types'
  BY DEF PrintLine, Go, At, Inv, Types, Place, Mutex, Resource, Caller, InitCalls,
      PrintCalls, ReleaseCalls, NetCalls, SetCalls, opened, temps
<1>2. Sound'
  BY DEF PrintLine, Go, At, Inv, Types, Sound, Late, InLine, Active, Mutex, Caller,
      InitCalls, PrintCalls, ReleaseCalls, opened
<1>3. OneInit'
  BY DEF PrintLine, Go, At, Inv, Types, OneInit, Holding, Building, Mutex, Caller,
      InitCalls, opened
<1>4. Opened'
  BY DEF PrintLine, Go, At, Inv, Types, Sound, OneInit, Opened, Late, HasOpen,
      Active, Holding, Building, IsLive, Mutex, Resource, Caller, InitCalls,
      ReleaseCalls, opened
<1>5. Usable'
  BY DEF PrintLine, Inv, Types, Sound, Opened, Usable, Late, IsLive, Active, Mutex,
      Resource, Caller, InitCalls, ReleaseCalls, opened
<1>6. Printing'
  BY DEF PrintLine, Go, At, Inv, Types, Sound, Opened, Usable, Printing, Late,
      IsLive, HasOpen, Building, Active, Mutex, Resource, Caller, InitCalls,
      ReleaseCalls, PrintCalls, opened, temps
<1>7. Flags'
  BY DEF PrintLine, Go, At, Inv, Types, Sound, Flags, Late, Active, Resource,
      Caller, InitCalls, ReleaseCalls, opened
<1>8. Closing'
  BY DEF PrintLine, Go, At, Inv, Types, Sound, Usable, Flags, Closing, Late,
      IsLive, Active, Resource, Caller, InitCalls, ReleaseCalls, opened
<1>9. Once'
  BY DEF PrintLine, Go, At, Inv, Types, Sound, OneInit, Flags, Once, Marked, Late,
      Active, Holding, Building, Resource, Caller, InitCalls, ReleaseCalls,
      opened
<1>10. Address'
  BY DEF PrintLine, Go, At, Inv, Types, Sound, OneInit, Opened, Address, Quiet,
      Late, Active, HasOpen, Building, Holding, Caller, InitCalls, ReleaseCalls,
      NetCalls, network, temps, opened
<1>11. FaultsHaveCause'
  <2>1. SUFFICES ASSUME ~Late PROVE FaultsHaveCause'
    BY DEF PrintLine, FaultsHaveCause, Late
  <2>2. /\ era # "released" /\ status
        /\ IF temp_ptr[t] = 0 THEN "early" \in misuse
                              ELSE <<"buffer", temp_ptr[t]>> \in live
    BY <2>1 DEF Inv, Sound, Printing, Active, PrintCalls, PrintLine, At
  <2>3. handle["file"] # 0 /\ <<"file", handle["file"]>> \in live
    BY <2>1, <2>2, LiveIsOpen DEF Inv, Opened, IsLive, Resource
  <2>4. fault' \subseteq UseOf("buffer", temp_ptr[t]) \cup UseOf("file", handle["file"])
    BY DEF PrintLine, Piece
  <2>5. fault' \subseteq {<<"null", "buffer">>} /\ (temp_ptr[t] # 0 => fault' = {})
    BY <2>2, <2>3, <2>4 DEF UseOf
  <2>6. "early" \in misuse' <=> "early" \in misuse
    BY DEF PrintLine
  <2> QED
    BY <2>2, <2>5, <2>6 DEF FaultsHaveCause
<1> QED
  BY <1>1, <1>2, <1>3, <1>4, <1>5, <1>6, <1>7, <1>8, <1>9, <1>10, <1>11 DEF Inv

LEMMA PrintRestKeeps ==
  ASSUME NEW t \in Caller, Inv, Runs(t), PrintRest(t)
  PROVE  Inv'
<1>1. Types'
  BY DEF PrintRest, Go, At, Unlocked, Inv, Types, Place, Mutex, Resource, Caller,
      InitCalls, PrintCalls, ReleaseCalls, NetCalls, SetCalls, Forget, opened
<1>2. Sound'
  BY LogAssumption
  DEF PrintRest, Go, At, Unlocked, Inv, Types, Sound, Late, InLine, Active,
      Mutex, Caller, InitCalls, PrintCalls, ReleaseCalls, opened
<1>3. OneInit'
  BY DEF PrintRest, Go, At, Unlocked, Inv, Types, OneInit, Holding, Building,
      Mutex, Caller, InitCalls, opened
<1>4. Opened'
  BY DEF PrintRest, Go, At, Unlocked, Inv, Types, Sound, OneInit, Opened, Late,
      HasOpen, Active, Holding, Building, IsLive, Mutex, Resource, Caller,
      InitCalls, ReleaseCalls, opened
<1>5. Usable'
  BY DEF PrintRest, At, Unlocked, Inv, Types, Sound, Opened, Usable, Late, IsLive,
      Active, Mutex, Resource, Caller, InitCalls, ReleaseCalls, opened
<1>6. Printing'
  BY DEF PrintRest, Go, At, Unlocked, Inv, Types, Sound, Opened, Usable, Printing,
      Late, IsLive, HasOpen, Building, Active, Mutex, Resource, Caller,
      InitCalls, ReleaseCalls, PrintCalls, Forget, opened
<1>7. Flags'
  BY DEF PrintRest, Go, At, Unlocked, Inv, Types, Sound, Flags, Late, Active,
      Resource, Caller, InitCalls, ReleaseCalls, opened
<1>8. Closing'
  BY DEF PrintRest, Go, At, Unlocked, Inv, Types, Sound, Usable, Flags, Closing,
      Late, IsLive, Active, Resource, Caller, InitCalls, ReleaseCalls, opened
<1>9. Once'
  BY DEF PrintRest, Go, At, Unlocked, Inv, Types, Sound, OneInit, Flags, Once,
      Marked, Late, Active, Holding, Building, Resource, Caller, InitCalls,
      ReleaseCalls, opened
<1>10. Address'
  BY DEF PrintRest, Go, At, Unlocked, Inv, Types, Sound, OneInit, Opened, Address,
      Quiet, Late, Active, HasOpen, Building, Holding, Caller, InitCalls,
      ReleaseCalls, NetCalls, Forget, network, opened
<1>11. FaultsHaveCause'
  <2>1. SUFFICES ASSUME ~Late PROVE FaultsHaveCause'
    BY DEF PrintRest, FaultsHaveCause, Late
  <2>2. /\ era # "released" /\ status
        /\ IF temp_ptr[t] = 0 THEN "early" \in misuse
                              ELSE <<"buffer", temp_ptr[t]>> \in live
    BY <2>1 DEF Inv, Sound, Printing, Active, PrintCalls, PrintRest, At
  <2>3. handle["file"] # 0 /\ <<"file", handle["file"]>> \in live
    BY <2>1, <2>2, LiveIsOpen DEF Inv, Opened, IsLive, Resource
  <2>4. fault' \subseteq UseOf("buffer", temp_ptr[t]) \cup UseOf("file", handle["file"])
    BY DEF PrintRest, Piece
  <2>5. fault' \subseteq {<<"null", "buffer">>} /\ (temp_ptr[t] # 0 => fault' = {})
    BY <2>2, <2>3, <2>4 DEF UseOf
  <2>6. "early" \in misuse' <=> "early" \in misuse
    BY DEF PrintRest
  <2> QED
    BY <2>2, <2>5, <2>6 DEF FaultsHaveCause
<1> QED
  BY <1>1, <1>2, <1>3, <1>4, <1>5, <1>6, <1>7, <1>8, <1>9, <1>10, <1>11 DEF Inv

LEMMA LogSetKeeps ==
  ASSUME NEW t \in Caller, Inv, Runs(t), LogSet(t)
  PROVE  Inv'
<1>1. Types'
  BY DEF LogSet, Go, Inv, Types, Place, Mutex, Resource, Caller, InitCalls,
      PrintCalls, ReleaseCalls, NetCalls, SetCalls, history, opened, temps
<1>2. Sound'
  BY DEF LogSet, Go, Inv, Types, Sound, Late, InLine, Active, Mutex, Caller,
      InitCalls, PrintCalls, ReleaseCalls, history, opened
<1>3. OneInit'
  BY DEF LogSet, Go, Inv, Types, OneInit, Holding, Building, Mutex, Caller,
      InitCalls, Runs, history, opened
<1>4. Opened'
  BY DEF LogSet, Go, Inv, Types, Sound, OneInit, Opened, Late, HasOpen, Active,
      Holding, Building, IsLive, Mutex, Resource, Caller, InitCalls,
      ReleaseCalls, history, opened
<1>5. Usable'
  BY DEF LogSet, Inv, Types, Sound, Opened, Usable, Late, IsLive, Active, Mutex,
      Resource, Caller, InitCalls, ReleaseCalls, history, opened
<1>6. Printing'
  BY DEF LogSet, Go, Inv, Types, Sound, Opened, Usable, Printing, Late, IsLive,
      HasOpen, Building, Active, Mutex, Resource, Caller, InitCalls,
      ReleaseCalls, PrintCalls, history, opened, temps
<1>7. Flags'
  BY DEF LogSet, Go, MayCall, Inv, Types, Sound, Flags, Late, Active, Resource,
      Caller, InitCalls, ReleaseCalls, history, opened
<1>8. Closing'
  BY DEF LogSet, Go, Inv, Types, Sound, Usable, Flags, Closing, Late, IsLive,
      Active, Resource, Caller, InitCalls, ReleaseCalls, history, opened
<1>9. Once'
  BY DEF LogSet, Go, MayCall, Inv, Types, Sound, OneInit, Flags, Once, Marked,
      Late, Active, Holding, Building, Resource, Caller, InitCalls,
      ReleaseCalls, history, opened
<1>10. Address'
  BY DEF LogSet, Go, MayCall, Inv, Types, Sound, OneInit, Opened, Address, Quiet,
      Late, Active, HasOpen, Building, Holding, Caller, InitCalls, ReleaseCalls,
      NetCalls, network, temps, history, opened
<1>11. FaultsHaveCause'
  BY DEF LogSet, Inv, Types, Sound, Opened, Usable, Printing, Closing, Once,
      FaultsHaveCause, Late, InLine, Active, IsLive, Resource, Caller,
      PrintCalls, InitCalls, Runs, history, opened
<1> QED
  BY <1>1, <1>2, <1>3, <1>4, <1>5, <1>6, <1>7, <1>8, <1>9, <1>10, <1>11 DEF Inv

LEMMA SetLockKeeps ==
  ASSUME NEW t \in Caller, Inv, Runs(t), SetLock(t)
  PROVE  Inv'
<1>0. /\ lock' \in [Mutex -> Caller \cup {None, Destroyed}]
      /\ lock'["data"] = lock["data"] /\ lock'["init"] = lock["init"]
      /\ \/ lock["local"] = None /\ lock'["local"] = t
         \/ lock["local"] = Destroyed /\ lock'["local"] = Destroyed
  BY Locked DEF SetLock, Inv, Mutex
<1>1. Types'
  BY <1>0
  DEF SetLock, Go, At, Inv, Types, Place, Mutex, Resource, Caller, InitCalls,
      PrintCalls, ReleaseCalls, NetCalls, SetCalls, history, opened, temps
<1>2. Sound'
  BY <1>0
  DEF SetLock, Go, At, Inv, Types, Sound, Late, InLine, Active, Mutex, Caller,
      InitCalls, PrintCalls, ReleaseCalls, history, opened
<1>3. OneInit'
  BY <1>0
  DEF SetLock, Go, At, Inv, Types, OneInit, Holding, Building, Mutex, Caller,
      InitCalls, history, opened
<1>4. Opened'
  <2> SUFFICES ASSUME ~Late, era # "released"
               PROVE  /\ lock'["local"] # Destroyed
                      /\ \A s \in Caller : HasOpen(s)'
    BY DEF Opened, Inv, SetLock, opened, history, Late, IsLive
  <2>1. lock'["local"] # Destroyed
    BY <1>0, LogAssumption DEF Opened, Inv
  <2>2. ASSUME NEW s \in Caller PROVE HasOpen(s)'
    BY DEF Inv, Types, Opened, HasOpen, SetLock, At, Go, IsLive, opened, Building
  <2> QED
    BY <2>1, <2>2
<1>5. Usable'
  BY DEF SetLock, Go, At, Inv, Types, Sound, Opened, Usable, Late, IsLive, Active,
      Mutex, Resource, Caller, InitCalls, ReleaseCalls, history, opened
<1>6. Printing'
  BY DEF SetLock, Go, At, Inv, Types, Sound, Opened, Usable, Printing, Late,
      IsLive, HasOpen, Building, Active, Mutex, Resource, Caller, InitCalls,
      ReleaseCalls, PrintCalls, history, opened, temps
<1>7. Flags'
  BY DEF SetLock, Go, At, Inv, Types, Sound, Flags, Late, Active, Resource, Caller,
      InitCalls, ReleaseCalls, history, opened
<1>8. Closing'
  BY DEF SetLock, Go, At, Inv, Types, Sound, Usable, Flags, Closing, Late, IsLive,
      Active, Resource, Caller, InitCalls, ReleaseCalls, history, opened
<1>9. Once'
  BY DEF SetLock, Go, At, Inv, Types, Sound, OneInit, Flags, Once, Marked, Late,
      Active, Holding, Building, Resource, Caller, InitCalls, ReleaseCalls,
      history, opened
<1>10. Address'
  BY DEF SetLock, Go, At, Inv, Types, Sound, OneInit, Opened, Address, Quiet, Late,
      Active, HasOpen, Building, Holding, Caller, InitCalls, ReleaseCalls,
      NetCalls, network, temps, history, opened
<1>11. FaultsHaveCause'
  BY DEF SetLock, Go, At, Inv, Types, Sound, Opened, Usable, Printing, Closing,
      Once, FaultsHaveCause, Late, InLine, Active, IsLive, Resource, Caller,
      PrintCalls, InitCalls, history, opened
<1> QED
  BY <1>1, <1>2, <1>3, <1>4, <1>5, <1>6, <1>7, <1>8, <1>9, <1>10, <1>11 DEF Inv

LEMMA SetStoreKeeps ==
  ASSUME NEW t \in Caller, Inv, Runs(t), SetStore(t)
  PROVE  Inv'
<1>1. Types'
  BY DEF SetStore, Go, At, Unlocked, Note, Inv, Types, Place, Mutex, Resource,
      Caller, InitCalls, PrintCalls, ReleaseCalls, NetCalls, SetCalls, opened,
      temps
<1>2. Sound'
  BY DEF SetStore, Go, At, Unlocked, Note, Inv, Types, Sound, Late, InLine, Active,
      Mutex, Caller, InitCalls, PrintCalls, ReleaseCalls, opened
<1>3. OneInit'
  BY DEF SetStore, Go, At, Unlocked, Note, Inv, Types, OneInit, Holding, Building,
      Mutex, Caller, InitCalls, opened
<1>4. Opened'
  BY LogAssumption
  DEF SetStore, Go, At, Unlocked, Note, Inv, Types, Sound, OneInit, Opened,
      Late, HasOpen, Active, Holding, Building, IsLive, Mutex, Resource, Caller,
      InitCalls, ReleaseCalls, opened
<1>5. Usable'
  BY DEF SetStore, At, Unlocked, Note, Inv, Types, Sound, Opened, Usable, Late,
      IsLive, Active, Mutex, Resource, Caller, InitCalls, ReleaseCalls, opened
<1>6. Printing'
  BY DEF SetStore, Go, At, Unlocked, Note, Inv, Types, Sound, Opened, Usable,
      Printing, Late, IsLive, HasOpen, Building, Active, Mutex, Resource,
      Caller, InitCalls, ReleaseCalls, PrintCalls, opened, temps
<1>7. Flags'
  BY DEF SetStore, Go, At, Unlocked, Note, Inv, Types, Sound, Flags, Late, Active,
      Resource, Caller, InitCalls, ReleaseCalls, opened
<1>8. Closing'
  BY DEF SetStore, Go, At, Unlocked, Note, Inv, Types, Sound, Usable, Flags,
      Closing, Late, IsLive, Active, Resource, Caller, InitCalls, ReleaseCalls,
      opened
<1>9. Once'
  BY DEF SetStore, Go, At, Unlocked, Note, Inv, Types, Sound, OneInit, Flags, Once,
      Marked, Late, Active, Holding, Building, Resource, Caller, InitCalls,
      ReleaseCalls, opened
<1>10. Address'
  <2>1. /\ net' \in BOOLEAN /\ temp_net' \in [Caller -> BOOLEAN]
        /\ remote' \in {"zero", "whole"}
    BY DEF Inv, Address, SetStore, At, Note, Busy, temps, network, opened, history
  <2>2. Quiet' => /\ net' => "neton" \in misuse'
                  /\ \A s \in Caller : temp_net'[s] => "neton" \in misuse'
                  /\ "neton" \in misuse' => \A s \in Caller : pc'[s] \notin NetCalls
    BY DEF Inv, Types, Address, Quiet, Late, NetCalls, Go, SetStore, At, Note, Busy, temps, network, opened, history
  <2>3. ~Late' /\ era' # "released" /\ remote' = "zero"
               /\ (status' \/ \E s \in Caller : pc'[s] = "initDefaults")
           => \E s \in Caller : pc'[s] = "netFill"
    BY DEF Inv, Types, Address, Late, Go, SetStore, At, Note, Busy, temps, network, opened, history
  <2> QED
    BY <2>1, <2>2, <2>3 DEF Address
<1>11. FaultsHaveCause'
  BY DEF SetStore, At, Unlocked, Note, Inv, Types, Sound, Opened, Usable, Printing,
      Closing, Once, FaultsHaveCause, Late, InLine, Active, IsLive, Resource,
      Caller, PrintCalls, InitCalls, opened
<1> QED
  BY <1>1, <1>2, <1>3, <1>4, <1>5, <1>6, <1>7, <1>8, <1>9, <1>10, <1>11 DEF Inv

LEMMA LogSetNetKeeps ==
  ASSUME NEW t \in Caller, Inv, Runs(t), LogSetNet(t)
  PROVE  Inv'
<1>1. Types'
  BY DEF LogSetNet, Go, Inv, Types, Place, Mutex, Resource, Caller, InitCalls,
      PrintCalls, ReleaseCalls, NetCalls, SetCalls, opened, temps
<1>2. Sound'
  BY DEF LogSetNet, Go, Note, Inv, Types, Sound, Late, InLine, Active, Mutex,
      Caller, InitCalls, PrintCalls, ReleaseCalls, opened
<1>3. OneInit'
  BY DEF LogSetNet, Go, Note, Inv, Types, OneInit, Holding, Building, Mutex,
      Caller, InitCalls, Runs, opened
<1>4. Opened'
  BY DEF LogSetNet, Go, Note, Inv, Types, Sound, OneInit, Opened, Late, HasOpen,
      Active, Holding, Building, IsLive, Mutex, Resource, Caller, InitCalls,
      ReleaseCalls, opened
<1>5. Usable'
  BY DEF LogSetNet, Note, Inv, Types, Sound, Opened, Usable, Late, IsLive, Active,
      Mutex, Resource, Caller, InitCalls, ReleaseCalls, opened
<1>6. Printing'
  BY DEF LogSetNet, Go, Note, Inv, Types, Sound, Opened, Usable, Printing, Late,
      IsLive, HasOpen, Building, Active, Mutex, Resource, Caller, InitCalls,
      ReleaseCalls, PrintCalls, opened, temps
<1>7. Flags'
  BY DEF LogSetNet, Go, MayCall, Note, Inv, Types, Sound, Flags, Late, Active,
      Resource, Caller, InitCalls, ReleaseCalls, opened
<1>8. Closing'
  BY DEF LogSetNet, Go, Note, Inv, Types, Sound, Usable, Flags, Closing, Late,
      IsLive, Active, Resource, Caller, InitCalls, ReleaseCalls, opened
<1>9. Once'
  BY DEF LogSetNet, Go, MayCall, Note, Inv, Types, Sound, OneInit, Flags, Once,
      Marked, Late, Active, Holding, Building, Resource, Caller, InitCalls,
      ReleaseCalls, opened
<1>10. Address'
  BY DEF LogSetNet, Go, MayCall, Note, Inv, Types, Sound, OneInit, Opened, Address,
      Quiet, Late, Active, HasOpen, Building, Holding, Caller, InitCalls,
      ReleaseCalls, NetCalls, network, temps, opened
<1>11. FaultsHaveCause'
  BY DEF LogSetNet, Note, Inv, Types, Sound, Opened, Usable, Printing, Closing,
      Once, FaultsHaveCause, Late, InLine, Active, IsLive, Resource, Caller,
      PrintCalls, InitCalls, Runs, opened
<1> QED
  BY <1>1, <1>2, <1>3, <1>4, <1>5, <1>6, <1>7, <1>8, <1>9, <1>10, <1>11 DEF Inv

LEMMA NetLockKeeps ==
  ASSUME NEW t \in Caller, Inv, Runs(t), NetLock(t)
  PROVE  Inv'
<1>0. /\ lock' \in [Mutex -> Caller \cup {None, Destroyed}]
      /\ lock'["data"] = lock["data"] /\ lock'["init"] = lock["init"]
      /\ \/ lock["local"] = None /\ lock'["local"] = t
         \/ lock["local"] = Destroyed /\ lock'["local"] = Destroyed
  BY Locked DEF NetLock, Inv, Mutex
<1>1. Types'
  BY <1>0
  DEF NetLock, Go, At, Inv, Types, Place, Mutex, Resource, Caller, InitCalls,
      PrintCalls, ReleaseCalls, NetCalls, SetCalls, history, opened, temps
<1>2. Sound'
  BY <1>0
  DEF NetLock, Go, At, Inv, Types, Sound, Late, InLine, Active, Mutex, Caller,
      InitCalls, PrintCalls, ReleaseCalls, history, opened
<1>3. OneInit'
  BY <1>0
  DEF NetLock, Go, At, Inv, Types, OneInit, Holding, Building, Mutex, Caller,
      InitCalls, history, opened
<1>4. Opened'
  <2> SUFFICES ASSUME ~Late, era # "released"
               PROVE  /\ lock'["local"] # Destroyed
                      /\ \A s \in Caller : HasOpen(s)'
    BY DEF Opened, Inv, NetLock, opened, history, Late, IsLive
  <2>1. lock'["local"] # Destroyed
    BY <1>0, LogAssumption DEF Opened, Inv
  <2>2. ASSUME NEW s \in Caller PROVE HasOpen(s)'
    BY DEF Inv, Types, Opened, HasOpen, NetLock, At, Go, IsLive, opened, Building
  <2> QED
    BY <2>1, <2>2
<1>5. Usable'
  BY DEF NetLock, Go, At, Inv, Types, Sound, Opened, Usable, Late, IsLive, Active,
      Mutex, Resource, Caller, InitCalls, ReleaseCalls, history, opened
<1>6. Printing'
  BY DEF NetLock, Go, At, Inv, Types, Sound, Opened, Usable, Printing, Late,
      IsLive, HasOpen, Building, Active, Mutex, Resource, Caller, InitCalls,
      ReleaseCalls, PrintCalls, history, opened, temps
<1>7. Flags'
  BY DEF NetLock, Go, At, Inv, Types, Sound, Flags, Late, Active, Resource, Caller,
      InitCalls, ReleaseCalls, history, opened
<1>8. Closing'
  BY DEF NetLock, Go, At, Inv, Types, Sound, Usable, Flags, Closing, Late, IsLive,
      Active, Resource, Caller, InitCalls, ReleaseCalls, history, opened
<1>9. Once'
  BY DEF NetLock, Go, At, Inv, Types, Sound, OneInit, Flags, Once, Marked, Late,
      Active, Holding, Building, Resource, Caller, InitCalls, ReleaseCalls,
      history, opened
<1>10. Address'
  BY DEF NetLock, Go, At, Inv, Types, Sound, OneInit, Opened, Address, Quiet, Late,
      Active, HasOpen, Building, Holding, Caller, InitCalls, ReleaseCalls,
      NetCalls, network, temps, history, opened
<1>11. FaultsHaveCause'
  BY DEF NetLock, Go, At, Inv, Types, Sound, Opened, Usable, Printing, Closing,
      Once, FaultsHaveCause, Late, InLine, Active, IsLive, Resource, Caller,
      PrintCalls, InitCalls, history, opened
<1> QED
  BY <1>1, <1>2, <1>3, <1>4, <1>5, <1>6, <1>7, <1>8, <1>9, <1>10, <1>11 DEF Inv

LEMMA NetStoreKeeps ==
  ASSUME NEW t \in Caller, Inv, Runs(t), NetStore(t)
  PROVE  Inv'
<1>1. Types'
  BY DEF NetStore, Go, At, Unlocked, Inv, Types, Place, Mutex, Resource, Caller,
      InitCalls, PrintCalls, ReleaseCalls, NetCalls, SetCalls, history, opened,
      temps
<1>2. Sound'
  BY DEF NetStore, Go, At, Unlocked, Inv, Types, Sound, Late, InLine, Active,
      Mutex, Caller, InitCalls, PrintCalls, ReleaseCalls, history, opened
<1>3. OneInit'
  BY DEF NetStore, Go, At, Unlocked, Inv, Types, OneInit, Holding, Building, Mutex,
      Caller, InitCalls, history, opened
<1>4. Opened'
  BY LogAssumption
  DEF NetStore, Go, At, Unlocked, Inv, Types, Sound, OneInit, Opened, Late,
      HasOpen, Active, Holding, Building, IsLive, Mutex, Resource, Caller,
      InitCalls, ReleaseCalls, history, opened
<1>5. Usable'
  BY DEF NetStore, At, Unlocked, Inv, Types, Sound, Opened, Usable, Late, IsLive,
      Active, Mutex, Resource, Caller, InitCalls, ReleaseCalls, history, opened
<1>6. Printing'
  BY DEF NetStore, Go, At, Unlocked, Inv, Types, Sound, Opened, Usable, Printing,
      Late, IsLive, HasOpen, Building, Active, Mutex, Resource, Caller,
      InitCalls, ReleaseCalls, PrintCalls, history, opened, temps
<1>7. Flags'
  BY DEF NetStore, Go, At, Unlocked, Inv, Types, Sound, Flags, Late, Active,
      Resource, Caller, InitCalls, ReleaseCalls, history, opened
<1>8. Closing'
  BY DEF NetStore, Go, At, Unlocked, Inv, Types, Sound, Usable, Flags, Closing,
      Late, IsLive, Active, Resource, Caller, InitCalls, ReleaseCalls, history,
      opened
<1>9. Once'
  BY DEF NetStore, Go, At, Unlocked, Inv, Types, Sound, OneInit, Flags, Once,
      Marked, Late, Active, Holding, Building, Resource, Caller, InitCalls,
      ReleaseCalls, history, opened
<1>10. Address'
  BY DEF NetStore, Go, At, Unlocked, Inv, Types, Sound, OneInit, Opened, Address,
      Quiet, Late, Active, HasOpen, Building, Holding, Caller, InitCalls,
      ReleaseCalls, NetCalls, network, temps, history, opened
<1>11. FaultsHaveCause'
  BY DEF NetStore, At, Unlocked, Inv, Types, Sound, Opened, Usable, Printing,
      Closing, Once, FaultsHaveCause, Late, InLine, Active, IsLive, Resource,
      Caller, PrintCalls, InitCalls, history, opened
<1> QED
  BY <1>1, <1>2, <1>3, <1>4, <1>5, <1>6, <1>7, <1>8, <1>9, <1>10, <1>11 DEF Inv

LEMMA NetClearKeeps ==
  ASSUME NEW t \in Caller, Inv, Runs(t), NetClear(t)
  PROVE  Inv'
<1>1. Types'
  BY DEF NetClear, Go, At, Inv, Types, Place, Mutex, Resource, Caller, InitCalls,
      PrintCalls, ReleaseCalls, NetCalls, SetCalls, history, opened, temps
<1>2. Sound'
  BY DEF NetClear, Go, At, Inv, Types, Sound, Late, InLine, Active, Mutex, Caller,
      InitCalls, PrintCalls, ReleaseCalls, history, opened
<1>3. OneInit'
  BY DEF NetClear, Go, At, Inv, Types, OneInit, Holding, Building, Mutex, Caller,
      InitCalls, history, opened
<1>4. Opened'
  BY DEF NetClear, Go, At, Inv, Types, Sound, OneInit, Opened, Late, HasOpen,
      Active, Holding, Building, IsLive, Mutex, Resource, Caller, InitCalls,
      ReleaseCalls, history, opened
<1>5. Usable'
  BY DEF NetClear, Inv, Types, Sound, Opened, Usable, Late, IsLive, Active, Mutex,
      Resource, Caller, InitCalls, ReleaseCalls, history, opened
<1>6. Printing'
  BY DEF NetClear, Go, At, Inv, Types, Sound, Opened, Usable, Printing, Late,
      IsLive, HasOpen, Building, Active, Mutex, Resource, Caller, InitCalls,
      ReleaseCalls, PrintCalls, history, opened, temps
<1>7. Flags'
  BY DEF NetClear, Go, At, Inv, Types, Sound, Flags, Late, Active, Resource,
      Caller, InitCalls, ReleaseCalls, history, opened
<1>8. Closing'
  BY DEF NetClear, Go, At, Inv, Types, Sound, Usable, Flags, Closing, Late, IsLive,
      Active, Resource, Caller, InitCalls, ReleaseCalls, history, opened
<1>9. Once'
  BY DEF NetClear, Go, At, Inv, Types, Sound, OneInit, Flags, Once, Marked, Late,
      Active, Holding, Building, Resource, Caller, InitCalls, ReleaseCalls,
      history, opened
<1>10. Address'
  BY DEF NetClear, Go, At, Inv, Types, Sound, OneInit, Opened, Address, Quiet,
      Late, Active, HasOpen, Building, Holding, Caller, InitCalls, ReleaseCalls,
      NetCalls, temps, history, opened
<1>11. FaultsHaveCause'
  BY DEF NetClear, Inv, Types, Sound, Opened, Usable, Printing, Closing, Once,
      FaultsHaveCause, Late, InLine, Active, IsLive, Resource, Caller,
      PrintCalls, InitCalls, history, opened
<1> QED
  BY <1>1, <1>2, <1>3, <1>4, <1>5, <1>6, <1>7, <1>8, <1>9, <1>10, <1>11 DEF Inv

LEMMA NetFillKeeps ==
  ASSUME NEW t \in Caller, Inv, Runs(t), NetFill(t)
  PROVE  Inv'
<1>1. Types'
  BY DEF NetFill, Go, At, Inv, Types, Place, Mutex, Resource, Caller, InitCalls,
      PrintCalls, ReleaseCalls, NetCalls, SetCalls, history, opened, temps
<1>2. Sound'
  BY DEF NetFill, Go, At, Inv, Types, Sound, Late, InLine, Active, Mutex, Caller,
      InitCalls, PrintCalls, ReleaseCalls, history, opened
<1>3. OneInit'
  BY DEF NetFill, Go, At, Inv, Types, OneInit, Holding, Building, Mutex, Caller,
      InitCalls, history, opened
<1>4. Opened'
  BY DEF NetFill, Go, At, Inv, Types, Sound, OneInit, Opened, Late, HasOpen,
      Active, Holding, Building, IsLive, Mutex, Resource, Caller, InitCalls,
      ReleaseCalls, history, opened
<1>5. Usable'
  BY DEF NetFill, Inv, Types, Sound, Opened, Usable, Late, IsLive, Active, Mutex,
      Resource, Caller, InitCalls, ReleaseCalls, history, opened
<1>6. Printing'
  BY DEF NetFill, Go, At, Inv, Types, Sound, Opened, Usable, Printing, Late,
      IsLive, HasOpen, Building, Active, Mutex, Resource, Caller, InitCalls,
      ReleaseCalls, PrintCalls, history, opened, temps
<1>7. Flags'
  BY DEF NetFill, Go, At, Inv, Types, Sound, Flags, Late, Active, Resource, Caller,
      InitCalls, ReleaseCalls, history, opened
<1>8. Closing'
  BY DEF NetFill, Go, At, Inv, Types, Sound, Usable, Flags, Closing, Late, IsLive,
      Active, Resource, Caller, InitCalls, ReleaseCalls, history, opened
<1>9. Once'
  BY DEF NetFill, Go, At, Inv, Types, Sound, OneInit, Flags, Once, Marked, Late,
      Active, Holding, Building, Resource, Caller, InitCalls, ReleaseCalls,
      history, opened
<1>10. Address'
  BY DEF NetFill, At, Inv, Types, Sound, OneInit, Opened, Address, Quiet, Late,
      Active, HasOpen, Building, Holding, Caller, InitCalls, ReleaseCalls,
      NetCalls, temps, history, opened
<1>11. FaultsHaveCause'
  BY DEF NetFill, Inv, Types, Sound, Opened, Usable, Printing, Closing, Once,
      FaultsHaveCause, Late, InLine, Active, IsLive, Resource, Caller,
      PrintCalls, InitCalls, history, opened
<1> QED
  BY <1>1, <1>2, <1>3, <1>4, <1>5, <1>6, <1>7, <1>8, <1>9, <1>10, <1>11 DEF Inv

LEMMA LogFFlushKeeps ==
  ASSUME NEW t \in Caller, Inv, Runs(t), LogFFlush(t)
  PROVE  Inv'
<1>1. Types'
  BY DEF LogFFlush, Go, Begun, Busy, Inv, Types, Place, Mutex, Resource, Caller,
      InitCalls, PrintCalls, ReleaseCalls, NetCalls, SetCalls, opened, temps
<1>2. Sound'
  BY DEF LogFFlush, Go, Note, Begun, Busy, Inv, Types, Sound, Late, InLine, Active,
      Mutex, Caller, InitCalls, PrintCalls, ReleaseCalls, opened
<1>3. OneInit'
  BY DEF LogFFlush, Go, Note, Begun, Busy, Inv, Types, OneInit, Holding, Building,
      Mutex, Caller, InitCalls, Runs, opened
<1>4. Opened'
  BY DEF LogFFlush, Go, Note, Begun, Busy, Inv, Types, Sound, OneInit, Opened,
      Late, HasOpen, Active, Holding, Building, IsLive, Mutex, Resource, Caller,
      InitCalls, ReleaseCalls, opened
<1>5. Usable'
  BY DEF LogFFlush, Note, Begun, Busy, Inv, Types, Sound, Opened, Usable, Late,
      IsLive, Active, Mutex, Resource, Caller, InitCalls, ReleaseCalls, opened
<1>6. Printing'
  <2> SUFFICES ASSUME ~Late', NEW s \in Caller
               PROVE  /\ pc'[s] \in PrintCalls \ {"printStatus"} => status'
                      /\ pc'[s] \in PrintCalls =>
                             IF temp_ptr'[s] = 0 THEN "early" \in misuse'
                             ELSE <<"buffer", temp_ptr'[s]>> \in live'
                      /\ pc'[s] = "flush" => "earlyflush" \in misuse' \/ status'
    BY DEF Printing
  <2>2. /\ ~Late
        /\ "early" \in misuse => "early" \in misuse'
        /\ "earlyflush" \in misuse => "earlyflush" \in misuse'
        /\ era # "released"
        /\ era = "new" => "earlyflush" \in misuse'
    BY Noted DEF LogFFlush, Begun
  <2>3. CASE s # t
    BY <2>2, <2>3 DEF Inv, Types, Printing, LogFFlush, Go, opened, temps
  <2>4. CASE s = t
    BY <2>2, <2>4, LiveIsOpen DEF Inv, Types, Opened, Usable, IsLive, Resource, PrintCalls, LogFFlush, Go, opened, temps
  <2> QED
    BY <2>3, <2>4
<1>7. Flags'
  BY DEF LogFFlush, Go, Note, Begun, Busy, Inv, Types, Sound, Flags, Late, Active,
      Resource, Caller, InitCalls, ReleaseCalls, opened
<1>8. Closing'
  BY DEF LogFFlush, Note, Begun, Busy, Inv, Types, Sound, Usable, Flags, Closing,
      Late, IsLive, Active, Resource, Caller, InitCalls, ReleaseCalls, opened
<1>9. Once'
  BY DEF LogFFlush, Go, Note, Begun, Busy, Inv, Types, Sound, OneInit, Flags, Once,
      Marked, Late, Active, Holding, Building, Resource, Caller, InitCalls,
      ReleaseCalls, opened
<1>10. Address'
  BY DEF LogFFlush, Go, MayCall, Note, Begun, Busy, Inv, Types, Sound, OneInit,
      Opened, Address, Quiet, Late, Active, HasOpen, Building, Holding, Caller,
      InitCalls, ReleaseCalls, NetCalls, network, temps, opened
<1>11. FaultsHaveCause'
  BY DEF LogFFlush, Note, Begun, Busy, Inv, Types, Sound, Opened, Usable, Printing,
      Closing, Once, FaultsHaveCause, Late, InLine, Active, IsLive, Resource,
      Caller, PrintCalls, InitCalls, Runs, opened
<1> QED
  BY <1>1, <1>2, <1>3, <1>4, <1>5, <1>6, <1>7, <1>8, <1>9, <1>10, <1>11 DEF Inv

LEMMA FlushKeeps ==
  ASSUME NEW t \in Caller, Inv, Runs(t), Flush(t)
  PROVE  Inv'
<1>1. Types'
  BY DEF Flush, Go, At, Inv, Types, Place, Mutex, Resource, Caller, InitCalls,
      PrintCalls, ReleaseCalls, NetCalls, SetCalls, UseOf, opened, temps
<1>2. Sound'
  BY DEF Flush, Go, At, Inv, Types, Sound, Late, InLine, Active, Mutex, Caller,
      InitCalls, PrintCalls, ReleaseCalls, opened
<1>3. OneInit'
  BY DEF Flush, Go, At, Inv, Types, OneInit, Holding, Building, Mutex, Caller,
      InitCalls, opened
<1>4. Opened'
  BY DEF Flush, Go, At, Inv, Types, Sound, OneInit, Opened, Late, HasOpen, Active,
      Holding, Building, IsLive, Mutex, Resource, Caller, InitCalls,
      ReleaseCalls, opened
<1>5. Usable'
  BY DEF Flush, Inv, Types, Sound, Opened, Usable, Late, IsLive, Active, Mutex,
      Resource, Caller, InitCalls, ReleaseCalls, opened
<1>6. Printing'
  BY DEF Flush, Go, At, Inv, Types, Sound, Opened, Usable, Printing, Late, IsLive,
      HasOpen, Building, Active, Mutex, Resource, Caller, InitCalls,
      ReleaseCalls, PrintCalls, opened, temps
<1>7. Flags'
  BY DEF Flush, Go, At, Inv, Types, Sound, Flags, Late, Active, Resource, Caller,
      InitCalls, ReleaseCalls, opened
<1>8. Closing'
  BY DEF Flush, At, Inv, Types, Sound, Usable, Flags, Closing, Late, IsLive,
      Active, Resource, Caller, InitCalls, ReleaseCalls, opened
<1>9. Once'
  BY DEF Flush, Go, At, Inv, Types, Sound, OneInit, Flags, Once, Marked, Late,
      Active, Holding, Building, Resource, Caller, InitCalls, ReleaseCalls,
      opened
<1>10. Address'
  BY DEF Flush, Go, At, Inv, Types, Sound, OneInit, Opened, Address, Quiet, Late,
      Active, HasOpen, Building, Holding, Caller, InitCalls, ReleaseCalls,
      NetCalls, network, temps, opened
<1>11. FaultsHaveCause'
  BY DEF Flush, At, Inv, Types, Sound, Opened, Usable, Printing, Closing, Once,
      FaultsHaveCause, Late, InLine, Active, IsLive, UseOf, Resource, Caller,
      PrintCalls, InitCalls, opened
<1> QED
  BY <1>1, <1>2, <1>3, <1>4, <1>5, <1>6, <1>7, <1>8, <1>9, <1>10, <1>11 DEF Inv

-----------------------------------------------------------------------------
LEMMA InitInv == Init => Inv
<1> SUFFICES ASSUME Init PROVE Inv
  OBVIOUS
<1>1. Types
  <2>1. pc \in [Caller -> Place]
    BY DEF Init, Place
  <2>2. lock \in [Mutex -> Caller \cup {None, Destroyed}]
    BY DEF Init
  <2>3. handle \in [Resource -> 0..inits] /\ live \subseteq Resource \X (1..inits)
    BY DEF Init
  <2> QED
    BY <2>1, <2>2, <2>3 DEF Init, Types
<1>2. Sound /\ OneInit /\ Usable /\ Closing
  BY LogAssumption
  DEF Init, Sound, OneInit, Usable, Closing, Caller, Mutex, Active, InLine, InitCalls,
      PrintCalls, ReleaseCalls, Holding, Building
<1>3. Opened
  BY LogAssumption DEF Init, Opened, HasOpen, Mutex, Building
<1>4. Printing /\ Flags
  BY DEF Init, Printing, Flags, PrintCalls, ReleaseCalls
<1>5. Once /\ Address
  BY DEF Init, Once, Marked, Address, NetCalls
<1>6. FaultsHaveCause
  BY DEF Init, FaultsHaveCause
<1> QED
  BY <1>1, <1>2, <1>3, <1>4, <1>5, <1>6 DEF Inv

LEMMA BeginKeeps ==
  ASSUME NEW t \in Caller, Inv, Begin(t)
  PROVE  Inv'
<1>1. Runs(t)
  BY DEF Begin, InitializeLog, ReleaseLog, LogPrint,
         LogSet, LogSetNet, LogFFlush, MayCall
<1> QED
  BY <1>1, InitializeLogKeeps, ReleaseLogKeeps, LogPrintKeeps, LogSetKeeps,
     LogSetNetKeeps, LogFFlushKeeps
  DEF Begin

LEMMA StepKeeps ==
  ASSUME NEW t \in Caller, Inv, Step(t)
  PROVE  Inv'
<1> QED
  BY InitLockKeeps, InitTestKeeps, InitMutexesKeeps, InitBufferKeeps, InitFileKeeps,
     InitSocketKeeps, InitDefaultsKeeps, InitReturnKeeps, RelSocketKeeps,
     RelFileKeeps, RelNullKeeps, RelBufferKeeps, RelMutexKeeps, PrintStatusKeeps,
     PrintLevelKeeps, PrintLevelReadKeeps, PrintSetKeeps, PrintSetReadKeeps,
     PrintDataKeeps, PrintLineKeeps, PrintRestKeeps, SetLockKeeps, SetStoreKeeps,
     NetLockKeeps, NetStoreKeeps, NetClearKeeps, NetFillKeeps, FlushKeeps
  DEF Step

LEMMA SigactionKeeps ==
  ASSUME Inv, Sigaction
  PROVE  Inv'
<1> USE DEF Sigaction, opened, network, temps, history
<1>1. Types' /\ OneInit' /\ Sound'
  BY DEF Inv, Types, OneInit, Sound, Late, InLine
<1>2. Opened' /\ Usable'
  BY DEF Inv, Opened, HasOpen, Usable, IsLive, Late
<1>3. Printing' /\ Flags' /\ Closing'
  BY DEF Inv, Printing, Flags, Closing, IsLive, Late
<1>4. Once' /\ Address'
  BY DEF Inv, Once, Marked, Address, Quiet, Late
<1>5. FaultsHaveCause'
  BY DEF Inv, FaultsHaveCause
<1> QED
  BY <1>1, <1>2, <1>3, <1>4, <1>5 DEF Inv

LEMMA StutterKeeps ==
  ASSUME Inv, UNCHANGED vars
  PROVE  Inv'
<1> USE DEF vars, opened, network, temps, history
<1>1. Types' /\ OneInit' /\ Sound'
  BY DEF Inv, Types, OneInit, Sound, Late, InLine
<1>2. Opened' /\ Usable'
  BY DEF Inv, Opened, HasOpen, Usable, IsLive, Late
<1>3. Printing' /\ Flags' /\ Closing'
  BY DEF Inv, Printing, Flags, Closing, IsLive, Late
<1>4. Once' /\ Address'
  BY DEF Inv, Once, Marked, Address, Quiet, Late
<1>5. FaultsHaveCause'
  BY DEF Inv, FaultsHaveCause
<1> QED
  BY <1>1, <1>2, <1>3, <1>4, <1>5 DEF Inv

\* The invariant holds in every state of the log (LogLib.cpp:281-680).
THEOREM Invariance == Spec => []Inv
<1>1. Inv /\ [Next]_vars => Inv'
  BY BeginKeeps, StepKeeps, SigactionKeeps, StutterKeeps DEF Next
<1> QED
  BY InitInv, <1>1, PTL DEF Spec

-----------------------------------------------------------------------------
\* However the calls of two callers interleave, what loses the process has one of
\* the causes FaultsHaveCause names: use too early, a release while the log is in
\* use, or a second set-up that failed (LogLib.cpp:302-431, 502-508).
THEOREM FaultsExplained == Spec => []FaultsHaveCause
  BY Invariance, PTL DEF Inv

\* From the moment InitializeLog has returned 0 until ReleaseLog is called, everything
\* is open and every mutex usable, for any number of initializations at once
\* (LogLib.cpp:281-390).
THEOREM InitSound == Spec => []InitMeansReady
<1>1. Inv => InitMeansReady
  <2> SUFFICES ASSUME Inv, era = "ready", ~Late PROVE InitMeansReady
    BY DEF InitMeansReady, Late
  <2>1. status /\ \A r \in Resource : IsLive(r)
    BY DEF Inv, Opened
  <2>2. \A m \in Mutex : lock[m] # Destroyed
    BY DEF Inv, Opened, Sound, OneInit, Mutex
  <2>3. ASSUME inits = 1 PROVE live = {<<r, handle[r]>> : r \in Resource}
    <3>1. \A r \in Resource : handle[r] = 1
      BY <2>1, <2>3, LiveIsOpen DEF Inv, Types
    <3>2. live \subseteq Resource \X {1}
      BY <2>3 DEF Inv, Types
    <3> QED
      BY <2>1, <3>1, <3>2 DEF IsLive
  <2> QED
    BY <2>1, <2>2, <2>3 DEF InitMeansReady
<1> QED
  BY Invariance, <1>1, PTL

\* A release closes all that one set-up has opened, after one that failed half-way
\* too (LogLib.cpp:396-431).
THEOREM ReleaseCloses == Spec => []NothingLeaks
<1>1. Inv => NothingLeaks
  <2> SUFFICES ASSUME Inv, era = "released", ~Busy(ReleaseCalls), inits = 1, ~Late
               PROVE  live = {} /\ success = {}
    BY DEF NothingLeaks, Late
  <2>1. success = {}
    BY DEF Inv, Flags, Busy
  <2> QED
    BY <2>1 DEF Inv, Once, Marked
<1> QED
  BY Invariance, <1>1, PTL

\* The pieces of two messages are never mixed (LogLib.cpp:563-680).
THEOREM LinesStayWhole == Spec => []LinesWhole
<1>1. Inv => LinesWhole
  BY DEF Inv, Sound, LinesWhole, Late
<1> QED
  BY Invariance, <1>1, PTL

\* A datagram goes to a whole address, although the address is written and read
\* without a mutex, when it is set before the net is switched on
\* (LogLib.cpp:217-226, 547, 650).
THEOREM DatagramsHaveAddress == Spec => []DatagramsAddressed
<1>1. Inv => DatagramsAddressed
  <2> SUFFICES ASSUME Inv, NEW t \in Caller, pc[t] = "printRest", temp_net[t],
                      remote = "zero", Quiet
               PROVE  FALSE
    BY DEF DatagramsAddressed, Quiet, Late
  <2>1. ~Late /\ era # "released" /\ status
    BY DEF Quiet, Inv, Sound, Printing, Active, PrintCalls
  <2>2. PICK s \in Caller : pc[s] = "netFill"
    BY <2>1 DEF Inv, Address
  <2> QED
    BY <2>2 DEF Inv, Address, NetCalls
<1> QED
  BY Invariance, <1>1, PTL

-----------------------------------------------------------------------------
(* The ranges of the variables that the invariant above does not need *)

Fault == {"null", "freed"} \X Resource
Misuse == {"early", "earlyflush", "late", "neton", "netmoved"}

Ranges ==
    /\ armed \in BOOLEAN
    /\ success \subseteq Resource \cup {"mutex"}
    /\ misuse \subseteq Misuse
    /\ fault \subseteq Fault

\* An initialization is counted when it gets past the mutexes: those that have begun
\* and not come that far have room.
Waits(t) == pc[t] \in {"initLock", "initTest", "initMutexes"}

Budget ==
    /\ inits <= MaxInits
    /\ \A t \in Caller : Waits(t) => inits + 1 <= MaxInits
    /\ \A s, t \in Caller : s # t /\ Waits(s) /\ Waits(t) => inits + 2 <= MaxInits
    /\ temp_ptr \in [Caller -> 0..MaxInits]

\* The other caller, when it initializes, is the one that is counted.
LEMMA OthersCounted ==
    ASSUME Types, NEW s \in Caller, NEW t \in Caller, s # t, Waits(s), pc[t] = "idle"
    PROVE  Cardinality({u \in Caller : pc[u] \in InitCalls}) = 1
<1>1. {u \in Caller : pc[u] \in InitCalls} = {s}
  BY DEF Waits, InitCalls, Caller
<1> QED
  BY <1>1, FS_Singleton

\* The callers that initialize can be counted.
LEMMA CountIsNat == Cardinality({u \in Caller : pc[u] \in InitCalls}) \in Nat
<1>1. IsFiniteSet(Caller)
  <2>1. Caller = {Main} \cup {Other}
    BY DEF Caller
  <2> QED
    BY <2>1, FS_Singleton, FS_AddElement
<1> QED
  BY <1>1, FS_Subset, FS_CardinalityType

\* The only step to the front of an initialization is its call.
LEMMA BudgetKept ==
    ASSUME Types, Types', Budget, NEW t \in Caller, Begin(t) \/ Step(t)
    PROVE  Budget'
<1>1. CASE InitializeLog(t)
  <2>1. /\ pc[t] = "idle" /\ inits' = inits /\ temp_ptr' = temp_ptr
        /\ inits + Cardinality({u \in Caller : pc[u] \in InitCalls}) < MaxInits
        /\ \A s \in Caller : s # t => pc'[s] = pc[s]
    BY <1>1 DEF InitializeLog, MayCall, Go, opened, temps, Types
  <2>2. inits + 1 <= MaxInits /\ inits \in Nat
    BY <2>1, CountIsNat, LogAssumption DEF Types
  <2>3. ASSUME NEW s \in Caller, s # t, Waits(s)
        PROVE  inits + 2 <= MaxInits
    BY <2>1, <2>2, <2>3, OthersCounted, LogAssumption
  <2> QED
    BY <2>1, <2>2, <2>3 DEF Budget, Waits
<1>2. CASE InitMutexes(t)
  <2>1. /\ pc[t] = "initMutexes" /\ pc'[t] = "initBuffer" /\ inits' = inits + 1
        /\ temp_ptr' = temp_ptr /\ \A s \in Caller : s # t => pc'[s] = pc[s]
    BY <1>2 DEF InitMutexes, At, Go, temps, Types
  <2>2. inits \in Nat /\ MaxInits \in Nat
    BY LogAssumption DEF Types
  <2>3. inits' <= MaxInits
    BY <2>1 DEF Budget, Waits
  <2>4. ASSUME NEW s \in Caller, Waits(s)' PROVE s # t /\ inits' + 1 <= MaxInits
    <3>1. s # t /\ Waits(s) /\ Waits(t)
      BY <2>1, <2>4 DEF Waits
    <3>2. inits + 2 <= MaxInits
      BY <3>1 DEF Budget
    <3> QED
      BY <2>1, <2>2, <3>1, <3>2
  <2>5. \A r, s \in Caller : r # t /\ s # t => r = s
    BY DEF Caller
  <2> QED
    BY <2>1, <2>3, <2>4, <2>5 DEF Budget
<1>3. CASE Begin(t) \/ Step(t)
  <2>1. ASSUME ~InitializeLog(t), ~InitMutexes(t)
        PROVE  /\ inits' = inits
               /\ Waits(t)' => Waits(t)
               /\ \A s \in Caller : s # t => pc'[s] = pc[s]
    <3>1. CASE ReleaseLog(t) \/ LogPrint(t) \/ LogSet(t) \/ LogSetNet(t) \/ LogFFlush(t)
      BY <3>1 DEF ReleaseLog, LogPrint, LogSet, LogSetNet, LogFFlush, Go, opened, Waits, Types
    <3>2. CASE \/ InitLock(t) \/ InitTest(t) \/ InitBuffer(t) \/ InitFile(t)
               \/ InitSocket(t) \/ InitDefaults(t) \/ InitReturn(t)
      BY <3>2 DEF InitLock, InitTest, InitBuffer, InitFile, InitSocket, InitDefaults, InitReturn,
         Open, At, Go, opened, Waits, Types
    <3>3. CASE RelSocket(t) \/ RelFile(t) \/ RelNull(t) \/ RelBuffer(t) \/ RelMutex(t)
      BY <3>3 DEF RelSocket, RelFile, RelNull, RelBuffer, RelMutex, At, Go, opened, Waits, Types
    <3>4. CASE \/ PrintStatus(t) \/ PrintLevel(t) \/ PrintLevelRead(t) \/ PrintSet(t)
               \/ PrintSetRead(t) \/ PrintData(t) \/ PrintLine(t) \/ PrintRest(t)
      BY <3>4 DEF PrintStatus, PrintLevel, PrintLevelRead, PrintSet, PrintSetRead, PrintData,
         PrintLine, PrintRest, At, Go, opened, Waits, Types
    <3>5. CASE \/ SetLock(t) \/ SetStore(t) \/ NetLock(t) \/ NetStore(t)
               \/ NetClear(t) \/ NetFill(t) \/ Flush(t)
      BY <3>5 DEF SetLock, SetStore, NetLock, NetStore, NetClear, NetFill, Flush, At, Go, opened,
         Waits, Types
    <3> QED
      BY <1>3, <2>1, <3>1, <3>2, <3>3, <3>4, <3>5 DEF Begin, Step
  <2>2. ASSUME ~InitializeLog(t), ~InitMutexes(t)
        PROVE  \A s \in Caller : temp_ptr'[s] \in {temp_ptr[s], handle["buffer"], 0}
    <3>1. CASE ReleaseLog(t) \/ LogPrint(t) \/ LogSet(t) \/ LogSetNet(t) \/ LogFFlush(t)
      BY <3>1 DEF ReleaseLog, LogPrint, LogSet, LogSetNet, LogFFlush, temps, Types
    <3>2. CASE \/ InitLock(t) \/ InitTest(t) \/ InitBuffer(t) \/ InitFile(t)
               \/ InitSocket(t) \/ InitDefaults(t) \/ InitReturn(t)
      BY <3>2 DEF InitLock, InitTest, InitBuffer, InitFile, InitSocket, InitDefaults, InitReturn,
         Open, temps, Types
    <3>3. CASE RelSocket(t) \/ RelFile(t) \/ RelNull(t) \/ RelBuffer(t) \/ RelMutex(t)
      BY <3>3 DEF RelSocket, RelFile, RelNull, RelBuffer, RelMutex, temps, Types
    <3>4. CASE \/ PrintStatus(t) \/ PrintLevel(t) \/ PrintLevelRead(t) \/ PrintSet(t)
               \/ PrintSetRead(t) \/ PrintData(t) \/ PrintLine(t) \/ PrintRest(t)
      BY <3>4 DEF PrintStatus, PrintLevel, PrintLevelRead, PrintSet, PrintSetRead, PrintData,
         PrintLine, PrintRest, Forget, temps, Types
    <3>5. CASE \/ SetLock(t) \/ SetStore(t) \/ NetLock(t) \/ NetStore(t)
               \/ NetClear(t) \/ NetFill(t) \/ Flush(t)
      BY <3>5 DEF SetLock, SetStore, NetLock, NetStore, NetClear, NetFill, Flush, temps, Types
    <3> QED
      BY <1>3, <2>2, <3>1, <3>2, <3>3, <3>4, <3>5 DEF Begin, Step
  <2>3. ASSUME ~InitializeLog(t), ~InitMutexes(t) PROVE Budget'
    <3>1. handle["buffer"] \in 0..MaxInits
      BY LogAssumption DEF Types, Budget, Resource
    <3>2. \A s \in Caller : temp_ptr'[s] \in 0..MaxInits
      BY <2>2, <2>3, <3>1, LogAssumption DEF Budget
    <3>3. temp_ptr' \in [Caller -> 0..MaxInits]
      BY <3>2 DEF Types
    <3>4. \A s \in Caller : Waits(s)' => Waits(s)
      BY <2>1, <2>3 DEF Waits
    <3> QED
      BY <2>1, <2>3, <3>3, <3>4 DEF Budget
  <2> QED
    BY <1>1, <1>2, <2>3
<1> QED
  BY <1>3

\* What is noted of the callers is of the kinds named.
LEMMA NotedRange ==
    ASSUME misuse \subseteq Misuse, NEW what, what \subseteq Misuse, Note(what)
    PROVE  misuse' \subseteq Misuse
BY DEF Note, Misuse

\* What a use does to the process is of the kinds named.
LEMMA UseRange == ASSUME NEW r \in Resource, NEW p PROVE UseOf(r, p) \subseteq Fault
BY DEF UseOf, Fault

\* Every step keeps the ranges.
LEMMA RangesKept ==
    ASSUME Ranges, NEW t \in Caller, Begin(t) \/ Step(t)
    PROVE  Ranges'
<1>1. armed' = armed
  BY DEF Begin, Step, InitializeLog, ReleaseLog, LogPrint, LogSet, LogSetNet, LogFFlush,
     InitLock, InitTest, InitMutexes, InitBuffer, InitFile, InitSocket, InitDefaults, InitReturn, Open,
     RelSocket, RelFile, RelNull, RelBuffer, RelMutex,
     PrintStatus, PrintLevel, PrintLevelRead, PrintSet, PrintSetRead, PrintData, PrintLine, PrintRest,
     SetLock, SetStore, NetLock, NetStore, NetClear, NetFill, Flush
<1>2. success' \subseteq Resource \cup {"mutex"}
  BY DEF Ranges, Begin, Step, InitializeLog, ReleaseLog, LogPrint, LogSet, LogSetNet, LogFFlush,
     InitLock, InitTest, InitMutexes, InitBuffer, InitFile, InitSocket, InitDefaults, InitReturn, Open,
     RelSocket, RelFile, RelNull, RelBuffer, RelMutex,
     PrintStatus, PrintLevel, PrintLevelRead, PrintSet, PrintSetRead, PrintData, PrintLine, PrintRest,
     SetLock, SetStore, NetLock, NetStore, NetClear, NetFill, Flush, opened, Resource
<1>3. misuse' \subseteq Misuse
  <2>1. \/ misuse' = misuse
        \/ \E what \in SUBSET Misuse : Note(what)
    <3>1. Begun("early") \in SUBSET Misuse /\ Begun("earlyflush") \in SUBSET Misuse
      BY DEF Begun, Misuse
    <3>2. {} \in SUBSET Misuse /\ {"late"} \in SUBSET Misuse /\ {"neton"} \in SUBSET Misuse
          /\ {"netmoved"} \in SUBSET Misuse
      BY DEF Misuse
    <3>3. CASE Begin(t)
      BY <3>1, <3>2, <3>3 DEF Begin, InitializeLog, ReleaseLog, LogPrint, LogSet, LogSetNet, LogFFlush, history
    <3>4. CASE Step(t)
      BY <3>2, <3>4 DEF Step, InitLock, InitTest, InitMutexes, InitBuffer, InitFile, InitSocket, InitDefaults,
        InitReturn, Open, RelSocket, RelFile, RelNull, RelBuffer, RelMutex,
        PrintStatus, PrintLevel, PrintLevelRead, PrintSet, PrintSetRead, PrintData, PrintLine, PrintRest,
        SetLock, SetStore, NetLock, NetStore, NetClear, NetFill, Flush, history
    <3> QED
      BY <3>3, <3>4
  <2> QED
    BY <2>1, NotedRange DEF Ranges
<1>4. fault' \subseteq Fault
  <2>1. \A r \in Resource : \A p : UseOf(r, p) \subseteq Fault
    BY UseRange
  <2>2. "file" \in Resource /\ "buffer" \in Resource
    BY DEF Resource
  <2>3. CASE \/ RelFile(t) \/ RelBuffer(t) \/ PrintLine(t) \/ PrintRest(t) \/ Flush(t)
    BY <2>1, <2>2, <2>3 DEF RelFile, RelBuffer, PrintLine, PrintRest, Flush, Piece, Ranges
  <2>4. ASSUME ~(RelFile(t) \/ RelBuffer(t) \/ PrintLine(t) \/ PrintRest(t) \/ Flush(t))
        PROVE  fault' = fault
    BY <2>4 DEF Begin, Step, InitializeLog, ReleaseLog, LogPrint, LogSet, LogSetNet, LogFFlush,
     InitLock, InitTest, InitMutexes, InitBuffer, InitFile, InitSocket, InitDefaults, InitReturn, Open,
     RelSocket, RelNull, RelMutex,
     PrintStatus, PrintLevel, PrintLevelRead, PrintSet, PrintSetRead, PrintData,
     SetLock, SetStore, NetLock, NetStore, NetClear, NetFill, history
  <2> QED
    BY <2>3, <2>4 DEF Ranges
<1> QED
  BY <1>1, <1>2, <1>3, <1>4 DEF Ranges

\* Every variable keeps its type: there are not more initializations than calls were
\* let through, handles and copies of them number initializations, and what is noted
\* of the callers and of the process is of the kinds named (LogLib.cpp:281-680).
THEOREM TypeCorrect == Spec => []TypeOK
<1>1. Init => Ranges /\ Budget
  <2> SUFFICES ASSUME Init PROVE Ranges /\ Budget
    OBVIOUS
  <2>1. Ranges
    BY DEF Init, Ranges
  <2>2. \A t \in Caller : ~Waits(t)
    BY DEF Init, Waits
  <2>3. inits <= MaxInits /\ temp_ptr \in [Caller -> 0..MaxInits]
    BY LogAssumption DEF Init
  <2> QED
    BY <2>1, <2>2, <2>3 DEF Budget
<1>2. Types /\ Types' /\ Ranges /\ Budget /\ [Next]_vars => (Ranges /\ Budget)'
  <2> SUFFICES ASSUME Types, Types', Ranges, Budget, [Next]_vars PROVE Ranges' /\ Budget'
    OBVIOUS
  <2>1. CASE \E t \in Caller : Begin(t) \/ Step(t)
    BY <2>1, BudgetKept, RangesKept
  <2>2. CASE Sigaction
    BY <2>2 DEF Sigaction, Ranges, Budget, Waits, opened, temps, history
  <2>3. CASE UNCHANGED vars
    BY <2>3 DEF vars, Ranges, Budget, Waits, opened, temps, history
  <2> QED
    BY <2>1, <2>2, <2>3 DEF Next
<1>3. Inv /\ Ranges /\ Budget => TypeOK
  <2> SUFFICES ASSUME Types, Address, Ranges, Budget PROVE TypeOK
    BY DEF Inv
  <2>1. inits \in Nat /\ MaxInits \in Nat /\ inits <= MaxInits
    BY LogAssumption DEF Types, Budget
  <2>2. handle \in [Resource -> 0..MaxInits] /\ live \subseteq Resource \X (1..MaxInits)
    <3>1. 0..inits \subseteq 0..MaxInits /\ 1..inits \subseteq 1..MaxInits
      BY <2>1
    <3> QED
      BY <3>1 DEF Types
  <2> QED
    BY <2>1, <2>2 DEF Types, Address, Ranges, Budget, TypeOK, Misuse, Fault
<1>4. Inv => Types
  BY DEF Inv
<1> QED
  BY Invariance, <1>1, <1>2, <1>3, <1>4, PTL DEF Spec
=============================================================================
