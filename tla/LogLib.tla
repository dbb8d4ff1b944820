------------------------------- MODULE LogLib -------------------------------
(***************************************************************************)
(* The log: src/libLog/LogLib.cpp (the same text as src/LogLib) and the    *)
(* copy of it the server has, src/prj-MDKServer/LogHeader.c.               *)
(*                                                                         *)
(* libLog is called by any thread.  The server's log is called by its one  *)
(* thread, in the order of main in start.c, and by the SIGCHLD handler,    *)
(* which interrupts that thread anywhere once it is installed.             *)
(***************************************************************************)
EXTENDS Integers, FiniteSets

CONSTANTS
    Main,       \* the server's thread, a thread that uses libLog
    Other,      \* the signal handler, another thread that uses libLog
    None,       \* a mutex that is free
    Destroyed,  \* a mutex after pthread_mutex_destroy: a lock returns at once
    MaxInits    \* bound: initializations that get past the test

Caller == {Main, Other}
Mutex == {"local", "data", "init"}
Resource == {"buffer", "file", "socket"}

ASSUME LogAssumption ==
    /\ Main # Other /\ None # Destroyed
    /\ {None, Destroyed} \cap Caller = {}
    /\ MaxInits \in Nat

VARIABLES
    version,    \* "libLog" or "MDKServer"
    pc,         \* where each caller is, "idle" between calls
    lock,       \* each mutex: its holder, None or Destroyed
    status,     \* Flag_init_status
    success,    \* Flag_init_success, without the bit of the folder
    handle,     \* Net_Log_Buffer, Log_File, Net_UDPSocket: 0 is NULL or -1
    live,       \* what has been opened and not been closed
    inits,      \* initializations that got past the test
    net,        \* Net_Enable
    remote,     \* Net_Remote: "zero" or "whole"
    temp_ptr,   \* local of LogPrint
    temp_net,   \* local of LogPrint
    armed,      \* the server has installed child_proc_exit
    \* history
    era,        \* "new", "ready" after a success, "released" after a release
    misuse,     \* what the callers did that the log does not allow for
    fault       \* what the process is lost by

opened == <<status, success, handle, live, inits>>
network == <<net, remote>>
temps == <<temp_ptr, temp_net>>
history == <<era, misuse, fault>>
vars == <<version, pc, lock, opened, network, temps, armed, history>>

Init ==
    /\ version \in {"libLog", "MDKServer"}
    /\ pc = [t \in Caller |-> "idle"]
    /\ lock = [m \in Mutex |-> None]
    /\ status = FALSE
    /\ success = {}
    /\ handle = [r \in Resource |-> 0]
    /\ live = {}
    /\ inits = 0
    /\ net = FALSE
    /\ remote = "zero"
    /\ temp_ptr = [t \in Caller |-> 0]
    /\ temp_net = [t \in Caller |-> FALSE]
    /\ armed = FALSE
    /\ era = "new"
    /\ misuse = {}
    /\ fault = {}

-----------------------------------------------------------------------------
(* pthread mutexes, as glibc has them *)

Go(t, place) == pc' = [pc EXCEPT ![t] = place]
At(t, from, to) == pc[t] = from /\ Go(t, to)

Lock(t, m) ==
    /\ lock[m] \in {None, Destroyed}
    /\ lock' = IF lock[m] = None THEN [lock EXCEPT ![m] = t] ELSE lock

Unlocked(m) == IF lock[m] = Destroyed THEN lock ELSE [lock EXCEPT ![m] = None]

\* pthread_mutex_destroy refuses a mutex that is held
DestroyAll(ms) == [m \in Mutex |-> IF m \in ms /\ lock[m] = None THEN Destroyed ELSE lock[m]]

InitCalls == {"initLock", "initTest", "initMutexes", "initBuffer", "initFile",
              "initSocket", "initDefaults", "initDone", "initFailed"}
PrintCalls == {"printStatus", "printLevel", "printLevelRead", "printSet",
               "printSetRead", "printData", "printLine", "printRest"}
ReleaseCalls == {"relSocket", "relFile", "relNull", "relBuffer", "relMutex"}
NetCalls == {"netLock", "netStore", "netClear", "netFill"}
SetCalls == {"setLock", "setStore"}
Place == {"idle", "flush"} \cup InitCalls \cup PrintCalls \cup ReleaseCalls
            \cup NetCalls \cup SetCalls

\* History: what the callers did.  Nothing is claimed after a late call, and no
\* more of the net after it has been moved, so that the rest is forgotten.
Note(what) ==
    LET all == misuse \cup what
    IN  misuse' = IF "late" \in all THEN {"late"}
                  ELSE IF "netmoved" \in all THEN all \ {"neton"} ELSE all

Busy(ps) == \E t \in Caller : pc[t] \in ps

\* The thread the handler has interrupted stands still; a lost process too.
Runs(t) ==
    /\ fault = {}
    /\ version = "MDKServer" /\ t = Main => pc[Other] = "idle"

\* In the server: main, in the order of start.c, and the handler's one print
MayCall(t, call) ==
    /\ Runs(t)
    /\ pc[t] = "idle"
    /\ version = "MDKServer" =>
        IF t = Other
        THEN call = "print" /\ armed
        ELSE CASE call = "init" -> inits = 0
               [] call = "set" -> era = "ready" /\ ~armed
               [] OTHER -> era = "ready"

-----------------------------------------------------------------------------
(* InitializeLog *)

InitializeLog(t) ==
    /\ MayCall(t, "init")
    /\ inits + Cardinality({s \in Caller : pc[s] \in InitCalls}) < MaxInits
    /\ Go(t, IF version = "libLog" THEN "initLock" ELSE "initMutexes")
    /\ Note(IF era = "released" THEN {"late"} ELSE {})
    /\ UNCHANGED <<version, lock, opened, network, temps, armed, era, fault>>

\* Mutant: the mutex is not taken.
InitLock_Skip(t) ==
    /\ At(t, "initLock", "initTest")
    /\ UNCHANGED <<version, lock, opened, network, temps, armed, history>>

InitLock(t) ==
    /\ At(t, "initLock", "initTest")
    /\ Lock(t, "init")
    /\ UNCHANGED <<version, opened, network, temps, armed, history>>

InitTest(t) ==
    /\ At(t, "initTest", IF status THEN "initDone" ELSE "initMutexes")
    /\ UNCHANGED <<version, lock, opened, network, temps, armed, history>>

\* Mutant: the status is set when the mutexes are there.
InitMutexes_Status(t) ==
    /\ At(t, "initMutexes", "initBuffer")
    /\ lock' = [lock EXCEPT !["local"] = None]
    /\ success' = success \cup {"mutex"}
    /\ inits' = inits + 1
    /\ status' = TRUE
    /\ UNCHANGED <<version, handle, live, network, temps, armed, history>>

\* The first pthread_mutex_init succeeds, and the second is never called.
InitMutexes(t) ==
    /\ At(t, "initMutexes", "initBuffer")
    /\ lock' = [lock EXCEPT !["local"] = None]
    /\ success' = success \cup {"mutex"}
    /\ inits' = inits + 1
    /\ UNCHANGED <<version, status, handle, live, network, temps, armed, history>>

\* A resource is opened, or it is not and the initialization fails.
Open(t, r, next) ==
    /\ \/ /\ handle' = [handle EXCEPT ![r] = inits]
          /\ live' = live \cup {<<r, inits>>}
          /\ success' = success \cup {r}
          /\ Go(t, next)
          /\ UNCHANGED status
       \/ /\ handle' = [handle EXCEPT ![r] = 0]
          /\ status' = FALSE
          /\ Go(t, "initFailed")
          /\ UNCHANGED <<live, success>>
    /\ UNCHANGED <<version, lock, inits, net, temps, armed, history>>

InitBuffer(t) == pc[t] = "initBuffer" /\ Open(t, "buffer", "initFile") /\ UNCHANGED remote

\* mkdir may fail before fopen
InitFile(t) ==
    /\ pc[t] = "initFile"
    /\ \/ Open(t, "file", "initSocket") /\ UNCHANGED remote
       \/ /\ Go(t, "initFailed")
          /\ UNCHANGED <<version, lock, opened, network, temps, armed, history>>

\* The default address is set before the socket is opened.
InitSocket(t) ==
    /\ pc[t] = "initSocket"
    /\ Open(t, "socket", "initDefaults")
    /\ remote' = "whole"

InitDefaults(t) ==
    /\ At(t, "initDefaults", "initDone")
    /\ net' = FALSE
    /\ status' = TRUE
    /\ UNCHANGED <<version, lock, success, handle, live, inits, remote, temps, armed, history>>

InitReturn(t) ==
    /\ pc[t] \in {"initDone", "initFailed"}
    /\ Go(t, "idle")
    /\ lock' = IF version = "libLog" THEN Unlocked("init") ELSE lock
    /\ era' = IF pc[t] = "initDone" THEN "ready" ELSE era
    /\ UNCHANGED <<version, opened, network, temps, armed, misuse, fault>>

-----------------------------------------------------------------------------
(* ReleaseLog *)

ReleaseLog(t) ==
    /\ MayCall(t, "release")
    /\ Go(t, IF success = {} THEN "idle" ELSE "relSocket")
    /\ era' = "released"
    /\ Note(IF Busy(PrintCalls \cup InitCalls \cup ReleaseCalls \cup {"flush"})
            THEN {"late"} ELSE {})
    /\ UNCHANGED <<version, lock, opened, network, temps, armed, fault>>

Closed(r) == live \ {<<r, handle[r]>>}
IsLive(r) == <<r, handle[r]>> \in live

RelSocket(t) ==
    /\ At(t, "relSocket", "relFile")
    /\ IF "socket" \in success
       THEN /\ live' = Closed("socket")
            /\ handle' = [handle EXCEPT !["socket"] = 0]
            /\ remote' = "zero"
            /\ success' = success \ {"socket"}
       ELSE UNCHANGED <<live, handle, remote, success>>
    /\ UNCHANGED <<version, lock, status, inits, net, temps, armed, history>>

\* What happens when r is used: nothing, or the process is lost
UseOf(r, pointer) ==
    CASE pointer = 0 -> {<<"null", r>>}
      [] <<r, pointer>> \in live -> {}
      [] OTHER -> {<<"freed", r>>}

\* Mutant: the file is not closed.
RelFile_NoClose(t) ==
    /\ At(t, "relFile", IF "file" \in success THEN "relNull" ELSE "relBuffer")
    /\ UNCHANGED <<version, lock, opened, network, temps, armed, history>>

RelFile(t) ==
    /\ pc[t] = "relFile"
    /\ IF "file" \in success
       THEN /\ fault' = UseOf("file", handle["file"])
            /\ live' = Closed("file")
            /\ Go(t, "relNull")
       ELSE Go(t, "relBuffer") /\ UNCHANGED <<fault, live>>
    /\ UNCHANGED <<version, lock, status, success, handle, inits, network, temps, armed,
                   era, misuse>>

RelNull(t) ==
    /\ At(t, "relNull", "relBuffer")
    /\ handle' = [handle EXCEPT !["file"] = 0]
    /\ success' = success \ {"file"}
    /\ UNCHANGED <<version, lock, status, live, inits, network, temps, armed, history>>

\* The pointer stays what it was.
RelBuffer(t) ==
    /\ At(t, "relBuffer", "relMutex")
    /\ IF "buffer" \in success
       THEN /\ fault' = IF handle["buffer"] = 0 THEN {} ELSE UseOf("buffer", handle["buffer"])
            /\ live' = Closed("buffer")
            /\ success' = success \ {"buffer"}
       ELSE UNCHANGED <<fault, live, success>>
    /\ UNCHANGED <<version, lock, status, handle, inits, network, temps, armed,
                   era, misuse>>

\* Flag_init_status stays what it was.
RelMutex(t) ==
    /\ At(t, "relMutex", "idle")
    /\ lock' = IF "mutex" \in success THEN DestroyAll({"local", "data"}) ELSE lock
    /\ success' = success \ {"mutex"}
    /\ UNCHANGED <<version, status, handle, live, inits, network, temps, armed, history>>

-----------------------------------------------------------------------------
(* LogPrint.  The pointer to the buffer is read before the status. *)

\* The misuse of a print or flush that is begun now
Begun(early) ==
    CASE era = "new" -> {early}
      [] era = "released" -> {"late"}
      [] OTHER -> IF Busy(ReleaseCalls) THEN {"late"} ELSE {}

LogPrint(t) ==
    /\ MayCall(t, "print")
    /\ Go(t, "printStatus")
    /\ temp_ptr' = [temp_ptr EXCEPT ![t] = handle["buffer"]]
    /\ Note(Begun("early"))
    /\ UNCHANGED <<version, lock, opened, network, temp_net, armed, era, fault>>

\* A call that returns: its locals are forgotten.
Forget(t) ==
    /\ temp_ptr' = [temp_ptr EXCEPT ![t] = 0]
    /\ temp_net' = [temp_net EXCEPT ![t] = FALSE]

PrintStatus(t) ==
    /\ At(t, "printStatus", IF status THEN "printLevel" ELSE "idle")
    /\ IF status THEN UNCHANGED temps ELSE Forget(t)
    /\ UNCHANGED <<version, lock, opened, network, armed, history>>

PrintLevel(t) ==
    /\ At(t, "printLevel", "printLevelRead")
    /\ Lock(t, "local")
    /\ UNCHANGED <<version, opened, network, temps, armed, history>>

\* Mutant: a message below the level returns before the mutex is released.
PrintLevelRead_Keeps(t) ==
    /\ pc[t] = "printLevelRead"
    /\ \/ Go(t, "idle") /\ Forget(t) /\ UNCHANGED lock
       \/ Go(t, "printSet") /\ lock' = Unlocked("local") /\ UNCHANGED temps
    /\ UNCHANGED <<version, opened, network, armed, history>>

\* The message has its level or has not.
PrintLevelRead(t) ==
    /\ pc[t] = "printLevelRead"
    /\ lock' = Unlocked("local")
    /\ \/ Go(t, "idle") /\ Forget(t)
       \/ Go(t, "printSet") /\ UNCHANGED temps
    /\ UNCHANGED <<version, opened, network, armed, history>>

PrintSet(t) ==
    /\ At(t, "printSet", "printSetRead")
    /\ Lock(t, "local")
    /\ UNCHANGED <<version, opened, network, temps, armed, history>>

PrintSetRead(t) ==
    /\ At(t, "printSetRead", "printData")
    /\ lock' = Unlocked("local")
    /\ temp_net' = [temp_net EXCEPT ![t] = net]
    /\ UNCHANGED <<version, opened, network, temp_ptr, armed, history>>

\* Mutant: the pieces are written without the mutex.
PrintData_NoLock(t) ==
    /\ At(t, "printData", "printLine")
    /\ UNCHANGED <<version, lock, opened, network, temps, armed, history>>

PrintData(t) ==
    /\ At(t, "printData", "printLine")
    /\ Lock(t, "data")
    /\ UNCHANGED <<version, opened, network, temps, armed, history>>

\* The pieces of a line go to the file, read anew for each, and to the buffer.
\* The server writes the file only when asked to or for the higher levels.
Piece(t) ==
    \E write_file \in IF version = "libLog" THEN {TRUE} ELSE BOOLEAN :
        fault' = UseOf("buffer", temp_ptr[t])
                    \cup (IF write_file THEN UseOf("file", handle["file"]) ELSE {})

PrintLine(t) ==
    /\ At(t, "printLine", "printRest")
    /\ Piece(t)
    /\ UNCHANGED <<version, lock, opened, network, temps, armed, era, misuse>>

\* The last pieces, the datagram, and the end of the call
PrintRest(t) ==
    /\ At(t, "printRest", "idle")
    /\ Piece(t)
    /\ lock' = Unlocked("data")
    /\ Forget(t)
    /\ UNCHANGED <<version, opened, network, armed, era, misuse>>

-----------------------------------------------------------------------------
(* The settings, LogSetNet and LogFFlush *)

\* The setters are alike: one setting stored under the mutex.
LogSet(t) ==
    /\ MayCall(t, "set")
    /\ Go(t, "setLock")
    /\ UNCHANGED <<version, lock, opened, network, temps, armed, history>>

SetLock(t) ==
    /\ At(t, "setLock", "setStore")
    /\ Lock(t, "local")
    /\ UNCHANGED <<version, opened, network, temps, armed, history>>

\* LogEnableNet; the settings of the other setters are not modelled.
SetStore(t) ==
    /\ At(t, "setStore", "idle")
    /\ lock' = Unlocked("local")
    /\ \/ UNCHANGED <<net, misuse>>
       \/ net' = FALSE /\ UNCHANGED misuse
       \/ /\ net' = TRUE
          /\ Note(IF Busy(NetCalls) THEN {"netmoved"} ELSE {"neton"})
    /\ UNCHANGED <<version, opened, remote, temps, armed, era, fault>>

LogSetNet(t) ==
    /\ MayCall(t, "set")
    /\ Go(t, "netLock")
    /\ Note(IF "neton" \in misuse THEN {"netmoved"} ELSE {})
    /\ UNCHANGED <<version, lock, opened, network, temps, armed, era, fault>>

NetLock(t) ==
    /\ At(t, "netLock", "netStore")
    /\ Lock(t, "local")
    /\ UNCHANGED <<version, opened, network, temps, armed, history>>

\* Mutant: an address switches the net on.
NetStore_On(t) ==
    /\ At(t, "netStore", "netClear")
    /\ lock' = Unlocked("local")
    /\ net' = TRUE
    /\ UNCHANGED <<version, opened, remote, temps, armed, history>>

NetStore(t) ==
    /\ At(t, "netStore", "netClear")
    /\ lock' = Unlocked("local")
    /\ UNCHANGED <<version, opened, network, temps, armed, history>>

\* Net_Remote is written after the mutex has been released.
NetClear(t) ==
    /\ At(t, "netClear", "netFill")
    /\ remote' = "zero"
    /\ UNCHANGED <<version, lock, opened, net, temps, armed, history>>

NetFill(t) ==
    /\ At(t, "netFill", "idle")
    /\ remote' = "whole"
    /\ UNCHANGED <<version, lock, opened, net, temps, armed, history>>

LogFFlush(t) ==
    /\ MayCall(t, "flush")
    /\ Go(t, IF handle["file"] # 0 THEN "flush" ELSE "idle")
    /\ Note(Begun("earlyflush"))
    /\ UNCHANGED <<version, lock, opened, network, temps, armed, era, fault>>

Flush(t) ==
    /\ At(t, "flush", "idle")
    /\ fault' = UseOf("file", handle["file"])
    /\ UNCHANGED <<version, lock, opened, network, temps, armed, era, misuse>>

\* sigaction in the server's main, after the settings
Sigaction ==
    /\ version = "MDKServer" /\ ~armed
    /\ pc[Main] = "idle" /\ era = "ready"
    /\ armed' = TRUE
    /\ UNCHANGED <<version, pc, lock, opened, network, temps, history>>

-----------------------------------------------------------------------------
Begin(t) ==
    \/ InitializeLog(t) \/ ReleaseLog(t) \/ LogPrint(t)
    \/ LogSet(t) \/ LogSetNet(t) \/ LogFFlush(t)

Step(t) ==
    /\ Runs(t)
    /\ \/ InitLock(t) \/ InitTest(t) \/ InitMutexes(t) \/ InitBuffer(t)
       \/ InitFile(t) \/ InitSocket(t) \/ InitDefaults(t) \/ InitReturn(t)
       \/ RelSocket(t) \/ RelFile(t) \/ RelNull(t) \/ RelBuffer(t) \/ RelMutex(t)
       \/ PrintStatus(t) \/ PrintLevel(t) \/ PrintLevelRead(t) \/ PrintSet(t)
       \/ PrintSetRead(t) \/ PrintData(t) \/ PrintLine(t) \/ PrintRest(t)
       \/ SetLock(t) \/ SetStore(t) \/ NetLock(t) \/ NetStore(t)
       \/ NetClear(t) \/ NetFill(t) \/ Flush(t)

Next ==
    \/ \E t \in Caller : Begin(t) \/ Step(t)
    \/ Sigaction

Spec == Init /\ [][Next]_vars

\* A thread in a call goes on with it when it can.  Signals come when a child ends,
\* so main, which starts the children, is not interrupted without end.
FairSpec == Spec /\ SF_vars(Step(Main)) /\ WF_vars(Step(Other))

-----------------------------------------------------------------------------
(* Properties *)

\* The types of the globals, and the bounds of what is counted.
TypeOK ==
    /\ version \in {"libLog", "MDKServer"}
    /\ pc \in [Caller -> Place]
    /\ lock \in [Mutex -> Caller \cup {None, Destroyed}]
    /\ status \in BOOLEAN /\ net \in BOOLEAN /\ armed \in BOOLEAN
    /\ success \subseteq Resource \cup {"mutex"}
    /\ handle \in [Resource -> 0..MaxInits]
    /\ live \subseteq Resource \X (1..MaxInits)
    /\ inits \in 0..MaxInits
    /\ remote \in {"zero", "whole"}
    /\ temp_ptr \in [Caller -> 0..MaxInits]
    /\ temp_net \in [Caller -> BOOLEAN]
    /\ era \in {"new", "ready", "released"}
    /\ misuse \subseteq {"early", "earlyflush", "late", "neton", "netmoved"}
    /\ fault \subseteq {"null", "freed"} \X Resource

\* The process is lost by the log in these ways only: a print begun before
\* InitializeLog had returned finds the status set and its copy of the pointer NULL
\* (LogLib.cpp:502-508); a file is closed, or opened anew, under a flush begun that
\* early; a print or flush overlaps or follows a release, or a release another,
\* as nothing but the flags holds them apart (396-431); and a release after a second
\* set-up that failed where the first did not: the flag of the first is still set
\* while the pointer is NULL (302-355, 409-415).
FaultsHaveCause ==
    /\ <<"null", "buffer">> \in fault => misuse \cap {"early", "late"} # {}
    /\ <<"null", "file">> \in fault =>
           misuse \cap {"late", "earlyflush"} # {} \/ inits > 1
    /\ fault \cap {<<"freed", "buffer">>, <<"freed", "file">>} # {} => "late" \in misuse

\* After InitializeLog has returned 0 and until ReleaseLog is called everything is
\* open and the mutexes can be used, however many threads initialize at once and
\* after failures too; without a failure it is open once.  Not after a release:
\* Flag_init_status stays set, and the next call returns 0 with nothing open
\* (LogLib.cpp:281-390).
InitMeansReady ==
    era = "ready" /\ "late" \notin misuse =>
        /\ status
        /\ \A r \in Resource : IsLive(r)
        /\ \A m \in Mutex : lock[m] # Destroyed
        /\ inits = 1 => live = {<<r, handle[r]>> : r \in Resource}

\* A release closes what was opened, after a set-up that failed half-way too;
\* what a repeated set-up opens over the first one's is lost (LogLib.cpp:396-431).
NothingLeaks ==
    /\ era = "released" /\ ~Busy(ReleaseCalls)
    /\ inits = 1 /\ "late" \notin misuse
    => live = {} /\ success = {}

InLine(t) == pc[t] \in {"printLine", "printRest"}

\* The pieces of two messages are never mixed, not even by threads that print while
\* another initializes, and not by the signal handler; unless the log was released
\* before, which leaves Log_datamutex destroyed for good (LogLib.cpp:305, 427-428, 563).
LinesWhole ==
    "late" \notin misuse =>
        \A s, t \in Caller : InLine(s) /\ InLine(t) => s = t

\* A program that sets the address before it first switches the net on sends no
\* datagram to the zero address, although Net_Remote is written without a mutex and
\* read without one (LogLib.cpp:217-226, 547, 650).
DatagramsAddressed ==
    \A t \in Caller :
        pc[t] = "printRest" /\ temp_net[t] /\ remote = "zero" =>
            misuse \cap {"netmoved", "late"} # {}

\* The handler waits for a mutex that the thread it interrupted holds.
SelfDeadlock ==
    /\ version = "MDKServer"
    /\ \/ pc[Other] \in {"printLevel", "printSet"} /\ lock["local"] = Main
       \/ pc[Other] = "printData" /\ lock["data"] = Main

\* No mutex of the log is held for ever, except when the process is lost or the
\* signal handler has interrupted its holder (start.c:140-147).
MutexesComeFree ==
    \A m \in Mutex : []<>(lock[m] \notin Caller \/ SelfDeadlock \/ fault # {})
=============================================================================
