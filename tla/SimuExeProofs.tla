--------------------------- MODULE SimuExeProofs ---------------------------
(***************************************************************************)
(* The supervision of the simulator, for any number of children and        *)
(* executables, in both programs: the globals and the kernel agree         *)
(* (FlagIsRight), one simulator runs at a time (OneSimulator), a stop      *)
(* stops it (StopIsEffective), and nothing but a signal that arrives in    *)
(* the wrong place loses the process (OnlySignalsCrash).                   *)
(***************************************************************************)
EXTENDS SimuExe, FiniteSetTheorems, TLAPS

Between == {"ready", "exited"}
InStart == {"start", "fork", "set pid", "dup cmd", "set running"}
InStop == {"stop", "compare", "wait", "kill", "log", "set idle", "reset pid",
           "free cmd", "clear cmd", "stopped"}
Killed == {"log", "set idle", "reset pid", "free cmd", "clear cmd", "stopped"}

\* Where main is, and what it has left to run.
Flow ==
    /\ pc \in Between \cup InStart \cup InStop
    /\ pc \in InStart => todo = <<"start">>
    /\ pc \in InStop => todo \in {<<"stop">>, <<"stop", "start">>}
    /\ pc \notin Between => elf \in Elf
    /\ interrupted \in BOOLEAN /\ raced \in BOOLEAN

\* The pids the program knows are of children that were forked.
Forks ==
    /\ {pid, newpid, target} \subseteq Forked \cup {NoPid}
    /\ Early => newpid \in Forked

\* The one child that runs is the recorded one, or the one just forked.
One ==
    ~raced => \A n \in Pid : Running(n) =>
        IF Early THEN n = newpid
        ELSE pc \in Between \cup {"start", "stop", "compare", "wait", "kill"}
             /\ flag = "running" /\ pid = n

Idle == flag = "idle" /\ pid = NoPid /\ cmd = None

\* The server learns of the end of the recorded child by the signal.
Recorded ==
    /\ flag = "running" /\ pid # NoPid /\ cmd \in Elf
    /\ HandlerInstalled => Running(pid) \/ pending \/ pc \in {"log", "set idle"}

\* The three globals at each step.  The handler makes them idle at any step before
\* the flag is cleared.
Globals ==
    ~raced /\ crash = None =>
        /\ pc \in Between \cup {"start", "stop", "compare", "wait", "kill", "log", "set idle"}
               => Idle \/ Recorded
        /\ pc \in {"fork", "stopped", "set pid"} => Idle
        /\ pc \in {"dup cmd", "set running"} => flag = "idle" /\ pid = newpid
        /\ pc = "dup cmd" => cmd = None
        /\ pc = "set running" => cmd \in Elf
        /\ Early /\ HandlerInstalled => Running(newpid) \/ pending
        /\ pc \in {"reset pid", "free cmd", "clear cmd"} => flag = "idle"
        /\ pc \in {"free cmd", "clear cmd"} => pid = NoPid
        /\ pc \in {"reset pid", "free cmd"} => cmd \in Elf \cup {None}
        /\ pc = "clear cmd" => cmd = Freed
        /\ ~interrupted /\ pc \in {"compare", "wait", "kill", "log", "set idle"}
               => flag = "running"

\* The child recorded when the operation began is the one it works on, until it
\* is known not to run.
Target ==
    ~raced /\ ~interrupted /\ crash = None /\ target # NoPid =>
        /\ pc \in {"stop", "compare", "wait", "kill"} => pid = target
        /\ pc = "start" => ~Running(target) \/ (flag = "running" /\ pid = target)
        /\ pc \in Killed \cup {"fork"} => ~Running(target)
        /\ Early => ~Running(target) /\ newpid # target
        /\ pc = "ready" /\ answer = "ok" => ~Running(target)

Inv == TypeOK /\ Flow /\ Forks /\ One /\ Globals /\ CrashNeedsSignal /\ Target

-----------------------------------------------------------------------------
LEMMA PidFacts == NoPid \notin Pid /\ Pid \subseteq Nat
BY ForksAssumption DEF NoPid, Pid

LEMMA InitInv == Init => Inv
<1> SUFFICES ASSUME Init PROVE Inv
  OBVIOUS
<1> USE DEF Init
<1>1. TypeOK /\ Flow
  BY ProgramAssumption DEF TypeOK, Flow, Between, InStart, InStop
<1>2. Forks
  BY DEF Forks, Early
<1>3. One /\ Globals /\ Target
  BY DEF One, Globals, Target, Idle, Running, Early, Between, Killed
<1>4. CrashNeedsSignal
  BY ElfAssumption DEF CrashNeedsSignal, Lost
<1> QED
  BY <1>1, <1>2, <1>3, <1>4 DEF Inv

\* What is left of a list of functions, and where main goes.
LEMMA ReturnGoes ==
    ASSUME NEW result, Return(result), pc \in InStart \cup InStop, Flow
    PROVE  /\ answer' = result
           /\ pc' \in {"ready", "exited", "start"}
           /\ pc' = "exited" => result # "ok"
           /\ pc' = "start" => todo' = <<"start">> /\ pc \in InStop
<1>1. CASE todo = <<"stop", "start">>
  <2>1. Tail(todo) = <<"start">> /\ Len(todo) = 2 /\ todo[2] = "start"
    BY <1>1
  <2>2. pc \in InStop
    BY <1>1 DEF Flow
  <2> QED
    BY <2>1, <2>2 DEF Return
<1>2. CASE todo # <<"stop", "start">>
  <2>1. Len(todo) = 1
    BY <1>2 DEF Flow
  <2> QED
    BY <2>1 DEF Return
<1> QED
  BY <1>1, <1>2

\* The parts that depend on child only through the children that were forked.
LEMMA ForksFrame ==
    ASSUME Forks, Forked' = Forked, UNCHANGED newpid,
           pid' \in {pid, NoPid, newpid}, target' \in {target, pid}, Early' => Early
    PROVE  Forks'
BY DEF Forks, Early, NoPid

LEMMA ForkedFrame ==
    ASSUME child \in [Pid -> {"none", "alive", "killed", "zombie", "reaped"}],
           NEW n \in Pid, NEW s \in {"killed", "zombie", "reaped"}, child[n] # "none",
           child' = [child EXCEPT ![n] = s] \/ UNCHANGED child
    PROVE  Forked' = Forked
BY DEF Forked

-----------------------------------------------------------------------------
(* The steps of main that fork, wait for or kill nothing *)

\* The children are what they were.
LEMMA Untouched ==
    ASSUME UNCHANGED child
    PROVE  Forked' = Forked /\ \A n \in Pid : Running(n)' = Running(n)
BY DEF Forked, Running

LEMMA StartCheckKeeps == Inv /\ StartCheck => Inv'
<1> SUFFICES ASSUME Inv, StartCheck PROVE Inv'
  OBVIOUS
<1> USE DEF Inv, StartCheck, At, Goto, kernel, globals, history
<1>1. Forked' = Forked /\ \A n \in Pid : Running(n)' = Running(n)
  BY Untouched DEF StartCheck
<1>2. TypeOK' /\ Flow'
  <2>1. TypeOK'
    BY ReturnGoes, PidFacts DEF TypeOK, Flow, Between, InStart, InStop
  <2>2. Flow'
    BY ReturnGoes, PidFacts DEF TypeOK, Flow, Between, InStart, InStop
  <2> QED
    BY <2>1, <2>2
<1>3. Forks'
  BY ReturnGoes, <1>1 DEF Forks, Early, InStart, InStop
<1>4. One'
  BY ReturnGoes, <1>1 DEF One, Early, Between, InStart, InStop, Globals, Idle
<1>5. Globals' /\ CrashNeedsSignal'
  BY ReturnGoes, <1>1, ElfAssumption, PidFacts
     DEF Globals, CrashNeedsSignal, Idle, Recorded, HandlerInstalled, Early, Between, Lost,
         InStart, InStop, Flow, Forks, TypeOK, Running
<1>6. Target'
  <2>1. CASE flag = "running" /\ Return("already running")
    <3>1. pc' \in Between /\ answer' = "already running"
      BY <2>1, ReturnGoes DEF InStart, InStop, Between
    <3> QED
      BY <3>1 DEF Target, Early, Killed, Between
  <2>2. CASE flag = "idle" /\ Goto("fork")
    BY <2>2, <1>1 DEF Target, Early, Killed, TypeOK, Running
  <2>3. CASE Return("no executable")
    <3>1. pc' \in Between /\ answer' = "no executable"
      BY <2>3, ReturnGoes DEF InStart, InStop, Between
    <3> QED
      BY <3>1 DEF Target, Early, Killed, Between
  <2> QED
    BY <2>1, <2>2, <2>3
<1> QED
  BY <1>2, <1>3, <1>4, <1>5, <1>6

LEMMA SetPidKeeps == Inv /\ SetPid => Inv'
<1> SUFFICES ASSUME Inv, SetPid PROVE Inv'
  OBVIOUS
<1> USE DEF Inv, SetPid, At, Goto, kernel, globals, history
<1>1. Forked' = Forked /\ \A n \in Pid : Running(n)' = Running(n)
  BY Untouched DEF SetPid
<1>2. TypeOK' /\ Flow'
  <2>1. TypeOK'
    BY PidFacts DEF TypeOK, Flow, Between, InStart, InStop
  <2>2. Flow'
    BY PidFacts DEF TypeOK, Flow, Between, InStart, InStop
  <2> QED
    BY <2>1, <2>2
<1>3. Forks'
  BY <1>1 DEF Forks, Early, InStart, InStop
<1>4. One'
  BY <1>1 DEF One, Early, Between, InStart, InStop, Globals, Idle
<1>5. Globals' /\ CrashNeedsSignal'
  BY <1>1, ElfAssumption, PidFacts
     DEF Globals, CrashNeedsSignal, Idle, Recorded, HandlerInstalled, Early, Between, Lost,
         InStart, InStop, Flow, Forks, TypeOK, Running
<1>6. Target'
  BY <1>1, <1>3
     DEF Target, One, Globals, Idle, Recorded, Early, Killed, InStart, InStop, Forks, TypeOK, Forked
<1> QED
  BY <1>2, <1>3, <1>4, <1>5, <1>6

LEMMA DupCmdKeeps == Inv /\ DupCmd => Inv'
<1> SUFFICES ASSUME Inv, DupCmd PROVE Inv'
  OBVIOUS
<1> USE DEF Inv, DupCmd, At, Goto, kernel, globals, history
<1>1. Forked' = Forked /\ \A n \in Pid : Running(n)' = Running(n)
  BY Untouched DEF DupCmd
<1>2. TypeOK' /\ Flow'
  <2>1. TypeOK'
    BY PidFacts DEF TypeOK, Flow, Between, InStart, InStop
  <2>2. Flow'
    BY PidFacts DEF TypeOK, Flow, Between, InStart, InStop
  <2> QED
    BY <2>1, <2>2
<1>3. Forks'
  BY <1>1 DEF Forks, Early, InStart, InStop
<1>4. One'
  BY <1>1 DEF One, Early, Between, InStart, InStop, Globals, Idle
<1>5. Globals' /\ CrashNeedsSignal'
  BY <1>1, ElfAssumption, PidFacts
     DEF Globals, CrashNeedsSignal, Idle, Recorded, HandlerInstalled, Early, Between, Lost,
         InStart, InStop, Flow, Forks, TypeOK, Running
<1>6. Target'
  BY <1>1, <1>3
     DEF Target, One, Globals, Idle, Recorded, Early, Killed, InStart, InStop, Forks, TypeOK, Forked
<1> QED
  BY <1>2, <1>3, <1>4, <1>5, <1>6

LEMMA SetRunningKeeps == Inv /\ SetRunning => Inv'
<1> SUFFICES ASSUME Inv, SetRunning PROVE Inv'
  OBVIOUS
<1> USE DEF Inv, SetRunning, At, kernel, globals, history
<1>1. Forked' = Forked /\ \A n \in Pid : Running(n)' = Running(n)
  BY Untouched DEF SetRunning
<1>2. TypeOK' /\ Flow'
  <2>1. TypeOK'
    BY ReturnGoes, PidFacts DEF TypeOK, Flow, Between, InStart, InStop
  <2>2. Flow'
    BY ReturnGoes, PidFacts DEF TypeOK, Flow, Between, InStart, InStop
  <2> QED
    BY <2>1, <2>2
<1>3. Forks'
  BY ReturnGoes, <1>1 DEF Forks, Early, InStart, InStop
<1>4. One'
  BY ReturnGoes, <1>1 DEF One, Early, Between, InStart, InStop, Globals, Idle
<1>5. Globals' /\ CrashNeedsSignal'
  <2>1. newpid \in Pid /\ newpid # NoPid
    BY PidFacts DEF Forks, Forked, Early
  <2>2. pc' = "ready"
    BY ReturnGoes DEF InStart, InStop
  <2>3. ~raced /\ crash = None => Recorded'
    BY <1>1, <2>1 DEF Globals, Recorded, HandlerInstalled, Early, Running
  <2> QED
    BY <2>2, <2>3, ElfAssumption DEF Globals, CrashNeedsSignal, Early, Between, Lost
<1>6. Target'
  BY ReturnGoes, <1>1, <1>3
     DEF Target, One, Globals, Idle, Recorded, Early, Killed, InStart, InStop, Forks, TypeOK, Forked
<1> QED
  BY <1>2, <1>3, <1>4, <1>5, <1>6

LEMMA StopCheckKeeps == Inv /\ StopCheck => Inv'
<1> SUFFICES ASSUME Inv, StopCheck PROVE Inv'
  OBVIOUS
<1> USE DEF Inv, StopCheck, At, Goto, kernel, globals, history
<1>1. Forked' = Forked /\ \A n \in Pid : Running(n)' = Running(n)
  BY Untouched DEF StopCheck
<1>2. TypeOK' /\ Flow'
  <2>1. TypeOK'
    BY ReturnGoes, PidFacts DEF TypeOK, Flow, Between, InStart, InStop
  <2>2. Flow'
    BY ReturnGoes, PidFacts DEF TypeOK, Flow, Between, InStart, InStop
  <2> QED
    BY <2>1, <2>2
<1>3. Forks'
  BY ReturnGoes, <1>1 DEF Forks, Early, InStart, InStop
<1>4. One'
  BY ReturnGoes, <1>1 DEF One, Early, Between, InStart, InStop, Globals, Idle
<1>5. Globals' /\ CrashNeedsSignal'
  BY ReturnGoes, <1>1, ElfAssumption, PidFacts
     DEF Globals, CrashNeedsSignal, Idle, Recorded, HandlerInstalled, Early, Between, Lost,
         InStart, InStop, Flow, Forks, TypeOK, Running
<1>6. Target'
  BY ReturnGoes, <1>1, <1>3
     DEF Target, One, Globals, Idle, Recorded, Early, Killed, InStart, InStop, Forks, TypeOK, Forked
<1> QED
  BY <1>2, <1>3, <1>4, <1>5, <1>6

LEMMA StopCompareKeeps == Inv /\ StopCompare => Inv'
<1> SUFFICES ASSUME Inv, StopCompare PROVE Inv'
  OBVIOUS
<1> USE DEF Inv, StopCompare, At, Goto, control, kernel, globals, history
<1>1. Forked' = Forked /\ \A n \in Pid : Running(n)' = Running(n)
  BY Untouched DEF StopCompare
<1>2. TypeOK' /\ Flow'
  <2>1. TypeOK'
    BY ReturnGoes, PidFacts DEF TypeOK, Flow, Between, InStart, InStop
  <2>2. Flow'
    BY ReturnGoes, PidFacts DEF TypeOK, Flow, Between, InStart, InStop
  <2> QED
    BY <2>1, <2>2
<1>3. Forks'
  BY ReturnGoes, <1>1 DEF Forks, Early, InStart, InStop
<1>4. One'
  BY ReturnGoes, <1>1 DEF One, Early, Between, InStart, InStop, Globals, Idle
<1>5. Globals' /\ CrashNeedsSignal'
  BY ReturnGoes, <1>1, ElfAssumption, PidFacts
     DEF Globals, CrashNeedsSignal, Idle, Recorded, HandlerInstalled, Early, Between, Lost,
         InStart, InStop, Flow, Forks, TypeOK, Running
<1>6. Target'
  <2>1. CASE crash' = "null cmd"
    BY <2>1, ElfAssumption DEF Target, Lost
  <2>2. CASE Goto("wait") /\ UNCHANGED crash
    BY <2>2 DEF Target, Early, Killed
  <2>3. CASE Return("other executable") /\ UNCHANGED crash
    <3>1. pc' \in Between \cup {"start"} /\ answer' = "other executable"
      BY <2>3, ReturnGoes DEF InStart, InStop, Between
    <3> QED
      BY <2>3, <3>1 DEF Target, Globals, Early, Killed, Between
  <2> QED
    BY <2>1, <2>2, <2>3
<1> QED
  BY <1>2, <1>3, <1>4, <1>5, <1>6

LEMMA StopLogKeeps == Inv /\ StopLog => Inv'
<1> SUFFICES ASSUME Inv, StopLog PROVE Inv'
  OBVIOUS
<1> USE DEF Inv, StopLog, At, Goto, kernel, globals, history
<1>1. Forked' = Forked /\ \A n \in Pid : Running(n)' = Running(n)
  BY Untouched DEF StopLog
<1>2. TypeOK' /\ Flow'
  <2>1. TypeOK'
    BY PidFacts DEF TypeOK, Flow, Between, InStart, InStop
  <2>2. Flow'
    BY PidFacts DEF TypeOK, Flow, Between, InStart, InStop
  <2> QED
    BY <2>1, <2>2
<1>3. Forks'
  BY <1>1 DEF Forks, Early, InStart, InStop
<1>4. One'
  BY <1>1 DEF One, Early, Between, InStart, InStop, Globals, Idle
<1>5. Globals' /\ CrashNeedsSignal'
  BY <1>1, ElfAssumption, PidFacts
     DEF Globals, CrashNeedsSignal, Idle, Recorded, HandlerInstalled, Early, Between, Lost,
         InStart, InStop, Flow, Forks, TypeOK, Running
<1>6. Target'
  BY <1>1, <1>3
     DEF Target, One, Globals, Idle, Recorded, Early, Killed, InStart, InStop, Forks, TypeOK, Forked
<1> QED
  BY <1>2, <1>3, <1>4, <1>5, <1>6

LEMMA SetIdleKeeps == Inv /\ SetIdle => Inv'
<1> SUFFICES ASSUME Inv, SetIdle PROVE Inv'
  OBVIOUS
<1> USE DEF Inv, SetIdle, At, Goto, kernel, globals, history
<1>1. Forked' = Forked /\ \A n \in Pid : Running(n)' = Running(n)
  BY Untouched DEF SetIdle
<1>2. TypeOK' /\ Flow'
  <2>1. TypeOK'
    BY PidFacts DEF TypeOK, Flow, Between, InStart, InStop
  <2>2. Flow'
    BY PidFacts DEF TypeOK, Flow, Between, InStart, InStop
  <2> QED
    BY <2>1, <2>2
<1>3. Forks'
  BY <1>1 DEF Forks, Early, InStart, InStop
<1>4. One'
  BY <1>1 DEF One, Early, Between, InStart, InStop, Globals, Idle
<1>5. Globals' /\ CrashNeedsSignal'
  BY <1>1, ElfAssumption, PidFacts
     DEF Globals, CrashNeedsSignal, Idle, Recorded, HandlerInstalled, Early, Between, Lost,
         InStart, InStop, Flow, Forks, TypeOK, Running
<1>6. Target'
  BY <1>1, <1>3
     DEF Target, One, Globals, Idle, Recorded, Early, Killed, InStart, InStop, Forks, TypeOK, Forked
<1> QED
  BY <1>2, <1>3, <1>4, <1>5, <1>6

LEMMA ResetPidKeeps == Inv /\ ResetPid => Inv'
<1> SUFFICES ASSUME Inv, ResetPid PROVE Inv'
  OBVIOUS
<1> USE DEF Inv, ResetPid, At, Goto, kernel, globals, history
<1>1. Forked' = Forked /\ \A n \in Pid : Running(n)' = Running(n)
  BY Untouched DEF ResetPid
<1>2. TypeOK' /\ Flow'
  <2>1. TypeOK'
    BY PidFacts DEF TypeOK, Flow, Between, InStart, InStop
  <2>2. Flow'
    BY PidFacts DEF TypeOK, Flow, Between, InStart, InStop
  <2> QED
    BY <2>1, <2>2
<1>3. Forks'
  BY <1>1 DEF Forks, Early, InStart, InStop
<1>4. One'
  BY <1>1 DEF One, Early, Between, InStart, InStop, Globals, Idle
<1>5. Globals' /\ CrashNeedsSignal'
  BY <1>1, ElfAssumption, PidFacts
     DEF Globals, CrashNeedsSignal, Idle, Recorded, HandlerInstalled, Early, Between, Lost,
         InStart, InStop, Flow, Forks, TypeOK, Running
<1>6. Target'
  BY <1>1, <1>3
     DEF Target, One, Globals, Idle, Recorded, Early, Killed, InStart, InStop, Forks, TypeOK, Forked
<1> QED
  BY <1>2, <1>3, <1>4, <1>5, <1>6

LEMMA FreeStoppedKeeps == Inv /\ FreeStopped => Inv'
<1> SUFFICES ASSUME Inv, FreeStopped PROVE Inv'
  OBVIOUS
<1> USE DEF Inv, FreeStopped, At, Goto, FreeCmd, kernel, globals, history
<1>1. Forked' = Forked /\ \A n \in Pid : Running(n)' = Running(n)
  BY Untouched DEF FreeStopped
<1>2. TypeOK' /\ Flow'
  <2>1. TypeOK'
    BY PidFacts DEF TypeOK, Flow, Between, InStart, InStop
  <2>2. Flow'
    BY PidFacts DEF TypeOK, Flow, Between, InStart, InStop
  <2> QED
    BY <2>1, <2>2
<1>3. Forks'
  BY <1>1 DEF Forks, Early, InStart, InStop
<1>4. One'
  BY <1>1 DEF One, Early, Between, InStart, InStop, Globals, Idle
<1>5. Globals' /\ CrashNeedsSignal'
  BY <1>1, ElfAssumption, PidFacts
     DEF Globals, CrashNeedsSignal, Idle, Recorded, HandlerInstalled, Early, Between, Lost,
         InStart, InStop, Flow, Forks, TypeOK, Running
<1>6. Target'
  BY <1>1, <1>3
     DEF Target, One, Globals, Idle, Recorded, Early, Killed, InStart, InStop, Forks, TypeOK, Forked
<1> QED
  BY <1>2, <1>3, <1>4, <1>5, <1>6

LEMMA ClearStoppedKeeps == Inv /\ ClearStopped => Inv'
<1> SUFFICES ASSUME Inv, ClearStopped PROVE Inv'
  OBVIOUS
<1> USE DEF Inv, ClearStopped, At, Goto, kernel, globals, history
<1>1. Forked' = Forked /\ \A n \in Pid : Running(n)' = Running(n)
  BY Untouched DEF ClearStopped
<1>2. TypeOK' /\ Flow'
  <2>1. TypeOK'
    BY PidFacts DEF TypeOK, Flow, Between, InStart, InStop
  <2>2. Flow'
    BY PidFacts DEF TypeOK, Flow, Between, InStart, InStop
  <2> QED
    BY <2>1, <2>2
<1>3. Forks'
  BY <1>1 DEF Forks, Early, InStart, InStop
<1>4. One'
  BY <1>1 DEF One, Early, Between, InStart, InStop, Globals, Idle
<1>5. Globals' /\ CrashNeedsSignal'
  BY <1>1, ElfAssumption, PidFacts
     DEF Globals, CrashNeedsSignal, Idle, Recorded, HandlerInstalled, Early, Between, Lost,
         InStart, InStop, Flow, Forks, TypeOK, Running
<1>6. Target'
  BY <1>1, <1>3
     DEF Target, One, Globals, Idle, Recorded, Early, Killed, InStart, InStop, Forks, TypeOK, Forked
<1> QED
  BY <1>2, <1>3, <1>4, <1>5, <1>6

LEMMA StopReturnKeeps == Inv /\ StopReturn => Inv'
<1> SUFFICES ASSUME Inv, StopReturn PROVE Inv'
  OBVIOUS
<1> USE DEF Inv, StopReturn, At, kernel, globals, history
<1>1. Forked' = Forked /\ \A n \in Pid : Running(n)' = Running(n)
  BY Untouched DEF StopReturn
<1>2. TypeOK' /\ Flow'
  <2>1. TypeOK'
    BY ReturnGoes, PidFacts DEF TypeOK, Flow, Between, InStart, InStop
  <2>2. Flow'
    BY ReturnGoes, PidFacts DEF TypeOK, Flow, Between, InStart, InStop
  <2> QED
    BY <2>1, <2>2
<1>3. Forks'
  BY ReturnGoes, <1>1 DEF Forks, Early, InStart, InStop
<1>4. One'
  BY ReturnGoes, <1>1 DEF One, Early, Between, InStart, InStop, Globals, Idle
<1>5. Globals' /\ CrashNeedsSignal'
  BY ReturnGoes, <1>1, ElfAssumption, PidFacts
     DEF Globals, CrashNeedsSignal, Idle, Recorded, HandlerInstalled, Early, Between, Lost,
         InStart, InStop, Flow, Forks, TypeOK, Running
<1>6. Target'
  BY ReturnGoes, <1>1, <1>3
     DEF Target, One, Globals, Idle, Recorded, Early, Killed, InStart, InStop, Forks, TypeOK, Forked
<1> QED
  BY <1>2, <1>3, <1>4, <1>5, <1>6

-----------------------------------------------------------------------------
(* A new operation, the steps that change a child, and the signal *)

LEMMA BeginKeeps ==
    ASSUME Inv, NEW functions \in {<<"start">>, <<"stop">>, <<"stop", "start">>}, NEW e \in Elf,
           Begin(functions, e)
    PROVE  Inv'
<1> USE DEF Inv, Begin, At, kernel, globals
<1>0. \/ pc' = "start" /\ functions = <<"start">>
      \/ pc' = "stop" /\ functions \in {<<"stop">>, <<"stop", "start">>}
  BY <<"start">>[1] = "start", <<"stop">>[1] = "stop", <<"stop", "start">>[1] = "stop"
<1>1. Forked' = Forked /\ \A n \in Pid : Running(n)' = Running(n)
  BY Untouched
<1>2. TypeOK' /\ Flow'
  <2>1. TypeOK'
    BY <1>0 DEF TypeOK, Flow, Between, InStart, InStop
  <2>2. Flow'
    BY <1>0 DEF TypeOK, Flow, Between, InStart, InStop
  <2> QED
    BY <2>1, <2>2
<1>3. Forks'
  BY <1>0, <1>1 DEF Forks, Early
<1>4. One'
  BY <1>0, <1>1 DEF One, Early, Between
<1>5. Globals' /\ CrashNeedsSignal'
  BY <1>0, <1>1, ElfAssumption
     DEF Globals, CrashNeedsSignal, Idle, Recorded, HandlerInstalled, Early, Between, Lost, Running
<1>6. Target'
  BY <1>0, <1>1 DEF Target, Globals, Idle, Recorded, Early, Between, Killed
<1> QED
  BY <1>2, <1>3, <1>4, <1>5, <1>6

LEMMA ChildExitKeeps ==
    ASSUME Inv, NEW n \in Pid, ChildExit(n)
    PROVE  Inv'
<1> USE DEF Inv, ChildExit, globals, control, history
<1>1. Forked' = Forked
  BY DEF Forked, Exists, TypeOK
<1>2. \A m \in Pid : Running(m)' = (Running(m) /\ m # n)
  BY DEF Running, TypeOK
<1>3. TypeOK' /\ Flow'
  <2>1. TypeOK'
    BY DEF TypeOK, Flow, HandlerInstalled
  <2>2. Flow'
    BY DEF TypeOK, Flow, HandlerInstalled
  <2> QED
    BY <2>1, <2>2
<1>4. Forks'
  BY <1>1 DEF Forks, Early
<1>5. One'
  BY <1>2 DEF One, Early
<1>6. Globals' /\ CrashNeedsSignal'
  BY <1>2 DEF Globals, CrashNeedsSignal, Idle, Recorded, HandlerInstalled, Early, TypeOK, Forks, Forked
<1>7. Target'
  BY <1>2 DEF Target, Early, TypeOK
<1> QED
  BY <1>3, <1>4, <1>5, <1>6, <1>7

LEMMA ForkKeeps == Inv /\ Fork => Inv'
<1> SUFFICES ASSUME Inv, Fork PROVE Inv'
  OBVIOUS
<1> USE DEF Inv, Fork, At, globals, history
<1>1. CASE Return("fork failed") /\ UNCHANGED <<newpid, child>>
  <2>0. pc' \in Between /\ answer' = "fork failed"
    BY <1>1, ReturnGoes DEF InStart, InStop, Between
  <2>1. Forked' = Forked /\ \A n \in Pid : Running(n)' = Running(n)
    BY <1>1, Untouched
  <2>2. TypeOK' /\ Flow'
    <3>1. TypeOK'
      BY <1>1, <2>0 DEF TypeOK, Flow, Between, InStart, InStop
    <3>2. Flow'
      BY <1>1, <2>0 DEF TypeOK, Flow, Between, InStart, InStop
    <3> QED
      BY <3>1, <3>2
  <2>3. Forks'
    BY <1>1, <2>0, <2>1 DEF Forks, Early, Between
  <2>4. One'
    BY <2>0, <2>1 DEF One, Early, Between
  <2>5. Globals' /\ CrashNeedsSignal'
    BY <2>0 DEF Globals, CrashNeedsSignal, Idle, Early, Between
  <2>6. Target'
    BY <2>0 DEF Target, Early, Between, Killed
  <2> QED
    BY <2>2, <2>3, <2>4, <2>5, <2>6
<1>2. CASE newpid' \in Pid \ Forked /\ child' = [child EXCEPT ![newpid'] = "alive"]
             /\ Goto("set pid")
  <2> USE <1>2 DEF Goto
  <2>1. newpid' \in Pid /\ newpid' \notin Forked
    OBVIOUS
  <2>2. Forked' = Forked \cup {newpid'}
    BY <2>1 DEF Forked, TypeOK
  <2>3. \A n \in Pid : Running(n)' = (Running(n) \/ n = newpid')
    BY <2>1 DEF Running, TypeOK
  <2>4. TypeOK' /\ Flow'
    <3>1. TypeOK'
      BY <2>1 DEF TypeOK, Flow, Between, InStart, InStop
    <3>2. Flow'
      BY <2>1 DEF TypeOK, Flow, Between, InStart, InStop
    <3> QED
      BY <3>1, <3>2
  <2>5. Forks'
    BY <2>2 DEF Forks, Early
  <2>6. One'
    BY <2>3 DEF One, Early, Between
  <2>7. Globals' /\ CrashNeedsSignal'
    BY <2>1, <2>3 DEF Globals, CrashNeedsSignal, Idle, Early, Between
  <2>8. Target'
    BY <2>1, <2>3 DEF Target, Early, Killed, Forks, TypeOK
  <2> QED
    BY <2>4, <2>5, <2>6, <2>7, <2>8
<1> QED
  BY <1>1, <1>2

LEMMA StopWaitKeeps == Inv /\ StopWait => Inv'
<1> SUFFICES ASSUME Inv, StopWait PROVE Inv'
  OBVIOUS
<1> USE DEF Inv, StopWait, At, globals, history
<1>0. Waited \subseteq Pid
  BY DEF Waited, TypeOK
<1>1. Forked' = Forked /\ \A n \in Pid : Running(n)' = Running(n)
  BY <1>0 DEF Forked, Running, TypeOK
<1>2. child' \in [Pid -> {"none", "alive", "killed", "zombie", "reaped"}]
  BY DEF TypeOK
<1>3. CASE Goto("kill")
  <2>1. TypeOK' /\ Flow'
    <3>1. TypeOK'
      BY <1>2, <1>3 DEF Goto, TypeOK, Flow, Between, InStart, InStop
    <3>2. Flow'
      BY <1>2, <1>3 DEF Goto, TypeOK, Flow, Between, InStart, InStop
    <3> QED
      BY <3>1, <3>2
  <2>2. Forks' /\ One'
    BY <1>1, <1>3 DEF Goto, Forks, One, Early, Between
  <2>3. Globals' /\ CrashNeedsSignal'
    BY <1>1, <1>3 DEF Goto, Globals, CrashNeedsSignal, Idle, Recorded, HandlerInstalled, Early, TypeOK
  <2>4. Target'
    BY <1>3 DEF Goto, Target, Early, Killed
  <2> QED
    BY <2>1, <2>2, <2>3, <2>4
<1>4. CASE Return("ok")
  <2>0. pc' \in {"ready", "start"} /\ (pc' = "start" => todo' = <<"start">>)
    BY <1>4, ReturnGoes DEF InStart, InStop
  <2>1. TypeOK' /\ Flow'
    <3>1. TypeOK'
      BY <1>2, <2>0 DEF TypeOK, Flow, Between, InStart, InStop
    <3>2. Flow'
      BY <1>2, <2>0 DEF TypeOK, Flow, Between, InStart, InStop
    <3> QED
      BY <3>1, <3>2
  <2>2. Forks' /\ One'
    BY <1>1, <2>0 DEF Forks, One, Early, Between
  <2>3. Globals' /\ CrashNeedsSignal'
    BY <1>1, <2>0 DEF Globals, CrashNeedsSignal, Idle, Recorded, HandlerInstalled, Early, TypeOK, Between
  <2>4. Target'
    <3>1. pc' # "kill"
      BY <2>0
    <3>2. (\E n \in Waited : child[n] = "zombie") \/ (\A n \in Waited : child[n] \in {"none", "reaped"})
      BY <3>1 DEF Goto
    <3>3. ASSUME ~raced, ~interrupted, crash = None, target # NoPid
          PROVE  ~Running(target)
      BY <3>2, <3>3 DEF Target, Waited, Running
    <3> QED
      BY <2>0, <3>3, <1>1 DEF Target, Early, Killed, TypeOK
  <2> QED
    BY <2>1, <2>2, <2>3, <2>4
<1> QED
  BY <1>3, <1>4

LEMMA StopKillKeeps == Inv /\ StopKill => Inv'
<1> SUFFICES ASSUME Inv, StopKill PROVE Inv'
  OBVIOUS
<1> USE DEF Inv, StopKill, At, globals, control, history
<1>1. CASE pid = NoPid
  <2>1. crash' = "killed itself" /\ UNCHANGED <<child, control>>
    BY <1>1
  <2>2. Forked' = Forked /\ \A n \in Pid : Running(n)' = Running(n)
    BY <2>1, Untouched
  <2>3. TypeOK' /\ Flow' /\ Forks'
    <3>1. TypeOK'
      BY <2>1, <2>2 DEF TypeOK
    <3>2. Flow'
      BY <2>1 DEF Flow, Between, InStart, InStop
    <3>3. Forks'
      BY <2>1, <2>2 DEF Forks, Early
    <3> QED
      BY <3>1, <3>2, <3>3
  <2>6. One'
    BY <2>1, <2>2 DEF One, Early
  <2>4. crash' # None
    BY <2>1, ElfAssumption DEF Lost
  <2>5. CrashNeedsSignal'
    BY <1>1 DEF CrashNeedsSignal, Globals, Idle, Recorded
  <2> QED
    BY <2>3, <2>4, <2>5, <2>6 DEF Globals, Target
<1>2. CASE pid # NoPid
  <2> USE <1>2 DEF Goto
  <2>1. Forked' = Forked /\ pid \in Pid
    BY DEF Forked, TypeOK
  <2>2. \A n \in Pid : Running(n)' = (Running(n) /\ n # pid)
    BY <2>1 DEF Running, TypeOK
  <2>3. TypeOK' /\ Flow'
    <3>1. TypeOK'
      BY DEF TypeOK, Flow, Between, InStart, InStop
    <3>2. Flow'
      BY DEF TypeOK, Flow, Between, InStart, InStop
    <3> QED
      BY <3>1, <3>2
  <2>4. Forks' /\ One'
    BY <2>1, <2>2 DEF Forks, One, Early, Between
  <2>5. Globals' /\ CrashNeedsSignal'
    BY DEF Globals, CrashNeedsSignal, Idle, Recorded, HandlerInstalled, Early, Between
  <2>6. Target'
    BY <2>1, <2>2 DEF Target, Early, Killed
  <2> QED
    BY <2>3, <2>4, <2>5, <2>6
<1> QED
  BY <1>1, <1>2

\* A handler that does not race finds no child running.
LEMMA HandlerKeeps == Inv /\ child_proc_exit => Inv'
<1> SUFFICES ASSUME Inv, child_proc_exit PROVE Inv'
  OBVIOUS
<1> USE DEF Inv, child_proc_exit, globals, control
<1>1. Forked' = Forked /\ \A n \in Pid : Running(n)' = Running(n)
  BY Untouched
<1>2. raced' \/ (~raced /\ ~Early /\ \A n \in Pid : ~Running(n))
  BY DEF Late, Flow
<1>3. TypeOK' /\ Flow'
  <2>1. TypeOK'
    BY DEF TypeOK, Flow, Late, Early
  <2>2. Flow'
    BY DEF TypeOK, Flow, Late, Early
  <2> QED
    BY <2>1, <2>2
<1>4. Forks'
  BY <1>1 DEF Forks, Early
<1>5. One'
  BY <1>1, <1>2 DEF One
<1>6. Globals'
  BY <1>2, ElfAssumption DEF Globals, Idle, Recorded, Early, Between, Lost, Flow, TypeOK
<1>7. CrashNeedsSignal'
  BY <1>2, ElfAssumption DEF CrashNeedsSignal, Globals, Idle, Recorded, Lost, Flow, Between, InStart, InStop, Early
<1>8. Target'
  BY <1>1, <1>2 DEF Target, Early, TypeOK
<1> QED
  BY <1>3, <1>4, <1>5, <1>6, <1>7, <1>8

-----------------------------------------------------------------------------
LEMMA NextInv == Inv /\ [Next]_vars => Inv'
<1> SUFFICES ASSUME Inv, [Next]_vars PROVE Inv'
  OBVIOUS
<1>1. CASE Operation
  BY <1>1, BeginKeeps DEF Operation
<1>2. CASE start_simu_exe
  BY <1>2, StartCheckKeeps, ForkKeeps, SetPidKeeps, DupCmdKeeps, SetRunningKeeps
     DEF start_simu_exe
<1>3. CASE stop_simu_exe
  BY <1>3, StopCheckKeeps, StopCompareKeeps, StopWaitKeeps, StopKillKeeps, StopLogKeeps,
     SetIdleKeeps, ResetPidKeeps, FreeStoppedKeeps, ClearStoppedKeeps, StopReturnKeeps
     DEF stop_simu_exe
<1>4. CASE child_proc_exit
  BY <1>4, HandlerKeeps
<1>5. CASE \E n \in Pid : ChildExit(n)
  BY <1>5, ChildExitKeeps
<1>6. CASE UNCHANGED vars
  <2> USE <1>6 DEF vars, kernel, globals, control, history
  <2>1. TypeOK'
    BY DEF Inv, TypeOK
  <2>4. Flow' /\ CrashNeedsSignal'
    BY DEF Inv, Flow, CrashNeedsSignal, Between, InStart, InStop
  <2>2. Forks' /\ One'
    BY DEF Inv, Forks, Forked, One, Early, Running
  <2>3. Globals' /\ Target'
    BY DEF Inv, Globals, Target, Idle, Recorded, HandlerInstalled, Early, Running
  <2> QED
    BY <2>1, <2>2, <2>3, <2>4 DEF Inv
<1> QED
  BY <1>1, <1>2, <1>3, <1>4, <1>5, <1>6 DEF Next, Main

THEOREM Invariance == Spec => []Inv
BY InitInv, NextInv, PTL DEF Spec

\* Pids and strings stay what the type invariant says; in particular a pid is that
\* of a child or none, never a number that kill would take for more.
THEOREM TypeCorrect == Spec => []TypeOK
BY Invariance, PTL DEF Inv

\* For any number of children and executables, while no signal has come between a
\* fork and the flag or for an older child, at most one simulator runs
\* (device_ctrl.c:398, 482-495).
THEOREM OneSimulator == Spec => []SingleRunning
<1>1. Inv => SingleRunning
  <2> SUFFICES ASSUME Inv, ~raced PROVE Cardinality({n \in Pid : Running(n)}) <= 1
    BY DEF SingleRunning
  <2>1. \A m, n \in Pid : Running(m) /\ Running(n) => m = n
    BY DEF Inv, One
  <2>2. CASE {n \in Pid : Running(n)} = {}
    BY <2>2, FS_EmptySet
  <2>3. CASE {n \in Pid : Running(n)} # {}
    <3>1. PICK m \in Pid : Running(m)
      BY <2>3
    <3>2. {n \in Pid : Running(n)} = {m}
      BY <2>1, <3>1
    <3> QED
      BY <3>2, FS_Singleton
  <2> QED
    BY <2>2, <2>3
<1> QED
  BY <1>1, Invariance, PTL

\* The flag says running exactly when the recorded child runs, once the signals are
\* handled, in the server (device_ctrl.c:430-456, 499-504).
THEOREM FlagIsRight == Spec => []FlagTracks
<1>1. Inv => FlagTracks
  <2> SUFFICES ASSUME Inv, HandlerInstalled, Settled, ~raced
               PROVE  /\ flag = "running" <=> \E n \in Pid : Running(n)
                      /\ flag = "running" => pid # NoPid /\ Running(pid) /\ cmd \in Elf
                      /\ flag = "idle" => pid = NoPid /\ cmd = None
    BY DEF FlagTracks
  <2>1. Idle \/ (Recorded /\ Running(pid))
    BY DEF Inv, Globals, Recorded, Settled, Between
  <2>2. \A n \in Pid : Running(n) => flag = "running"
    BY DEF Inv, One, Settled, Early
  <2> QED
    BY <2>1, <2>2 DEF Idle, Recorded, Inv, TypeOK
<1> QED
  BY <1>1, Invariance, PTL

\* The process is lost by a null or freed command, or by a kill of its own group,
\* only through a signal (device_ctrl.c:372-390, 460-498).
THEOREM OnlySignalsCrash == Spec => []CrashNeedsSignal
BY Invariance, PTL DEF Inv

\* A stop or a restart that reports success has ended the simulator recorded when it
\* began (device_ctrl.c:482-497).
THEOREM StopIsEffective == Spec => []StopStops
<1>1. Inv => StopStops
  BY DEF Inv, Target, StopStops, At
<1> QED
  BY <1>1, Invariance, PTL
=============================================================================
