------------------------------ MODULE SimuExe ------------------------------
(***************************************************************************)
(* Supervision of the simulator, a child process, by                       *)
(* prj-MDKServer/device_ctrl.c (start_simu_exe, stop_simu_exe,             *)
(* restart_simu_exe and the three globals they keep) together with the     *)
(* SIGCHLD handler of start.c; and by demo-process/process_op.cpp, the     *)
(* same functions in a program that installs no handler.                   *)
(*                                                                         *)
(* main runs one step at a time; a pending SIGCHLD may interrupt it before *)
(* any step, and the handler, which is never itself interrupted by         *)
(* SIGCHLD, runs to its end before main goes on.                           *)
(***************************************************************************)
EXTENDS Integers, Sequences, FiniteSets

CONSTANTS
    Program,    \* among "MDKServer" and "demo-process"
    Elf,        \* the executables a caller may name
    MaxForks,   \* bound: children forked in a behaviour
    None

ASSUME ProgramAssumption == Program \subseteq {"MDKServer", "demo-process"}
ASSUME ForksAssumption == MaxForks \in Nat

Pid == 1..MaxForks          \* children, in the order they are forked
NoPid == 0                  \* global_child_pid when there is none
Freed == "freed"            \* global_child_cmd points to freed memory

Lost == {"null cmd", "double free", "killed itself", "log deadlock"}    \* values of crash

ASSUME ElfAssumption ==
    /\ None \notin Lost \cup {Freed}
    /\ {None, Freed} \cap Elf = {}

VARIABLES
    program,    \* the program that runs
    \* the kernel
    child,      \* per child: "none", "alive", "killed", "zombie" or "reaped"
    pending,    \* SIGCHLD is pending
    \* the globals of device_ctrl.c
    flag,       \* global_simu_exe_flag
    pid,        \* global_child_pid
    cmd,        \* global_child_cmd: None, Freed or the executable
    \* main
    todo,       \* functions left to run: start_simu_exe, stop_simu_exe
    pc,         \* the next step of the first of them, or "ready"
    elf,        \* the argument
    newpid,     \* what fork returned
    answer,     \* what the last function returned, and why
    crash,      \* how the process was lost, or None
    \* history
    target,     \* the child recorded when the operation began
    interrupted,\* the handler ran inside the current operation
    raced       \* it ran between a fork and the flag, or while a newer child lived

kernel == <<program, child, pending>>
globals == <<flag, pid, cmd>>
control == <<todo, pc, answer>>
history == <<target, interrupted, raced>>
vars == <<kernel, globals, control, elf, newpid, crash, history>>

HandlerInstalled == program = "MDKServer"   \* sigaction in main of start.c

Running(n) == child[n] = "alive"            \* and not being killed
Exists(n) == child[n] \in {"alive", "killed"}

Init ==
    /\ program \in Program
    /\ child = [n \in Pid |-> "none"]
    /\ pending = FALSE
    /\ flag = "idle" /\ pid = NoPid /\ cmd = None
    /\ todo = <<>> /\ pc = "ready" /\ answer = None
    /\ elf = None
    /\ newpid = NoPid
    /\ crash = None
    /\ target = NoPid /\ interrupted = FALSE /\ raced = FALSE

-----------------------------------------------------------------------------
(* The child and the kernel (outside src/). *)

\* The simulator ends by itself, fails to exec, or dies of SIGKILL.
ChildExit(n) ==
    /\ Exists(n)
    /\ child' = [child EXCEPT ![n] = "zombie"]
    /\ pending' = HandlerInstalled
    /\ UNCHANGED <<program, globals, control, elf, newpid, crash, history>>

-----------------------------------------------------------------------------
(* Control of main *)

At(label) == crash = None /\ pc = label

Goto(label) == pc' = label /\ UNCHANGED <<todo, answer>>

\* The current function returns.
Return(result) ==
    /\ answer' = result
    /\ todo' = Tail(todo)
    /\ pc' = CASE Len(todo) > 1 -> todo[2]
               [] program = "demo-process" /\ result # "ok" -> "exited"
               [] OTHER -> "ready"

\* A command of the client, or the value set in the debugger.
Begin(functions, e) ==
    /\ At("ready")
    /\ todo' = functions
    /\ pc' = functions[1]
    /\ elf' = e
    /\ answer' = None
    /\ target' = pid
    /\ interrupted' = FALSE
    /\ UNCHANGED <<kernel, globals, newpid, crash, raced>>

Operation ==
    \E e \in Elf :
        \/ Begin(<<"start">>, e)
        \/ Begin(<<"stop">>, e)
        \/ Begin(<<"stop", "start">>, e)    \* restart_simu_exe

\* if(NULL != global_child_cmd) free(global_child_cmd): both read the variable, so
\* a handler between them only changes which way this goes.
FreeCmd(next, skip) ==
    \/ /\ cmd = None
       /\ Goto(skip)
       /\ UNCHANGED <<cmd, crash>>
    \/ /\ cmd # None
       /\ cmd' = Freed
       /\ crash' = IF cmd = Freed THEN "double free" ELSE crash
       /\ Goto(next)

-----------------------------------------------------------------------------
(* start_simu_exe *)

\* Mutant: the running check is missing.
StartCheck_Always ==
    /\ At("start")
    /\ Goto("fork") \/ Return("no executable")
    /\ UNCHANGED <<kernel, globals, elf, newpid, crash, history>>

\* The flag is tested, then the file and its permissions.
StartCheck ==
    /\ At("start")
    /\ \/ flag = "running" /\ Return("already running")
       \/ flag = "idle" /\ Goto("fork")
       \/ flag = "idle" /\ Return("no executable")
    /\ UNCHANGED <<kernel, globals, elf, newpid, crash, history>>

Forked == {n \in Pid : child[n] # "none"}

Fork ==
    /\ At("fork")
    /\ \/ /\ newpid' \in Pid \ Forked
          /\ \A n \in Pid \ Forked : newpid' <= n
          /\ child' = [child EXCEPT ![newpid'] = "alive"]
          /\ Goto("set pid")
       \/ Return("fork failed") /\ UNCHANGED <<newpid, child>>
    /\ UNCHANGED <<program, pending, globals, elf, crash, history>>

\* simu_exe_flag_running
SetPid ==
    /\ At("set pid")
    /\ pid' = newpid
    /\ Goto("dup cmd")
    /\ UNCHANGED <<kernel, flag, cmd, elf, newpid, crash, history>>

\* The old string, if any, is freed and the new one copied; FlagTracks says that
\* there is none while no signal intervenes.
DupCmd ==
    /\ At("dup cmd")
    /\ cmd' = elf
    /\ crash' = IF cmd = Freed THEN "double free" ELSE crash
    /\ Goto("set running")
    /\ UNCHANGED <<kernel, flag, pid, elf, newpid, history>>

SetRunning ==
    /\ At("set running")
    /\ flag' = "running"
    /\ Return("ok")
    /\ UNCHANGED <<kernel, pid, cmd, elf, newpid, crash, history>>

-----------------------------------------------------------------------------
(* stop_simu_exe *)

StopCheck ==
    /\ At("stop")
    /\ \/ flag = "idle" /\ Return("not running")
       \/ flag = "running" /\ Goto("compare")
    /\ UNCHANGED <<kernel, globals, elf, newpid, crash, history>>

\* strcmp(elf_file, simu_exe_cmd())
StopCompare ==
    /\ At("compare")
    /\ \/ /\ cmd = None
          /\ crash' = "null cmd"
          /\ UNCHANGED control
       \/ /\ cmd # None /\ cmd = elf
          /\ Goto("wait")
          /\ UNCHANGED crash
       \/ /\ cmd # None /\ cmd # elf
          /\ Return("other executable")
          /\ UNCHANGED crash
    /\ UNCHANGED <<kernel, globals, elf, newpid, history>>

\* Those waitpid(pid, ..., WNOHANG) looks at: pid 0 means any child of the
\* process group.
Waited == IF pid = NoPid THEN Pid ELSE {pid}

\* Mutant: a child that has exited already is not distinguished.
StopWait_IgnoresExit ==
    /\ At("wait")
    /\ Return("ok")
    /\ UNCHANGED <<kernel, globals, elf, newpid, crash, history>>

\* Mutant: waitpid waits, its WNOHANG forgotten.
StopWait_Blocks ==
    /\ At("wait")
    /\ \E n \in Waited : child[n] = "zombie" /\ child' = [child EXCEPT ![n] = "reaped"]
    /\ Return("ok")
    /\ UNCHANGED <<program, pending, globals, elf, newpid, crash, history>>

StopWait ==
    /\ At("wait")
    /\ \/ \E n \in Waited :
             /\ child[n] = "zombie"             \* its pid: reaped, nothing else
             /\ child' = [child EXCEPT ![n] = "reaped"]
             /\ Return("ok")
       \/ /\ \A n \in Waited : child[n] # "zombie"
          /\ \E n \in Waited : Exists(n)        \* 0
          /\ Goto("kill")
          /\ UNCHANGED child
       \/ /\ \A n \in Waited : child[n] \in {"none", "reaped"}  \* -1
          /\ Return("ok")
          /\ UNCHANGED child
    /\ UNCHANGED <<program, pending, globals, elf, newpid, crash, history>>

\* kill(global_child_pid, SIGKILL).  The pid is that of a child waitpid has just
\* found alive, so that kill succeeds, or 0, the process group of the caller.
StopKill ==
    /\ At("kill")
    /\ \/ /\ pid = NoPid
          /\ crash' = "killed itself"
          /\ UNCHANGED <<child, control>>
       \/ /\ pid # NoPid
          /\ child' = [child EXCEPT ![pid] = IF @ = "alive" THEN "killed" ELSE @]
          /\ Goto("log")
          /\ UNCHANGED crash
    /\ UNCHANGED <<program, pending, globals, elf, newpid, history>>

\* ILog and DLog, with the mutex of the log held for part of the time
StopLog ==
    /\ At("log")
    /\ Goto("set idle")
    /\ UNCHANGED <<kernel, globals, elf, newpid, crash, history>>

\* simu_exe_flag_idle
SetIdle ==
    /\ At("set idle")
    /\ flag' = "idle"
    /\ Goto("reset pid")
    /\ UNCHANGED <<kernel, pid, cmd, elf, newpid, crash, history>>

ResetPid ==
    /\ At("reset pid")
    /\ pid' = NoPid
    /\ Goto("free cmd")
    /\ UNCHANGED <<kernel, flag, cmd, elf, newpid, crash, history>>

FreeStopped ==
    /\ At("free cmd")
    /\ FreeCmd("clear cmd", "stopped")
    /\ UNCHANGED <<kernel, flag, pid, elf, newpid, history>>

\* Mutant: the pointer is left dangling after free.
ClearStopped_KeepsPointer ==
    /\ At("clear cmd")
    /\ Goto("stopped")
    /\ UNCHANGED <<kernel, globals, elf, newpid, crash, history>>

ClearStopped ==
    /\ At("clear cmd")
    /\ cmd' = None
    /\ Goto("stopped")
    /\ UNCHANGED <<kernel, flag, pid, elf, newpid, crash, history>>

StopReturn ==
    /\ At("stopped")
    /\ Return("ok")
    /\ UNCHANGED <<kernel, globals, elf, newpid, crash, history>>

-----------------------------------------------------------------------------
(* child_proc_exit, the SIGCHLD handler: DLog, then simu_exe_flag_idle.  Several
   exits may be one signal; it does not wait for the child. *)

\* main may hold a mutex of the log: in the log calls of stop_simu_exe, after
\* the fork, and in the main loop
Logging == pc \in {"log", "set pid", "ready"}

Late == \E n \in Pid : Running(n)
Early == pc \in {"set pid", "dup cmd", "set running"}

\* Mutant: the handler only clears the flag.
child_proc_exit_FlagOnly ==
    /\ pending /\ crash = None
    /\ pending' = FALSE
    /\ flag' = "idle"
    /\ interrupted' = (interrupted \/ pc # "ready")
    /\ raced' = (raced \/ Late \/ Early)
    /\ UNCHANGED <<program, child, pid, cmd, control, elf, newpid, crash, target>>

child_proc_exit ==
    /\ pending /\ crash = None
    /\ pending' = FALSE
    /\ interrupted' = (interrupted \/ pc # "ready")
    /\ raced' = (raced \/ Late \/ Early)
    /\ \/ /\ Logging
          /\ crash' = "log deadlock"
          /\ UNCHANGED globals
       \/ /\ flag' = "idle" /\ pid' = NoPid
          /\ IF cmd = Freed THEN crash' = "double free" /\ UNCHANGED cmd
                            ELSE cmd' = None /\ UNCHANGED crash
    /\ UNCHANGED <<program, child, control, elf, newpid, target>>

start_simu_exe == StartCheck \/ Fork \/ SetPid \/ DupCmd \/ SetRunning
stop_simu_exe ==
    \/ StopCheck \/ StopCompare \/ StopWait \/ StopKill \/ StopLog
    \/ SetIdle \/ ResetPid \/ FreeStopped \/ ClearStopped \/ StopReturn

Main == Operation \/ start_simu_exe \/ stop_simu_exe

Next ==
    \/ Main
    \/ child_proc_exit
    \/ \E n \in Pid : ChildExit(n)

Spec == Init /\ [][Next]_vars

-----------------------------------------------------------------------------
(* Properties *)

TypeOK ==
    /\ program \in Program
    /\ child \in [Pid -> {"none", "alive", "killed", "zombie", "reaped"}]
    /\ pending \in BOOLEAN
    /\ flag \in {"idle", "running"} /\ pid \in Pid \cup {NoPid}
    /\ cmd \in Elf \cup {None, Freed}
    /\ newpid \in Pid \cup {NoPid} /\ target \in Pid \cup {NoPid}

\* No SIGCHLD is on its way and main is between two operations.
Settled == pc = "ready" /\ ~pending /\ crash = None

\* The three globals and the kernel agree in the server once the signals are
\* handled: the flag says running exactly when the recorded child runs, and an
\* idle flag comes with no pid and no command left over.  The only exception is
\* a signal that arrived between fork and the flag (device_ctrl.c:430-456) or
\* while a newer child was alive (restart, 499-504).
FlagTracks ==
    HandlerInstalled /\ Settled /\ ~raced =>
        /\ flag = "running" <=> \E n \in Pid : Running(n)
        /\ flag = "running" => pid # NoPid /\ Running(pid) /\ cmd \in Elf
        /\ flag = "idle" => pid = NoPid /\ cmd = None

\* However operations follow each other, the process is lost by a null or freed
\* command or by a kill of its own group only through a signal: without a handler,
\* never (device_ctrl.c:372-390, 460-498).
CrashNeedsSignal ==
    crash \in {"null cmd", "double free", "killed itself"} => interrupted \/ raced

\* Two simulators that nobody has killed never run together, unless a signal came
\* between fork and flag or for an older child (device_ctrl.c:398, 482-495).
SingleRunning == ~raced => Cardinality({n \in Pid : Running(n)}) <= 1

\* When a stop or a restart reports success, the simulator that was recorded when
\* it began no longer runs (device_ctrl.c:482-497).
StopStops ==
    At("ready") /\ answer = "ok" /\ target # NoPid /\ ~raced /\ ~interrupted
        => ~Running(target)

-----------------------------------------------------------------------------
(* What the documentation says and the code does not keep. *)

\* "simulate application already running" (device_ctrl.c:400): a start is refused
\* while a simulator runs, so that there is at most one.
AtMostOneSimulator == Cardinality({n \in Pid : Running(n)}) <= 1
=============================================================================
