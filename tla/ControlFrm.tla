----------------------------- MODULE ControlFrm -----------------------------
(***************************************************************************)
(* The dispatcher of prj-MDKServer: handler_control_frm takes the commands *)
(* of one control frame in turn, runs them and answers the clients.  It is *)
(* composed with SimuExe: its simulator commands run the functions of      *)
(* device_ctrl.c step by step, and SIGCHLD may come at any time, also      *)
(* during the seconds of a reconfiguration of the FPGA.                    *)
(*                                                                         *)
(* The payload is counted in words; the values of the radio parameters and *)
(* the paths are left out.  A parameter is set and read through the AD     *)
(* registry and the files of sysfs, whose outcome is what is modelled.     *)
(***************************************************************************)
EXTENDS Integers, Sequences

CONSTANTS
    Elf,        \* the executables a client may name
    Id,         \* the ids of AD chips a client may name
    MaxForks,   \* bound: children forked in a behaviour
    MaxCmds,    \* bound: commands in a frame
    None

ASSUME MaxCmdsAssumption == MaxCmds \in Nat \ {0}

VARIABLES
    \* SimuExe
    program, child, pending, flag, pid, cmd, todo, pc, elf, newpid, answer, crash,
    target, interrupted, raced,
    \* handler_control_frm
    at,         \* where it is; "wait" before a call, "done" at its end
    frame,      \* the commands of the payload
    pos,        \* the cursor, in words
    ret,        \* its local flag: what it would return
    loop_error,
    step,       \* fpga_reconfig_step
    sent,       \* history: answers to this frame
    ran,        \* history: its commands that were run, each with the answers sent by its end
    \* the device
    registered, \* the AD chips whose paths are known, since the start of the server
    fpga,       \* since the frame came: "untouched", "partial" or "loaded"
    ads         \* the AD chips reset since the FPGA was last written to

simu == <<program, child, pending, flag, pid, cmd, todo, pc, elf, newpid, answer, crash,
          target, interrupted, raced>>
device == <<registered, fpga, ads>>
dispatcher == <<at, frame, pos, ret, loop_error, step, sent, ran, device>>
vars == <<simu, dispatcher>>

Simu == INSTANCE SimuExe WITH Program <- {"MDKServer"}

ASSUME SimuAssumption ==
    /\ MaxForks \in Nat
    /\ None \notin Simu!Lost \cup {Simu!Freed}
    /\ {None, Simu!Freed} \cap Elf = {}

AD_ONE_ID == 1
AD_TWO_ID == 2

\* reg_write, reg_read (compiled out) and unknown codes; in_rf_freq to agc_rf_att;
\* rf_value_read with a var_size of both its arguments or of the last only; and
\* those with a path
AdKind == {"set", "read", "read_last"}
SimuKind == {"start", "stop", "restart"}
Command ==
    [kind : {"other", "fpga"}, elf : {None}, id : {None}] \cup
    [kind : AdKind, elf : {None}, id : Id] \cup
    [kind : SimuKind, elf : Elf, id : {None}]

\* The words of the arguments: an id and a value, an id and a code, or a path.
ArgWords(c) == IF c.kind = "set" THEN 3 ELSE 2
VarSize(c) == IF c.kind = "read_last" THEN 1 ELSE ArgWords(c)

\* Where the n-th command ends: each is two words and its arguments.
Boundary(n) ==
    LET end[k \in Nat] == IF k = 0 THEN 0 ELSE end[k - 1] + (2 + ArgWords(frame[k]))
    IN  end[n]
Size == Boundary(Len(frame))

\* The values of temp_status, next to the steps 1, 2, ...: RT_ERROR is the number of
\* the line it stands on.
Refused == 1125
LoadFailed == 1148
ResetFailed == 1173
Finished == 65535
simu_resp_operate_success == 1
simu_resp_child_process_failed == 2

\* main registers both chips before it serves, or ends when one is not found; the
\* code as it stands is built without, ENABLE_AD_CTRL being 0.
Registrations == {{}, {AD_ONE_ID, AD_TWO_ID}}

Init ==
    /\ Simu!Init
    /\ at = "wait" /\ frame = <<>> /\ pos = 0
    /\ ret = "ok" /\ loop_error = FALSE /\ step = 0 /\ sent = <<>> /\ ran = <<>>
    /\ registered \in Registrations
    /\ fpga = "untouched" /\ ads = {}

-----------------------------------------------------------------------------
\* network_read hands over the payload of a control frame ...
Receive ==
    /\ at = "wait" /\ Simu!At("ready")
    /\ \E n \in 1..MaxCmds : frame' \in [1..n -> Command]
    /\ at' = "fetch"
    /\ UNCHANGED <<simu, pos, ret, loop_error, step, sent, ran, device>>

\* ... and logs the failure that the handler returns, whose variables are its locals.
Return ==
    /\ at = "done" /\ Simu!At("ready")
    /\ at' = "wait" /\ frame' = <<>> /\ pos' = 0
    /\ ret' = "ok" /\ loop_error' = FALSE /\ step' = 0 /\ sent' = <<>> /\ ran' = <<>>
    /\ fpga' = "untouched" /\ ads' = {}
    /\ UNCHANGED <<simu, registered>>

\* Main is in the dispatcher itself, and not in a function of SimuExe.
Here(label) == at = label /\ Simu!At("ready")

\* The next command, when the cursor is at one.
Current == {k \in DOMAIN frame : Boundary(k - 1) = pos}
TheCommand == frame[CHOOSE k \in Current : TRUE]
Fetch(kinds) == Here("fetch") /\ Current # {} /\ TheCommand.kind \in kinds

Respond(kind, status) == sent' = Append(sent, <<kind, status>>)
Silent == UNCHANGED sent

\* Mutant: the cursor is set where it should be advanced.
EndCommand_Assigns(read, stop, result) ==
    /\ pos' = 2 + read + VarSize(TheCommand)
    /\ ret' = result /\ loop_error' = stop
    /\ at' = IF pos' = Size \/ stop THEN "done" ELSE "fetch"
    /\ ran' = Append(ran, [command |-> TheCommand, upto |-> Len(sent')])
    /\ UNCHANGED frame

\* pos += var_size and the test of the loop; read is what the command has itself
\* added to pos.
EndCommand(read, stop, result) ==
    /\ pos' = pos + 2 + read + VarSize(TheCommand)
    /\ ret' = result /\ loop_error' = stop
    /\ at' = IF pos' = Size \/ stop THEN "done" ELSE "fetch"
    /\ ran' = Append(ran, [command |-> TheCommand, upto |-> Len(sent')])
    /\ UNCHANGED frame

\* Go on inside a command.
Continue(label) == at' = label /\ UNCHANGED <<frame, pos, ret, loop_error, ran>>

\* The cursor is where no command begins, and what it reads is not the client's.
OffTheFrame ==
    /\ Here("fetch") /\ Current = {}
    /\ Continue("lost") /\ Silent
    /\ UNCHANGED <<simu, step, device>>

OtherCommand ==
    /\ Fetch({"other"})
    /\ Silent /\ EndCommand(0, FALSE, "ok")
    /\ UNCHANGED <<simu, step, device>>

-----------------------------------------------------------------------------
(* The AD chips: what the functions that drive them return. *)

\* search_ad_home and search_ad_debugfs find a path, which exists.
HasPath(id) == id \in registered

\* A file that cannot be opened, a string refused on the way, or all is written.
sysctrl_write(id) == IF HasPath(id) THEN {"ok", "error"} ELSE {"error"}

\* ad9361_set_freq, _bd, _rxgain, _rxgain_mod (which knows two modes) and _att
ad9361_set(id) == sysctrl_write(id)

\* AD_getFrequency, _getBandwidth, _getRSSIValue (never called), _getGCMode, _getGCValue
\* and _getATTValue
AD_get(id) == IF HasPath(id) THEN {"ok", "error"} ELSE {"error"}

-----------------------------------------------------------------------------
(* Commands that are run in one go *)

\* An error is kept until the next command, and nothing is answered.
SetCommand ==
    /\ Fetch({"set"})
    /\ Silent
    /\ \E result \in ad9361_set(TheCommand.id) : EndCommand(0, FALSE, result)
    /\ UNCHANGED <<simu, step, device>>

\* temp_read_flag: the code is none that can be read, or the value was read or not.
ReadFlag(id) == {0} \cup {IF result = "ok" THEN 1 ELSE 2 : result \in AD_get(id)}

\* rf_value_read steps over the id before it reads the code
ReadCommand ==
    /\ Fetch({"read", "read_last"})
    /\ \E temp_read_flag \in ReadFlag(TheCommand.id) : Respond("read", temp_read_flag)
    /\ EndCommand(1, FALSE, "ok")
    /\ UNCHANGED <<simu, step, device>>

-----------------------------------------------------------------------------
(* fpga_bit_path *)

\* Mutant: the answer to a refusal is sent, but the command goes on.
FpgaBegin_NotRefused ==
    /\ Fetch({"fpga"})
    /\ IF flag = "running" THEN Respond("fpga", Refused) /\ UNCHANGED step
                           ELSE step' = step + 1 /\ Respond("fpga", step')
    /\ Continue("load")
    /\ UNCHANGED <<simu, device>>

\* fpga_bit_path: refused while a simulator is recorded as running
FpgaBegin ==
    /\ Fetch({"fpga"})
    /\ \/ /\ flag = "running"
          /\ Respond("fpga", Refused)
          /\ EndCommand(0, FALSE, "error")
          /\ UNCHANGED step
       \/ /\ flag = "idle"
          /\ step' = step + 1
          /\ Respond("fpga", step')
          /\ Continue("load")
    /\ UNCHANGED <<simu, device>>

\* What reaches the FPGA, whether fpga_reconfigure succeeds or not: the blocks are
\* buffered, and neither a short write nor what fflush and fclose return is looked at.
WriteBlocks ==
    \/ UNCHANGED <<fpga, ads>>
    \/ fpga' \in {"partial", "loaded"} /\ ads' = {}

\* fpga_reconfigure fails when a file cannot be opened or a block is not taken, and
\* when the last read finds the end of a file of whole blocks (device_ctrl.c:91-117).
FpgaLoad ==
    /\ Here("load")
    /\ WriteBlocks
    /\ \/ /\ Respond("fpga", LoadFailed)
          /\ EndCommand(0, TRUE, "error")
          /\ UNCHANGED step
       \/ /\ step' = step + 1
          /\ Respond("fpga", step')
          /\ Continue("reset_one")
    /\ UNCHANGED <<simu, registered>>

\* Mutant: the frame goes on after a reset that failed.
ResetFails_GoesOn ==
    /\ Respond("fpga", ResetFailed)
    /\ EndCommand(0, FALSE, "error")
    /\ UNCHANGED <<step, device>>

ResetFails ==
    /\ Respond("fpga", ResetFailed)
    /\ EndCommand(0, TRUE, "error")
    /\ UNCHANGED <<step, device>>

\* ad_reset, the first chip and a second of sleep
ResetOne ==
    /\ Here("reset_one")
    /\ \/ "error" \in sysctrl_write(AD_ONE_ID) /\ ResetFails
       \/ /\ "ok" \in sysctrl_write(AD_ONE_ID)
          /\ ads' = ads \cup {AD_ONE_ID}
          /\ Continue("reset_two") /\ Silent
          /\ UNCHANGED <<step, registered, fpga>>
    /\ UNCHANGED simu

\* Mutant: a failure of the second chip is not looked at.
ResetTwo_Ignored ==
    /\ Here("reset_two")
    /\ step' = step + 1
    /\ ads' \in {ads, ads \cup {AD_TWO_ID}} /\ Respond("fpga", step') /\ Continue("finish")
    /\ UNCHANGED <<simu, registered, fpga>>

\* The second chip, and the answer to the reset
ResetTwo ==
    /\ Here("reset_two")
    /\ \/ "error" \in sysctrl_write(AD_TWO_ID) /\ ResetFails
       \/ /\ "ok" \in sysctrl_write(AD_TWO_ID)
          /\ ads' = ads \cup {AD_TWO_ID}
          /\ step' = step + 1
          /\ Respond("fpga", step')
          /\ Continue("finish")
          /\ UNCHANGED <<registered, fpga>>
    /\ UNCHANGED simu

FpgaFinish ==
    /\ Here("finish")
    /\ Respond("fpga", Finished)
    /\ EndCommand(0, FALSE, "ok")
    /\ UNCHANGED <<simu, step, device>>

-----------------------------------------------------------------------------
(* simu_exe_start, simu_exe_stop, simu_exe_restart *)

\* The functions of device_ctrl.c a command calls
Functions(kind) == IF kind = "restart" THEN <<"stop", "start">> ELSE <<kind>>

SimuCommand ==
    /\ Fetch(SimuKind)
    /\ Simu!Begin(Functions(TheCommand.kind), TheCommand.elf)
    /\ Continue("simu") /\ Silent
    /\ UNCHANGED <<step, device>>

SimuFunction ==
    /\ Simu!start_simu_exe \/ Simu!stop_simu_exe
    /\ UNCHANGED dispatcher

\* Mutant: a success is not answered.
SimuAnswer_OnlyFailure ==
    /\ Here("simu")
    /\ IF answer = "ok" THEN Silent ELSE Respond("simu", simu_resp_child_process_failed)
    /\ EndCommand(0, FALSE, "ok")
    /\ UNCHANGED <<simu, step, device>>

\* A failure is answered, and not returned.
SimuAnswer ==
    /\ Here("simu")
    /\ Respond("simu", IF answer = "ok" THEN simu_resp_operate_success
                                                ELSE simu_resp_child_process_failed)
    /\ EndCommand(0, FALSE, "ok")
    /\ UNCHANGED <<simu, step, device>>

handler_control_frm ==
    \/ SimuFunction
    \/ OffTheFrame \/ OtherCommand \/ SetCommand \/ ReadCommand
    \/ FpgaBegin \/ FpgaLoad \/ ResetOne \/ ResetTwo \/ FpgaFinish
    \/ SimuCommand \/ SimuAnswer

Next ==
    \/ Receive \/ Return
    \/ handler_control_frm
    \/ (Simu!child_proc_exit \/ \E n \in Simu!Pid : Simu!ChildExit(n)) /\ UNCHANGED dispatcher

Spec == Init /\ [][Next]_vars

\* The handler runs on the only thread of the server; what it calls sleeps for
\* at most seconds.
FairSpec == Spec /\ WF_vars(handler_control_frm)

-----------------------------------------------------------------------------
(* Properties *)

TypeOK ==
    /\ at \in {"wait", "done", "fetch", "lost", "load", "reset_one", "reset_two", "finish", "simu"}
    /\ \A k \in DOMAIN frame : frame[k] \in Command
    /\ pos \in Nat /\ step \in 0..(3 * MaxCmds)
    /\ ret \in {"ok", "error"} /\ loop_error \in BOOLEAN
    /\ registered \in Registrations
    /\ fpga \in {"untouched", "partial", "loaded"} /\ ads \subseteq registered

\* Which of the answers to this frame are of that kind
Answers(kind) == {k \in DOMAIN sent : sent[k][1] = kind}

\* The FPGA is written to, and the AD chips reset, only while no simulator runs,
\* although the check comes seconds earlier and looks at a flag that a signal
\* handler changes; unless a signal was handled between a fork and the flag or for
\* an older child (network_op.c:1114-1202).
ReconfigureAlone ==
    at \in {"load", "reset_one", "reset_two", "finish"} /\ ~raced =>
        \A n \in Simu!Pid : ~Simu!Running(n)

\* The last answer to the FPGA commands of the frame, if there is one, is such a code.
ToldLast(codes) ==
    \A last \in Answers("fpga") :
        (\A k \in Answers("fpga") : k <= last) => sent[last][2] \in codes

\* What the client is told of the reset is so: after 0xFFFF both chips have been
\* reset since anything was written to the FPGA; and when the handler has returned
\* and left written what no reset has followed, the last word was a failure
\* (network_op.c:1114-1202).  Of what the FPGA got nothing follows: a short write is
\* told as success (device_ctrl.c:106-118).
ResetAsTold ==
    LET reset == ads = {AD_ONE_ID, AD_TWO_ID}
    IN  /\ reset \/ ToldLast(Nat \ {Finished})
        /\ at = "done" /\ fpga # "untouched" => reset \/ ToldLast({LoadFailed, ResetFailed})

\* A load or a reset that fails is the last thing of the frame: no later command
\* runs on a device in an unknown state (network_op.c:1145-1176, 1287).
NothingAfterFailure ==
    \A k \in DOMAIN sent :
        sent[k][2] \in {LoadFailed, ResetFailed} => k = Len(sent) /\ at = "done" /\ ret = "error"

\* The answers after from, up to to, are those of the command: none to a set and to
\* what is not compiled, one to a read and to a simulator command; and to an FPGA
\* command the steps and then one code, the end of it or why it ended.
LastCodes == {Refused, LoadFailed, ResetFailed, Finished}
Fits(command, from, to) ==
    \/ command.kind \in {"other", "set"} /\ to = from
    \/ command.kind \in AdKind \ {"set"} /\ to = from + 1 /\ sent[to][1] = "read"
    \/ command.kind \in SimuKind /\ to = from + 1 /\ sent[to][1] = "simu"
    \/ /\ command.kind = "fpga" /\ from < to
       /\ \A k \in from+1..to : sent[k][1] = "fpga" /\ (sent[k][2] \in LastCodes <=> k = to)

\* The answers sent by the end of the first n commands run
AnsweredBy(n) == IF n = 0 THEN 0 ELSE ran[n].upto

\* When the handler returns, the commands it has run are those of the frame, each
\* once and in their order, all of them or those up to the failure; and the answers
\* are theirs, in the same order, and no others (network_op.c:859-1287).
EveryCommandOnce ==
    at = "done" =>
        /\ Len(ran) \in DOMAIN frame
        /\ Len(ran) = Len(frame) \/ loop_error
        /\ \A k \in DOMAIN ran :
               ran[k].command = frame[k] /\ Fits(frame[k], AnsweredBy(k - 1), AnsweredBy(k))
        /\ AnsweredBy(Len(ran)) = Len(sent)

\* The handler returns: the cursor meets the end of the frame and no command is
\* run for ever; unless the cursor left the frame or the process is lost.
HandlerReturns == []<>(at \in {"wait", "done", "lost"} \/ crash # None)

\* The cursor stays inside the payload and at the beginning of a command, whatever
\* the commands and their order; but for a read whose var_size counts both its
\* arguments, of which the command steps over one itself (network_op.c:859-866,
\* 1014, 1285-1287).
CursorAtCommand ==
    (\A k \in DOMAIN frame : frame[k].kind # "read") =>
        pos \in {Boundary(n) : n \in 0..Len(frame)}
=============================================================================
