------------------------------ MODULE AdDevice ------------------------------
(***************************************************************************)
(* The AD chips of prj-MDKServer: how they are registered                  *)
(* (ad_func_impl_A.c), set (device_ctrl.c, sysfs_op.c) and read            *)
(* (ad_func_impl_B.c) by way of the registry of AdRegistry.  A chip is a   *)
(* directory of sysfs, with a file for each setting, and one in debugfs,   *)
(* with the file direct_reg_access.  Any system call may fail.             *)
(***************************************************************************)
EXTENDS AdRegistry, SequencesExt

CONSTANTS
    Tag,        \* the names of chips in sysfs
    NameFile,   \* what the file "name" of each chip holds
    Preset,     \* what the driver sets the files and registers of each chip up with
    Value,      \* the values that are set
    MaxSets     \* bound: calls that set something of a chip


VARIABLES
    file,       \* what each file and each register of each chip holds
    answer,     \* the value the last call read, and from where
    sets,
    told        \* history: what the files hold if the callers were told the truth

chips == <<file, answer, sets, told>>
vars == <<registry, chips>>

Dir == {"rx", "tx"}
Frequency == [rx |-> "rx_frequency", tx |-> "tx_frequency"]
Bandwidth == [rx |-> "rx_bandwidth", tx |-> "tx_bandwidth"]
Setting == {Frequency[dir] : dir \in Dir} \cup {Bandwidth[dir] : dir \in Dir}
Reg == {"0xFA", "0xFB", "0x109", "0x73", "0x74", "0x7C"}
File == Setting \cup Reg

\* The modes, as 0xFA holds them; a chip may be in another.
M_AUTO == 234
M_HANDLE == 224

ASSUME DeviceAssumption ==
    /\ NameFile \in [Path -> Tag]
    /\ Preset \in [Path -> [File -> Nat]]
    /\ Value \subseteq Nat \ {0} /\ MaxSets \in Nat

Nothing == [from |-> 0, file |-> "none", value |-> 0]

Init ==
    /\ RegistryInit
    /\ file = Preset
    /\ answer = Nothing
    /\ sets = 0
    /\ told = file

-----------------------------------------------------------------------------
(* Registration *)

\* find_ad_home: the directories whose file "name" is read and holds the tag; the
\* search may miss one that cannot be read.
find_ad_home(tag) == {p \in Path : NameFile[p] = tag} \cup {NULL}

\* The directory of debugfs with the same last part of its path
find_ad_debugfs(home) == home

register_ad_byname(id, name) ==
    \E home \in find_ad_home(name) :
        IF home = NULL THEN Refused
                       ELSE register_ad_home(id, NULL, home, find_ad_debugfs(home))

register_ad_bypath(id, home, debugfs) == register_ad_home(id, NULL, home, debugfs)

RegistryCall ==
    /\ \E id \in Id :
           \/ \E name \in Tag : register_ad_byname(id, name)
           \/ \E path \in Path : \E home \in {path, NULL} : register_ad_bypath(id, home, path)
           \/ OtherCall(id)
    /\ answer' = Nothing
    /\ UNCHANGED <<file, sets, told>>

get_ad_home(id) == search_ad_home(id)
get_ad_debugfs(id) == search_ad_debugfs(id)

-----------------------------------------------------------------------------
(* Setting *)

\* writeData: the parts of a string, between its commas, are written one by one, up
\* to the first that is refused.  A part is a file or register and its value.
Overwritten(content, parts, done) ==
    LET last(f) == {k \in 1..done : parts[k][1] = f}
    IN  [f \in File |-> IF last(f) = {} THEN content[f] ELSE parts[Max(last(f))][2]]

writeData(path, parts, done) == file' = [file EXCEPT ![path] = Overwritten(@, parts, done)]

\* sysctrl_write, and what it returns; a search that found nothing makes a path that
\* does not exist.
sysctrl_write(path, parts, ok) ==
    IF path = NULL
    THEN ~ok /\ UNCHANGED file
    ELSE \E done \in 0..Len(parts) :
            /\ ok => done = Len(parts)
            /\ ~ok => done < Len(parts) \/ done = 0
            /\ writeData(path, parts, done)

\* The string is put together in sys_info_buf, which is then set to zeros; writeData
\* finds no part in it and sysctrl_write succeeds.
Cleared(parts) == <<>>

\* Mutant: the value is written, and the failure of the call before it is reported.
SetFile_StaleResult(id, setting, value) ==
    \E ok \in BOOLEAN :
        /\ sysctrl_write(get_ad_home(id), << <<setting, value>> >>, ok)
        /\ \E before \in BOOLEAN :
               told' = IF before /\ id \in RegisteredIds
                       THEN [told EXCEPT ![map[id].home][setting] = value] ELSE told

\* One setting, in the directory of the chip
SetFile(id, setting, value) ==
    \E ok \in BOOLEAN :
        /\ sysctrl_write(get_ad_home(id), << <<setting, value>> >>, ok)
        /\ told' = IF ok /\ id \in RegisteredIds
                   THEN [told EXCEPT ![map[id].home][setting] = value] ELSE told

ad9361_set_freq(id, dir, freq) == SetFile(id, Frequency[dir], freq)
ad9361_set_bd(id, dir, bd) == SetFile(id, Bandwidth[dir], bd)

\* Registers, in the directory of debugfs
SetRegisters(id, parts) ==
    \E ok \in BOOLEAN :
        /\ sysctrl_write(get_ad_debugfs(id), Cleared(parts), ok)
        /\ told' = IF ok /\ id \in RegisteredIds
                   THEN [told EXCEPT ![map[id].debugfs] = Overwritten(@, parts, Len(parts))]
                   ELSE told

ad9361_set_rxgain(id, gain) == SetRegisters(id, << <<"0x109", gain>> >>)

\* Other modes are refused.
ad9361_set_rxgain_mod(id) ==
    \/ SetRegisters(id, << <<"0xFA", M_HANDLE>>, <<"0xFB", 8>> >>)
    \/ SetRegisters(id, << <<"0xFA", M_AUTO>> >>)

\* The low eight bits and the ninth
ad9361_set_att(id, low, high) ==
    SetRegisters(id, << <<"0x73", low>>, <<"0x74", high>>, <<"0x7C", 64>> >>)

SetCall ==
    /\ sets < MaxSets
    /\ sets' = sets + 1
    /\ \E id \in Id, value \in Value :
           \/ \E dir \in Dir : ad9361_set_freq(id, dir, value) \/ ad9361_set_bd(id, dir, value)
           \/ ad9361_set_rxgain(id, value)
           \/ ad9361_set_rxgain_mod(id)
           \/ ad9361_set_att(id, value, 1)
    /\ answer' = Nothing
    /\ Forget

AD_ONE_ID == 1
AD_TWO_ID == 2

\* The first chip, and the second when that went well; the driver sets a chip up anew.
ad_reset ==
    /\ LET one == get_ad_debugfs(AD_ONE_ID)
           two == get_ad_debugfs(AD_TWO_ID)
       IN  \E done \in {<<>>, <<one>>, <<one, two>>} :
              /\ NULL \notin ToSet(done)
              /\ file' = [p \in Path |-> IF p \in ToSet(done) THEN Preset[p] ELSE file[p]]
              /\ told' = [p \in Path |-> IF p \in ToSet(done) THEN Preset[p] ELSE told[p]]
    /\ answer' = Nothing
    /\ Forget
    /\ UNCHANGED sets

-----------------------------------------------------------------------------
(* Reading: the calls that succeed.  Each may fail instead, at several places, and *)
(* then leaves the value of its caller as it was.                                  *)

Reads(id, f, value) == answer' = [from |-> id, file |-> f, value |-> value]

\* The chip in one of the two trees, for an id that may be read
Readable(id, path) == check_ad_ok(id) /\ path # NULL

AD_getSetting(id, setting) ==
    LET path == search_ad_home(id)
    IN  Readable(id, path) /\ Reads(id, setting, file[path][setting])

AD_getFrequency(id, dir) == AD_getSetting(id, Frequency[dir])
AD_getBandwidth(id, dir) == AD_getSetting(id, Bandwidth[dir])

\* A measurement, which nothing in the server asks for
AD_getRSSIValue(id) ==
    /\ Readable(id, search_ad_home(id))
    /\ \E rssi \in Value : Reads(id, "rssi", rssi)

\* What direct_reg_access gives when the address of the register has been written to
\* it: what the register holds, or no bytes, which the callers take for a 0.
Given(path, reg) == {file[path][reg], 0}

AD_getGCValue(id) ==
    LET path == search_ad_debugfs(id)
    IN  Readable(id, path) /\ \E value \in Given(path, "0x109") : Reads(id, "0x109", value)

\* Another mode than these two is a failure.
AD_getGCMode(id) ==
    LET path == search_ad_debugfs(id)
    IN  /\ Readable(id, path)
        /\ \E value \in Given(path, "0xFA") \cap {M_AUTO, M_HANDLE} : Reads(id, "0xFA", value)

\* Mutant: the address of the second register is not written.
AD_getATTValue_One(id) ==
    LET path == search_ad_debugfs(id)
    IN  /\ Readable(id, path)
        /\ \E low \in Given(path, "0x73"), high \in Given(path, "0x73") :
               Reads(id, "att", low + 256 * high)

\* The low eight bits, then the others
AD_getATTValue(id) ==
    LET path == search_ad_debugfs(id)
    IN  /\ Readable(id, path)
        /\ \E low \in Given(path, "0x73"), high \in Given(path, "0x74") :
               Reads(id, "att", low + 256 * high)

GetFails == answer' = Nothing

GetCall ==
    /\ \/ GetFails
       \/ \E id \in Id :
              \/ \E dir \in Dir : AD_getFrequency(id, dir) \/ AD_getBandwidth(id, dir)
              \/ AD_getRSSIValue(id)
              \/ AD_getGCValue(id)
              \/ AD_getGCMode(id)
              \/ AD_getATTValue(id)
    /\ Forget
    /\ UNCHANGED <<file, sets, told>>

Next == RegistryCall \/ SetCall \/ ad_reset \/ GetCall

Spec == Init /\ [][Next]_vars

-----------------------------------------------------------------------------
(* Properties *)

TypeOK ==
    /\ RegistryTypeOK
    /\ reply \in Reply
    /\ {file, told} \subseteq [Path -> [File -> Nat]]
    /\ answer \in [from : Id \cup {0}, file : File \cup {"none", "rssi", "att"}, value : Nat]
    /\ sets \in 0..MaxSets

\* The frequencies and bandwidths of a chip are those whose set was reported as done,
\* each on the chip its id named at the time and in its direction, and otherwise what
\* the driver set up: a set that fails leaves the file as it was, and so do the other
\* sets and those for other ids, registered and deleted in between
\* (device_ctrl.c:191-260).  The registers are not so: the sets of gain, gain mode and
\* attenuation write nothing and report success (device_ctrl.c:276, 306, 345).
SettingsAsTold == \A p \in Path, setting \in Setting : file[p][setting] = told[p][setting]

\* A value that is read is that of the chip and register asked for, and of a setting
\* the one that was told, whatever other ids, chips and registers were used in
\* between; but a register read that gives no bytes counts as a 0, and only the
\* frequency and bandwidth readers take it for a failure
\* (ad_func_impl_B.c:68, 129, 340, 418, 441).
ReadsAreTrue ==
    LET f == answer.file
        id == answer.from
        held(reg) == {file[map[id].debugfs][reg], 0}
    IN  /\ f # "none" => map[id].ok
        /\ f \in Setting => answer.value = told[map[id].home][f]
        /\ f = "0xFA" => answer.value = file[map[id].debugfs][f]
        /\ f = "0x109" => answer.value \in held(f)
        /\ f = "att" => \E low \in held("0x73"), high \in held("0x74") :
                            answer.value = low + 256 * high
=============================================================================
