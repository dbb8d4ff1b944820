# Verification of the MDKServer network, device and thread code

TLA+ models, TLC runs and TLAPS proofs for the program in `src/`: a TCP server
(`prj-MDKServer`) that receives command frames, supervises a simulator process,
configures an FPGA and a radio chip through sysfs, and the libraries and
demonstration programs that were written on the way to it (`libThread`,
`libLog`, `demo-process`, `demo-thread`).

## 1. Inventory

| component | state | operations | hard behaviour |
|---|---|---|---|
| receive ring (`network_op.c:610-719`) | `net_save_buffer`, write and read cursor, byte count | `write_tmp_buffer`, `read_tmp_buffer`, `get_frm_payload_length` | copies in two pieces and cursors reduced at the end of the ring |
| read path (`network_op.c:216-315, 437-568, 727-827`) | `client_info`, the local `client_size`, the ring | `network_read` → `check_accpet_client`, `recv`, `check_net_frm_valid`, `extract_net_frm` | TCP cuts and joins frames; connections are refused, reset, time out, close between any two steps |
| simulator supervision (`device_ctrl.c:356-504`, `start.c:140-228`) | flag, pid, command | `start_simu_exe`, `stop_simu_exe`, `restart_simu_exe`, handler `child_proc_exit` | a signal handler writes the variables main is working on |
| demo-process (`process_op.cpp`) | the same three globals | the same functions, driven from the debugger | nobody notices that the child has exited |
| connection set-up (`network_op.c:60-215, 318-440`) | `init_flag`, `client_info`, its capacity, listen socket | `network_init`, `network_delete` | a set-up that fails at any step and is repeated; use after delete |
| sending (`network_op.c:330-436, 1300-1358`) | – | `network_write`, `net_resp_msg` | a client that has hung up is still in the table; the second `send` raises SIGPIPE |
| dispatcher (`network_op.c:838-1358`) | the cursor in the payload, the step of a reconfiguration | `handler_control_frm`, `net_resp_msg` | a cursor that must meet the end exactly; calls of which one fails; seconds of sleep with signals |
| device set-up (`device_ctrl.c:42-355`, `ad_func_impl_B.c`) | the files of the chips in sysfs | `fpga_reconfigure`, `ad_reset`, `ad9361_set_*`, `ad_get_*` | a sequence of writes, one of which fails; a register read in two steps |
| AD registry (`ad_func_internal_A.c`, `ad_func_impl_A.c`) | five arrays side by side, under mutexes | register by name or path, replace, delete, search | one entry spread over five arrays, found by first fit |
| sysfs access (`sysfs_op.c`) | – | `sysctrl_write`, `writeData` | a string written in parts, of which a later one is refused |
| libThread (`src/libThread`) | array of threads, each entry with its own mutexes and two control flags | set and search by identity or thread id; ready, start, stop, pause, resume, release | searching and claiming an entry are two steps; a worker that looks itself up before it is recorded |
| libLog, server log (`LogLib.cpp`, `LogHeader.c`) | two flags, three mutexes, buffer, file and socket, settings | initialize, release, print, flush, set | release racing print, initialization that fails half-way and is repeated, a signal handler that prints |
| demos, build files | – | – | straight-line code |

Interactions: `execute_work` (`start.c:94-138`) calls `network_read` in a loop;
`network_read` hands a control frame to the dispatcher, which calls the
simulator functions, the FPGA sequence or the functions of the AD chips and answers on the
same connection; the kernel calls `child_proc_exit` at any point of all this.
Everything logs.

What makes each component correct:

* ring – it is a bounded queue of bytes, and the length peeked at in it is the one a read returns;
* read path – frames come out whole, in order, once; the table, the count and the sockets agree; a frame that has arrived is handled; a client that waits has its turn;
* supervision – the flag says whether the recorded child runs; at most one simulator; a stop stops; no crash;
* dispatcher – every command of a frame is run once and answered as it went; no command runs on a device that was left half done; what the client is told of FPGA and reset is so; the FPGA is not touched under a running simulator; the handler returns;
* connection set-up – `init_flag` says that the server accepts from the socket its clients reach and has a table that is large enough;
* AD registry and chips – the arrays are a bounded map from ids; a chip holds what its callers were told they have set, and a read returns what it holds;
* libThread – an identity and a thread id name at most one entry; a worker is not used after its entry is given back;
* log – between a successful initialization and the release everything is open; lines stay whole; a release closes what was opened; the process is lost only by misuse that can be named.

## 2. Modules

| module | models | kind |
|---|---|---|
| `ByteFifo` | what the ring promises | abstract specification |
| `SaveBuffer` | the ring's operators, copies in one or two pieces | pure operators |
| `SaveBufferSys` | the ring under any sequence of calls | specification; refines `ByteFifo` |
| `FrameQueue` | what the read path promises to its clients: a queue of frames for each | abstract specification |
| `ReadLoop` | whom `network_read` serves, and when, while each client waits for its frame to be handled | abstract specification, under fairness |
| `NetRead` | the read path; composes the ring of `SaveBuffer` with the client table, sockets and clients | specification; refines `FrameQueue` and, with waiting clients, `ReadLoop` |
| `NetServer` | set-up, tear-down and sending, around the actions of `NetRead` | specification; extends `NetRead`, refines `FrameQueue` |
| `SimuExe` | supervision, the handler, the kernel's view of the children; for both programs | specification |
| `ControlFrm` | the dispatcher; composes `SimuExe` (INSTANCE) with the frame, the FPGA and the radio chips | specification; refines `SimuExe` |
| `AdMap` | what the AD registry promises: a map with room for a number of ids | abstract specification |
| `AdRegistry` | the five arrays and the calls on them | specification; refines `AdMap` |
| `AdDevice` | registration by name and path, settings, reset and reading of the chips, on `AdRegistry` | specification; refines `AdMap` |
| `MgrArray` | libThread's searches over `mgr_array` | pure operators |
| `ThreadMgr` | libThread's registry with several callers | specification |
| `ThreadLife` | one user of libThread and the workers it starts | specification |
| `LogLib` | the log, as two threads use libLog, and as the server and its signal handler use their copy | specification |
| `MCNetRead`, `MCNetServer`, `MCAdDevice`, `MCThreadMgr` | symmetry and values for the modules of these names | TLC |
| `SaveBufferProofs`, `NetServerProofs`, `SimuExeProofs`, `ControlFrmProofs`, `AdDeviceProofs`, `ThreadMgrProofs`, `ThreadLifeProofs`, `LogLibProofs` | theorems on the modules of these names; `NetServerProofs` also on `NetRead`, `AdDeviceProofs` also on `AdRegistry` | proofs |

How state and steps correspond to the code:

* **Ring.** `buf` is `net_save_buffer` with its three counters. A call is one
  step, since only the server's one thread uses the ring. `put`, `got`, `rt` are
  the argument, the output and the result of the last call: they are what
  `ByteFifo` sees, so that the refinement is about the bytes and not only about
  the counters.
* **Read path.** `pc` is where `network_read` is between two system calls:
  `Accept`, or the entry of `client_info` it is at. A step goes from one system
  call to the next, with everything `check_net_frm_valid`, `extract_net_frm` and
  the dispatch do in between. A byte is a cell `<<frame, offset>>`; the byte
  values and the layout are those of `gen_net_frm`, with the widths of the fields
  as constants. `recv` takes any part of what the client has sent, so TCP cuts
  and joins frames in every way. `arrived`, `taken` (the byte of each client that `recv`
  took last), `torn` and `overrun` are history. `FrameQueue` sees what was sent and what was dispatched, and
  `spoiled`, which is `torn \/ overrun`: a client's frames are handed on in the order sent, each once, until then.
  `ReadLoop` sees of each entry whether its client is there, the kind of the frame it waits for, and how many
  bytes of it are still to be taken. Its clients send without end, which those of `NetRead`, whose frames
  are numbered, cannot: what must happen for however long others send is stated of `ReadLoop`.
* **Set-up and sending.** A call of `network_init`, `network_delete` or
  `network_write` is one step, since the server's one thread makes them between two
  calls of `network_read`. `network_init` may fail at any step and leaves what it has
  got so far. When `fcntl` fails that is a socket that listens (`network_op.c:159-171`): clients connect to it and
  wait. The next call overwrites `listenfd` without closing it (`stray`) and cannot bind, as the port is always the same
  (`start.c:97`) and one socket listens on it already; so no later call of the process succeeds. The answers of a control frame are sent one at a time, before
  `network_read` goes on. `state` tells a server that is up from one that SIGPIPE has
  killed, or that has used a table it does not have. `remade` is history:
  `network_init` after a delete, or with more clients than the table was allocated for.
* **Supervision.** One step per statement that reads or writes a global, because
  SIGCHLD may come between any two. `child` and `pending` are the kernel's.
  `crash` names the ways in which the process is lost (a null or freed command, a
  `kill` of its own process group, the handler waiting for a log mutex that main
  holds).
* **Dispatcher.** One step per command, and for `fpga_bit_path` one per stage,
  since the stages are seconds apart; a simulator command runs the steps of
  `SimuExe`. The payload is counted in words, and `frame` is a sequence of
  commands, so the cursor is at a command or off the frame (`OffTheFrame`); what
  the handler reads there is no longer the client's and the model stops. `sent`
  are the answers to the current frame; they go to all clients alike.
  `ran` is history: the commands run, each with the number of answers sent by its end.
  `fpga` and `ads` say what the frame has done to the device. Blocks go to the FPGA through a buffer of stdio, and neither a
  short write nor `fflush` and `fclose` are looked at (`device_ctrl.c:106-118`), so nothing, a part or all of the file
  may have been written (`WriteBlocks`) when `fpga_reconfigure` returns, whatever it returns. `registered` are the
  chips whose sysfs paths the server knows: both, or none, since the code as it
  stands has `ENABLE_AD_CTRL` 0 (`global_macro.h:12`). In that build every set fails,
  every read answers 2 and every `fpga_bit_path` ends with a reset that failed;
  the run covers both builds.
* **AD registry and chips.** The arrays are functions on the indices of the source;
  the loops that search them are the choice of the first index, which is what they stop
  at. A call is one step: the server has one thread. A chip is a directory with a
  file for each setting and the registers behind `direct_reg_access`; every write and
  read may fail, a string written in parts after any of them. `told` is what the
  files hold if the callers were told the truth, and every set that reports success changes it. `Preset` is what
  the driver set up, another thing in each chip.
* **libThread registry.** `todo`, `step`, `idx` are per caller: the registry
  functions an API call still runs and where it is in the first one. Single
  writes are under `mutex_mgr` and are steps; search, write and naming are steps
  of their own, as in the code. The search for a free entry looks at one entry per
  step.
* **libThread life cycle.** `phase` is where a worker is in the work function of
  `demo-thread`, `pc` where the user is in its API call. The entry has the fields
  the two share: stop, pause, the recorded tid, and the thread id in the parameter.
* **Log.** `version` is the library or the server's copy, which has no `Log_initmutex`.
  One step per access to a mutex, a flag, a pointer or the file, as another thread
  may come between any two; in the server the handler comes between any two steps of
  main, and main stands still while it runs. `handle` is what the pointers hold and
  `live` what is really open, so that a stale pointer can be told from a good one.
  `era` and `misuse` are history: what the callers did that the log does not allow for.

## 3. Runs

| run | instance | what it shows |
|---|---|---|
| `ring` | ring of 5 bytes, two byte values, chunks up to 3 | every position of the cursors, every straddling of ring end and length field; the ring is a bounded queue |
| `clients` | 2 connections at a server set up twice, with 1 or 2 entries, 2 frames ahead, answers and frames sent, cursors 2 bytes before the end of the ring | the table agrees through every order of set-up, failure, accept, refusal, reset, time-out, close and delete; the stream stays intact; a server that is set up can serve, on the only socket that listens; each client's frames are dispatched in order, none twice, none left out |
| `paced` | 2 connections, 2 entries, one frame at a time of 3 in all, data and control | a client that waits for its answers finds its frame dispatched by the call that takes its last byte, and never fills the ring; the read path is a `ReadLoop` |
| `turns` | 3 entries, frames of 1 and 2 bytes, traffic without end, under fairness | a client that stays is served, unless data frames of entries before its own keep ending the call |
| `hangup` | 1 connection, 2 answers | **violated:** a client that has hung up and is sent to twice ends the server by SIGPIPE |
| `simu` | both programs, 2 executables, 3 children | flag, pid, command and child agree; a stop stops; the process is lost only through a signal |
| `simu_two` | the server, 3 children | **violated:** after a restart the late signal of the first child makes the flag idle, and a second simulator is started |
| `control` | frames of up to 2 commands, one after the other without end, 2 children, with and without registered chips, under fairness | the FPGA is reconfigured alone, every command is run once and in order and has exactly its answers, the reset is told as it went, a failed load or reset ends the frame, the handler returns |
| `ad` | 2 chips, 3 ids and the refused 0, 2 entries, 1 set, any resets | the arrays are a bounded map; the frequencies and bandwidths of a chip are those reported as set; a read returns what the chip holds |
| `mgr` | 2 callers, 3 identities and the refused 0, 2 entries, 4 calls | unique identities in every interleaving; while calls do not overlap, bindings and data are kept, in a full array too |
| `life` | 3 identities, 2 entries, 2 workers, under fairness | a release ends its worker, parameters stay valid, a recorded worker gets to work, a replaced one ends, every call returns |
| `log` | 2 threads, or main and the handler, 2 initializations, under fairness | what can lose the process, and by what; lines stay whole; no mutex is held for ever but by an interrupted main |

Some properties carry a condition that names where the code does not keep its word:

* `SerialBindingKept` holds while calls of different callers do not overlap. Two callers
  with different identities that both search for a free entry find the same one, and the
  later name wins (`mgr_ref_iden.cpp:18-203`).
* `RecordedWorks` is about workers recorded before they look for themselves. One
  that looks first finds nothing and ends without having worked, although the start
  has returned success (`ThreadHeader.h:104`, `ThreadImpl_Init.cpp:143-330`).
* `CursorAtCommand` excludes `rf_value_read`: the handler steps over one argument itself
  (`network_op.c:1014`) and then over `var_size`, which counts both (`:1286`), and leaves the payload.
* `SettingsAsTold` is about frequencies and bandwidths. The strings of gain, gain mode and attenuation are put
  together and then cleared before they are written (`device_ctrl.c:276, 306, 345`), so none of these three
  ever reaches a chip, although the set reports success (`sysfs_op.h:25-31`); in the model `told` and `file` then
  differ in the registers. A string of several parts, of which a later one may be refused, leaves nothing half done
  for the same reason.
* `ResetAsTold` is about the reset and not about what the FPGA got: after a short write the client is told
  of a complete reconfiguration (`device_ctrl.c:106-118`), against `device_ctrl.h:28-33`.
* `PacedNeverWaits` is about clients that let a frame be handled before they send the next. Of two frames that arrive
  in one `recv` the second stays in the ring until more bytes come, as a call takes at most one
  (`network_op.c:236-312`, with the comment "no need to loop recv data").
* `ServedInTurn` excludes a client before whose entry others keep sending data frames: each ends the call
  (`network_op.c:299-301`), and the next begins with the first entry.
* `ReadsAreTrue` lets a register that gives no bytes count as a 0, as the readers of gain and
  attenuation do (`ad_func_impl_B.c:340, 418, 441`).
* `SingleRunning` and `FlagTracks` exclude a signal between fork and flag, and one of an
  older child (`raced`); the run `simu_two` shows what it leads to.
* `CrashNeedsSignal` and `FaultsHaveCause` allow the losses they name, and say that there are no others.
* `SetupSound` excludes `remade` from what it says of the table, and lets a socket listen without the flag; `InitMeansReady`, `NothingLeaks` and `LinesWhole` exclude a use of the
  log beside or after its release (`late`), which `FaultsHaveCause` names as a cause.

Deadlock is checked where the system never stops (`ring`, `paced`, `turns`). Elsewhere
`CHECK_DEADLOCK FALSE`: the process may be lost, the children, calls, frames or
initializations of the bound may be used up, and a release joins a thread id that is no thread.

Bounds, and why they are enough:

* `SaveSize` is 5 in `ring`: with chunks up to 3 every pair of cursor positions
  and fillings occurs. The theorems hold for every size.
* `StartPos` is where the cursors stand at the start of a read-path run. 0 is the
  start of the program; 22 of 24, and 15 of 16, are states it reaches after earlier
  traffic, and put the end of the ring into a length field or a frame.
* `MaxFrames`, `Window`: two frames are the least with which one can wait behind
  another, or two clients be in the middle of one; `Window = 1` is a client that waits.
  In `paced` a third lets a client that has been served come again while the other waits.
* `turns`: three entries give one before and one behind another; frames of one and two bytes are
  taken whole or in parts. Nothing else is bounded. The connections of `paced` are alike, and its properties are kept by
  exchanging them (symmetry); those of them that speak of time are left to `turns`.
* `clients`: two connections and tables of one and two entries give a free, a full and
  an outgrown table; a second `network_init` follows a failure, or a delete. One
  answer and one written frame meet a client in each of its states; `hangup` has two.
  That the table agrees is proved for any number of each.
* `MaxForks`: three children allow an old, a current and a wrongly started one.
  In `control` two are enough for a stopped and a running one.
* `MaxCmds = 2`: a command before, and one behind, any other; the handler keeps
  nothing from frame to frame.
* `AD_ARRAY_SIZE = 2` with three ids that can be registered: a full array, a refusal, an
  entry freed before and behind another, two ids for one chip. `Name` is empty, as every caller passes
  NULL. `MaxSets = 1`: a set between registrations and resets, of which there may be any number.
* `MaxCalls = 4`: binding both entries, a refusal, and a release and reuse.
* `MaxWorkers = 2` with two entries and three identities: two live workers at once, an
  entry reused, a full array.
* `MaxInits = 2` in `log`: a set-up after one that failed, or beside another; prints, flushes,
  settings and releases are not bounded.
* `Wrap` stands for 2^32 and is not reached by the calls of the runs; see
  section 6.

Fairness:

* `WF(GoOn)` in `turns`, the steps of `network_read` but for an accept: `execute_work` (`start.c:119-129`) is `while(1)` around it, and
  each call ends, as `recv` has a time-out of a second. That a client comes is not assumed.
* `WF(handler_control_frm)`: the same thread, whose calls sleep a bounded time.
* `WF(Library)` and one `WF(work_thread(w))` per worker: the kernel schedules
  every runnable thread. Whether the user makes another call is not assumed.
  Real-time priorities on a single processor, under which a busy worker could
  starve the user, are left out.

* `SF(main)` and `WF(other)` in `log`: a thread in a call goes on when it can. Signals
  come when a child ends, so the server's main, which starts the children, is
  interrupted now and then but not for ever; without the strong form it would be
  disabled again and again by the handler. That a mutex is taken by a thread that waits
  for it is not assumed, only that its holder goes on.

No fairness is assumed of clients, of the network, of the simulator or of signals.

## 4. Proofs

All theorems are about the specifications with their constants arbitrary, under
the ASSUMEs of the modules. Five theorems have a hypothesis more: `Own`, `FewSteps` (three of
them) and `MaxCalls < Wrap`, each explained below. Every invariant that a passing run checks is a theorem.
The type invariants of `SimuExe` and `LogLib` (`TypeCorrect`) are proved and in no run.

The ASSUMEs say what the code's own constants satisfy: sizes and counts are positive;
a frame fits into `FRM_BUFFER_SIZE`, and so do head, type and length, which are peeked at
before the rest is there; values that stand for nothing (`None`, `Torn`, `NULL`, `Freed`) are
not connections, frames, identities, names or executables.

* `SaveBufferProofs` – `CursorsCorrect` (`Spec => []BufferOK`),
  `LengthFieldCorrect` and `RingImplementsFifo` (`Spec => ImplementsFifo`). `BufferOK`
  is inductive as it stands, because it says that the write cursor is `size`
  cells ahead of the read cursor, round the ring. The lemmas show what a copy
  in two pieces leaves in each cell (`WriteRingCells`), that a write appends to the contents
  (`WriteAppends`), that a read takes from their front (`ReadTakes`), and that the peek
  agrees with them (`PeekAgrees`); the refinement maps the abstract queue to the
  contents between the cursors, and each call to the abstract call of the same name.
* `NetServerProofs` – on the read path by itself (`Spec` of `NetRead`) and on the server that is set
  up, torn down and sends around it (`ServerSpec`), for any number of clients, entries, set-ups,
  frames and answers.
  * `SetupIsSound`, `TableAgrees`, `ReadTypeCorrect`, `TypeCorrect`. `Held` says where a
    connection may be: in one entry or once in the queue of those that wait, never closed; without it an
    accept could give an entry a connection another entry has. `Counted` is kept by an accept and
    a close because they add and remove one entry (`FS_AddElement`, `FS_RemoveElement`). `Setup` says
    that without the flag no entry is in use, which a later `network_init` with another size relies on.
    `SetupIsSound` needs that a call which sets the flag found no socket listening.
    `Streams` gives the types of what is sent, on its way and in the ring.
  * `StreamStaysIntact` (`StreamIntact`). The invariant follows a byte from the client to the
    dispatcher. `InOrder`: what is on its way continues the byte `recv` took last, and nothing is missing while
    the connection is up. `Whole`: `arrived` has each frame taken whole, once. `InRing`: the ring holds a
    stream (`IsStream`), that is, the bytes of a sequence of frames, which are those that wait and the one the
    client is inside. `IsStream` says what every byte and its neighbour are, without recursion; that such a
    stream is the concatenation the property speaks of (`StreamFlat`) is proved once, by induction over
    the frames. `StreamAppend` is what a `recv` does to a stream, `StreamTake` what a dispatch
    does; `StreamHead` shows that the length peeked at is the length of the first frame. That the ring
    of the code holds the stream with the bytes appended, or without those taken, is `WriteAppends`, `ReadTakes`
    and `PeekAgrees` of the ring, used by INSTANCE.
  * `PacedIsServed` (`PacedNeverWaits`). `Paced` adds that a client has sent at most one frame more than were
    handled. No frame is handled before it is taken whole (`AnsweredTaken`, by counting), so
    the ring holds at most one frame, which therefore fits and is dispatched when its last byte comes.
  * `ReadImplementsQueue` (`ImplementsQueue`, for both specifications). `Sequenced` says that of each client every
    frame taken whole has arrived, after those before it. With `StreamStaysIntact` the dispatched frames are a
    prefix of those that arrived, so the next one of a client is the one its abstract queue hands on
    (`DispatchIsNext`); that this client has had as many frames handled as the frame's number less one is a
    bijection between the numbers and the places in `dispatched` (`CountOfClient`). A step of the client
    is `Send`, a call of `recv` is `Handle`, `Spoil` or a stutter, and every other step, set-up and tear-down
    included, is a stutter or `Spoil` (`SendRefines`, `RecvRefines`, `HushedRefines`).
* `SimuExeProofs` – `TypeCorrect`, `FlagIsRight`, `OneSimulator`, `OnlySignalsCrash`,
  `StopIsEffective`, for any number of children and executables and both programs. The
  invariant: `Flow` (which functions may follow at each step), `Forks` (known pids are of
  children that were forked), `One` (the one running child is the recorded one, or the one just
  forked), `Globals` (the three globals at each step of a start and a stop, with
  the handler in between) and `Target` (the child an operation found is the one it
  works on). The properties speak of the states between two operations; `Globals` and `Target` carry
  them through the steps.
* `ControlFrmProofs`, for frames of any length –
  * `DispatcherSupervises` (`Spec => Simu!Spec`): each step of the dispatcher is one of
    `SimuExe` or leaves it alone, so the theorems above hold under it. `ReconfiguresAlone` uses them:
    `SimuExeProofs` is instantiated, its invariant is part of this one, and `Alone` adds that a
    reconfiguration begins with the flag idle and no function at work.
  * `TypeCorrect`, `CursorStaysAtCommands`, `CommandsRunOnce` (`EveryCommandOnce`). `Cursor` says that the
    cursor is at a boundary, which command is under way, that the commands before it are those in `ran`
    (`Record`), and that the answers of each lie behind those of the one before (`Answered`, and `Underway` for the
    command under way). The boundaries are a recursive sum over the frame; that it has the value its
    equation says, and grows, is proved by induction first. A frame that a read has thrown out of step
    (`Strayed`) is apart.
  * `FailureEndsFrame` (`NothingAfterFailure`) and `ResetIsAsTold` (`ResetAsTold`). `Outcome` relates the last
    answer of the FPGA to the files and chips at each stage. These two and `CommandsRunOnce` need `FewSteps`,
    `3 * MaxCmds < Refused`: an answer carries either a step number or the number of the source line of the failure
    (`network_op.c:1125-1204`), and a frame of so many reconfigurations that the first reaches the second would tell
    a step that reads as a failure. It takes 375 reconfigurations in one frame; a frame of `FRM_BUFFER_SIZE` has
    room for them, so `FewSteps` is a limit of the code and not only of the proof.
* `AdDeviceProofs`, for arrays of any size and any ids, paths and chips – `RegistrySound` and
  `RegistryImplementsMap` (`RegistrySpec => ImplementsMap`): the map takes an id to what the five arrays hold at the one
  entry that has it. `FreeIsBlank`, which `RegistrySound` states too, is the strengthening: an entry without an id has
  neither paths nor name; a registration without a name keeps the one that is there (`ad_func_internal_A.c:166`), and would
  revive it.
  `DevicesUseMap`: every call on the chips is a call on the registry or none, so that the map is
  implemented under them too. `DevicesTyped`, `DevicesAsTold` (`SettingsAsTold`), `DevicesReadTrue`
  (`ReadsAreTrue`): `DeviceInv`, the conjunction of these with the registry's invariant, is inductive; a lemma for
  each call says what it leaves in the files, whichever of its writes fails.
* `ThreadMgrProofs` – `IdentityNamesOneEntry` (`Spec => []IdenUnique`) under the assumption
  `Own`, that no identity is used by two callers. `IdenUnique` is not
  inductive: an entry is named several steps after the search that found the
  identity missing. `Unclaimed` bridges the gap: while a caller is between the
  search and the naming, no entry has its identity; it is kept by others' steps
  because their identities are others. `InCall` says that a caller past
  the first test uses an identity of its own, greater than 0. Without `Own` it is
  false: two callers with the same identity can both find nothing.
  `CallsInTurnKeepBindings` (`SerialBindingKept`) does without `Own`, but is about calls that follow each other:
  `SerialInv` says that one caller at most is in a call (`Alone`), that what its search has found is still so
  (`Holds`), and whose data each entry has (`Clean`). It needs `MaxCalls < Wrap`: see section 6.
* `ThreadLifeProofs`, for any number of identities, entries and workers – `TypeCorrect`, `ReleaseJoinsWorker`
  (`ReleaseEndsWorker`), `WorkerKeepsEntry` (`ParamStaysValid`). The invariant says whose an entry is: an identity
  names one (`Unique`), the thread ids in it are of workers whose parameter points there (`Owned`), only a worker that was
  created has an entry (`Created`), and the entry of a call stays while it goes on (`Calling`). `Apart` is what
  the properties rest on, while no identity is started again beside its worker: each worker that lives has an entry and
  an identity of its own, and none is left where a call begins or gives the entry up.
* `LogLibProofs` – `TypeCorrect`, `FaultsExplained`, `InitSound`, `ReleaseCloses`, `LinesStayWhole`,
  `DatagramsHaveAddress`, for two callers and any number of initializations. The invariant has one part
  for each thing the code relies on without a mutex: `OneInit` (one initialization at a
  time), `Sound` (nothing goes on in a released log), `Opened` and `Usable` (what the status and
  the pointers say is open), `Printing` (what a print has found), `Flags`, `Closing` and `Once`
  (what a release has still to close), `Address`. `Budget` counts the initializations that have begun with those that may.
  One lemma per action shows that it keeps each part; most leaves are alike, as a step that touches
  nothing of a part keeps it.

Where a proof needs an induction over numbers (boundaries of commands, streams of frames, the counting of a sequence), the set
of the numbers for which the fact holds is shown to be all of `Nat` by a least counterexample
(`NatLessThanWellFounded`, `WFMin`): the library's induction rules take an operator as a parameter, which the
provers cannot instantiate.

## 5. What is only model-checked

* Liveness (`ServedInTurn`, `HandlerReturns`, `CallsReturn`, `SupersededEnds`, `RecordedWorks`,
  `MutexesComeFree`): fairness and ENABLED are out of the prover's reach.
* The two disagreements (`hangup`, `simu_two`): a counterexample in an instance is the whole of it.
* That `NetRead` with waiting clients is a `ReadLoop` (`ImplementsLoop`), with frames that are numbered. The property is
  about steps. It says also that every step of `network_read` is one in `ReadLoop`, so that a loop
  that always goes on does so in both; what `turns` shows for traffic without end is a liveness property of `ReadLoop` alone.
* That the refined invariants are not empty: TLC meets, in the instances above, every action and every disjunct of the
  specifications, and a changed definition violates each property.

## 6. What is not modelled, or left out, and why

* Values: radio parameters, payloads of data frames, the index and crc of a frame, log lines. The
  rates of `ad9361_set_*` are one value; the table of ranges the transmit side accepts
  and the conversion of numbers to text are left out.
* After the stream is out of step (`torn`, `overrun`) a length field may hold any
  bytes; the model takes one of the lengths in use. Nothing is claimed of what follows.
* A frame that leaves the payload (`"lost"`), and a process that is lost (`crash`, `fault`, `"undefined"`).
* `send` sends all or nothing; a full socket buffer, which blocks the server, is not modelled.
* A search by identity is one step. While callers use their own identities it
  makes no difference: no other caller adds an entry with this identity, and the
  caller itself is busy.
* `only_one` of `frist_init_array` is kept modulo `Wrap`, but no run makes
  2^32 calls; at that point the array in use is initialized again.
* The flag of the supervision may stay at running with no child, when the child
  exits between fork and flag; `FlagTracks` excludes that order by `raced`. In
  demo-process every child that exits by itself leaves it so.
* An FPGA file of whole blocks of 1024 bytes is loaded and then told as a failure
  (`device_ctrl.c:91-117`). `FpgaLoad` has that outcome.
* The server ships with one client (`start.c:94`) and with `ENABLE_AD_CTRL` 0
  (`global_macro.h:12`); the models have any number of clients, and chips that are registered too.
  `NetRead` says by `torn` that two clients inside a frame at once spoil the ring they share.
* `check_ad_ok` is declared (`ad_func_impl.h:103`) and not defined. The mutexes of the AD registry: its
  callers are one thread. The directory `find_ad_home` leaves open.
* Of the log: formatting, folders and file names, all settings but the one that switches the net on, and
  the second use of a `va_list` (`LogLib.cpp:605-609`). A process that is lost by the
  log stops; nothing is claimed of what memory holds then.
* A control frame whose `var_size` or path does not fit what follows, an `accept` that fails while a
  client waits, a SIGCHLD for a child that was stopped and goes on.
* A log message of more than 2048 bytes, which would not fit the buffer it is formatted in (`LogLib.cpp:609`).
* The demonstration programs and the build files: straight-line code without state to check.

## 7. Plan

1. `ThreadLife` with several users, on the registry of `ThreadMgr`.
2. An abstract supervision with start and stop as single steps.
3. The transmit side's ranges in `AdDevice`, and partial sends in `NetServer`.
4. Theorems: the refinement of 2, and that a call of libThread leaves the registry as its result says.
