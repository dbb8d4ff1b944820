----------------------------- MODULE ThreadLife -----------------------------
(***************************************************************************)
(* The life of the threads of libThread: one thread of the program uses    *)
(* the library (as demo-thread does) and the workers it starts run beside  *)
(* it, with the work function of demo-thread.  thread_ready_and_start,     *)
(* thread_pause, thread_resume and thread_release_and_destroy are taken    *)
(* apart where a worker can see or set what they use: the stop and pause   *)
(* flags, the thread id in the entry, the one in the parameter, and the    *)
(* entry itself.                                                           *)
(***************************************************************************)
EXTENDS MgrArray

CONSTANTS
    Iden,       \* the identities the user gives its workers
    MaxWorkers, \* bound: threads created in a behaviour
    None

ASSUME LifeAssumption == Iden \subseteq Nat \ {0} /\ MaxWorkers \in Nat /\ None \notin Iden

Worker == 1..MaxWorkers     \* thread ids; 0 is MGR_TID_DEFAULT

VARIABLES
    arr,        \* mgr_array
    phase,      \* per worker, where it is in work_thread and local_loop
    param,      \* per worker, the entry its parameter points into
    \* the user
    pc,         \* the next step of the API call, or "ready" between two calls
    id,         \* its argument identify
    new,        \* temp_tid
    released,   \* the identity that the last call has released, or None
    crash,      \* pthread_join on no thread
    \* history
    startedAs,  \* per worker, the identity it was created for
    restarted   \* an identity was started while a worker of it lived

user == <<pc, id, new, released, crash>>
vars == <<arr, phase, param, user, startedAs, restarted>>

\* Mutant: the entry is zeroed and its identity not set to the default.
EmptyEntry_Zeroed == [iden |-> 0, tid |-> MGR_TID_DEFAULT, thread_id |-> 0,
                      stop |-> FALSE, pause |-> FALSE]

EmptyEntry == [iden |-> MGR_IDEN_DEFAULT, tid |-> MGR_TID_DEFAULT, thread_id |-> 0,
               stop |-> FALSE, pause |-> FALSE]

Init ==
    /\ arr = [i \in Index |-> EmptyEntry]
    /\ phase = [w \in Worker |-> "none"]
    /\ param = [w \in Worker |-> FIND_NOTHING]
    /\ pc = "ready" /\ id = 0 /\ new = 0 /\ released = None /\ crash = FALSE
    /\ startedAs = [w \in Worker |-> None] /\ restarted = FALSE

Live(w) == phase[w] \notin {"none", "joined"}
Entry == find_array(arr, id)    \* of the current call

-----------------------------------------------------------------------------
(* The user *)

At(label) == pc = label /\ ~crash
Goto(label) == pc' = label /\ UNCHANGED <<id, released>>
Begin(label, identify) == pc' = label /\ id' = identify /\ released' = None
Return == pc' = "ready" /\ id' = 0 /\ released' = None

\* thread_ready_param: the parameter is copied into the entry of the identity, or
\* into the first free one; the user's own copy has thread id 0.  The program may
\* start an identity whose worker still lives.
ReadyParam(identify) ==
    /\ At("ready")
    /\ LET entry == IF Found(arr, identify) THEN {find_array(arr, identify)} ELSE Free(arr)
       IN  IF entry = {}
           THEN Return /\ UNCHANGED arr
           ELSE /\ arr' = [arr EXCEPT ![Min(entry)].thread_id = 0, ![Min(entry)].iden = identify]
                /\ Begin("ready_attr", identify)
    /\ restarted' = (restarted \/ \E w \in Worker : startedAs[w] = identify /\ Live(w))
    /\ UNCHANGED <<phase, param, new, crash, startedAs>>

\* thread_ready_and_start: a pthread_attr function may fail, and the entry stays.
ReadyAttr ==
    /\ At("ready_attr")
    /\ Goto("start") \/ Return
    /\ UNCHANGED <<arr, phase, param, new, crash, startedAs, restarted>>

\* internal_thread_start
StartFlag ==
    /\ At("start")
    /\ arr' = [arr EXCEPT ![Entry].stop = FALSE]
    /\ Goto("hold")
    /\ UNCHANGED <<phase, param, new, crash, startedAs, restarted>>

\* thread_pause, so that the new worker waits
HoldNew ==
    /\ At("hold")
    /\ arr' = [arr EXCEPT ![Entry].pause = TRUE]
    /\ Goto("create")
    /\ UNCHANGED <<phase, param, new, crash, startedAs, restarted>>

Create ==
    /\ At("create")
    /\ \/ /\ \E w \in Worker : phase[w] = "none"
          /\ new' = Min({w \in Worker : phase[w] = "none"})
          /\ phase' = [phase EXCEPT ![new'] = "created"]
          /\ param' = [param EXCEPT ![new'] = Entry]
          /\ startedAs' = [startedAs EXCEPT ![new'] = id]
          /\ Goto("set_tid")
       \/ Return /\ UNCHANGED <<new, phase, param, startedAs>>
    /\ UNCHANGED <<arr, crash, restarted>>

\* set_tid_by_iden
SetTid ==
    /\ At("set_tid")
    /\ arr' = [arr EXCEPT ![Entry].tid = new]
    /\ Goto("let_go")
    /\ UNCHANGED <<phase, param, new, crash, startedAs, restarted>>

\* thread_resume at the end of thread_create_and_start
LetGo ==
    /\ At("let_go")
    /\ arr' = [arr EXCEPT ![Entry].pause = FALSE]
    /\ Return /\ new' = 0
    /\ UNCHANGED <<phase, param, crash, startedAs, restarted>>

SetPause(identify, value, next) ==
    /\ At("ready")
    /\ IF Found(arr, identify)
       THEN arr' = [arr EXCEPT ![find_array(arr, identify)].pause = value] /\ next
       ELSE Return /\ UNCHANGED arr
    /\ UNCHANGED <<phase, param, new, crash, startedAs, restarted>>

thread_pause(identify) == SetPause(identify, TRUE, Return)
thread_resume(identify) == SetPause(identify, FALSE, Return)

\* thread_release_and_destroy
ReleaseResume(identify) == SetPause(identify, FALSE, Begin("stop", identify))

\* Mutant: the stop flag is not raised.
ReleaseStop_Missing ==
    /\ At("stop")
    /\ Goto("join")
    /\ UNCHANGED <<arr, phase, param, new, crash, startedAs, restarted>>

\* internal_thread_stop
ReleaseStop ==
    /\ At("stop")
    /\ arr' = [arr EXCEPT ![Entry].stop = TRUE]
    /\ Goto("join")
    /\ UNCHANGED <<phase, param, new, crash, startedAs, restarted>>

\* Mutant: a worker that has not returned yet is not waited for.
ReleaseJoin_NoWait ==
    /\ At("join")
    /\ LET w == arr[Entry].thread_id
       IN  \/ /\ w \notin Worker
              /\ crash' = TRUE
              /\ UNCHANGED <<pc, id, released, phase>>
           \/ /\ w \in Worker
              /\ phase' = [phase EXCEPT ![w] = IF @ = "returned" THEN "joined" ELSE @]
              /\ Goto("reset")
              /\ UNCHANGED crash
    /\ UNCHANGED <<arr, param, new, startedAs, restarted>>

\* pthread_join of the thread id that a worker has written into its parameter;
\* none yet, or one that was joined before, is lost
ReleaseJoin ==
    /\ At("join")
    /\ LET w == arr[Entry].thread_id
       IN  \/ /\ w \notin {v \in Worker : phase[v] # "joined"}
              /\ crash' = TRUE
              /\ UNCHANGED <<pc, id, released, phase>>
           \/ /\ w \in Worker /\ phase[w] = "returned"
              /\ phase' = [phase EXCEPT ![w] = "joined"]
              /\ Goto("reset")
              /\ UNCHANGED crash
    /\ UNCHANGED <<arr, param, new, startedAs, restarted>>

\* init_index_by_iden
ReleaseReset ==
    /\ At("reset")
    /\ arr' = [arr EXCEPT ![Entry] = EmptyEntry]
    /\ pc' = "ready" /\ id' = 0 /\ released' = id
    /\ UNCHANGED <<phase, param, new, crash, startedAs, restarted>>

thread_ready_and_start == ReadyAttr \/ StartFlag \/ HoldNew \/ Create \/ SetTid \/ LetGo
thread_release_and_destroy == ReleaseStop \/ ReleaseJoin \/ ReleaseReset

\* A call that has begun goes on.
Library == thread_ready_and_start \/ thread_release_and_destroy

\* The program makes a call.
Call == \E identify \in Iden :
    ReadyParam(identify) \/ thread_pause(identify) \/ thread_resume(identify) \/ ReleaseResume(identify)

-----------------------------------------------------------------------------
(* A worker: work_thread, then local_loop *)

Move(w, from, to) == ~crash /\ phase[w] = from /\ phase' = [phase EXCEPT ![w] = to]

\* The worker writes its thread id into its parameter.
WriteThreadId(w) ==
    /\ Move(w, "created", "sleeping")
    /\ arr' = [arr EXCEPT ![param[w]].thread_id = w]
    /\ UNCHANGED <<param, user, startedAs, restarted>>

\* usleep(1000000): a second, which nothing relates to the user's next steps
Wake(w) ==
    /\ Move(w, "sleeping", "check_exit")
    /\ UNCHANGED <<arr, param, user, startedAs, restarted>>

\* The entry that thread_check_exit() and thread_check_pause() look at: by thread
\* id, then by that entry's identity.
Control(w) ==
    LET i == find_index_by_tid(arr, w)
    IN  IF i = FIND_NOTHING THEN FIND_NOTHING ELSE find_array(arr, arr[i].iden)

\* Mutant: an error is not taken for a stop.
CheckExit_ErrorGoesOn(w) ==
    /\ LET i == Control(w)
       IN  Move(w, "check_exit",
                IF i \in Index /\ arr[i].stop THEN "returned" ELSE "check_pause")
    /\ UNCHANGED <<arr, param, user, startedAs, restarted>>

\* Mutant: the flag of the pause is taken for that of the stop.
CheckExit_PauseFlag(w) ==
    /\ LET i == Control(w)
       IN  Move(w, "check_exit",
                IF i \notin Index \/ arr[i].pause THEN "returned" ELSE "check_pause")
    /\ UNCHANGED <<arr, param, user, startedAs, restarted>>

\* thread_check_exit(): an error is returned as true
CheckExit(w) ==
    /\ LET i == Control(w)
       IN  Move(w, "check_exit",
                IF i \notin Index \/ arr[i].stop THEN "returned" ELSE "check_pause")
    /\ UNCHANGED <<arr, param, user, startedAs, restarted>>

\* thread_check_pause(): likewise
CheckPause(w) ==
    /\ LET i == Control(w)
       IN  Move(w, "check_pause",
                IF i \notin Index \/ arr[i].pause THEN "check_exit" ELSE "work")
    /\ UNCHANGED <<arr, param, user, startedAs, restarted>>

Work(w) ==
    /\ Move(w, "work", "check_exit")
    /\ UNCHANGED <<arr, param, user, startedAs, restarted>>

work_thread(w) == WriteThreadId(w) \/ Wake(w) \/ CheckExit(w) \/ CheckPause(w) \/ Work(w)

Next == Call \/ Library \/ \E w \in Worker : work_thread(w)

Spec == Init /\ [][Next]_vars

\* Threads are scheduled by the kernel; calls of the library are up to the user.
FairSpec == Spec /\ WF_vars(Library) /\ \A w \in Worker : WF_vars(work_thread(w))

-----------------------------------------------------------------------------
(* Properties *)

TypeOK ==
    /\ arr \in [Index -> [iden : Iden \cup {MGR_IDEN_DEFAULT}, tid : Worker \cup {0},
                          thread_id : Worker \cup {0}, stop : BOOLEAN, pause : BOOLEAN]]
    /\ phase \in [Worker -> {"none", "created", "sleeping", "check_exit", "check_pause",
                             "work", "returned", "joined"}]
    /\ param \in [Worker -> Index \cup {FIND_NOTHING}]
    /\ new \in Worker \cup {0} /\ id \in Iden \cup {0}
    /\ crash \in BOOLEAN /\ restarted \in BOOLEAN

\* A worker's entry is its own for as long as the worker lives: it still has the
\* identity it was started for, no other worker writes there, and the worker works
\* only when it is the one recorded in it, so that the user's flags reach it,
\* whatever the delay between its creation and the record; unless an identity was
\* started again (ThreadImpl_Init.cpp:245-306).
ParamStaysValid ==
    ~restarted => \A w \in Worker : Live(w) =>
        /\ arr[param[w]].iden = startedAs[w]
        /\ \A v \in Worker : Live(v) /\ param[v] = param[w] => v = w
        /\ phase[w] = "work" => arr[param[w]].tid = w /\ Control(w) = param[w]

\* When a release reports success, no worker of that identity is left; unless an
\* identity was started again (ThreadImpl_Init.cpp:283-310).
ReleaseEndsWorker ==
    ~restarted => \A w \in Worker : Live(w) => startedAs[w] # released

\* Every call comes to an end: the worker that a release waits for sees the stop
\* flag, paused or not, also when its identity was started again
\* (ThreadImpl_Init.cpp:285-299).
CallsReturn == pc # "ready" ~> pc = "ready" \/ crash

Recorded(w) == param[w] \in Index /\ arr[param[w]].tid = w

Superseded ==
    {w \in Worker :
        /\ Live(w) /\ phase[w] # "returned"
        /\ \E v \in Worker : w < v /\ startedAs[v] = startedAs[w] /\ Recorded(v)}

\* A worker whose identity was started again is no more found by its thread id,
\* takes that for a stop and ends, paused or not: an identity has one working
\* thread in the end, although nobody joins the other (ThreadImpl_Init.cpp:268,
\* ThreadImpl_Check.cpp:53-72).
SupersededEnds == Superseded # {} ~> Superseded = {} \/ crash

\* "create child thread and start it" (ThreadHeader.h:104): a worker whose thread id
\* is recorded before it looks for it gets to its work, unless the user pauses or
\* stops it or starts its identity again.
RecordedWorks ==
    \A w \in Worker :
        phase[w] \in {"created", "sleeping"} /\ Recorded(w) ~>
            \/ phase[w] = "work"
            \/ ~Recorded(w)
            \/ arr[param[w]].stop \/ (pc = "ready" /\ arr[param[w]].pause)
            \/ crash
=============================================================================
