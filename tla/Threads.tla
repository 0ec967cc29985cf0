------------------------------ MODULE Threads ------------------------------
(***************************************************************************)
(* The threads of an interpreter process (main.c, builtins-thread.c,       *)
(* main_thread and user_thread in interp.c): main() starts a thread for    *)
(* each script of the command line and one for the memory manager, waits   *)
(* until no main thread runs, stops the memory manager and ends.  Scripts  *)
(* start threads of their own.                                             *)
(*                                                                         *)
(* A new thread is handed its thread object in the variable                *)
(* new_thread_object, under thread_registry_lock, which the creator takes  *)
(* and the new thread releases.  A thread stands for its thread object     *)
(* too.  A creation that fails unlocks and leaves no trace.                *)
(***************************************************************************)
EXTENDS Integers, FiniteSets, SequencesExt

CONSTANTS
  Main1,        \* the thread of the script argv[0]
  MoreMains,    \* the other main threads of the command line
  UserThreads,  \* what scripts may start
  MemMgr, Console,
  MaxThreads,   \* bound: threads beside main() in one run of the process
  None

MainThreads == {Main1} \union MoreMains
Threads == MainThreads \union UserThreads \union {MemMgr}
Procs == Threads \union {Console}

ASSUME ThreadsAssumption ==
  /\ IsFiniteSet(Threads) /\ MaxThreads \in Nat
  /\ Main1 \notin MoreMains /\ MainThreads \intersect UserThreads = {}
  /\ MemMgr \notin MainThreads \union UserThreads
  /\ Console \notin Threads /\ None \notin Procs

VARIABLES
  to_start,              \* what main() has not started yet
  interactive,           \* cmd_line_option_i_flg
  console, pc,           \* where main() and the threads are
  registry_lock, new_thread_object, registry,
  self,                  \* self[t]: what register_thread returned to t
  os_id,                 \* os_id[p]: the identifier of p's system thread, and
  apr_os_thread,         \* the one that its thread object names
  running,               \* the thread objects with running set
  start_lock,            \* start_main_lock
  started,               \* main_threads_started # 0
  main_threads_running,
  loaded,                \* loaded[t]: the counter as t loaded it for ++ or --
  found, main_id,        \* main_id[t], and the one t has found free
  missing,               \* the main threads whose script was not found
  req_termination, terminated,
  miscounted, foreign    \* histories: an update of the counter was lost, sys.exit
                         \* was called by another thread than a main thread

cmdline == <<to_start, interactive>>
registers == <<registry_lock, new_thread_object, registry, self, os_id, apr_os_thread>>
counter == <<main_threads_running, loaded, miscounted, foreign>>
ids == <<found, main_id>>
mem_mgr == <<req_termination, terminated>>
threads == <<pc, registers, running, start_lock, started, counter, ids, missing>>
vars == <<cmdline, console, threads, mem_mgr>>

Ids == 0 .. Cardinality(MainThreads)   \* Main, Main1, ...

TypeOK ==
  /\ to_start \subseteq MainThreads \union {MemMgr} /\ interactive \in BOOLEAN
  /\ console \in {"code", "start", "wait", "waiting", "console",
                  "last", "final", "exited"}
  /\ pc \in [Threads -> {"none", "new", "enter", "count", "choose", "publish", "load", "body",
                         "exiting", "lookup", "ending", "ended"}]
  /\ registry_lock \in BOOLEAN /\ start_lock \in BOOLEAN /\ started \in BOOLEAN
  /\ new_thread_object \in Threads \union {None} /\ registry \in Seq(Procs)
  /\ self \in [Threads -> Threads \union {None}]
  /\ os_id \in [Procs -> Procs \union {None}] /\ apr_os_thread \in [Procs -> Procs \union {None}]
  /\ running \subseteq Procs
  /\ main_threads_running \in Int /\ loaded \in [Threads -> Int]
  /\ found \in [MainThreads -> Ids] /\ main_id \in [MainThreads -> Ids \union {None}]
  /\ missing \subseteq MainThreads
  /\ req_termination \in BOOLEAN /\ terminated \in BOOLEAN
  /\ miscounted \in BOOLEAN /\ foreign \in BOOLEAN

\* After thread_init, with any command line.
Init ==
  /\ to_start \in {S \in SUBSET (MainThreads \union {MemMgr}) : Cardinality(S) <= MaxThreads}
  /\ interactive \in BOOLEAN
  /\ console = "code" /\ pc = [t \in Threads |-> "none"]
  /\ registry_lock = FALSE /\ new_thread_object = None /\ registry = <<Console>>
  /\ self = [t \in Threads |-> None]
  /\ os_id = [p \in Procs |-> IF p = Console THEN Console ELSE None]
  /\ apr_os_thread = os_id
  /\ running = {Console}
  /\ start_lock = FALSE /\ started = FALSE
  /\ main_threads_running = 0 /\ loaded = [t \in Threads |-> 0]
  /\ found = [t \in MainThreads |-> 0] /\ main_id = [t \in MainThreads |-> None]
  /\ missing = {}
  /\ req_termination = FALSE /\ terminated = FALSE
  /\ miscounted = FALSE /\ foreign = FALSE

-----------------------------------------------------------------------------
(* Starting a thread *)

\* The system gives a new identifier, which here is the thread's name, or the
\* identifier of a thread that has ended.
FreeIds(t) == ({t} \union {apr_os_thread[u] : u \in {v \in Threads : pc[v] = "ended"}})
              \ {os_id[p] : p \in Procs}

\* Mutant: the creator does not wait for the thread before to be registered.
NewThreadUnlocked(t) ==
  /\ pc[t] = "none"
  /\ registry_lock' = TRUE
  /\ new_thread_object' = t
  /\ \E i \in FreeIds(t) : os_id' = [os_id EXCEPT ![t] = i]
  /\ UNCHANGED <<registry, self, apr_os_thread>>

\* Mutant: the object is not handed over.
NewThreadForgotten(t) ==
  /\ pc[t] = "none"
  /\ ~registry_lock
  /\ registry_lock' = TRUE
  /\ \E i \in FreeIds(t) : os_id' = [os_id EXCEPT ![t] = i]
  /\ UNCHANGED <<new_thread_object, registry, self, apr_os_thread>>

\* new_thread_obj: the lock stays taken.
NewThread(t) ==
  /\ pc[t] = "none"
  /\ ~registry_lock
  /\ registry_lock' = TRUE
  /\ new_thread_object' = t
  /\ \E i \in FreeIds(t) : os_id' = [os_id EXCEPT ![t] = i]
  /\ UNCHANGED <<registry, self, apr_os_thread>>

\* Mutant: the thread's identifier is not stored.
RegisterNameless(t) ==
  /\ registry' = Append(registry, new_thread_object)
  /\ running' = running \union {new_thread_object}
  /\ self' = [self EXCEPT ![t] = new_thread_object]
  /\ registry_lock' = FALSE
  /\ UNCHANGED <<new_thread_object, os_id, apr_os_thread>>

\* Mutant: the registry's lock is not released.
RegisterLocked(t) ==
  /\ apr_os_thread' = [apr_os_thread EXCEPT ![new_thread_object] = os_id[t]]
  /\ registry' = Append(registry, new_thread_object)
  /\ running' = running \union {new_thread_object}
  /\ self' = [self EXCEPT ![t] = new_thread_object]
  /\ UNCHANGED <<registry_lock, new_thread_object, os_id>>

\* register_thread: the first thing that a thread does.
RegisterThread(t) ==
  /\ apr_os_thread' = [apr_os_thread EXCEPT ![new_thread_object] = os_id[t]]
  /\ registry' = Append(registry, new_thread_object)
  /\ running' = running \union {new_thread_object}
  /\ self' = [self EXCEPT ![t] = new_thread_object]
  /\ registry_lock' = FALSE
  /\ UNCHANGED <<new_thread_object, os_id>>

\* os_thread_2_obj, os_thread_2_apr: the first registered object with the
\* identifier; an object stays registered when its thread has ended.
Lookup(id) ==
  LET named == {i \in DOMAIN registry : apr_os_thread[registry[i]] = id} IN
  IF named = {} THEN None ELSE registry[CHOOSE i \in named : \A j \in named : i <= j]

Register(t) ==
  /\ pc[t] = "new"
  /\ RegisterThread(t)
  /\ pc' = [pc EXCEPT ![t] = IF t \in MainThreads THEN "enter" ELSE "body"]
  /\ UNCHANGED <<cmdline, console, start_lock, started, counter, ids, missing,
                 mem_mgr>>

\* p executes the code of a script, of option -c or of the console.
Executes(p) ==
  \/ p = Console /\ console \in {"code", "console", "last"}
  \/ p \in Threads \ {MemMgr} /\ pc[p] = "body"

\* Thread(func).
StartUserThread(p, u) ==
  /\ Executes(p)
  /\ Cardinality(to_start \union {v \in Threads : pc[v] # "none"}) < MaxThreads
  /\ NewThread(u)
  /\ pc' = [pc EXCEPT ![u] = "new"]
  /\ UNCHANGED <<cmdline, console, running, start_lock, started, counter, ids,
                 missing, mem_mgr>>

-----------------------------------------------------------------------------
(* The counter of running main threads.  ++ is under start_main_lock, -- is *)
(* not, and each is a load and a store.                                     *)

Load(t) == loaded' = [loaded EXCEPT ![t] = main_threads_running]

AddLoaded(t, d) ==
  /\ main_threads_running' = loaded[t] + d
  /\ loaded' = [loaded EXCEPT ![t] = 0]
  /\ miscounted' = (miscounted \/ main_threads_running # loaded[t])

-----------------------------------------------------------------------------
(* A main thread *)

\* Mutant: start_main_lock is not taken.
EnterUnlocked(t) ==
  /\ pc[t] = "enter"
  /\ start_lock' = TRUE
  /\ started' = TRUE
  /\ Load(t)
  /\ pc' = [pc EXCEPT ![t] = "count"]
  /\ UNCHANGED <<cmdline, console, registers, running, main_threads_running,
                 miscounted, foreign, ids, missing, mem_mgr>>

Enter(t) ==
  /\ pc[t] = "enter"
  /\ ~start_lock
  /\ start_lock' = TRUE
  /\ started' = TRUE
  /\ Load(t)
  /\ pc' = [pc EXCEPT ![t] = "count"]
  /\ UNCHANGED <<cmdline, console, registers, running, main_threads_running,
                 miscounted, foreign, ids, missing, mem_mgr>>

\* Mutant: the thread is not counted.
CountNot(t) ==
  /\ pc[t] = "count"
  /\ loaded' = [loaded EXCEPT ![t] = 0]
  /\ pc' = [pc EXCEPT ![t] = "choose"]
  /\ UNCHANGED <<main_threads_running, miscounted, cmdline, console, registers, running,
                 start_lock, started, foreign, ids, missing, mem_mgr>>

Count(t) ==
  /\ pc[t] = "count"
  /\ AddLoaded(t, 1)
  /\ pc' = [pc EXCEPT ![t] = "choose"]
  /\ UNCHANGED <<cmdline, console, registers, running, start_lock, started, foreign,
                 ids, missing, mem_mgr>>

\* The first of Main, Main1, ... that is not a module.  Modules only come, so the
\* last look finds the first free name.
Choose(t) ==
  LET free == Ids \ {main_id[u] : u \in MainThreads} IN
  /\ pc[t] = "choose"
  /\ \E i \in free : /\ \A j \in free : i <= j
                     /\ found' = [found EXCEPT ![t] = i]
  /\ pc' = [pc EXCEPT ![t] = "publish"]
  /\ UNCHANGED <<cmdline, console, registers, running, start_lock, started, counter,
                 main_id, missing, mem_mgr>>

Publish(t) ==
  /\ pc[t] = "publish"
  /\ main_id' = [main_id EXCEPT ![t] = found[t]]
  /\ start_lock' = FALSE
  /\ pc' = [pc EXCEPT ![t] = "load"]
  /\ UNCHANGED <<cmdline, console, registers, running, started, counter, found,
                 missing, mem_mgr>>

\* "File %s not found, execution aborted": the lock is released once more, and
\* the thread is not counted down.
FileNotFound(t) ==
  /\ pc[t] = "load"
  /\ missing' = missing \union {t}
  /\ start_lock' = FALSE
  /\ pc' = [pc EXCEPT ![t] = "ended"]
  /\ os_id' = [os_id EXCEPT ![t] = None]
  /\ UNCHANGED <<cmdline, console, registry_lock, new_thread_object, registry, self,
                 apr_os_thread, running, started, counter, ids, mem_mgr>>

Found(t) ==
  /\ pc[t] = "load"
  /\ pc' = [pc EXCEPT ![t] = "body"]
  /\ UNCHANGED <<cmdline, console, registers, running, start_lock, started, counter,
                 ids, missing, mem_mgr>>

Finish(t) ==
  /\ pc[t] = "body" /\ t \in MainThreads
  /\ Load(t)
  /\ pc' = [pc EXCEPT ![t] = "ending"]
  /\ UNCHANGED <<cmdline, console, registers, running, start_lock, started,
                 main_threads_running, miscounted, foreign, ids, missing, mem_mgr>>

\* Mutant: a main thread that ends is not counted down.
EndUncounted(t) ==
  /\ pc[t] = "ending"
  /\ loaded' = [loaded EXCEPT ![t] = 0]
  /\ running' = running \ {self[t]}
  /\ pc' = [pc EXCEPT ![t] = "ended"]
  /\ os_id' = [os_id EXCEPT ![t] = None]
  /\ UNCHANGED <<main_threads_running, miscounted, cmdline, console, registry_lock,
                 new_thread_object, registry, self, apr_os_thread, start_lock,
                 started, foreign, ids, missing, mem_mgr>>

End(t) ==
  /\ pc[t] = "ending"
  /\ AddLoaded(t, -1)
  /\ running' = running \ {self[t]}
  /\ pc' = [pc EXCEPT ![t] = "ended"]
  /\ os_id' = [os_id EXCEPT ![t] = None]
  /\ UNCHANGED <<cmdline, console, registry_lock, new_thread_object, registry, self,
                 apr_os_thread, start_lock, started, foreign, ids, missing,
                 mem_mgr>>

EndUserThread(t) ==
  /\ pc[t] = "body" /\ t \in UserThreads
  /\ running' = running \ {self[t]}
  /\ pc' = [pc EXCEPT ![t] = "ended"]
  /\ os_id' = [os_id EXCEPT ![t] = None]
  /\ UNCHANGED <<cmdline, console, registry_lock, new_thread_object, registry, self,
                 apr_os_thread, start_lock, started, counter, ids, missing,
                 mem_mgr>>

\* The memory manager's thread object stays running.
EndMemMgr ==
  /\ pc[MemMgr] = "body" /\ req_termination
  /\ terminated' = TRUE
  /\ pc' = [pc EXCEPT ![MemMgr] = "ended"]
  /\ os_id' = [os_id EXCEPT ![MemMgr] = None]
  /\ UNCHANGED <<cmdline, console, registry_lock, new_thread_object, registry, self,
                 apr_os_thread, running, start_lock, started, counter, ids, missing,
                 req_termination>>

-----------------------------------------------------------------------------
(* sys.exit, in any thread that runs a script: the thread is counted down   *)
(* and looks itself up under the registry's lock.  Its thread object stays  *)
(* running.                                                                 *)

SysExit(t) ==
  /\ Executes(t)
  /\ Load(t)
  /\ pc' = [pc EXCEPT ![t] = "exiting"]
  /\ UNCHANGED <<cmdline, console, registers, running, start_lock, started,
                 main_threads_running, miscounted, foreign, ids, missing, mem_mgr>>

SysExitCount(t) ==
  /\ pc[t] = "exiting"
  /\ AddLoaded(t, -1)
  /\ foreign' = (foreign \/ t \notin MainThreads)
  /\ pc' = [pc EXCEPT ![t] = "lookup"]
  /\ UNCHANGED <<cmdline, console, registers, running, start_lock, started, ids,
                 missing, mem_mgr>>

\* A thread that does not find itself goes on, with an exception.
ThreadExit(t) ==
  LET known == Lookup(os_id[t]) \in Threads IN
  /\ pc[t] = "lookup" /\ ~registry_lock
  /\ pc' = [pc EXCEPT ![t] = IF known THEN "ended" ELSE "body"]
  /\ os_id' = IF known THEN [os_id EXCEPT ![t] = None] ELSE os_id
  /\ UNCHANGED <<cmdline, console, registry_lock, new_thread_object, registry, self,
                 apr_os_thread, running, start_lock, started, counter, ids, missing,
                 mem_mgr>>

-----------------------------------------------------------------------------
(* main() *)

Goto(from, to) == console = from /\ console' = to

\* The code of option -c, or none, has been run.
RunCode ==
  /\ Goto("code", "start")
  /\ UNCHANGED <<cmdline, threads, mem_mgr>>

\* sys.exit in the console thread counts down and raises "sys_exit: no thread to
\* exit": the thread has no apr_thread.  Bound: once, and before another thread
\* than a main thread calls it.  It is one step: after it the count is wrong.
ConsoleSysExit ==
  /\ Executes(Console) /\ ~foreign
  /\ main_threads_running' = main_threads_running - 1
  /\ foreign' = TRUE
  /\ UNCHANGED <<cmdline, console, pc, registers, running, start_lock, started, loaded,
                 miscounted, ids, missing, mem_mgr>>

StartThread(t) ==
  /\ console = "start" /\ t \in to_start
  /\ t # Main1 => Main1 \notin to_start
  /\ t = MemMgr => to_start = {MemMgr}
  /\ NewThread(t)
  /\ to_start' = to_start \ {t}
  /\ pc' = [pc EXCEPT ![t] = "new"]
  /\ UNCHANGED <<interactive, console, running, start_lock, started, counter, ids,
                 missing, mem_mgr>>

\* "Grab this lock, so we know all threads are started".
AllStarted ==
  /\ Goto("start", "wait") /\ to_start = {}
  /\ ~registry_lock
  /\ UNCHANGED <<cmdline, threads, mem_mgr>>

\* The test of main_threads_started; the console is read until the user leaves.
AnyStarted ==
  /\ Goto("wait", IF started THEN "waiting" ELSE "last")
  /\ UNCHANGED <<cmdline, threads, mem_mgr>>

\* Option -i: the console is read when the first script is done, or at the end.
OpenConsole ==
  /\ Goto("waiting", "console")
  /\ main_threads_running # 0 /\ interactive
  /\ pc[Main1] # "none" => Main1 \notin running
  /\ interactive' = FALSE
  /\ UNCHANGED <<to_start, threads, mem_mgr>>

CloseConsole ==
  /\ Goto("console", "waiting")
  /\ UNCHANGED <<cmdline, threads, mem_mgr>>

\* Leaving the wait, or the console, is followed by stop_mem_mgr.
RequestTermination ==
  req_termination' = (pc[MemMgr] # "none") /\ UNCHANGED terminated

NoMainRuns ==
  /\ main_threads_running = 0
  /\ \/ interactive /\ Goto("waiting", "last") /\ UNCHANGED mem_mgr
     \/ ~interactive /\ Goto("waiting", "final") /\ RequestTermination
  /\ UNCHANGED <<cmdline, threads>>

LeaveConsole ==
  /\ Goto("last", "final")
  /\ RequestTermination
  /\ UNCHANGED <<cmdline, threads>>

\* The memory manager has terminated or its time is up; finalize_all, and the
\* process ends with all its threads.
Exit ==
  /\ Goto("final", "exited")
  /\ UNCHANGED <<cmdline, threads, mem_mgr>>

-----------------------------------------------------------------------------

\* What a thread does by itself, without a decision of its script.
ThreadStep(t) ==
  \/ Register(t) \/ Enter(t) \/ Count(t) \/ Choose(t) \/ Publish(t)
  \/ FileNotFound(t) \/ Found(t) \/ End(t) \/ SysExitCount(t) \/ ThreadExit(t)

Script(t) == Finish(t) \/ EndUserThread(t) \/ SysExit(t)

Code == ConsoleSysExit \/ \E p \in Procs, u \in UserThreads : StartUserThread(p, u)

MainStep ==
  \/ RunCode
  \/ (\E t \in MainThreads \union {MemMgr} : StartThread(t))
  \/ AllStarted \/ AnyStarted \/ OpenConsole \/ CloseConsole \/ NoMainRuns
  \/ LeaveConsole \/ Exit

Next ==
  \/ MainStep
  \/ /\ console # "exited"
     /\ Code \/ EndMemMgr \/ \E t \in Threads : ThreadStep(t) \/ Script(t)

Spec == Init /\ [][Next]_vars

\* Fairness: a runnable thread runs.  What a script or the user of the console
\* decides may never come.
Fairness ==
  /\ WF_vars(MainStep /\ console \notin {"code", "console", "last"})
  /\ WF_vars(console # "exited" /\ EndMemMgr)
  /\ \A t \in Threads : WF_vars(console # "exited" /\ ThreadStep(t))

FairSpec == Spec /\ Fairness

-----------------------------------------------------------------------------
(* Properties *)

\* The thread that registers is the one that the object was made for, and main()
\* sees every thread of the command line registered.
HandedOver ==
  /\ \A t \in Threads : self[t] \in {None, t}
  /\ console \notin {"code", "start", "exited"} =>
       \A t \in MainThreads \union {MemMgr} : pc[t] # "new"

\* A thread that looks itself up finds its own object, or that of an ended thread
\* whose identifier the system gave to it: never that of another live thread.
FindsItself ==
  \A t \in Threads : pc[t] \in {"enter", "count", "choose", "publish", "load", "body",
                              "exiting", "lookup", "ending"} =>
    LET o == Lookup(os_id[t]) IN o = t \/ (o \in Threads /\ pc[o] = "ended")

\* Two scripts are never loaded as the same module, unless the script of a third
\* was missing and released start_main_lock for one that held it.
MainsDistinct ==
  missing = {} =>
    \A t, u \in MainThreads : t # u /\ main_id[t] # None => main_id[t] # main_id[u]

Counted == {t \in MainThreads : pc[t] \in {"choose", "publish", "load", "body", "exiting", "ending"}}

\* main() leaves its wait while a counted main thread still runs only if another
\* thread called sys.exit, or two threads counted at once.
WaitsForCounted ==
  [][console = "waiting" /\ console' \in {"last", "final"} =>
       Counted = {} \/ foreign \/ miscounted]_vars

\* What can make a step: the guards of the actions, without ENABLED.
MainRunnable ==
  \/ console \in {"code", "wait", "console", "last", "final"}
  \/ /\ console = "start" /\ ~registry_lock
     /\ \/ to_start = {}
        \/ \E t \in to_start : /\ t # Main1 => Main1 \notin to_start
                               /\ t = MemMgr => to_start = {MemMgr}
                               /\ pc[t] = "none" /\ FreeIds(t) # {}
  \/ /\ console = "waiting"
     /\ \/ main_threads_running = 0
        \/ interactive /\ (pc[Main1] # "none" => Main1 \notin running)

Runnable(t) ==
  \/ pc[t] \in {"new", "count", "publish", "load", "exiting", "ending"}
  \/ pc[t] = "enter" /\ ~start_lock
  \/ pc[t] = "choose" /\ Ids \ {main_id[u] : u \in MainThreads} # {}
  \/ pc[t] = "lookup" /\ ~registry_lock
  \/ pc[t] = "body" /\ (t = MemMgr => req_termination)

Hangs == console # "exited" /\ ~MainRunnable /\ \A t \in Threads : ~Runnable(t)

\* The process hangs only when main() waits, every script has ended, and the count
\* is not zero: a script was missing, another thread called sys.exit, or an update
\* was lost.  No thread ever waits for a lock for good.
HangsKnown ==
  Hangs =>
    /\ console = "waiting" /\ main_threads_running # 0
    /\ \A t \in Threads \ {MemMgr} : pc[t] \in {"none", "ended"}
    /\ miscounted \/ foreign \/ missing # {}

MainsDone ==
  console \notin {"code", "start"} /\ \A t \in MainThreads : pc[t] \in {"none", "ended"}

Undisturbed ==
  /\ ~miscounted /\ ~foreign /\ missing = {}
  /\ console \notin {"console", "last"}

\* When all scripts end, the process ends.
Ends == []Undisturbed /\ <>MainsDone => <>(console = "exited")

\* "Grab this lock, so we know all threads are started" (main.c): then every
\* script of the command line is counted as started.
AllCounted ==
  console = "waiting" \/ console = "last" =>
    \A t \in MainThreads : pc[t] \notin {"new", "enter", "count"}
=============================================================================
