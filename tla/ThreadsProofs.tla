--------------------------- MODULE ThreadsProofs ---------------------------
(***************************************************************************)
(* For any number of scripts and threads: every thread gets the object     *)
(* that was made for it, main() sees every thread of the command line      *)
(* registered, and two scripts never get the same module while none is     *)
(* missing.  A thread that sys.exit looks up by the identifier of its      *)
(* system thread is never taken for another live one.  main() does not     *)
(* leave its wait while a script it has counted runs, unless an update of  *)
(* the counter was lost or another thread called sys.exit; and the process *)
(* hangs only for these reasons, or because a script was missing.          *)
(***************************************************************************)
EXTENDS Threads, FiniteSetTheorems, SequenceTheorems, WellFoundedInduction, TLAPS

\* The registry's lock is held from the creation of a thread to its registration,
\* and new_thread_object is that thread's meanwhile.
Handoff ==
  /\ \A t \in Threads : pc[t] = "new" => registry_lock /\ new_thread_object = t
  /\ \A t \in Threads : self[t] \in {None, t}
  /\ console \notin {"code", "start", "exited"} =>
       \A t \in MainThreads \union {MemMgr} : pc[t] # "new"

Section == {"count", "choose", "publish"}

OnlyMains ==
  \A t \in Threads : pc[t] \in {"enter", "load", "ending"} \union Section => t \in MainThreads

\* start_main_lock protects the choice of a module name, until a missing script
\* releases it.
Exclusion ==
  missing = {} =>
    /\ \A t \in MainThreads : pc[t] \in Section => start_lock
    /\ \A t, u \in MainThreads : pc[t] \in Section /\ pc[u] \in Section => t = u
    /\ \A t, u \in MainThreads : pc[t] = "publish" => main_id[u] # found[t]
    /\ \A t, u \in MainThreads : t # u /\ main_id[t] # None => main_id[t] # main_id[u]

IndInv == TypeOK /\ Handoff /\ OnlyMains /\ Exclusion

-----------------------------------------------------------------------------
(* Every step keeps the invariant *)

LEMMA SetFacts ==
  /\ MainThreads \subseteq Threads /\ UserThreads \subseteq Threads /\ MemMgr \in Threads
  /\ MainThreads \intersect UserThreads = {} /\ MemMgr \notin MainThreads \union UserThreads
  /\ Threads \subseteq Procs /\ Console \in Procs \ Threads /\ None \notin Procs
BY ThreadsAssumption DEF MainThreads, Threads, Procs

LEMMA RegisterInv ==
  ASSUME IndInv, NEW t \in Threads, Register(t)
  PROVE  IndInv'
<1> USE SetFacts DEF IndInv, Register, RegisterThread,
        cmdline, registers, counter, ids, mem_mgr, threads
<1>1. TypeOK'
  <2>1. new_thread_object = t /\ t \in Procs /\ running' = running \union {t}
    BY DEF Handoff
  <2>2. registry' \in Seq(Procs)
    BY <2>1, AppendProperties DEF TypeOK
  <2>3. /\ self' \in [Threads -> Threads \union {None}]
        /\ apr_os_thread' \in [Procs -> Procs \union {None}]
    BY <2>1 DEF TypeOK
  <2>4. pc' \in [Threads -> {"none", "new", "enter", "count", "choose", "publish", "load", "body",
                             "exiting", "lookup", "ending", "ended"}]
    BY DEF TypeOK
  <2> QED
    BY <2>1, <2>2, <2>3, <2>4, ZenonT(60) DEF TypeOK
<1>2. Handoff'
  BY DEF TypeOK, Handoff
<1>3. OnlyMains'
  BY DEF TypeOK, OnlyMains, Section
<1>4. Exclusion'
  BY DEF TypeOK, OnlyMains, Exclusion, Section
<1> QED
  BY <1>1, <1>2, <1>3, <1>4

LEMMA StartUserThreadInv ==
  ASSUME IndInv, NEW t \in Procs, NEW u \in UserThreads, StartUserThread(t, u)
  PROVE  IndInv'
<1> USE SetFacts DEF IndInv, StartUserThread, NewThread, Executes,
        cmdline, registers, counter, ids, mem_mgr, threads
<1>1. TypeOK'
  BY DEF TypeOK, Handoff, OnlyMains, Section, FreeIds
<1>2. Handoff'
  BY DEF TypeOK, Handoff
<1>3. OnlyMains'
  BY DEF TypeOK, OnlyMains, Section
<1>4. Exclusion'
  BY DEF TypeOK, OnlyMains, Exclusion, Section
<1> QED
  BY <1>1, <1>2, <1>3, <1>4

LEMMA ConsoleSysExitInv ==
  ASSUME IndInv, ConsoleSysExit
  PROVE  IndInv'
<1> USE SetFacts DEF IndInv, ConsoleSysExit, Executes,
        cmdline, registers, counter, ids, mem_mgr, threads
<1>1. TypeOK'
  BY DEF TypeOK, Handoff, OnlyMains, Section, FreeIds
<1>2. Handoff'
  BY DEF TypeOK, Handoff
<1>3. OnlyMains'
  BY DEF TypeOK, OnlyMains, Section
<1>4. Exclusion'
  BY DEF TypeOK, OnlyMains, Exclusion, Section
<1> QED
  BY <1>1, <1>2, <1>3, <1>4

LEMMA EnterInv ==
  ASSUME IndInv, NEW t \in Threads, Enter(t)
  PROVE  IndInv'
<1> USE SetFacts DEF IndInv, Enter, Load,
        cmdline, registers, counter, ids, mem_mgr, threads
<1>1. TypeOK'
  BY DEF TypeOK, Handoff, OnlyMains, Section, FreeIds
<1>2. Handoff'
  BY DEF TypeOK, Handoff
<1>3. OnlyMains'
  BY DEF TypeOK, OnlyMains, Section
<1>4. Exclusion'
  BY DEF TypeOK, OnlyMains, Exclusion, Section
<1> QED
  BY <1>1, <1>2, <1>3, <1>4

LEMMA CountInv ==
  ASSUME IndInv, NEW t \in Threads, Count(t)
  PROVE  IndInv'
<1> USE SetFacts DEF IndInv, Count, AddLoaded,
        cmdline, registers, counter, ids, mem_mgr, threads
<1>1. TypeOK'
  BY DEF TypeOK, Handoff, OnlyMains, Section, FreeIds
<1>2. Handoff'
  BY DEF TypeOK, Handoff
<1>3. OnlyMains'
  BY DEF TypeOK, OnlyMains, Section
<1>4. Exclusion'
  BY DEF TypeOK, OnlyMains, Exclusion, Section
<1> QED
  BY <1>1, <1>2, <1>3, <1>4

LEMMA ChooseInv ==
  ASSUME IndInv, NEW t \in Threads, Choose(t)
  PROVE  IndInv'
<1> USE SetFacts DEF IndInv, Choose,
        cmdline, registers, counter, ids, mem_mgr, threads
<1>1. TypeOK'
  BY DEF TypeOK, Handoff, OnlyMains, Section, FreeIds
<1>2. Handoff'
  BY DEF TypeOK, Handoff
<1>3. OnlyMains'
  BY DEF TypeOK, OnlyMains, Section
<1>4. Exclusion'
  BY DEF TypeOK, OnlyMains, Exclusion, Section
<1> QED
  BY <1>1, <1>2, <1>3, <1>4

LEMMA PublishInv ==
  ASSUME IndInv, NEW t \in Threads, Publish(t)
  PROVE  IndInv'
<1> USE SetFacts DEF IndInv, Publish,
        cmdline, registers, counter, ids, mem_mgr, threads
<1>1. TypeOK'
  BY ZenonT(60) DEF TypeOK, Handoff, OnlyMains, Section, FreeIds
<1>2. Handoff'
  BY DEF TypeOK, Handoff
<1>3. OnlyMains'
  BY DEF TypeOK, OnlyMains, Section
<1>4. Exclusion'
  BY DEF TypeOK, OnlyMains, Exclusion, Section
<1> QED
  BY <1>1, <1>2, <1>3, <1>4

LEMMA FileNotFoundInv ==
  ASSUME IndInv, NEW t \in Threads, FileNotFound(t)
  PROVE  IndInv'
<1> USE SetFacts DEF IndInv, FileNotFound,
        cmdline, registers, counter, ids, mem_mgr, threads
<1>1. TypeOK'
  BY ZenonT(60) DEF TypeOK, Handoff, OnlyMains, Section, FreeIds
<1>2. Handoff'
  BY DEF TypeOK, Handoff
<1>3. OnlyMains'
  BY DEF TypeOK, OnlyMains, Section
<1>4. Exclusion'
  BY DEF TypeOK, OnlyMains, Exclusion, Section
<1> QED
  BY <1>1, <1>2, <1>3, <1>4

LEMMA FoundInv ==
  ASSUME IndInv, NEW t \in Threads, Found(t)
  PROVE  IndInv'
<1> USE SetFacts DEF IndInv, Found,
        cmdline, registers, counter, ids, mem_mgr, threads
<1>1. TypeOK'
  BY DEF TypeOK, Handoff, OnlyMains, Section, FreeIds
<1>2. Handoff'
  BY DEF TypeOK, Handoff
<1>3. OnlyMains'
  BY DEF TypeOK, OnlyMains, Section
<1>4. Exclusion'
  BY DEF TypeOK, OnlyMains, Exclusion, Section
<1> QED
  BY <1>1, <1>2, <1>3, <1>4

LEMMA FinishInv ==
  ASSUME IndInv, NEW t \in Threads, Finish(t)
  PROVE  IndInv'
<1> USE SetFacts DEF IndInv, Finish, Load,
        cmdline, registers, counter, ids, mem_mgr, threads
<1>1. TypeOK'
  BY DEF TypeOK, Handoff, OnlyMains, Section, FreeIds
<1>2. Handoff'
  BY DEF TypeOK, Handoff
<1>3. OnlyMains'
  BY DEF TypeOK, OnlyMains, Section
<1>4. Exclusion'
  BY DEF TypeOK, OnlyMains, Exclusion, Section
<1> QED
  BY <1>1, <1>2, <1>3, <1>4

LEMMA EndInv ==
  ASSUME IndInv, NEW t \in Threads, End(t)
  PROVE  IndInv'
<1> USE SetFacts DEF IndInv, End, AddLoaded,
        cmdline, registers, counter, ids, mem_mgr, threads
<1>1. TypeOK'
  BY DEF TypeOK, Handoff, OnlyMains, Section, FreeIds
<1>2. Handoff'
  BY DEF TypeOK, Handoff
<1>3. OnlyMains'
  BY DEF TypeOK, OnlyMains, Section
<1>4. Exclusion'
  BY DEF TypeOK, OnlyMains, Exclusion, Section
<1> QED
  BY <1>1, <1>2, <1>3, <1>4

LEMMA EndUserThreadInv ==
  ASSUME IndInv, NEW t \in Threads, EndUserThread(t)
  PROVE  IndInv'
<1> USE SetFacts DEF IndInv, EndUserThread,
        cmdline, registers, counter, ids, mem_mgr, threads
<1>1. TypeOK'
  BY DEF TypeOK, Handoff, OnlyMains, Section, FreeIds
<1>2. Handoff'
  BY DEF TypeOK, Handoff
<1>3. OnlyMains'
  BY DEF TypeOK, OnlyMains, Section
<1>4. Exclusion'
  BY DEF TypeOK, OnlyMains, Exclusion, Section
<1> QED
  BY <1>1, <1>2, <1>3, <1>4

LEMMA EndMemMgrInv ==
  ASSUME IndInv, EndMemMgr
  PROVE  IndInv'
<1> USE SetFacts DEF IndInv, EndMemMgr,
        cmdline, registers, counter, ids, mem_mgr, threads
<1>1. TypeOK'
  BY DEF TypeOK, Handoff, OnlyMains, Section, FreeIds
<1>2. Handoff'
  BY DEF TypeOK, Handoff
<1>3. OnlyMains'
  BY DEF TypeOK, OnlyMains, Section
<1>4. Exclusion'
  BY DEF TypeOK, OnlyMains, Exclusion, Section
<1> QED
  BY <1>1, <1>2, <1>3, <1>4

LEMMA SysExitInv ==
  ASSUME IndInv, NEW t \in Threads, SysExit(t)
  PROVE  IndInv'
<1> USE SetFacts DEF IndInv, SysExit, Load, Executes,
        cmdline, registers, counter, ids, mem_mgr, threads
<1>1. TypeOK'
  BY DEF TypeOK, Handoff, OnlyMains, Section, FreeIds
<1>2. Handoff'
  BY DEF TypeOK, Handoff
<1>3. OnlyMains'
  BY DEF TypeOK, OnlyMains, Section
<1>4. Exclusion'
  BY DEF TypeOK, OnlyMains, Exclusion, Section
<1> QED
  BY <1>1, <1>2, <1>3, <1>4

LEMMA SysExitCountInv ==
  ASSUME IndInv, NEW t \in Threads, SysExitCount(t)
  PROVE  IndInv'
<1> USE SetFacts DEF IndInv, SysExitCount, AddLoaded,
        cmdline, registers, counter, ids, mem_mgr, threads
<1>1. TypeOK'
  BY DEF TypeOK, Handoff, OnlyMains, Section, FreeIds
<1>2. Handoff'
  BY DEF TypeOK, Handoff
<1>3. OnlyMains'
  BY DEF TypeOK, OnlyMains, Section
<1>4. Exclusion'
  BY DEF TypeOK, OnlyMains, Exclusion, Section
<1> QED
  BY <1>1, <1>2, <1>3, <1>4

LEMMA ThreadExitInv ==
  ASSUME IndInv, NEW t \in Threads, ThreadExit(t)
  PROVE  IndInv'
<1> USE SetFacts DEF IndInv, ThreadExit,
        cmdline, registers, counter, ids, mem_mgr, threads
<1>1. TypeOK'
  BY DEF TypeOK, Handoff, OnlyMains, Section, FreeIds
<1>2. Handoff'
  BY DEF TypeOK, Handoff
<1>3. OnlyMains'
  BY DEF TypeOK, OnlyMains, Section
<1>4. Exclusion'
  BY DEF TypeOK, OnlyMains, Exclusion, Section
<1> QED
  BY <1>1, <1>2, <1>3, <1>4

LEMMA RunCodeInv ==
  ASSUME IndInv, RunCode
  PROVE  IndInv'
<1> USE SetFacts DEF IndInv, RunCode, Goto,
        cmdline, registers, counter, ids, mem_mgr, threads
<1>1. TypeOK'
  BY DEF TypeOK, Handoff, OnlyMains, Section, FreeIds
<1>2. Handoff'
  BY DEF TypeOK, Handoff
<1>3. OnlyMains'
  BY DEF TypeOK, OnlyMains, Section
<1>4. Exclusion'
  BY DEF TypeOK, OnlyMains, Exclusion, Section
<1> QED
  BY <1>1, <1>2, <1>3, <1>4

LEMMA StartThreadInv ==
  ASSUME IndInv, NEW t \in Threads, StartThread(t)
  PROVE  IndInv'
<1> USE SetFacts DEF IndInv, StartThread, NewThread,
        cmdline, registers, counter, ids, mem_mgr, threads
<1>1. TypeOK'
  <2>1. os_id' \in [Procs -> Procs \union {None}]
    BY DEF TypeOK, FreeIds
  <2>2. pc' \in [Threads -> {"none", "new", "enter", "count", "choose", "publish", "load", "body",
                             "exiting", "lookup", "ending", "ended"}]
    BY DEF TypeOK
  <2> QED
    BY <2>1, <2>2 DEF TypeOK
<1>2. Handoff'
  BY DEF TypeOK, Handoff
<1>3. OnlyMains'
  BY DEF TypeOK, OnlyMains, Section
<1>4. Exclusion'
  BY DEF TypeOK, OnlyMains, Exclusion, Section
<1> QED
  BY <1>1, <1>2, <1>3, <1>4

LEMMA AllStartedInv ==
  ASSUME IndInv, AllStarted
  PROVE  IndInv'
<1> USE SetFacts DEF IndInv, AllStarted, Goto,
        cmdline, registers, counter, ids, mem_mgr, threads
<1>1. TypeOK'
  BY DEF TypeOK, Handoff, OnlyMains, Section, FreeIds
<1>2. Handoff'
  BY DEF TypeOK, Handoff
<1>3. OnlyMains'
  BY DEF TypeOK, OnlyMains, Section
<1>4. Exclusion'
  BY DEF TypeOK, OnlyMains, Exclusion, Section
<1> QED
  BY <1>1, <1>2, <1>3, <1>4

LEMMA AnyStartedInv ==
  ASSUME IndInv, AnyStarted
  PROVE  IndInv'
<1> USE SetFacts DEF IndInv, AnyStarted, Goto,
        cmdline, registers, counter, ids, mem_mgr, threads
<1>1. TypeOK'
  BY DEF TypeOK, Handoff, OnlyMains, Section, FreeIds
<1>2. Handoff'
  BY DEF TypeOK, Handoff
<1>3. OnlyMains'
  BY DEF TypeOK, OnlyMains, Section
<1>4. Exclusion'
  BY DEF TypeOK, OnlyMains, Exclusion, Section
<1> QED
  BY <1>1, <1>2, <1>3, <1>4

LEMMA OpenConsoleInv ==
  ASSUME IndInv, OpenConsole
  PROVE  IndInv'
<1> USE SetFacts DEF IndInv, OpenConsole, Goto,
        cmdline, registers, counter, ids, mem_mgr, threads
<1>1. TypeOK'
  BY DEF TypeOK, Handoff, OnlyMains, Section, FreeIds
<1>2. Handoff'
  BY DEF TypeOK, Handoff
<1>3. OnlyMains'
  BY DEF TypeOK, OnlyMains, Section
<1>4. Exclusion'
  BY DEF TypeOK, OnlyMains, Exclusion, Section
<1> QED
  BY <1>1, <1>2, <1>3, <1>4

LEMMA CloseConsoleInv ==
  ASSUME IndInv, CloseConsole
  PROVE  IndInv'
<1> USE SetFacts DEF IndInv, CloseConsole, Goto,
        cmdline, registers, counter, ids, mem_mgr, threads
<1>1. TypeOK'
  BY DEF TypeOK, Handoff, OnlyMains, Section, FreeIds
<1>2. Handoff'
  BY DEF TypeOK, Handoff
<1>3. OnlyMains'
  BY DEF TypeOK, OnlyMains, Section
<1>4. Exclusion'
  BY DEF TypeOK, OnlyMains, Exclusion, Section
<1> QED
  BY <1>1, <1>2, <1>3, <1>4

LEMMA NoMainRunsInv ==
  ASSUME IndInv, NoMainRuns
  PROVE  IndInv'
<1> USE SetFacts DEF IndInv, NoMainRuns, Goto, RequestTermination,
        cmdline, registers, counter, ids, mem_mgr, threads
<1>1. TypeOK'
  BY DEF TypeOK, Handoff, OnlyMains, Section, FreeIds
<1>2. Handoff'
  BY DEF TypeOK, Handoff
<1>3. OnlyMains'
  BY DEF TypeOK, OnlyMains, Section
<1>4. Exclusion'
  BY DEF TypeOK, OnlyMains, Exclusion, Section
<1> QED
  BY <1>1, <1>2, <1>3, <1>4

LEMMA LeaveConsoleInv ==
  ASSUME IndInv, LeaveConsole
  PROVE  IndInv'
<1> USE SetFacts DEF IndInv, LeaveConsole, Goto, RequestTermination,
        cmdline, registers, counter, ids, mem_mgr, threads
<1>1. TypeOK'
  BY DEF TypeOK, Handoff, OnlyMains, Section, FreeIds
<1>2. Handoff'
  BY DEF TypeOK, Handoff
<1>3. OnlyMains'
  BY DEF TypeOK, OnlyMains, Section
<1>4. Exclusion'
  BY DEF TypeOK, OnlyMains, Exclusion, Section
<1> QED
  BY <1>1, <1>2, <1>3, <1>4

LEMMA ExitInv ==
  ASSUME IndInv, Exit
  PROVE  IndInv'
<1> USE SetFacts DEF IndInv, Exit, Goto,
        cmdline, registers, counter, ids, mem_mgr, threads
<1>1. TypeOK'
  BY DEF TypeOK, Handoff, OnlyMains, Section, FreeIds
<1>2. Handoff'
  BY DEF TypeOK, Handoff
<1>3. OnlyMains'
  BY DEF TypeOK, OnlyMains, Section
<1>4. Exclusion'
  BY DEF TypeOK, OnlyMains, Exclusion, Section
<1> QED
  BY <1>1, <1>2, <1>3, <1>4

-----------------------------------------------------------------------------
(* The theorems *)

LEMMA InitInv ==
  ASSUME Init
  PROVE  IndInv
<1> USE ThreadsAssumption, SetFacts DEF Init
<1>1. 0 \in Ids
  <2>1. IsFiniteSet(MainThreads)
    BY FS_Subset
  <2> QED
    BY <2>1, FS_CardinalityType DEF Ids
<1>2. <<Console>> \in Seq(Procs)
  OBVIOUS
<1>3. TypeOK
  <2>1. os_id \in [Procs -> Procs \union {None}]
    OBVIOUS
  <2>2. /\ registry \in Seq(Procs) /\ running \subseteq Procs
        /\ to_start \subseteq MainThreads \union {MemMgr}
    BY <1>2
  <2>3. /\ found \in [MainThreads -> Ids] /\ main_id \in [MainThreads -> Ids \union {None}]
        /\ main_threads_running \in Int /\ loaded \in [Threads -> Int]
    BY <1>1
  <2>4. /\ pc \in [Threads -> {"none", "new", "enter", "count", "choose", "publish", "load", "body",
                               "exiting", "lookup", "ending", "ended"}]
        /\ self \in [Threads -> Threads \union {None}]
    OBVIOUS
  <2> QED
    BY <2>1, <2>2, <2>3, <2>4 DEF TypeOK
<1>4. Handoff /\ OnlyMains /\ Exclusion
  BY DEF Handoff, OnlyMains, Exclusion, Section
<1> QED
  BY <1>3, <1>4 DEF IndInv

\* The inductive invariant: the hand-over of thread objects and the choice of
\* module names are each one thread's at a time.
THEOREM Invariance == Spec => []IndInv
<1>1. IndInv /\ [Next]_vars => IndInv'
  <2> SUFFICES ASSUME IndInv, [Next]_vars PROVE IndInv'
    OBVIOUS
  <2>1. CASE MainStep
    <3>1. \A t \in MainThreads \union {MemMgr} : t \in Threads
      BY SetFacts
    <3> QED
      BY <2>1, <3>1, RunCodeInv, StartThreadInv, AllStartedInv, AnyStartedInv, OpenConsoleInv,
         CloseConsoleInv, NoMainRunsInv, LeaveConsoleInv, ExitInv DEF MainStep
  <2>2. CASE EndMemMgr
    BY <2>2, EndMemMgrInv
  <2>3. ASSUME NEW t \in Threads, ThreadStep(t) PROVE IndInv'
    BY <2>3, RegisterInv, EnterInv, CountInv, ChooseInv, PublishInv, FileNotFoundInv, FoundInv,
       EndInv, SysExitCountInv, ThreadExitInv DEF ThreadStep
  <2>4. ASSUME NEW t \in Threads, Script(t) PROVE IndInv'
    BY <2>4, FinishInv, EndUserThreadInv, SysExitInv DEF Script
  <2>5. CASE Code
    BY <2>5, StartUserThreadInv, ConsoleSysExitInv DEF Code
  <2>6. CASE UNCHANGED vars
    BY <2>6 DEF vars, threads, cmdline, registers, counter, ids, mem_mgr, IndInv, TypeOK,
                Handoff, OnlyMains, Exclusion, Section
  <2> QED
    BY <2>1, <2>2, <2>3, <2>4, <2>5, <2>6 DEF Next
<1> QED
  BY InitInv, <1>1, PTL DEF Spec

\* Every variable keeps its type.
THEOREM TypeCorrect == Spec => []TypeOK
<1>1. IndInv => TypeOK
  BY DEF IndInv
<1> QED
  BY <1>1, Invariance, PTL

\* Every thread that registers gets the thread object that was made for it, and
\* main() waits only when each thread of the command line has registered.
THEOREM ObjectsHandedOver == Spec => []HandedOver
<1>1. IndInv => HandedOver
  BY DEF IndInv, Handoff, HandedOver
<1> QED
  BY <1>1, Invariance, PTL

\* While no script is missing, two main threads never load the same module.
THEOREM ModulesDistinct == Spec => []MainsDistinct
<1>1. IndInv => MainsDistinct
  BY DEF IndInv, Exclusion, MainsDistinct
<1> QED
  BY <1>1, Invariance, PTL

-----------------------------------------------------------------------------
(* What a thread is known by *)

Live == {"enter", "count", "choose", "publish", "load", "body", "exiting", "lookup", "ending"}

\* A live thread is registered under the identifier it has.
LiveKnown ==
  \A t \in Threads : pc[t] \in Live =>
    apr_os_thread[t] = os_id[t] /\ \E i \in DOMAIN registry : registry[i] = t

\* What has a system thread has an identifier of its own.
IdsDistinct ==
  /\ os_id[Console] = Console /\ apr_os_thread[Console] = Console
  /\ \A t \in Threads : pc[t] \in Live \union {"new"} => os_id[t] # None
  /\ \A t \in Threads : pc[t] = "ended" => apr_os_thread[t] # None
  /\ \A p, q \in Procs : p # q /\ os_id[p] # None => os_id[p] # os_id[q]

\* Only threads that have been started are registered.
RegisteredRan ==
  \A i \in DOMAIN registry :
    registry[i] # Console => registry[i] \in Threads /\ pc[registry[i]] \in Live \union {"ended"}

Known == LiveKnown /\ IdsDistinct /\ RegisteredRan

-----------------------------------------------------------------------------
(* The lookup *)

\* A set of indices that is not empty has a first one.
LEMMA FirstIndex ==
  ASSUME NEW S \in SUBSET Nat, S # {}
  PROVE  \E i \in S : \A j \in S : i <= j
<1>1. PICK i \in S : \A j \in S : ~ (<<j, i>> \in OpToRel(<, Nat))
  BY NatLessThanWellFounded, WFMin
<1>2. \A j \in S : ~ (j < i)
  BY <1>1 DEF OpToRel
<1> QED
  BY <1>2

\* Lookup returns a registered object with the identifier, if there is one.
LEMMA LookupFinds ==
  ASSUME TypeOK, NEW id, NEW i \in DOMAIN registry, apr_os_thread[registry[i]] = id
  PROVE  \E k \in DOMAIN registry : Lookup(id) = registry[k] /\ apr_os_thread[registry[k]] = id
<1> DEFINE named == {k \in DOMAIN registry : apr_os_thread[registry[k]] = id}
<1>1. named # {} /\ named \subseteq Nat
  BY LenProperties DEF TypeOK
<1>2. \E k \in named : \A j \in named : k <= j
  BY <1>1, FirstIndex
<1>3. PICK k \in named : k = CHOOSE n \in named : \A j \in named : n <= j
  BY <1>2
<1>4. Lookup(id) = registry[k]
  BY <1>1, <1>3 DEF Lookup
<1> QED
  BY <1>3, <1>4

LEMMA KnownFinds ==
  ASSUME TypeOK, Known
  PROVE  FindsItself
<1> SUFFICES ASSUME NEW t \in Threads, pc[t] \in Live
             PROVE  Lookup(os_id[t]) = t \/ (Lookup(os_id[t]) \in Threads /\ pc[Lookup(os_id[t])] = "ended")
  BY DEF FindsItself, Live
<1>1. PICK i \in DOMAIN registry : apr_os_thread[registry[i]] = os_id[t]
  BY DEF Known, LiveKnown
<1>2. PICK k \in DOMAIN registry :
        Lookup(os_id[t]) = registry[k] /\ apr_os_thread[registry[k]] = os_id[t]
  BY <1>1, LookupFinds
<1>3. registry[k] # Console
  BY <1>2, SetFacts DEF Known, IdsDistinct
<1>4. registry[k] \in Threads /\ pc[registry[k]] \in Live \union {"ended"}
  BY <1>3 DEF Known, RegisteredRan
<1>5. ASSUME pc[registry[k]] \in Live PROVE registry[k] = t
  <2>1. os_id[registry[k]] = os_id[t]
    BY <1>2, <1>4, <1>5 DEF Known, LiveKnown
  <2> QED
    BY <2>1, <1>4, SetFacts DEF Known, IdsDistinct
<1> QED
  BY <1>2, <1>4, <1>5

-----------------------------------------------------------------------------
(* Every step keeps Known *)

\* A thread goes on, or none moves, and no thread registers or gets an identifier.
LEMMA MovesKnown ==
  ASSUME Known, UNCHANGED <<os_id, apr_os_thread, registry>>,
         \A t \in Threads : pc'[t] = pc[t] \/ (pc[t] \in Live /\ pc'[t] \in Live)
  PROVE  Known'
BY DEF Known, LiveKnown, IdsDistinct, RegisteredRan, Live

\* A thread ends and gives its identifier back.
LEMMA EndsKnown ==
  ASSUME TypeOK, Known, UNCHANGED <<apr_os_thread, registry>>,
         NEW t \in Threads, pc[t] \in Live,
         pc' = [pc EXCEPT ![t] = "ended"], os_id' = [os_id EXCEPT ![t] = None]
  PROVE  Known'
<1> USE SetFacts DEF Known, TypeOK
<1>1. LiveKnown'
  BY DEF LiveKnown, Live
<1>2. IdsDistinct'
  BY DEF IdsDistinct, LiveKnown, Live
<1>3. RegisteredRan'
  BY DEF RegisteredRan, Live
<1> QED
  BY <1>1, <1>2, <1>3

\* A thread is created with an identifier that no other has.
LEMMA NewKnown ==
  ASSUME TypeOK, Known, NEW t \in Threads, NewThread(t), pc' = [pc EXCEPT ![t] = "new"]
  PROVE  Known'
<1> USE SetFacts DEF Known, TypeOK
<1>1. PICK i \in FreeIds(t) : os_id' = [os_id EXCEPT ![t] = i]
  BY DEF NewThread
<1>2. i # None /\ \A p \in Procs : i # os_id[p]
  BY <1>1 DEF FreeIds, IdsDistinct
<1>3. pc[t] = "none" /\ UNCHANGED <<apr_os_thread, registry>>
  BY DEF NewThread
<1>4. LiveKnown'
  BY <1>1, <1>3 DEF LiveKnown, Live
<1>5. IdsDistinct'
  <2>1. os_id' \in [Procs -> Procs \union {None, i}]
    BY <1>1
  <2>2. \A p, q \in Procs : p # q /\ os_id'[p] # None => os_id'[p] # os_id'[q]
    BY <1>1, <1>2 DEF IdsDistinct
  <2> QED
    BY <1>1, <1>2, <1>3, <2>2 DEF IdsDistinct, Live
<1>6. RegisteredRan'
  BY <1>3 DEF RegisteredRan, Live
<1> QED
  BY <1>4, <1>5, <1>6

\* A thread registers under the identifier it has.
LEMMA RegisterKnown ==
  ASSUME TypeOK, Handoff, Known, NEW t \in Threads, Register(t)
  PROVE  Known'
<1> USE SetFacts DEF Known, TypeOK, Register, RegisterThread
<1>1. new_thread_object = t
  BY DEF Handoff
<1>2. /\ apr_os_thread' = [apr_os_thread EXCEPT ![t] = os_id[t]]
      /\ os_id' = os_id /\ registry' = Append(registry, t)
      /\ pc[t] = "new" /\ pc'[t] \in Live
      /\ \A u \in Threads \ {t} : pc'[u] = pc[u]
  BY <1>1 DEF Live
<1>3. /\ DOMAIN registry' = DOMAIN registry \union {Len(registry) + 1}
      /\ registry'[Len(registry) + 1] = t
      /\ \A i \in DOMAIN registry : registry'[i] = registry[i]
  BY <1>2, AppendProperties, LenProperties
<1>4. LiveKnown'
  BY <1>2, <1>3 DEF LiveKnown
<1>5. IdsDistinct'
  BY <1>2 DEF IdsDistinct, Live
<1>6. RegisteredRan'
  BY <1>2, <1>3 DEF RegisteredRan, Live
<1> QED
  BY <1>4, <1>5, <1>6

LEMMA ThreadStepKnown ==
  ASSUME IndInv, Known, NEW t \in Threads, ThreadStep(t)
  PROVE  Known'
<1> USE DEF IndInv, TypeOK, registers, Live
<1>1. CASE Register(t)
  BY <1>1, RegisterKnown
<1>2. CASE Enter(t) \/ Count(t) \/ Choose(t) \/ Publish(t) \/ Found(t) \/ SysExitCount(t)
  <2>1. UNCHANGED <<os_id, apr_os_thread, registry>>
    BY <1>2 DEF Enter, Count, Choose, Publish, Found, SysExitCount
  <2>2. pc[t] \in Live /\ \E s \in Live : pc' = [pc EXCEPT ![t] = s]
    BY <1>2 DEF Enter, Count, Choose, Publish, Found, SysExitCount
  <2> QED
    BY <2>1, <2>2, MovesKnown
<1>3. CASE FileNotFound(t)
  BY <1>3, EndsKnown DEF FileNotFound
<1>4. CASE End(t)
  BY <1>4, EndsKnown DEF End
<1>5. CASE ThreadExit(t) /\ Lookup(os_id[t]) \in Threads
  BY <1>5, EndsKnown DEF ThreadExit
<1>6. CASE ThreadExit(t) /\ Lookup(os_id[t]) \notin Threads
  BY <1>6, MovesKnown DEF ThreadExit
<1> QED
  BY <1>1, <1>2, <1>3, <1>4, <1>5, <1>6 DEF ThreadStep

LEMMA ScriptKnown ==
  ASSUME IndInv, Known, NEW t \in Threads, Script(t)
  PROVE  Known'
<1> USE DEF IndInv, TypeOK, registers, Live
<1>1. CASE Finish(t)
  BY <1>1, MovesKnown DEF Finish
<1>2. CASE EndUserThread(t)
  BY <1>2, EndsKnown DEF EndUserThread
<1>3. CASE SysExit(t)
  BY <1>3, MovesKnown, SetFacts DEF SysExit, Executes
<1> QED
  BY <1>1, <1>2, <1>3 DEF Script

LEMMA MainStepKnown ==
  ASSUME IndInv, Known, MainStep
  PROVE  Known'
<1>1. ASSUME NEW t \in MainThreads \union {MemMgr}, StartThread(t) PROVE Known'
  BY <1>1, NewKnown, SetFacts DEF StartThread, IndInv
<1>2. ASSUME UNCHANGED <<pc, os_id, apr_os_thread, registry>> PROVE Known'
  BY <1>2, MovesKnown
<1> QED
  BY <1>1, <1>2 DEF MainStep, RunCode, AllStarted, AnyStarted, OpenConsole, CloseConsole,
     NoMainRuns, LeaveConsole, Exit, threads, registers

\* Every live thread stays registered under an identifier of its own.
LEMMA StepKnown ==
  ASSUME IndInv, Known, [Next]_vars
  PROVE  Known'
<1>1. CASE EndMemMgr
  BY <1>1, EndsKnown, SetFacts DEF EndMemMgr, IndInv, Live
<1>2. CASE ConsoleSysExit \/ UNCHANGED vars
  BY <1>2, MovesKnown DEF ConsoleSysExit, vars, threads, registers
<1>3. ASSUME NEW p \in Procs, NEW u \in UserThreads, StartUserThread(p, u) PROVE Known'
  BY <1>3, NewKnown, SetFacts DEF StartUserThread, IndInv
<1> QED
  BY <1>1, <1>2, <1>3, MainStepKnown, ThreadStepKnown, ScriptKnown DEF Next, Code

LEMMA InitKnown ==
  ASSUME Init
  PROVE  Known
BY SetFacts DEF Init, Known, LiveKnown, IdsDistinct, RegisteredRan, Live

\* sys.exit: no thread is taken for another live one when it looks itself up.
THEOREM ThreadsFindThemselves == Spec => []FindsItself
<1>1. Init => IndInv /\ Known
  BY InitInv, InitKnown
<1>2. IndInv /\ Known /\ [Next]_vars => Known'
  BY StepKnown
<1>3. IndInv /\ Known => FindsItself
  BY KnownFinds DEF IndInv
<1> QED
  BY <1>1, <1>2, <1>3, Invariance, PTL DEF Spec

-----------------------------------------------------------------------------
(* The counter *)

\* The main threads that the counter counts: those of missing scripts, too.
Owed == Counted \union missing

\* Until an update is lost or another thread calls sys.exit, the counter is right.
Tally ==
  /\ \A t \in missing : pc[t] = "ended"
  /\ ~foreign /\ ~miscounted => main_threads_running = Cardinality(Owed)

LEMMA OwedFinite ==
  ASSUME TypeOK
  PROVE  IsFiniteSet(Owed) /\ Cardinality(Owed) \in Nat
<1>1. IsFiniteSet(Threads) /\ Owed \in SUBSET Threads
  BY ThreadsAssumption, SetFacts DEF Owed, Counted, TypeOK
<1> QED
  BY <1>1, FS_Subset, FS_CardinalityType

\* Steps that count nobody.
LEMMA SameTally ==
  ASSUME Tally, UNCHANGED <<main_threads_running, miscounted, foreign, missing>>,
         Counted' = Counted, \A t \in missing : pc'[t] = pc[t]
  PROVE  Tally'
BY DEF Tally, Owed

\* Steps of a thread that is as much counted before as after.
LEMMA MoveTally ==
  ASSUME TypeOK, Tally, UNCHANGED <<main_threads_running, miscounted, foreign, missing>>,
         NEW t \in Threads, NEW s, pc' = [pc EXCEPT ![t] = s], pc[t] # "ended",
         t \in MainThreads =>
           (s \in {"choose", "publish", "load", "body", "exiting", "ending"}
            <=> pc[t] \in {"choose", "publish", "load", "body", "exiting", "ending"})
  PROVE  Tally'
<1> USE SetFacts DEF TypeOK
<1>1. Counted' = Counted
  BY DEF Counted
<1>2. \A u \in missing : pc'[u] = pc[u]
  BY DEF Tally
<1> QED
  BY <1>1, <1>2, SameTally

\* A main thread counts itself.
LEMMA CountTally ==
  ASSUME TypeOK, OnlyMains, Tally, NEW t \in Threads, Count(t)
  PROVE  Tally'
<1> USE SetFacts DEF Count, AddLoaded, TypeOK
<1>1. t \in MainThreads /\ t \notin Owed
  BY DEF OnlyMains, Section, Owed, Counted, Tally
<1>2. Owed' = Owed \union {t}
  BY <1>1 DEF Owed, Counted
<1>3. Cardinality(Owed') = Cardinality(Owed) + 1
  BY <1>1, <1>2, OwedFinite, FS_AddElement
<1> QED
  BY <1>1, <1>3 DEF Tally

\* A counted main thread is counted down when it ends, and in its sys.exit.
LEMMA CountDownTally ==
  ASSUME TypeOK, Tally, NEW t \in MainThreads, NEW s \in {"lookup", "ended"},
         AddLoaded(t, -1), pc[t] \in {"exiting", "ending"}, pc' = [pc EXCEPT ![t] = s],
         UNCHANGED <<foreign, missing>>
  PROVE  Tally'
<1> USE SetFacts DEF AddLoaded, TypeOK
<1>1. t \in Owed /\ t \notin missing
  BY DEF Owed, Counted, Tally
<1>2. Owed' = Owed \ {t}
  BY <1>1 DEF Owed, Counted
<1>3. Cardinality(Owed') = Cardinality(Owed) - 1
  BY <1>1, <1>2, OwedFinite, FS_RemoveElement
<1> QED
  BY <1>1, <1>3 DEF Tally

\* After another thread's sys.exit nothing is said of the count.
LEMMA ForeignTally ==
  ASSUME TypeOK, Tally, foreign', UNCHANGED missing,
         \A t \in missing : pc'[t] = pc[t]
  PROVE  Tally'
BY DEF Tally

\* The thread of a missing script ends and stays counted.
LEMMA MissingTally ==
  ASSUME TypeOK, OnlyMains, Tally, NEW t \in Threads, FileNotFound(t)
  PROVE  Tally'
<1> USE SetFacts DEF FileNotFound, counter, TypeOK
<1>1. t \in MainThreads
  BY DEF OnlyMains, Section
<1>2. Owed' = Owed
  BY <1>1 DEF Owed, Counted
<1> QED
  BY <1>1, <1>2 DEF Tally

LEMMA ThreadStepTally ==
  ASSUME IndInv, Known, Tally, NEW t \in Threads, ThreadStep(t)
  PROVE  Tally'
<1> USE SetFacts DEF IndInv, TypeOK, counter
<1>1. CASE Register(t)
  BY <1>1, MoveTally DEF Register
<1>2. CASE Enter(t)
  BY <1>2, MoveTally DEF Enter
<1>3. CASE Count(t)
  BY <1>3, CountTally
<1>4. CASE Choose(t)
  BY <1>4, MoveTally DEF Choose
<1>5. CASE Publish(t)
  BY <1>5, MoveTally DEF Publish
<1>6. CASE FileNotFound(t)
  BY <1>6, MissingTally
<1>7. CASE Found(t)
  BY <1>7, MoveTally DEF Found
<1>8. CASE End(t)
  <2>1. t \in MainThreads
    BY <1>8 DEF End, OnlyMains
  <2> QED
    BY <1>8, <2>1, CountDownTally DEF End
<1>9. CASE SysExitCount(t) /\ t \in MainThreads
  BY <1>9, CountDownTally DEF SysExitCount
<1>10. CASE SysExitCount(t) /\ t \notin MainThreads
  BY <1>10, ForeignTally DEF SysExitCount, Tally
<1>11. CASE ThreadExit(t)
  <2>1. Lookup(os_id[t]) \in Threads
    BY <1>11, KnownFinds DEF ThreadExit, FindsItself
  <2> QED
    BY <1>11, <2>1, MoveTally DEF ThreadExit
<1> QED
  BY <1>1, <1>2, <1>3, <1>4, <1>5, <1>6, <1>7, <1>8, <1>9, <1>10, <1>11 DEF ThreadStep

LEMMA ScriptTally ==
  ASSUME IndInv, Tally, NEW t \in Threads, Script(t)
  PROVE  Tally'
<1> USE SetFacts DEF IndInv, TypeOK, counter
<1>1. CASE Finish(t)
  BY <1>1, MoveTally DEF Finish
<1>2. CASE EndUserThread(t)
  BY <1>2, MoveTally DEF EndUserThread
<1>3. CASE SysExit(t)
  BY <1>3, MoveTally DEF SysExit, Executes
<1> QED
  BY <1>1, <1>2, <1>3 DEF Script

LEMMA MainStepTally ==
  ASSUME IndInv, Tally, MainStep
  PROVE  Tally'
<1>1. ASSUME NEW t \in MainThreads \union {MemMgr}, StartThread(t) PROVE Tally'
  BY <1>1, MoveTally, SetFacts DEF StartThread, NewThread, IndInv, TypeOK, counter
<1>2. ASSUME UNCHANGED threads PROVE Tally'
  BY <1>2, SameTally DEF threads, counter, Counted
<1> QED
  BY <1>1, <1>2 DEF MainStep, RunCode, AllStarted, AnyStarted, OpenConsole, CloseConsole,
     NoMainRuns, LeaveConsole, Exit

\* The counter stays right: sys.exit of a main thread finds it and ends it.
LEMMA StepTally ==
  ASSUME IndInv, Known, Tally, [Next]_vars
  PROVE  Tally'
<1> USE SetFacts DEF IndInv, TypeOK, counter
<1>1. CASE EndMemMgr
  BY <1>1, MoveTally DEF EndMemMgr
<1>2. CASE ConsoleSysExit
  BY <1>2, ForeignTally DEF ConsoleSysExit
<1>3. ASSUME NEW p \in Procs, NEW u \in UserThreads, StartUserThread(p, u) PROVE Tally'
  BY <1>3, MoveTally DEF StartUserThread, NewThread
<1>4. CASE UNCHANGED vars
  BY <1>4, SameTally DEF vars, threads, Counted
<1> QED
  BY <1>1, <1>2, <1>3, <1>4, MainStepTally, ThreadStepTally, ScriptTally DEF Next, Code

LEMMA InitTally ==
  ASSUME Init
  PROVE  Tally
<1>1. Owed = {}
  BY SetFacts DEF Init, Owed, Counted
<1> QED
  BY <1>1, FS_EmptySet DEF Init, Tally

\* main() leaves its wait with the count at zero.
LEMMA LeavesUncounted ==
  ASSUME IndInv, Tally, [Next]_vars, console = "waiting", console' \in {"last", "final"}
  PROVE  Counted = {} \/ foreign \/ miscounted
<1>1. main_threads_running = 0
  <2>1. CASE MainStep
    BY <2>1 DEF MainStep, RunCode, StartThread, AllStarted, AnyStarted, OpenConsole,
       CloseConsole, NoMainRuns, LeaveConsole, Exit, Goto
  <2>2. ASSUME NEW t \in Threads, ThreadStep(t) \/ Script(t) PROVE FALSE
    BY <2>2 DEF ThreadStep, Script, Register, Enter, Count, Choose, Publish, FileNotFound,
       Found, End, SysExitCount, ThreadExit, Finish, EndUserThread, SysExit
  <2> QED
    BY <2>1, <2>2 DEF Next, Code, ConsoleSysExit, StartUserThread, EndMemMgr, vars
<1>2. ASSUME ~foreign, ~miscounted PROVE Owed = {}
  BY <1>1, <1>2, ThreadsAssumption, OwedFinite, FS_EmptySet DEF Tally, IndInv
<1> QED
  BY <1>2 DEF Owed

\* main() waits for every script that it has counted, unless an update of the
\* counter was lost or a thread that is not counted called sys.exit.
THEOREM MainWaits == Spec => WaitsForCounted
<1>1. Init => Known /\ Tally
  BY InitKnown, InitTally
<1>2. IndInv /\ Known /\ Tally /\ [Next]_vars => Known' /\ Tally'
  BY StepKnown, StepTally
<1>3. IndInv /\ Tally /\ [Next]_vars =>
        [console = "waiting" /\ console' \in {"last", "final"} =>
           Counted = {} \/ foreign \/ miscounted]_vars
  BY LeavesUncounted
<1> QED
  BY <1>1, <1>2, <1>3, Invariance, PTL DEF Spec, WaitsForCounted

-----------------------------------------------------------------------------
(* Where the process can hang *)

\* Whoever took a lock is on its way to release it.
LocksHeld ==
  /\ registry_lock => \E t \in Threads : pc[t] = "new"
  /\ start_lock => \E t \in Threads : pc[t] \in Section

\* What has not been started can be: nobody has its identifier.
NamesFree ==
  /\ \A t \in to_start : pc[t] = "none"
  /\ \A t \in Threads : pc[t] = "none" =>
       \A p \in Procs : os_id[p] # t /\ apr_os_thread[p] # t

HangInv == LocksHeld /\ NamesFree

\* A step of a thread that has registered: it keeps start_main_lock, or goes on
\* under it, or no one holds it afterwards.
LEMMA MoveHangs ==
  ASSUME TypeOK, HangInv, UNCHANGED <<to_start, registry_lock, apr_os_thread>>,
         NEW t \in Threads, NEW s, s # "none", pc' = [pc EXCEPT ![t] = s],
         pc[t] \notin {"none", "new"},
         os_id' \in {os_id, [os_id EXCEPT ![t] = None]},
         start_lock' => s \in Section \/ (start_lock /\ pc[t] \notin Section)
  PROVE  HangInv'
<1> USE SetFacts DEF TypeOK
<1>1. \A u \in Threads : pc'[u] = IF u = t THEN s ELSE pc[u]
  OBVIOUS
<1>2. LocksHeld'
  BY <1>1 DEF HangInv, LocksHeld
<1>3. \A p \in Procs : os_id'[p] \in {os_id[p], None}
  OBVIOUS
<1>4. NamesFree'
  <2>1. \A u \in to_start' : pc'[u] = "none"
    BY <1>1 DEF HangInv, NamesFree
  <2>2. ASSUME NEW u \in Threads, pc'[u] = "none", NEW p \in Procs
        PROVE  os_id'[p] # u /\ apr_os_thread'[p] # u
    BY <1>1, <1>3, <2>2 DEF HangInv, NamesFree
  <2> QED
    BY <2>1, <2>2 DEF NamesFree
<1> QED
  BY <1>2, <1>4 DEF HangInv

\* A thread is created: registry_lock is the new thread's to release.
LEMMA NewHangs ==
  ASSUME TypeOK, HangInv, NEW t \in Threads, NewThread(t), pc' = [pc EXCEPT ![t] = "new"],
         start_lock' = start_lock, to_start' \subseteq to_start \ {t}
  PROVE  HangInv'
<1> USE SetFacts DEF TypeOK
<1>1. PICK i \in FreeIds(t) : os_id' = [os_id EXCEPT ![t] = i]
  BY DEF NewThread
<1>2. pc[t] = "none" /\ apr_os_thread' = apr_os_thread
  BY DEF NewThread
<1>3. \A u \in Threads : pc'[u] = IF u = t THEN "new" ELSE pc[u]
  OBVIOUS
<1>4. LocksHeld'
  BY <1>2, <1>3 DEF HangInv, LocksHeld, Section
<1>5. NamesFree'
  <2>1. \A u \in to_start' : pc'[u] = "none"
    BY <1>3 DEF HangInv, NamesFree
  <2>2. ASSUME NEW u \in Threads, pc'[u] = "none", NEW p \in Procs
        PROVE  os_id'[p] # u /\ apr_os_thread'[p] # u
    <3>1. u # t /\ pc[u] = "none"
      BY <1>3, <2>2
    <3>2. i # u
      BY <1>1, <3>1 DEF FreeIds, HangInv, NamesFree
    <3> QED
      BY <1>1, <1>2, <3>1, <3>2 DEF HangInv, NamesFree
  <2> QED
    BY <2>1, <2>2 DEF NamesFree
<1> QED
  BY <1>4, <1>5 DEF HangInv

LEMMA RegisterHangs ==
  ASSUME TypeOK, Handoff, HangInv, NEW t \in Threads, Register(t)
  PROVE  HangInv'
<1> USE SetFacts DEF TypeOK
<1>1. /\ ~registry_lock' /\ UNCHANGED <<to_start, start_lock, os_id>> /\ pc[t] = "new"
      /\ apr_os_thread' = [apr_os_thread EXCEPT ![t] = os_id[t]]
      /\ \A u \in Threads : u # t => pc'[u] = pc[u]
      /\ pc'[t] # "none"
  BY DEF Register, RegisterThread, Handoff, cmdline
<1>2. LocksHeld'
  BY <1>1 DEF HangInv, LocksHeld, Section
<1>3. \A p \in Procs : apr_os_thread'[p] \in {apr_os_thread[p], os_id[p]}
  BY <1>1
<1>4. NamesFree'
  <2>1. \A u \in to_start' : pc'[u] = "none"
    BY <1>1 DEF HangInv, NamesFree
  <2>2. ASSUME NEW u \in Threads, pc'[u] = "none", NEW p \in Procs
        PROVE  os_id'[p] # u /\ apr_os_thread'[p] # u
    BY <1>1, <1>3, <2>2 DEF HangInv, NamesFree
  <2> QED
    BY <2>1, <2>2 DEF NamesFree
<1> QED
  BY <1>2, <1>4 DEF HangInv

LEMMA ThreadStepHangs ==
  ASSUME IndInv, HangInv, NEW t \in Threads, ThreadStep(t)
  PROVE  HangInv'
<1> USE DEF IndInv, TypeOK, cmdline, registers
<1>1. CASE Register(t)
  BY <1>1, RegisterHangs
<1>2. CASE Enter(t)
  BY <1>2, MoveHangs DEF Enter, Section
<1>3. CASE Count(t)
  BY <1>3, MoveHangs DEF Count, Section
<1>4. CASE Choose(t)
  BY <1>4, MoveHangs DEF Choose, Section
<1>5. CASE Publish(t)
  BY <1>5, MoveHangs DEF Publish
<1>6. CASE FileNotFound(t)
  BY <1>6, MoveHangs DEF FileNotFound
<1>7. CASE Found(t)
  BY <1>7, MoveHangs DEF Found, Section
<1>8. CASE End(t)
  BY <1>8, MoveHangs DEF End, Section
<1>9. CASE SysExitCount(t)
  BY <1>9, MoveHangs DEF SysExitCount, Section
<1>10. CASE ThreadExit(t)
  BY <1>10, MoveHangs DEF ThreadExit, Section
<1> QED
  BY <1>1, <1>2, <1>3, <1>4, <1>5, <1>6, <1>7, <1>8, <1>9, <1>10 DEF ThreadStep

LEMMA ScriptHangs ==
  ASSUME IndInv, HangInv, NEW t \in Threads, Script(t)
  PROVE  HangInv'
<1> USE DEF IndInv, TypeOK, cmdline, registers, Section
<1>1. CASE Finish(t)
  BY <1>1, MoveHangs DEF Finish
<1>2. CASE EndUserThread(t)
  BY <1>2, MoveHangs DEF EndUserThread
<1>3. CASE SysExit(t)
  BY <1>3, MoveHangs, SetFacts DEF SysExit, Executes
<1> QED
  BY <1>1, <1>2, <1>3 DEF Script

\* Every step keeps the locks in hands that release them.
LEMMA StepHangs ==
  ASSUME IndInv, HangInv, [Next]_vars
  PROVE  HangInv'
<1>1. ASSUME UNCHANGED <<to_start, pc, os_id, apr_os_thread, registry_lock, start_lock>>
      PROVE  HangInv'
  BY <1>1 DEF HangInv, LocksHeld, NamesFree
<1>2. CASE MainStep
  <2>1. ASSUME NEW t \in MainThreads \union {MemMgr}, StartThread(t) PROVE HangInv'
    BY <2>1, NewHangs, SetFacts DEF StartThread, IndInv
  <2> QED
    BY <1>1, <1>2, <2>1 DEF MainStep, RunCode, AllStarted, AnyStarted, OpenConsole, CloseConsole,
       NoMainRuns, LeaveConsole, Exit, threads, registers, cmdline
<1>3. CASE EndMemMgr
  BY <1>3, MoveHangs, SetFacts DEF EndMemMgr, IndInv, TypeOK, Section, cmdline
<1>4. CASE ConsoleSysExit \/ UNCHANGED vars
  BY <1>1, <1>4 DEF ConsoleSysExit, vars, threads, registers, cmdline
<1>5. ASSUME NEW p \in Procs, NEW u \in UserThreads, StartUserThread(p, u) PROVE HangInv'
  <2>1. pc[u] = "none" /\ u \notin to_start
    BY <1>5, SetFacts DEF StartUserThread, NewThread, IndInv, TypeOK
  <2> QED
    BY <1>5, <2>1, NewHangs, SetFacts DEF StartUserThread, IndInv, cmdline
<1> QED
  BY <1>2, <1>3, <1>4, <1>5, ThreadStepHangs, ScriptHangs DEF Next, Code

LEMMA InitHangs ==
  ASSUME Init
  PROVE  HangInv
<1>1. /\ ~registry_lock /\ ~start_lock /\ to_start \subseteq MainThreads \union {MemMgr}
      /\ pc = [t \in Threads |-> "none"]
  BY DEF Init
<1>2. \A p \in Procs : os_id[p] \in {Console, None} /\ apr_os_thread[p] = os_id[p]
  BY DEF Init
<1> QED
  BY <1>1, <1>2, SetFacts DEF HangInv, LocksHeld, NamesFree

\* There are more names than main threads: one is always free.
LEMMA NameLeft ==
  ASSUME TypeOK
  PROVE  Ids \ {main_id[u] : u \in MainThreads} # {}
<1> DEFINE used == {main_id[u] : u \in MainThreads}
<1>1. IsFiniteSet(MainThreads) /\ Cardinality(MainThreads) \in Nat
  BY ThreadsAssumption, SetFacts, FS_Subset, FS_CardinalityType
<1>2. main_id \in Surjection(MainThreads, used)
  BY DEF TypeOK, Surjection
<1>3. IsFiniteSet(used) /\ Cardinality(used) <= Cardinality(MainThreads)
  BY <1>1, <1>2, FS_Surjection
<1>4. IsFiniteSet(Ids) /\ Cardinality(Ids) = Cardinality(MainThreads) + 1
  BY <1>1, FS_Interval DEF Ids
<1> HIDE DEF used
<1>5. ~ (Ids \subseteq used)
  BY <1>1, <1>3, <1>4, FS_Subset, FS_CardinalityType
<1> QED
  BY <1>5 DEF used

\* While it starts threads, main() can go on.
LEMMA StartGoesOn ==
  ASSUME TypeOK, HangInv, console = "start", ~registry_lock
  PROVE  MainRunnable
<1>1. ASSUME NEW t \in to_start PROVE pc[t] = "none" /\ FreeIds(t) # {}
  <2>1. t \in Threads /\ pc[t] = "none"
    BY SetFacts DEF TypeOK, HangInv, NamesFree
  <2>2. t \in FreeIds(t)
    BY <2>1 DEF HangInv, NamesFree, FreeIds
  <2> QED
    BY <2>1, <2>2
<1>2. CASE Main1 \in to_start
  BY <1>1, <1>2, SetFacts DEF MainRunnable, MainThreads
<1>3. CASE Main1 \notin to_start /\ \E t \in to_start : t # MemMgr
  BY <1>1, <1>3 DEF MainRunnable
<1>4. CASE \A t \in to_start : t = MemMgr
  BY <1>1, <1>4, SetFacts DEF MainRunnable, MainThreads
<1> QED
  BY <1>2, <1>3, <1>4

\* When no thread can make a step, all but the memory manager's have ended.
LEMMA AllEnded ==
  ASSUME IndInv, HangInv, \A t \in Threads : ~Runnable(t)
  PROVE  /\ ~registry_lock
         /\ \A t \in Threads \ {MemMgr} : pc[t] \in {"none", "ended"}
<1>1. ~registry_lock
  BY DEF HangInv, LocksHeld, Runnable
<1>2. \A t \in Threads : pc[t] \notin Section
  BY NameLeft DEF IndInv, Runnable, Section
<1>3. ~start_lock
  BY <1>2 DEF HangInv, LocksHeld
<1>4. \A t \in Threads : pc[t] \in {"none", "new", "enter", "count", "choose", "publish", "load",
                                  "body", "exiting", "lookup", "ending", "ended"}
  BY DEF IndInv, TypeOK
<1> QED
  BY <1>1, <1>2, <1>3, <1>4 DEF Runnable, Section

\* The process hangs only because the counter of main threads is not zero when
\* none is left, and that only for one of the three known reasons.
THEOREM HangsOnlyMiscounted == Spec => []HangsKnown
<1>1. IndInv /\ HangInv /\ Tally => HangsKnown
  <2> SUFFICES ASSUME IndInv, HangInv, Tally, Hangs PROVE HangsKnown
    BY DEF HangsKnown
  <2>1. ~registry_lock /\ \A t \in Threads \ {MemMgr} : pc[t] \in {"none", "ended"}
    BY AllEnded DEF Hangs
  <2>2. console # "start"
    BY <2>1, StartGoesOn DEF Hangs, IndInv
  <2>3. console = "waiting" /\ main_threads_running # 0
    BY <2>2 DEF Hangs, MainRunnable, IndInv, TypeOK
  <2>4. ASSUME missing = {} PROVE Cardinality(Owed) = 0
    BY <2>1, <2>4, SetFacts, FS_EmptySet DEF Owed, Counted
  <2>5. miscounted \/ foreign \/ missing # {}
    BY <2>3, <2>4 DEF Tally
  <2> QED
    BY <2>1, <2>3, <2>5 DEF HangsKnown
<1> QED
  BY InitHangs, StepHangs, InitKnown, StepKnown, InitTally, StepTally, <1>1, Invariance, PTL DEF Spec
=============================================================================
