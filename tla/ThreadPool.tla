----------------------------- MODULE ThreadPool -----------------------------
(***************************************************************************)
(* ThreadContextPool of src/ascent-shared/Threading/ThreadPool.cpp: a task *)
(* is handed to a thread parked in the free set or to a new one; a thread  *)
(* that has run its task asks ThreadExit whether to park or to die.        *)
(* IntegrityCheck keeps about THREAD_RESERVE threads parked.               *)
(*                                                                         *)
(* Every operation of the pool holds _mutex from its first statement to    *)
(* its last and is one step.  What a thread does between two calls         *)
(* (thread_proc, on its semaphore and on ExecutionTarget) takes no lock.   *)
(***************************************************************************)
EXTENDS Integers, FiniteSets

CONSTANTS Thread,        (* bound: the threads ever started; a deleted one is not reused *)
          Task,          (* bound: the tasks ever submitted *)
          NULL,
          THREAD_RESERVE,
          MaxChecks,     (* bound: calls of IntegrityCheck *)
          MayShutdown    (* whether Shutdown is called *)

ASSUME PoolAssumption ==
  /\ NULL \notin Thread \cup Task
  /\ THREAD_RESERVE \in Nat /\ MaxChecks \in Nat /\ MayShutdown \in BOOLEAN
  /\ IsFiniteSet(Thread)

VARIABLES m_activeThreads, m_freeThreads, threadsToExit, threadsEaten,
          ExecutionTarget, DeleteAfterExit,   (* of each thread *)
          sem,       (* the semaphore of each thread's ControlInterface *)
          pc,        (* where each thread is in thread_proc *)
          job,       (* the task whose run() a thread is in *)
          state,     (* of each task: "new", "given", "run" *)
          checks, shutdown

pool == <<m_activeThreads, m_freeThreads, threadsToExit, threadsEaten>>
threads == <<ExecutionTarget, DeleteAfterExit, sem, pc, job>>
vars == <<pool, threads, state, checks, shutdown>>

Init ==
  /\ m_activeThreads = {} /\ m_freeThreads = {}
  /\ threadsToExit = 0 /\ threadsEaten = 0
  /\ ExecutionTarget = [t \in Thread |-> NULL]
  /\ DeleteAfterExit = [t \in Thread |-> FALSE]
  /\ sem = [t \in Thread |-> 0]
  /\ pc = [t \in Thread |-> "unborn"]
  /\ job = [t \in Thread |-> NULL]
  /\ state = [k \in Task |-> "new"]
  /\ checks = 0 /\ shutdown = "no"

Unborn == {t \in Thread : pc[t] = "unborn"}

(* Shutdown leaves its loop with _mutex held and never releases it. *)
Unlocked == shutdown # "done"

(* StartThread(NULL) for each of S: they go straight to ThreadExit. *)
StartThreads(S) ==
  /\ S \subseteq Unborn
  /\ pc' = [t \in Thread |-> IF t \in S THEN "check" ELSE pc[t]]

Startup ==
  /\ Unlocked /\ Unborn = Thread
  /\ \E S \in SUBSET Unborn : Cardinality(S) = THREAD_RESERVE /\ StartThreads(S)
  /\ UNCHANGED <<pool, ExecutionTarget, DeleteAfterExit, sem, job, state, checks, shutdown>>

(* Resume posts the semaphore the thread waits for in Suspend. *)
Forget(t) == sem
Resume(t) == [sem EXCEPT ![t] = @ + 1]

(* The free thread that ExecuteTask takes leaves the free set. *)
LeaveInFree(t) == m_freeThreads
TakeFree(t) == m_freeThreads \ {t}

ExecuteTask(k) ==
  /\ Unlocked /\ state[k] = "new"
  /\ state' = [state EXCEPT ![k] = "given"]
  /\ threadsEaten' = threadsEaten - 1
  /\ \E t \in Thread :
     /\ \/ /\ t \in m_freeThreads
           /\ m_freeThreads' = TakeFree(t)
           /\ sem' = Resume(t)
           /\ UNCHANGED pc
        \/ /\ m_freeThreads = {} /\ t \in Unborn
           /\ StartThreads({t})
           /\ UNCHANGED <<m_freeThreads, sem>>
     /\ ExecutionTarget' = [ExecutionTarget EXCEPT ![t] = k]
     /\ m_activeThreads' = m_activeThreads \cup {t}
  /\ UNCHANGED <<threadsToExit, DeleteAfterExit, job, checks, shutdown>>

(* KillFreeThreads(count) on the threads K.  They stay in the free set until *)
(* they come to ThreadExit.                                                  *)
Kill(K, count) ==
  /\ K \subseteq m_freeThreads
  /\ Cardinality(K) = (IF count < Cardinality(m_freeThreads) THEN count
                       ELSE Cardinality(m_freeThreads))
  /\ ExecutionTarget' = [t \in Thread |-> IF t \in K THEN NULL ELSE ExecutionTarget[t]]
  /\ DeleteAfterExit' = [t \in Thread |-> t \in K \/ DeleteAfterExit[t]]
  /\ sem' = [t \in Thread |-> IF t \in K THEN sem[t] + 1 ELSE sem[t]]

IntegrityCheck ==
  /\ Unlocked /\ checks < MaxChecks
  /\ checks' = checks + 1
  /\ \/ /\ threadsEaten < 0
        /\ threadsEaten' = 0
        /\ \E S \in SUBSET Unborn :
             Cardinality(S) = THREAD_RESERVE - threadsEaten /\ StartThreads(S)
        /\ UNCHANGED <<threadsToExit, ExecutionTarget, DeleteAfterExit, sem>>
     \/ /\ threadsEaten \in 0..THREAD_RESERVE
        /\ \E S \in SUBSET Unborn :
             Cardinality(S) = THREAD_RESERVE - threadsEaten /\ StartThreads(S)
        /\ UNCHANGED <<threadsToExit, threadsEaten, ExecutionTarget, DeleteAfterExit, sem>>
     \/ /\ threadsEaten > THREAD_RESERVE
        /\ \E K \in SUBSET m_freeThreads :
             /\ Kill(K, threadsEaten - THREAD_RESERVE)
             /\ threadsToExit' = threadsToExit + Cardinality(K)
        /\ threadsEaten' = THREAD_RESERVE
        /\ UNCHANGED pc
  /\ UNCHANGED <<m_activeThreads, m_freeThreads, job, state, shutdown>>

(* Shutdown kills the free threads, makes room for the active ones to exit,  *)
(* and waits until both sets are empty.                                      *)
Shutdown ==
  /\ MayShutdown /\ shutdown = "no"
  /\ shutdown' = "waiting"
  /\ Kill(m_freeThreads, Cardinality(m_freeThreads))
  /\ threadsToExit' = threadsToExit + Cardinality(m_freeThreads) + Cardinality(m_activeThreads)
  /\ UNCHANGED <<m_activeThreads, m_freeThreads, threadsEaten, pc, job, state, checks>>

ShutdownReturns ==
  /\ shutdown = "waiting" /\ m_activeThreads = {} /\ m_freeThreads = {}
  /\ shutdown' = "done"
  /\ UNCHANGED <<pool, threads, state, checks>>
-----------------------------------------------------------------------------
(* thread_proc: the target is read once to decide and again when it has run. *)
Check(t) ==
  /\ pc[t] = "check"
  /\ IF ExecutionTarget[t] # NULL
     THEN /\ pc' = [pc EXCEPT ![t] = "running"]
          /\ job' = [job EXCEPT ![t] = ExecutionTarget[t]]
     ELSE /\ pc' = [pc EXCEPT ![t] = "exit"]
          /\ UNCHANGED job
  /\ UNCHANGED <<pool, ExecutionTarget, DeleteAfterExit, sem, state, checks, shutdown>>

Finish(t) ==
  /\ pc[t] = "running"
  /\ pc' = [pc EXCEPT ![t] = "exit"]
  /\ job' = [job EXCEPT ![t] = NULL]
  /\ state' = [state EXCEPT ![job[t]] = "run"]
  /\ ExecutionTarget' = [ExecutionTarget EXCEPT ![t] = NULL]
  /\ UNCHANGED <<pool, DeleteAfterExit, sem, checks, shutdown>>

KeepInFree(t) == m_freeThreads
EraseFromFree(t) == IF DeleteAfterExit[t] THEN m_freeThreads \ {t} ELSE m_freeThreads

MustExit == threadsToExit > 0

ThreadExit(t) ==
  /\ pc[t] = "exit" /\ Unlocked
  /\ m_activeThreads' = m_activeThreads \ {t}
  /\ \/ /\ MustExit
        /\ threadsToExit' = threadsToExit - 1
        /\ m_freeThreads' = EraseFromFree(t)
        /\ pc' = [pc EXCEPT ![t] = "gone"]
        /\ UNCHANGED threadsEaten
     \/ /\ ~MustExit
        /\ threadsEaten' = threadsEaten + 1
        /\ m_freeThreads' = m_freeThreads \cup {t}
        /\ pc' = [pc EXCEPT ![t] = "suspend"]
        /\ UNCHANGED threadsToExit
  /\ UNCHANGED <<ExecutionTarget, DeleteAfterExit, sem, job, state, checks, shutdown>>

Suspend(t) ==
  /\ pc[t] = "suspend" /\ sem[t] > 0
  /\ sem' = [sem EXCEPT ![t] = @ - 1]
  /\ pc' = [pc EXCEPT ![t] = "check"]
  /\ UNCHANGED <<pool, ExecutionTarget, DeleteAfterExit, job, state, checks, shutdown>>

ThreadStep(t) == Check(t) \/ Finish(t) \/ ThreadExit(t) \/ Suspend(t)

Next ==
  \/ Startup \/ IntegrityCheck \/ Shutdown \/ ShutdownReturns
  \/ \E k \in Task : ExecuteTask(k)
  \/ \E t \in Thread : ThreadStep(t)

Spec == Init /\ [][Next]_vars

(* The operating system runs every thread that can go on, and every task     *)
(* returns from run().                                                       *)
Fairness == WF_vars(ShutdownReturns) /\ \A t \in Thread : WF_vars(ThreadStep(t))
FairSpec == Spec /\ Fairness
-----------------------------------------------------------------------------
TypeOK ==
  /\ m_activeThreads \subseteq Thread /\ m_freeThreads \subseteq Thread
  /\ threadsToExit \in Nat /\ threadsEaten \in Int
  /\ ExecutionTarget \in [Thread -> Task \cup {NULL}]
  /\ DeleteAfterExit \in [Thread -> BOOLEAN]
  /\ sem \in [Thread -> Nat]
  /\ pc \in [Thread -> {"unborn", "check", "running", "exit", "suspend", "gone"}]
  /\ job \in [Thread -> Task \cup {NULL}]
  /\ state \in [Task -> {"new", "given", "run"}]
  /\ checks \in 0..MaxChecks /\ shutdown \in {"no", "waiting", "done"}

(* The sets of the pool hold no thread that was deleted: no later            *)
(* ExecuteTask, KillFreeThreads or Shutdown touches a deleted Thread.        *)
(* (ThreadExit erases what KillFreeThreads left in the free set.)            *)
SetsHoldLiveThreads ==
  \A t \in m_activeThreads \cup m_freeThreads : pc[t] \notin {"unborn", "gone"}

(* A thread is never active and free at once, so it is not given a second    *)
(* task by ExecuteTask while the first is waiting for it.                    *)
ActiveIsNotFree == m_activeThreads \cap m_freeThreads = {}

(* A thread that waits on its semaphore can be found again: it is in the     *)
(* free set, or it has been resumed.                                         *)
NobodyForgotten ==
  \A t \in Thread : pc[t] = "suspend" => t \in m_freeThreads \/ sem[t] > 0

(* As long as no free thread is killed, a task that was submitted is run     *)
(* (ThreadPool.h: "grabs/spawns a thread, and tells it to execute a task").  *)
TasksRun ==
  ([](\A t \in Thread : ~DeleteAfterExit[t]))
    => \A k \in Task : state[k] = "given" ~> state[k] = "run"

(* Shutdown ends if from some moment on the pool is left alone: no more tasks *)
(* come and no check starts or kills threads, every live thread is in one of *)
(* the sets and is awake, and _threadsToExit has room for all of them.       *)
OrderlyShutdownEnds ==
  /\ shutdown = "waiting" /\ checks = MaxChecks
  /\ \A k \in Task : state[k] # "new"
  /\ \A t \in Thread : pc[t] \notin {"unborn", "gone"} => t \in m_activeThreads \cup m_freeThreads
  /\ \A t \in Thread : pc[t] = "suspend" => sem[t] > 0
  /\ threadsToExit >= Cardinality(m_activeThreads \cup m_freeThreads)
  ~> shutdown = "done"
=============================================================================
