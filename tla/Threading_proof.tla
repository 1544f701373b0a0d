-------------------------- MODULE Threading_proof ---------------------------
(***************************************************************************)
(* The thread pool for any number of threads, tasks, checks and any        *)
(* THREAD_RESERVE, with or without a Shutdown; and mutual exclusion of     *)
(* RWLock for any number of readers and writers.                           *)
(*                                                                         *)
(* What makes the sets of the pool sound is not visible in them: a thread  *)
(* that nobody has killed is in the free set only while it is parked with  *)
(* nothing in its semaphore, so ThreadExit may leave the free set alone    *)
(* for it.  A writer relies on _readers, read once inside hLock, so the    *)
(* proof needs that _readers counts the readers and that no reader comes   *)
(* in while a writer stays in hLock.                                       *)
(***************************************************************************)
EXTENDS ThreadPool, RWLock, FiniteSetTheorems, TLAPS

(* A thread not yet started is known to nobody. *)
UnbornUnknown ==
  \A t \in Thread : pc[t] = "unborn" =>
    /\ t \notin m_activeThreads \cup m_freeThreads
    /\ sem[t] = 0 /\ ~DeleteAfterExit[t]

GoneUnknown ==
  \A t \in Thread : pc[t] = "gone" => t \notin m_activeThreads \cup m_freeThreads

(* A free thread that was not killed is parked and nothing will wake it. *)
FreeIsParked ==
  \A t \in m_freeThreads : ~DeleteAfterExit[t] => pc[t] = "suspend" /\ sem[t] = 0

(* A thread that was not killed is posted once, and only while it is parked. *)
PostedOnce ==
  \A t \in Thread : ~DeleteAfterExit[t] => sem[t] = 0 \/ (sem[t] = 1 /\ pc[t] = "suspend")

Inv ==
  /\ TypeOK
  /\ UnbornUnknown
  /\ GoneUnknown
  /\ ActiveIsNotFree
  /\ FreeIsParked
  /\ PostedOnce
  /\ NobodyForgotten
-----------------------------------------------------------------------------
LEMMA CardinalitiesNat ==
  ASSUME NEW S \in SUBSET Thread
  PROVE  Cardinality(S) \in Nat
BY PoolAssumption, FS_Subset, FS_CardinalityType

LEMMA KillTyped ==
  ASSUME TypeOK, NEW K, NEW count, Kill(K, count)
  PROVE  /\ ExecutionTarget' \in [Thread -> Task \cup {NULL}]
         /\ DeleteAfterExit' \in [Thread -> BOOLEAN]
         /\ sem' \in [Thread -> Nat]
<1>1. ExecutionTarget' \in [Thread -> Task \cup {NULL}]
  BY DEF Kill, TypeOK
<1>2. DeleteAfterExit' \in [Thread -> BOOLEAN]
  BY DEF Kill, TypeOK
<1>3. sem' \in [Thread -> Nat]
  BY DEF Kill, TypeOK
<1> QED
  BY <1>1, <1>2, <1>3

LEMMA TypeOKStep ==
  ASSUME TypeOK, [Next]_vars
  PROVE  TypeOK'
<1> USE DEF TypeOK
<1>1. CASE Startup
  BY <1>1 DEF Startup, StartThreads, pool, Unborn
<1>2. CASE IntegrityCheck
  <2>1. checks' \in 0..MaxChecks
    BY <1>2, PoolAssumption DEF IntegrityCheck
  <2>2. threadsEaten' \in Int /\ pc' \in [Thread -> {"unborn", "check", "running", "exit", "suspend", "gone"}]
    BY <1>2, PoolAssumption DEF IntegrityCheck, StartThreads, Unborn
  <2>3. threadsToExit' \in Nat
    BY <1>2, CardinalitiesNat DEF IntegrityCheck
  <2>4. /\ ExecutionTarget' \in [Thread -> Task \cup {NULL}]
        /\ DeleteAfterExit' \in [Thread -> BOOLEAN]
        /\ sem' \in [Thread -> Nat]
    BY <1>2, KillTyped DEF IntegrityCheck
  <2> QED
    BY <1>2, <2>1, <2>2, <2>3, <2>4 DEF IntegrityCheck
<1>3. CASE Shutdown
  <2>1. threadsToExit' \in Nat
    BY <1>3, CardinalitiesNat DEF Shutdown
  <2>2. /\ ExecutionTarget' \in [Thread -> Task \cup {NULL}]
        /\ DeleteAfterExit' \in [Thread -> BOOLEAN]
        /\ sem' \in [Thread -> Nat]
    BY <1>3, KillTyped DEF Shutdown
  <2> QED
    BY <1>3, <2>1, <2>2 DEF Shutdown
<1>4. CASE ShutdownReturns
  BY <1>4 DEF ShutdownReturns, pool, threads
<1>5. CASE \E k \in Task : ExecuteTask(k)
  BY <1>5 DEF ExecuteTask, StartThreads, Unborn, Resume, TakeFree
<1>6. CASE \E t \in Thread : Check(t)
  BY <1>6 DEF Check, pool
<1>7. CASE \E t \in Thread : Finish(t)
  BY <1>7 DEF Finish, pool
<1>8. CASE \E t \in Thread : ThreadExit(t)
  BY <1>8 DEF ThreadExit, MustExit, EraseFromFree
<1>9. CASE \E t \in Thread : Suspend(t)
  BY <1>9 DEF Suspend, pool
<1>10. CASE UNCHANGED vars
  BY <1>10 DEF vars, pool, threads
<1> QED
  BY <1>1, <1>2, <1>3, <1>4, <1>5, <1>6, <1>7, <1>8, <1>9, <1>10 DEF Next, ThreadStep

(* Starting threads that nobody knows disturbs no set. *)
LEMMA StartingKeepsSets ==
  ASSUME Inv, NEW S, StartThreads(S),
         UNCHANGED <<m_activeThreads, m_freeThreads, DeleteAfterExit, sem>>
  PROVE  /\ UnbornUnknown' /\ GoneUnknown' /\ ActiveIsNotFree'
         /\ FreeIsParked' /\ PostedOnce' /\ NobodyForgotten'
<1> USE DEF Inv, TypeOK, StartThreads, Unborn
<1>1. UnbornUnknown' /\ GoneUnknown' /\ ActiveIsNotFree'
  BY DEF UnbornUnknown, GoneUnknown, ActiveIsNotFree
<1>2. FreeIsParked'
  BY DEF FreeIsParked, UnbornUnknown
<1>3. PostedOnce' /\ NobodyForgotten'
  BY DEF PostedOnce, UnbornUnknown, NobodyForgotten
<1> QED
  BY <1>1, <1>2, <1>3

(* Killing free threads disturbs no set: they stay until they come to        *)
(* ThreadExit.                                                               *)
LEMMA KillingKeepsSets ==
  ASSUME Inv, NEW K, NEW count, Kill(K, count),
         UNCHANGED <<m_activeThreads, m_freeThreads, pc>>
  PROVE  /\ UnbornUnknown' /\ GoneUnknown' /\ ActiveIsNotFree'
         /\ FreeIsParked' /\ PostedOnce' /\ NobodyForgotten'
<1> USE DEF Inv, TypeOK
<1>1. /\ K \subseteq m_freeThreads
      /\ DeleteAfterExit' = [t \in Thread |-> t \in K \/ DeleteAfterExit[t]]
      /\ sem' = [t \in Thread |-> IF t \in K THEN sem[t] + 1 ELSE sem[t]]
  BY DEF Kill
<1>2. UnbornUnknown' /\ GoneUnknown' /\ ActiveIsNotFree'
  BY <1>1 DEF UnbornUnknown, GoneUnknown, ActiveIsNotFree
<1>3. FreeIsParked' /\ PostedOnce' /\ NobodyForgotten'
  BY <1>1 DEF FreeIsParked, PostedOnce, NobodyForgotten
<1> QED
  BY <1>2, <1>3

LEMMA ExecuteTaskKeepsSets ==
  ASSUME Inv, NEW k \in Task, ExecuteTask(k)
  PROVE  /\ UnbornUnknown' /\ GoneUnknown' /\ ActiveIsNotFree'
         /\ FreeIsParked' /\ PostedOnce' /\ NobodyForgotten'
<1> USE DEF Inv, TypeOK
<1>1. PICK t \in Thread :
        /\ m_activeThreads' = m_activeThreads \cup {t}
        /\ \/ /\ t \in m_freeThreads
              /\ m_freeThreads' = m_freeThreads \ {t}
              /\ sem' = [sem EXCEPT ![t] = @ + 1]
              /\ pc' = pc
           \/ /\ t \in Unborn
              /\ StartThreads({t})
              /\ m_freeThreads' = m_freeThreads /\ sem' = sem
  BY DEF ExecuteTask, TakeFree, Resume
<1>2. DeleteAfterExit' = DeleteAfterExit
  BY DEF ExecuteTask
<1>3. CASE t \in m_freeThreads /\ m_freeThreads' = m_freeThreads \ {t}
           /\ sem' = [sem EXCEPT ![t] = @ + 1] /\ pc' = pc
  <2>1. UnbornUnknown' /\ GoneUnknown' /\ ActiveIsNotFree'
    BY <1>1, <1>2, <1>3 DEF UnbornUnknown, GoneUnknown, ActiveIsNotFree
  <2>2. FreeIsParked' /\ PostedOnce'
    BY <1>2, <1>3 DEF FreeIsParked, PostedOnce
  <2>3. NobodyForgotten'
    BY <1>3 DEF NobodyForgotten
  <2> QED
    BY <2>1, <2>2, <2>3
<1>4. CASE t \in Unborn /\ StartThreads({t}) /\ m_freeThreads' = m_freeThreads /\ sem' = sem
  <2>1. pc' = [u \in Thread |-> IF u = t THEN "check" ELSE pc[u]] /\ pc[t] = "unborn"
    BY <1>4 DEF StartThreads, Unborn
  <2>2. UnbornUnknown' /\ GoneUnknown' /\ ActiveIsNotFree'
    BY <1>1, <1>2, <1>4, <2>1 DEF UnbornUnknown, GoneUnknown, ActiveIsNotFree
  <2>3. FreeIsParked' /\ PostedOnce' /\ NobodyForgotten'
    BY <1>2, <1>4, <2>1 DEF FreeIsParked, PostedOnce, NobodyForgotten, UnbornUnknown
  <2> QED
    BY <2>2, <2>3
<1> QED
  BY <1>1, <1>3, <1>4

(* The thread that parks was not free, unless it was killed; the one that is *)
(* deleted leaves the free set if it was killed, and was not in it if not.   *)
LEMMA ThreadExitKeepsSets ==
  ASSUME Inv, NEW t \in Thread, ThreadExit(t)
  PROVE  /\ UnbornUnknown' /\ GoneUnknown' /\ ActiveIsNotFree'
         /\ FreeIsParked' /\ PostedOnce' /\ NobodyForgotten'
<1> USE DEF Inv, TypeOK
<1>1. /\ pc[t] = "exit"
      /\ m_activeThreads' = m_activeThreads \ {t}
      /\ DeleteAfterExit' = DeleteAfterExit /\ sem' = sem
      /\ \/ m_freeThreads' = EraseFromFree(t) /\ pc' = [pc EXCEPT ![t] = "gone"]
         \/ m_freeThreads' = m_freeThreads \cup {t} /\ pc' = [pc EXCEPT ![t] = "suspend"]
  BY DEF ThreadExit
<1>2. ~DeleteAfterExit[t] => t \notin m_freeThreads /\ sem[t] = 0
  BY <1>1 DEF FreeIsParked, PostedOnce
<1>3. CASE m_freeThreads' = EraseFromFree(t) /\ pc' = [pc EXCEPT ![t] = "gone"]
  <2>1. m_freeThreads' = m_freeThreads \ {t}
    BY <1>2, <1>3 DEF EraseFromFree
  <2>2. UnbornUnknown' /\ GoneUnknown' /\ ActiveIsNotFree'
    BY <1>1, <1>3, <2>1 DEF UnbornUnknown, GoneUnknown, ActiveIsNotFree
  <2>3. FreeIsParked' /\ PostedOnce' /\ NobodyForgotten'
    BY <1>1, <1>2, <1>3, <2>1 DEF FreeIsParked, PostedOnce, NobodyForgotten
  <2> QED
    BY <2>2, <2>3
<1>4. CASE m_freeThreads' = m_freeThreads \cup {t} /\ pc' = [pc EXCEPT ![t] = "suspend"]
  <2>1. UnbornUnknown' /\ GoneUnknown' /\ ActiveIsNotFree'
    BY <1>1, <1>4 DEF UnbornUnknown, GoneUnknown, ActiveIsNotFree
  <2>2. FreeIsParked' /\ PostedOnce' /\ NobodyForgotten'
    BY <1>1, <1>2, <1>4 DEF FreeIsParked, PostedOnce, NobodyForgotten
  <2> QED
    BY <2>1, <2>2
<1> QED
  BY <1>1, <1>3, <1>4

(* A step of a thread between two calls to the pool.                         *)
LEMMA RunningKeepsSets ==
  ASSUME Inv, NEW t \in Thread, Check(t) \/ Finish(t) \/ Suspend(t)
  PROVE  /\ UnbornUnknown' /\ GoneUnknown' /\ ActiveIsNotFree'
         /\ FreeIsParked' /\ PostedOnce' /\ NobodyForgotten'
<1> USE DEF Inv, TypeOK
<1>1. /\ m_activeThreads' = m_activeThreads /\ m_freeThreads' = m_freeThreads
      /\ DeleteAfterExit' = DeleteAfterExit
  BY DEF Check, Finish, Suspend, pool
<1>2. CASE Check(t) \/ Finish(t)
  <2>1. /\ sem' = sem /\ pc[t] \in {"check", "running"}
        /\ \E c \in {"running", "exit"} : pc' = [pc EXCEPT ![t] = c]
    BY <1>2 DEF Check, Finish
  <2>2. UnbornUnknown' /\ GoneUnknown' /\ ActiveIsNotFree'
    BY <1>1, <2>1 DEF UnbornUnknown, GoneUnknown, ActiveIsNotFree
  <2>3. FreeIsParked' /\ PostedOnce' /\ NobodyForgotten'
    BY <1>1, <2>1 DEF FreeIsParked, PostedOnce, NobodyForgotten
  <2> QED
    BY <2>2, <2>3
<1>3. CASE Suspend(t)
  <2>1. /\ pc[t] = "suspend" /\ sem[t] > 0
        /\ sem' = [sem EXCEPT ![t] = @ - 1] /\ pc' = [pc EXCEPT ![t] = "check"]
    BY <1>3 DEF Suspend
  <2>2. UnbornUnknown' /\ GoneUnknown' /\ ActiveIsNotFree'
    BY <1>1, <2>1 DEF UnbornUnknown, GoneUnknown, ActiveIsNotFree
  <2>3. FreeIsParked' /\ PostedOnce' /\ NobodyForgotten'
    BY <1>1, <2>1 DEF FreeIsParked, PostedOnce, NobodyForgotten
  <2> QED
    BY <2>2, <2>3
<1> QED
  BY <1>2, <1>3

(* The strengthened invariant holds in every behaviour.                      *)
THEOREM PoolInvariant == Spec => []Inv
<1>1. Init => Inv
  BY PoolAssumption DEF Init, Inv, TypeOK, UnbornUnknown, GoneUnknown, ActiveIsNotFree,
     FreeIsParked, PostedOnce, NobodyForgotten
<1>2. Inv /\ [Next]_vars => Inv'
  <2> SUFFICES ASSUME Inv, [Next]_vars PROVE Inv'
    OBVIOUS
  <2>1. /\ UnbornUnknown' /\ GoneUnknown' /\ ActiveIsNotFree'
        /\ FreeIsParked' /\ PostedOnce' /\ NobodyForgotten'
    <3>1. CASE Startup
      BY <3>1, StartingKeepsSets DEF Startup, pool
    <3>2. CASE IntegrityCheck
      <4>1. ASSUME NEW S \in SUBSET Unborn, StartThreads(S),
                   UNCHANGED <<m_activeThreads, m_freeThreads, DeleteAfterExit, sem>>
            PROVE  /\ UnbornUnknown' /\ GoneUnknown' /\ ActiveIsNotFree'
                   /\ FreeIsParked' /\ PostedOnce' /\ NobodyForgotten'
        BY <4>1, StartingKeepsSets
      <4>2. ASSUME NEW K \in SUBSET m_freeThreads, Kill(K, threadsEaten - THREAD_RESERVE),
                   UNCHANGED <<m_activeThreads, m_freeThreads, pc>>
            PROVE  /\ UnbornUnknown' /\ GoneUnknown' /\ ActiveIsNotFree'
                   /\ FreeIsParked' /\ PostedOnce' /\ NobodyForgotten'
        BY <4>2, KillingKeepsSets
      <4> QED
        BY <3>2, <4>1, <4>2 DEF IntegrityCheck
    <3>3. CASE Shutdown
      BY <3>3, KillingKeepsSets DEF Shutdown
    <3>4. CASE ShutdownReturns \/ UNCHANGED vars
      BY <3>4 DEF ShutdownReturns, vars, pool, threads, Inv, UnbornUnknown, GoneUnknown,
         ActiveIsNotFree, FreeIsParked, PostedOnce, NobodyForgotten
    <3>5. CASE \E k \in Task : ExecuteTask(k)
      BY <3>5, ExecuteTaskKeepsSets
    <3>6. CASE \E t \in Thread : ThreadExit(t)
      BY <3>6, ThreadExitKeepsSets
    <3>7. CASE \E t \in Thread : Check(t) \/ Finish(t) \/ Suspend(t)
      BY <3>7, RunningKeepsSets
    <3> QED
      BY <3>1, <3>2, <3>3, <3>4, <3>5, <3>6, <3>7 DEF Next, ThreadStep
  <2>2. TypeOK'
    BY TypeOKStep DEF Inv
  <2> QED
    BY <2>1, <2>2 DEF Inv
<1> QED
  BY <1>1, <1>2, PTL DEF Spec

(* The sets hold no deleted thread, however calls and threads interleave:    *)
(* ThreadExit may erase the thread from the free set only when it was        *)
(* killed.                                                                   *)
THEOREM LiveThreads == Spec => []SetsHoldLiveThreads
<1>1. Inv => SetsHoldLiveThreads
  BY DEF Inv, TypeOK, UnbornUnknown, GoneUnknown, SetsHoldLiveThreads
<1> QED
  BY <1>1, PoolInvariant, PTL

(* No thread is active and free at once.                                     *)
THEOREM Disjoint == Spec => []ActiveIsNotFree
<1>1. Inv => ActiveIsNotFree
  BY DEF Inv
<1> QED
  BY <1>1, PoolInvariant, PTL

(* A parked thread is in the free set or has been resumed: none is lost to   *)
(* the pool.                                                                 *)
THEOREM Reachable == Spec => []NobodyForgotten
<1>1. Inv => NobodyForgotten
  BY DEF Inv
<1> QED
  BY <1>1, PoolInvariant, PTL

(* Every variable keeps its type: ThreadExit takes no more off the number of *)
(* threads to exit than IntegrityCheck and Shutdown have put there.          *)
THEOREM TypeCorrect == Spec => []TypeOK
<1>1. Inv => TypeOK
  BY DEF Inv
<1> QED
  BY <1>1, PoolInvariant, PTL
-----------------------------------------------------------------------------
(* RWLock. *)

At(states) == {t \in User : place[t] \in states}
Reading == At({"reading"})
Queued == At({"wait", "woken", "writing"})

CountsMatch == _readers = Cardinality(Reading) /\ _writers = Cardinality(Queued)

WriterInside ==
  /\ \A t \in User : place[t] = "writing" <=> hLock = t
  /\ hLock # NOBODY => _readers = 0

LockInv == LockTypeOK /\ CountsMatch /\ WriterInside

LEMMA AtFinite ==
  ASSUME NEW states
  PROVE  IsFiniteSet(At(states)) /\ Cardinality(At(states)) \in Nat
BY LockAssumption, FS_Subset, FS_CardinalityType DEF At

(* What a step of one thread from one place to another does to the number of *)
(* threads at a set of places.                                               *)
LEMMA MovedCount ==
  ASSUME NEW states, NEW t \in User, NEW from, NEW to, LockTypeOK,
         Goes(t, from, to)
  PROVE  /\ from \notin states /\ to \in states =>
              Cardinality(At(states)') = Cardinality(At(states)) + 1
         /\ from \in states /\ to \notin states =>
              Cardinality(At(states)') = Cardinality(At(states)) - 1
         /\ (from \in states <=> to \in states) => At(states)' = At(states)
<1>1. /\ place[t] = from /\ place' = [place EXCEPT ![t] = to]
      /\ At(states) = {u \in User : place[u] \in states}
      /\ At(states)' = {u \in User : place'[u] \in states}
  BY DEF Goes, At
<1>2. ASSUME from \notin states, to \in states
      PROVE  Cardinality(At(states)') = Cardinality(At(states)) + 1
  <2>1. At(states)' = At(states) \cup {t} /\ t \notin At(states)
    BY <1>1, <1>2 DEF LockTypeOK
  <2> QED
    BY <2>1, AtFinite, FS_AddElement
<1>3. ASSUME from \in states, to \notin states
      PROVE  Cardinality(At(states)') = Cardinality(At(states)) - 1
  <2>1. At(states)' = At(states) \ {t} /\ t \in At(states)
    BY <1>1, <1>3 DEF LockTypeOK
  <2> QED
    BY <2>1, AtFinite, FS_RemoveElement
<1>4. (from \in states <=> to \in states) => At(states)' = At(states)
  BY <1>1 DEF LockTypeOK
<1> QED
  BY <1>2, <1>3, <1>4

(* _readers and _writers stay natural numbers: what is taken away was added. *)
LEMMA CountsKept ==
  ASSUME LockInv, NEW t \in User, Advance(t)
  PROVE  CountsMatch' /\ _readers' \in Nat /\ _writers' \in Nat
<1> USE DEF LockInv, CountsMatch, Reading, Queued
<1>1. LockTypeOK /\ _readers \in Nat /\ _writers \in Nat
  BY DEF LockTypeOK
<1>2. ASSUME CountsMatch'
      PROVE  _readers' \in Nat /\ _writers' \in Nat
  <2>1. /\ _readers' = Cardinality({u \in User : place'[u] \in {"reading"}})
        /\ _writers' = Cardinality({u \in User : place'[u] \in {"wait", "woken", "writing"}})
    BY <1>2 DEF At
  <2> QED
    BY <2>1, LockAssumption, FS_Subset, FS_CardinalityType
<1>3. CASE AcquireReadLock(t)
  <2>1. CountsMatch'
    BY <1>1, <1>3, MovedCount DEF AcquireReadLock, ReaderCounted
  <2> QED
    BY <2>1, <1>2
<1>4. CASE ReleaseReadLock(t)
  <2>1. CountsMatch'
    BY <1>1, <1>4, MovedCount DEF ReleaseReadLock
  <2> QED
    BY <2>1, <1>2
<1>5. CASE AcquireWriteLock(t)
  <2>1. CountsMatch'
    BY <1>1, <1>5, MovedCount DEF AcquireWriteLock, TakeOrWait
  <2> QED
    BY <2>1, <1>2
<1>6. CASE WaitForSingleObject(t)
  <2>1. CountsMatch'
    BY <1>1, <1>6, MovedCount DEF WaitForSingleObject
  <2> QED
    BY <2>1, <1>2
<1>7. CASE Reenter(t)
  <2>1. CountsMatch'
    BY <1>1, <1>7, MovedCount DEF Reenter, TakeOrWait
  <2> QED
    BY <2>1, <1>2
<1>8. CASE ReleaseWriteLock(t)
  <2>1. CountsMatch'
    BY <1>1, <1>8, MovedCount DEF ReleaseWriteLock
  <2> QED
    BY <2>1, <1>2
<1> QED
  BY <1>3, <1>4, <1>5, <1>6, <1>7, <1>8 DEF Advance

(* A thread enters hLock only when no writer stays there, and a writer stays *)
(* there only when it has seen no reader.                                    *)
LEMMA WriterKept ==
  ASSUME LockInv, NEW t \in User, Advance(t)
  PROVE  WriterInside'
<1> USE LockAssumption DEF LockInv, LockTypeOK, WriterInside, Goes, Enter
<1>1. CASE AcquireReadLock(t)
  BY <1>1 DEF AcquireReadLock
<1>2. CASE ReleaseReadLock(t)
  BY <1>2 DEF ReleaseReadLock
<1>3. CASE AcquireWriteLock(t)
  BY <1>3 DEF AcquireWriteLock, TakeOrWait
<1>4. CASE WaitForSingleObject(t)
  BY <1>4 DEF WaitForSingleObject
<1>5. CASE Reenter(t)
  BY <1>5 DEF Reenter, TakeOrWait
<1>6. CASE ReleaseWriteLock(t)
  BY <1>6 DEF ReleaseWriteLock, LeaveLock
<1> QED
  BY <1>1, <1>2, <1>3, <1>4, <1>5, <1>6 DEF Advance

LEMMA TypeKept ==
  ASSUME LockInv, NEW t \in User, Advance(t)
  PROVE  LockTypeOK'
<1> USE DEF LockInv, LockTypeOK, Goes
<1>1. _readers' \in Nat /\ _writers' \in Nat
  BY CountsKept
<1>2. hLock' \in User \cup {NOBODY} /\ hWriterWakeup' \in BOOLEAN
  BY DEF Advance, AcquireReadLock, ReleaseReadLock, AcquireWriteLock, WaitForSingleObject,
     Reenter, ReleaseWriteLock, TakeOrWait, LeaveLock, SignalWriters
<1>3. /\ place' \in [User -> {"idle", "wantRead", "reading", "wantWrite", "wait", "woken", "writing"}]
      /\ calls' = calls
  BY DEF Advance, AcquireReadLock, ReleaseReadLock, AcquireWriteLock, WaitForSingleObject,
     Reenter, ReleaseWriteLock, TakeOrWait
<1> QED
  BY <1>1, <1>2, <1>3

LEMMA CallKept ==
  ASSUME LockInv, NEW t \in User, Call(t)
  PROVE  LockInv'
<1> USE DEF LockInv
<1>1. \E to \in {"wantRead", "wantWrite"} : Goes(t, "idle", to)
  BY DEF Call
<1>2. CountsMatch'
  BY <1>1, MovedCount DEF Call, CountsMatch, Reading, Queued
<1>3. WriterInside'
  BY <1>1 DEF Call, WriterInside, Goes, LockTypeOK
<1>4. LockTypeOK'
  BY <1>1, LockAssumption DEF Call, Goes, LockTypeOK
<1> QED
  BY <1>2, <1>3, <1>4

(* The strengthened invariant holds in every behaviour.                      *)
THEOREM LockInvariant == LockSpec => []LockInv
<1>1. LockInit => LockInv
  <2> SUFFICES ASSUME LockInit PROVE LockInv
    OBVIOUS
  <2>1. LockTypeOK
    <3>1. hLock \in User \cup {NOBODY} /\ hWriterWakeup \in BOOLEAN
      BY DEF LockInit
    <3>2. calls \in [User -> 0..MaxCalls] /\ _readers \in Nat /\ _writers \in Nat
      BY LockAssumption DEF LockInit
    <3>3. place \in [User -> {"idle", "wantRead", "reading", "wantWrite", "wait", "woken", "writing"}]
      BY DEF LockInit
    <3> QED
      BY <3>1, <3>2, <3>3 DEF LockTypeOK
  <2>2. Reading = {} /\ Queued = {}
    BY DEF LockInit, Reading, Queued, At
  <2>3. CountsMatch
    BY <2>2, FS_EmptySet DEF CountsMatch, LockInit
  <2>4. WriterInside
    BY LockAssumption DEF LockInit, WriterInside
  <2> QED
    BY <2>1, <2>3, <2>4 DEF LockInv
<1>2. LockInv /\ [LockNext]_lockVars => LockInv'
  <2> SUFFICES ASSUME LockInv, [LockNext]_lockVars PROVE LockInv'
    OBVIOUS
  <2>1. CASE \E t \in User : Call(t)
    BY <2>1, CallKept
  <2>2. CASE \E t \in User : Advance(t)
    BY <2>2, CountsKept, WriterKept, TypeKept DEF LockInv
  <2>3. CASE UNCHANGED lockVars
    BY <2>3 DEF lockVars, LockInv, LockTypeOK, CountsMatch, Reading, Queued, At, WriterInside
  <2> QED
    BY <2>1, <2>2, <2>3 DEF LockNext
<1> QED
  BY <1>1, <1>2, PTL DEF LockSpec

(* While a thread holds the lock for writing no other thread holds it at     *)
(* all.                                                                      *)
THEOREM MutualExclusion == LockSpec => []Exclusive
<1>1. LockInv => Exclusive
  <2> SUFFICES ASSUME LockInv, NEW t \in User, place[t] = "writing", NEW u \in User \ {t}
               PROVE  place[u] \notin {"reading", "writing"}
    BY DEF Exclusive
  <2>1. hLock = t /\ _readers = 0
    BY LockAssumption DEF LockInv, WriterInside
  <2>2. Reading = {}
    BY <2>1, AtFinite, FS_EmptySet DEF LockInv, CountsMatch, Reading
  <2> QED
    BY <2>1, <2>2 DEF LockInv, WriterInside, Reading, At
<1> QED
  BY <1>1, LockInvariant, PTL

(* Every variable keeps its type: the counters that ReleaseReadLock and      *)
(* ReleaseWriteLock decrement without a test never go below zero.            *)
THEOREM LockTypeCorrect == LockSpec => []LockTypeOK
<1>1. LockInv => LockTypeOK
  BY DEF LockInv
<1> QED
  BY <1>1, LockInvariant, PTL
=============================================================================
