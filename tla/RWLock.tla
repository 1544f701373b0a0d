------------------------------- MODULE RWLock -------------------------------
(***************************************************************************)
(* The Windows RWLock of src/ascent-shared/Threading/RWLock.h.  A writer   *)
(* keeps the critical section hLock for as long as it holds the lock; a    *)
(* reader holds it only while it changes _readers.  A writer that finds    *)
(* readers leaves hLock and waits for the auto-reset event hWriterWakeup.  *)
(*                                                                         *)
(* A thread holds at most one side of the lock at a time.  Each passage of *)
(* hLock that waits for nothing else is one step.                          *)
(***************************************************************************)
EXTENDS Integers, FiniteSets

CONSTANTS Reader, Writer,   (* the threads that read and those that write *)
          NOBODY,
          MaxCalls          (* bound: acquisitions of each thread *)

User == Reader \cup Writer

ASSUME LockAssumption ==
  /\ IsFiniteSet(User) /\ NOBODY \notin User
  /\ MaxCalls \in Nat

VARIABLES _readers, _writers,
          hLock,           (* the writer that stays in the critical section, or NOBODY *)
          hWriterWakeup,   (* whether the event is set *)
          place, calls        (* of each thread *)

lockVars == <<_readers, _writers, hLock, hWriterWakeup, place, calls>>

LockInit ==
  /\ _readers = 0 /\ _writers = 0
  /\ hLock = NOBODY /\ hWriterWakeup = FALSE
  /\ place = [t \in User |-> "idle"]
  /\ calls = [t \in User |-> 0]

Goes(t, from, to) == place[t] = from /\ place' = [place EXCEPT ![t] = to]
Enter == hLock = NOBODY

(* A thread calls AcquireReadLock or AcquireWriteLock. *)
Call(t) ==
  /\ calls[t] < MaxCalls
  /\ calls' = [calls EXCEPT ![t] = @ + 1]
  /\ \/ t \in Reader /\ Goes(t, "idle", "wantRead")
     \/ t \in Writer /\ Goes(t, "idle", "wantWrite")
  /\ UNCHANGED <<_readers, _writers, hLock, hWriterWakeup>>

ReaderCounted == _readers + 1

AcquireReadLock(t) ==
  /\ Goes(t, "wantRead", "reading") /\ Enter
  /\ _readers' = ReaderCounted
  /\ UNCHANGED <<_writers, hLock, hWriterWakeup, calls>>

(* The last reader sets the event if a writer is queued. *)
SignalBlindly == hWriterWakeup' = hWriterWakeup
SignalWriters == hWriterWakeup' = (hWriterWakeup \/ (_readers' <= 0 /\ _writers > 0))

ReleaseReadLock(t) ==
  /\ Goes(t, "reading", "idle") /\ Enter
  /\ _readers' = _readers - 1
  /\ SignalWriters
  /\ UNCHANGED <<_writers, hLock, calls>>

(* What the writer's loop does once it is in hLock. *)
TakeAnyway(t, from) ==
  /\ hLock' = t
  /\ Goes(t, from, "writing")

TakeOrWait(t, from) ==
  \/ /\ _readers > 0 /\ hLock' = NOBODY
     /\ Goes(t, from, "wait")
  \/ /\ ~(_readers > 0) /\ hLock' = t
     /\ Goes(t, from, "writing")

AcquireWriteLock(t) ==
  /\ Enter
  /\ _writers' = _writers + 1
  /\ TakeOrWait(t, "wantWrite")
  /\ UNCHANGED <<_readers, hWriterWakeup, calls>>

WaitForSingleObject(t) ==
  /\ hWriterWakeup /\ Goes(t, "wait", "woken")
  /\ hWriterWakeup' = FALSE
  /\ UNCHANGED <<_readers, _writers, hLock, calls>>

Reenter(t) ==
  /\ Enter /\ TakeOrWait(t, "woken")
  /\ UNCHANGED <<_readers, _writers, hWriterWakeup, calls>>

KeepLock == hLock
LeaveLock == NOBODY

(* SetEvent gets the address of the handle instead of the handle and sets    *)
(* nothing.                                                                  *)
ReleaseWriteLock(t) ==
  /\ Goes(t, "writing", "idle")
  /\ _writers' = _writers - 1
  /\ hLock' = LeaveLock
  /\ UNCHANGED <<_readers, hWriterWakeup, calls>>

Advance(t) ==
  \/ AcquireReadLock(t) \/ ReleaseReadLock(t)
  \/ AcquireWriteLock(t) \/ WaitForSingleObject(t) \/ Reenter(t) \/ ReleaseWriteLock(t)

LockNext == \E t \in User : Call(t) \/ Advance(t)

LockSpec == LockInit /\ [][LockNext]_lockVars

(* Every thread that can go on does, and every holder releases in the end.   *)
LockFairSpec == LockSpec /\ \A t \in User : WF_lockVars(Advance(t))
-----------------------------------------------------------------------------
LockTypeOK ==
  /\ _readers \in Nat /\ _writers \in Nat
  /\ hLock \in User \cup {NOBODY} /\ hWriterWakeup \in BOOLEAN
  /\ place \in [User -> {"idle", "wantRead", "reading", "wantWrite", "wait", "woken", "writing"}]
  /\ calls \in [User -> 0..MaxCalls]

(* "Multiple threads can read data at once, only one thread can write data   *)
(* at once" (RWLock.h:87).                                                   *)
Exclusive ==
  \A t \in User : place[t] = "writing" =>
    \A u \in User \ {t} : place[u] \notin {"reading", "writing"}

(* A thread that asks to read gets the lock, whatever the writers do.        *)
ReadersServed == \A t \in Reader : place[t] = "wantRead" ~> place[t] = "reading"

(* A writer gets the lock (RWLock.h:106: a faster reader only makes it wait  *)
(* longer) when no two writers are ever in the queue at once: the wakeup of  *)
(* the last reader is not lost, whatever the readers do.  Of two writers the *)
(* second may wait for ever, as ReleaseWriteLock wakes nobody (line 209).    *)
LoneWriterServed ==
  [](_writers <= 1) => \A t \in Writer : place[t] \in {"wantWrite", "wait"} ~> place[t] = "writing"
=============================================================================
