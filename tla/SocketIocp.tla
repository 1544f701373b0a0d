----------------------------- MODULE SocketIocp -----------------------------
(***************************************************************************)
(* The sockets of ascent-shared/Network on an I/O completion port: the     *)
(* acceptor, several workers, the application and CloseAll share a socket. *)
(* A thread has a list of the steps it still has to make with its socket,  *)
(* as the calls it is in have them left.  Bytes are only counted: whatever *)
(* region they are in, CircularBuffer offers contiguous bytes when it has  *)
(* any.  The kernel, the peers and the application are external.           *)
(***************************************************************************)
EXTENDS Naturals, Sequences, FiniteSets

CONSTANTS Socket, Worker, App,
          Acceptor,           \* ListenSocket::run
          Main,               \* who calls CloseAll
          NULL,
          Size,               \* of a write buffer
          MaxSends, MaxReads  \* bounds on messages sent and received

Thread == Worker \cup App \cup {Acceptor, Main}

ASSUME DistinctThreads == /\ Acceptor # Main /\ Worker \cap App = {}
                          /\ {Acceptor, Main} \cap (Worker \cup App) = {}
ASSUME NullIsNothing   == NULL \notin Socket
ASSUME Bounds          == {Size, MaxSends, MaxReads} \subseteq Nat

VARIABLES m_connected, m_deleted,   \* the sockets that are
          m_writeLock,              \* by socket
          readEvent, writeEvent,    \* the sockets whose event is in use
          doubleUse,                \* Mark met an event in use
          writeBuffer,              \* bytes in it, by socket
          _sockets,                 \* the sockets of the manager
          deletionQueue,            \* of the garbage collector
          todo, sock, len,          \* of each thread: steps left, socket, bytes completed
          tokill, killed,           \* CloseAll: what it found, what it has disconnected
          accepted, known,          \* sockets that exist, that the application has
          \* the kernel
          recv, send,               \* reads posted, bytes of the write posted
          port,                     \* completions queued: <<socket, event, bytes>>
          closed, dropped,          \* handles closed, connections gone
          sends, reads              \* counters of the bounds

socket  == <<m_connected, m_deleted>>
events  == <<readEvent, writeEvent, doubleUse>>
manager == <<_sockets, deletionQueue>>
thread  == <<todo, sock, len>>
closing == <<tokill, killed>>
users   == <<accepted, known>>
kernel  == <<recv, send, port, closed, dropped>>
counts  == <<sends, reads>>
vars    == <<socket, m_writeLock, events, writeBuffer, manager, thread, closing, users,
             kernel, counts>>

Init == /\ m_connected = {} /\ m_deleted = {}
        /\ m_writeLock = [s \in Socket |-> 0]
        /\ readEvent = {} /\ writeEvent = {} /\ doubleUse = FALSE
        /\ writeBuffer = [s \in Socket |-> 0]
        /\ _sockets = {} /\ deletionQueue = {}
        /\ todo = [t \in Thread |-> <<>>]
        /\ sock = [t \in Thread |-> NULL]
        /\ len = [t \in Thread |-> 0]
        /\ tokill = {} /\ killed = {}
        /\ accepted = {} /\ known = {}
        /\ recv = {} /\ send = [s \in Socket |-> 0]
        /\ port = {} /\ closed = {} /\ dropped = {}
        /\ sends = 0 /\ reads = 0

-----------------------------------------------------------------------------
(* Calls.  A thread makes the step its list begins with. *)

Idle(t)     == todo[t] = <<>>
At(t, l)    == todo[t] # <<>> /\ Head(todo[t]) = l
Then(t, ls) == LET left == ls \o Tail(todo[t])
               IN /\ todo' = [todo EXCEPT ![t] = left]
                  /\ sock' = IF left = <<>> THEN [sock EXCEPT ![t] = NULL] ELSE sock
Return(t)   == Then(t, <<>>)
Begin(t, s, ls) == /\ Idle(t)
                   /\ todo' = [todo EXCEPT ![t] = ls]
                   /\ sock' = [sock EXCEPT ![t] = s]

(* Mutant: a disconnected socket is not deleted. *)
DisconnectOnly == <<"disconnect", "remove", "close">>
Disconnect == <<"disconnect", "remove", "close", "delete">>
Delete     == <<"delete">>

(* OverlappedStruct::Mark and Unmark. *)
Mark(event, s) == doubleUse' = (doubleUse \/ s \in event)

-----------------------------------------------------------------------------
(* Writing. *)

(* Mutant: the lock is not tested. *)
IgnoreSendLock(s) == TRUE

(* AcquireSendLock, in a caller that holds the write mutex. *)
AcquireSendLock(s) == m_writeLock[s] = 0
(* Mutant: the lock is not given back. *)
KeepSendLock(s)    == m_writeLock[s]
Locked(s)          == IF AcquireSendLock(s) THEN m_writeLock[s] + 1 ELSE m_writeLock[s]
DecSendLock(s)     == m_writeLock[s] - 1

(* WriteCallback for a buffer of n bytes and a lock of l: some of them are   *)
(* posted, or the call fails and t has to disconnect, or there is nothing.   *)
Dead(s) == s \in m_deleted \/ s \notin m_connected
Post(t, s, n, l) ==
  \E k \in 1..n :
     /\ send' = [send EXCEPT ![s] = k]
     /\ Mark(writeEvent, s) /\ writeEvent' = writeEvent \cup {s}
     /\ m_writeLock' = [m_writeLock EXCEPT ![s] = l]
     /\ Return(t)
PostFails(t, s, l) ==
  /\ Mark(writeEvent, s) /\ writeEvent' = writeEvent \ {s}
  /\ m_writeLock' = [m_writeLock EXCEPT ![s] = l - 1]
  /\ Then(t, Disconnect)
  /\ UNCHANGED send
Quiet(t, s, l) == /\ m_writeLock' = [m_writeLock EXCEPT ![s] = l]
                  /\ Return(t)
                  /\ UNCHANGED <<send, writeEvent, doubleUse>>
WriteCallback(t, s, n, l) ==
  \/ Dead(s) /\ Quiet(t, s, l)
  \/ ~Dead(s) /\ n = 0 /\ Quiet(t, s, l - 1)
  \/ ~Dead(s) /\ n > 0 /\ (Post(t, s, n, l) \/ PostFails(t, s, l))

WriteOnly == UNCHANGED <<socket, readEvent, manager, closing, users,
                         recv, port, closed, dropped, counts>>

(* Send: BurstSend and BurstPush under the write mutex.  A message counts as *)
(* one byte, or does not fit.                                                *)
Send(t) ==
  LET s == sock[t]
  IN /\ At(t, "send")
     /\ \/ /\ writeBuffer[s] < Size
           /\ writeBuffer' = [writeBuffer EXCEPT ![s] = @ + 1]
           /\ IF AcquireSendLock(s) THEN WriteCallback(t, s, writeBuffer[s] + 1, Locked(s))
              ELSE Quiet(t, s, m_writeLock[s])
        \/ Quiet(t, s, m_writeLock[s]) /\ UNCHANGED writeBuffer
     /\ WriteOnly /\ UNCHANGED len

(* HandleWriteComplete after Unmark, under the write mutex. *)
Rest(s, n) == writeBuffer[s] - n
HandleWritten(t) ==
  LET s == sock[t]
      n == Rest(s, len[t])
  IN /\ At(t, "written")
     /\ writeBuffer' = [writeBuffer EXCEPT ![s] = n]
     /\ len' = [len EXCEPT ![t] = 0]
     /\ IF n > 0 THEN WriteCallback(t, s, n, m_writeLock[s])
        ELSE Quiet(t, s, DecSendLock(s))
     /\ WriteOnly

-----------------------------------------------------------------------------
(* Reading. *)

SetupReadEvent(t) ==
  LET s == sock[t]
  IN /\ At(t, "setupRead")
     /\ \/ /\ Dead(s) /\ Return(t)
           /\ UNCHANGED <<recv, readEvent, doubleUse>>
        \/ /\ ~Dead(s) /\ recv' = recv \cup {s}
           /\ Mark(readEvent, s) /\ readEvent' = readEvent \cup {s}
           /\ Return(t)
        \/ /\ ~Dead(s) /\ Mark(readEvent, s) /\ readEvent' = readEvent \ {s}
           /\ Then(t, Disconnect)
           /\ UNCHANGED recv
     /\ UNCHANGED <<socket, m_writeLock, writeEvent, writeBuffer, manager, len, closing,
                    users, send, port, closed, dropped, counts>>

(* OnRead of the application: it may send or close. *)
OnRead(t) ==
  /\ At(t, "onRead")
  /\ \/ /\ Return(t) \/ Then(t, Disconnect) \/ Then(t, Delete)
        /\ UNCHANGED sends
     \/ /\ sends < MaxSends /\ sends' = sends + 1
        /\ Then(t, <<"send">>)
  /\ UNCHANGED <<socket, m_writeLock, events, writeBuffer, manager, len, closing, users,
                 kernel, reads>>

-----------------------------------------------------------------------------
(* Disconnect and Delete. *)

LifeOnly == UNCHANGED <<m_writeLock, events, writeBuffer, len, closing, users,
                        recv, send, port, dropped, counts>>

MarkDisconnected(t) == /\ At(t, "disconnect")
                       /\ m_connected' = m_connected \ {sock[t]}
                       /\ Return(t)
                       /\ LifeOnly /\ UNCHANGED <<m_deleted, manager, closed>>

(* Mutant: the manager keeps the socket. *)
StillThere(s) == _sockets
Without(s) == _sockets \ {s}
RemoveSocket(t) == /\ At(t, "remove")
                   /\ _sockets' = Without(sock[t])
                   /\ Return(t)
                   /\ LifeOnly /\ UNCHANGED <<socket, deletionQueue, closed>>

(* CloseSocket, then OnDisconnect. *)
CloseSocket(t) == /\ At(t, "close")
                  /\ closed' = closed \cup {sock[t]}
                  /\ Return(t)
                  /\ LifeOnly /\ UNCHANGED <<socket, manager>>

(* m_deleted is tested, and set in a step of its own.  (Disconnect tests it   *)
(* once more before it calls Delete: it is never cleared.)                   *)
TestDeleted(t) == /\ At(t, "delete")
                  /\ Then(t, IF sock[t] \in m_deleted THEN <<>> ELSE <<"mark", "drop", "queue">>)
                  /\ LifeOnly /\ UNCHANGED <<socket, manager, closed>>
MarkDeleted(t) == /\ At(t, "mark")
                  /\ m_deleted' = m_deleted \cup {sock[t]}
                  /\ Return(t)
                  /\ LifeOnly /\ UNCHANGED <<m_connected, manager, closed>>
DropConnection(t) == /\ At(t, "drop")
                     /\ Then(t, IF sock[t] \in m_connected THEN Disconnect ELSE <<>>)
                     /\ LifeOnly /\ UNCHANGED <<socket, manager, closed>>
QueueSocket(t) == /\ At(t, "queue")
                  /\ deletionQueue' = deletionQueue \cup {sock[t]}
                  /\ Return(t)
                  /\ LifeOnly /\ UNCHANGED <<socket, _sockets, closed>>

-----------------------------------------------------------------------------
(* ListenSocket::run: the socket reads before the manager and the           *)
(* application know it.                                                      *)
Accept(s) == /\ Begin(Acceptor, s, <<"setupRead", "add">>)
             /\ s \notin accepted
             /\ accepted' = accepted \cup {s}
             /\ m_connected' = m_connected \cup {s}
             /\ UNCHANGED <<m_deleted, m_writeLock, events, writeBuffer, manager, len, closing,
                            known, kernel, counts>>

(* AddSocket, then OnConnect. *)
AddSocket == /\ At(Acceptor, "add")
             /\ _sockets' = _sockets \cup {sock[Acceptor]}
             /\ known' = known \cup {sock[Acceptor]}
             /\ Return(Acceptor)
             /\ UNCHANGED <<socket, m_writeLock, events, writeBuffer, deletionQueue, len, closing,
                            accepted, kernel, counts>>

(* SocketWorkerThread::run.  The event is unmarked before the mutex is taken. *)
(* Idle workers wait alike: which one gets a completion makes no difference. *)
NextIdle(w)     == Idle(w) /\ w = CHOOSE x \in Worker : Idle(x)
Completed(w, c) == NextIdle(w) /\ c \in port /\ port' = port \ {c}
WorkerOnly == UNCHANGED <<socket, m_writeLock, doubleUse, writeBuffer, manager, closing, users,
                          recv, send, closed, dropped, counts>>
AfterRead(n) == IF n > 0 THEN <<"onRead", "setupRead">> ELSE Delete

HandleDeleted(w, c) == /\ Completed(w, c) /\ c.socket \in m_deleted
                       /\ WorkerOnly /\ UNCHANGED <<thread, readEvent, writeEvent>>
HandleReadComplete(w, c) ==
  /\ Completed(w, c) /\ c.event = "read" /\ c.socket \notin m_deleted
  /\ readEvent' = readEvent \ {c.socket}
  /\ Begin(w, c.socket, AfterRead(c.len))
  /\ WorkerOnly /\ UNCHANGED <<len, writeEvent>>
HandleWriteComplete(w, c) ==
  /\ Completed(w, c) /\ c.event = "write" /\ c.socket \notin m_deleted
  /\ writeEvent' = writeEvent \ {c.socket}
  /\ Begin(w, c.socket, <<"written">>)
  /\ len' = [len EXCEPT ![w] = c.len]
  /\ WorkerOnly /\ UNCHANGED readEvent

(* GetQueuedCompletionStatus is FALSE for an operation that failed, and run  *)
(* goes on with the next one.                                                *)
IgnoreFailure(w, s) ==
  /\ Idle(w) /\ s \in closed \cup dropped
  /\ \/ s \in recv /\ recv' = recv \ {s} /\ UNCHANGED send
     \/ send[s] > 0 /\ send' = [send EXCEPT ![s] = 0] /\ UNCHANGED recv
  /\ UNCHANGED <<socket, m_writeLock, events, writeBuffer, manager, thread, closing, users,
                 port, closed, dropped, counts>>

-----------------------------------------------------------------------------
(* The kernel, the peer and the application. *)

KernelOnly == UNCHANGED <<socket, m_writeLock, events, writeBuffer, manager, thread, closing,
                          users, closed, sends>>
Works(s) == s \notin closed \cup dropped
Arrives(s) == /\ s \in recv /\ Works(s)
              /\ recv' = recv \ {s}
              /\ \/ /\ reads < MaxReads /\ reads' = reads + 1
                    /\ port' = port \cup {[socket |-> s, event |-> "read", len |-> 1]}
                 \/ /\ port' = port \cup {[socket |-> s, event |-> "read", len |-> 0]}
                    /\ UNCHANGED reads
              /\ KernelOnly /\ UNCHANGED <<send, dropped>>
WriteEnds(s) == /\ send[s] > 0 /\ Works(s)
                /\ send' = [send EXCEPT ![s] = 0]
                /\ port' = port \cup {[socket |-> s, event |-> "write", len |-> send[s]]}
                /\ KernelOnly /\ UNCHANGED <<recv, dropped, reads>>
\* With nothing posted a drop shows only as the failure of the next post.
ConnectionDrops(s) == /\ (s \in recv \/ send[s] > 0) /\ Works(s)
                      /\ dropped' = dropped \cup {s}
                      /\ KernelOnly /\ UNCHANGED <<recv, send, port, reads>>

CallOnly == UNCHANGED <<socket, m_writeLock, events, writeBuffer, manager, len, closing, users,
                        kernel, reads>>
CallSend(t, s) == /\ s \in known /\ sends < MaxSends /\ sends' = sends + 1
                  /\ Begin(t, s, <<"send">>)
                  /\ CallOnly

-----------------------------------------------------------------------------
(* CloseAll disconnects what it finds and waits for an empty manager. *)
CloseOnly == UNCHANGED <<socket, m_writeLock, events, writeBuffer, manager, len, users, kernel, counts>>
CloseAll == /\ Begin(Main, NULL, <<"find">>)
            /\ CloseOnly /\ UNCHANGED closing
FindSockets == /\ At(Main, "find")
               /\ tokill' = _sockets
               /\ Then(Main, <<"next">>)
               /\ CloseOnly /\ UNCHANGED killed
DisconnectNext == /\ At(Main, "next")
                  /\ \/ \E s \in tokill \ killed :
                          /\ killed' = killed \cup {s}
                          /\ sock' = [sock EXCEPT ![Main] = s]
                          /\ todo' = [todo EXCEPT ![Main] = Disconnect \o <<"next">>]
                     \/ tokill = killed /\ Then(Main, <<"empty">>) /\ UNCHANGED killed
                  /\ CloseOnly /\ UNCHANGED tokill
AllClosed == /\ At(Main, "empty") /\ _sockets = {}
             /\ Then(Main, <<"end">>)
             /\ CloseOnly /\ UNCHANGED closing

-----------------------------------------------------------------------------
Step(t) == \/ Send(t) \/ HandleWritten(t) \/ SetupReadEvent(t) \/ OnRead(t)
           \/ MarkDisconnected(t) \/ RemoveSocket(t) \/ CloseSocket(t)
           \/ TestDeleted(t) \/ MarkDeleted(t) \/ DropConnection(t) \/ QueueSocket(t)
Handle(w) == \E c \in port : \/ HandleDeleted(w, c) \/ HandleReadComplete(w, c)
                             \/ HandleWriteComplete(w, c)
Kernel(s) == Arrives(s) \/ WriteEnds(s) \/ ConnectionDrops(s)
MainStep == FindSockets \/ DisconnectNext \/ AllClosed

Next == \/ \E t \in Thread : Step(t)
        \/ \E w \in Worker : Handle(w) \/ \E s \in Socket : IgnoreFailure(w, s)
        \/ \E s \in Socket : Accept(s) \/ Kernel(s)
        \/ \E a \in App, s \in Socket : CallSend(a, s)
        \/ AddSocket \/ CloseAll \/ MainStep

Spec == Init /\ [][Next]_vars

(* Threads go on with what they are doing, some worker takes each completion, *)
(* and the kernel completes the writes of a connection that works.           *)
FairSpec == /\ Spec
            /\ \A t \in Thread : WF_vars(Step(t))
            /\ WF_vars(AddSocket) /\ WF_vars(MainStep)
            /\ WF_vars(\E w \in Worker : Handle(w))
            /\ \A s \in Socket : WF_vars(WriteEnds(s))
-----------------------------------------------------------------------------
Label == {"send", "written", "setupRead", "onRead", "disconnect", "remove", "close", "delete",
          "mark", "drop", "queue", "add", "find", "next", "empty", "end"}

(* The type invariant. *)
TypeOK ==
  /\ m_connected \subseteq Socket /\ m_deleted \subseteq Socket
  /\ m_writeLock \in [Socket -> 0..1]
  /\ readEvent \subseteq Socket /\ writeEvent \subseteq Socket /\ doubleUse \in BOOLEAN
  /\ writeBuffer \in [Socket -> 0..Size]
  /\ _sockets \subseteq Socket /\ deletionQueue \subseteq Socket
  /\ todo \in [Thread -> Seq(Label)] /\ sock \in [Thread -> Socket \cup {NULL}]
  /\ len \in [Thread -> 0..Size]
  /\ tokill \subseteq Socket /\ killed \subseteq tokill
  /\ accepted \subseteq Socket /\ known \subseteq accepted
  /\ recv \subseteq Socket /\ send \in [Socket -> 0..Size]
  /\ \A c \in port : c.socket \in Socket /\ c.event \in {"read", "write"} /\ c.len \in 0..Size
  /\ closed \subseteq Socket /\ dropped \subseteq Socket
  /\ sends \in 0..MaxSends /\ reads \in 0..MaxReads

(* No event is posted while the kernel or a completion still has it, whoever *)
(* sends, reads or handles completions at once (OverlappedStruct::Mark).     *)
NoDoubleUse == ~doubleUse

(* The send lock of a living socket is taken exactly while a write of it is  *)
(* with the kernel, in the port, or being handled (AcquireSendLock and every *)
(* DecSendLock).                                                             *)
Writing(s) == \/ send[s] > 0
              \/ \E c \in port : c.socket = s /\ c.event = "write"
              \/ \E w \in Worker : sock[w] = s /\ At(w, "written")
LockMatchesWrite == \A s \in Socket : ~Dead(s) /\ s \notin dropped =>
                      (m_writeLock[s] = 1 <=> Writing(s))

(* What is in the write buffer of a socket that lives is sent in the end,    *)
(* from both regions (HandleWriteComplete).                                  *)
Sent == \A s \in Socket : writeBuffer[s] > 0 ~> writeBuffer[s] = 0 \/ Dead(s) \/ s \in dropped

(* A socket that is disconnected or deleted, by any threads at once, gets to *)
(* the garbage collector (Socket::Disconnect and Delete).                    *)
ClosedIsQueued == \A s \in Socket : s \in accepted /\ Dead(s) ~> s \in deletionQueue

(* CloseAll ends unless the manager got a socket after it looked: one that   *)
(* was accepted meanwhile, or that was gone before it was added (CloseAll).  *)
CloseAllEnds == At(Main, "empty") ~> At(Main, "end") \/ _sockets \ tokill # {}
=============================================================================
