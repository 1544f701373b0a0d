---------------------------- MODULE SocketEpoll ----------------------------
(***************************************************************************)
(* Sockets on epoll (src/ascent-shared/Network: Socket.cpp,                *)
(* SocketLinux.cpp, SocketMgrLinux.cpp, ListenSocketLinux.h): application  *)
(* threads send on and close sockets, one SocketWorkerThread accepts them  *)
(* and handles their events, and the kernel reports events on descriptors, *)
(* edge-triggered.                                                         *)
(*                                                                         *)
(* A step ends where another thread can see or change what the next line   *)
(* of code uses.  The write buffer is CircularBuffer without its bytes;    *)
(* what the read buffer holds is not modelled.                             *)
(***************************************************************************)
EXTENDS Integers, FiniteSets

CONSTANTS Socket,      (* bound: the sockets ever accepted, in the order of their numbers *)
          Fd,          (* the descriptors they may get *)
          App, Worker, (* the threads *)
          LISTEN, NULL,
          Size,        (* bytes of a write buffer *)
          KernelRoom,  (* bytes of the kernel's send buffer *)
          MaxUInt,     (* the largest unsigned int, 2^32 - 1 in the build *)
          MaxSends,    (* bound: calls of Send *)
          MaxCloses    (* bound: calls of Disconnect and Delete by the application *)

Thread == App \cup {Worker}

ASSUME EpollAssumption ==
  /\ Worker \notin App /\ LISTEN \notin Fd /\ NULL \notin Socket \cup Fd \cup Thread
  /\ Socket \subseteq Nat
  /\ Size \in Nat \ {0} /\ KernelRoom \in Nat \ {0} /\ MaxUInt \in Nat \ {0, 1}
  /\ MaxSends \in Nat /\ MaxCloses \in Nat

VARIABLES
  m_fd, m_connected, m_deleted, m_writeLock, m_writeMutex, writeBuffer, (* of each socket *)
  fds,                    (* SocketMgr: the socket of each descriptor *)
  deletionQueue, freed,   (* SocketGarbageCollector *)
  open,                   (* kernel: the socket a descriptor was opened for *)
  interest, ready,        (* kernel: registered event, and whether on the ready list *)
  conn,                   (* kernel: the connection of each socket *)
  backlog, listenReady,
  pc, sock, back, inDelete, (* of each thread; back is where the handler goes on *)
  batch,                  (* the events of the last epoll_wait still to handle *)
  sends, closes

socketVars == <<m_fd, m_connected, m_deleted, m_writeLock, m_writeMutex, writeBuffer>>
kernelVars == <<open, interest, ready, conn, backlog, listenReady>>
gcVars == <<deletionQueue, freed>>
bounds == <<sends, closes>>
threadVars == <<pc, sock, back, inDelete, batch>>
vars == <<socketVars, fds, gcVars, kernelVars, threadVars, bounds>>

EmptyBuffer == [at |-> 0, a |-> 0, b |-> 0, two |-> FALSE]

Init ==
  /\ m_fd = [s \in Socket |-> NULL]
  /\ m_connected = [s \in Socket |-> FALSE] /\ m_deleted = [s \in Socket |-> FALSE]
  /\ m_writeLock = [s \in Socket |-> 0] /\ m_writeMutex = [s \in Socket |-> NULL]
  /\ writeBuffer = [s \in Socket |-> EmptyBuffer]
  /\ fds = [f \in Fd |-> NULL]
  /\ deletionQueue = {} /\ freed = {}
  /\ open = [f \in Fd |-> NULL] /\ interest = [f \in Fd |-> "none"]
  /\ ready = [f \in Fd |-> FALSE]
  /\ conn = [s \in Socket |-> [data |-> FALSE, hup |-> FALSE, room |-> KernelRoom, nospace |-> FALSE]]
  /\ backlog = 0 /\ listenReady = FALSE
  /\ pc = [t \in Thread |-> IF t = Worker THEN "next" ELSE "idle"]
  /\ sock = [t \in Thread |-> NULL] /\ back = [t \in Thread |-> "idle"]
  /\ inDelete = [t \in Thread |-> FALSE]
  /\ batch = {} /\ sends = 0 /\ closes = 0
-----------------------------------------------------------------------------
(* The write buffer: A at offset at, and B from the start once two is set.   *)
Bytes(s) == writeBuffer[s].a + writeBuffer[s].b
SpaceBehindA(w) == Size - w.at - w.a
UsesB(w) == w.two \/ SpaceBehindA(w) < w.at
Space(w) == IF UsesB(w) THEN w.at - w.b ELSE SpaceBehindA(w)
Filled(w, n) == IF UsesB(w) THEN [w EXCEPT !.two = TRUE, !.b = @ + n] ELSE [w EXCEPT !.a = @ + n]
Cut(w, n) == IF n < w.a THEN [w EXCEPT !.at = @ + n, !.a = @ - n]
             ELSE [EmptyBuffer EXCEPT !.a = w.b]

(* What epoll finds true of an open descriptor, and reports of it. *)
Poll(f) == LET c == conn[open[f]] IN
  {e \in {"in", "out", "hup"} : \/ e = "in" /\ c.data
                                \/ e = "out" /\ c.room > 0
                                \/ e = "hup" /\ c.hup}
Reported(f, event) == Poll(f) \cap {event, "hup"}

(* Whoever looks and finds no room is told when there is some again.         *)
Polled(fs) == [s \in Socket |-> [conn[s] EXCEPT !.nospace =
                 @ \/ (conn[s].room = 0 /\ \E f \in fs : open[f] = s)]]

(* EPOLL_CTL_MOD on the socket's descriptor number, whoever has it open now; *)
(* it fails when the number is not registered.                               *)
PostEvent(s, event) ==
  LET f == m_fd[s] IN
  IF interest[f] = "none" THEN UNCHANGED <<interest, ready, conn>>
  ELSE /\ interest' = [interest EXCEPT ![f] = event]
       /\ ready' = [ready EXCEPT ![f] = @ \/ Reported(f, event) # {}]
       /\ conn' = Polled({f})

(* A change of the connection s wakes its descriptor up if event is wanted.  *)
Wakes(s, event) ==
  ready' = [f \in Fd |-> ready[f] \/ (open[f] = s /\ interest[f] # "none"
                                       /\ (event = "hup" \/ interest[f] = event))]
-----------------------------------------------------------------------------
(* The other side of the connections. *)
PeerConnects ==
  /\ backlog + Cardinality({s \in Socket : m_fd[s] # NULL}) < Cardinality(Socket)
  /\ backlog' = backlog + 1 /\ listenReady' = TRUE
  /\ UNCHANGED <<socketVars, fds, gcVars, open, interest, ready, conn, threadVars, bounds>>

Online(s) == m_fd[s] # NULL /\ \E f \in Fd : open[f] = s

PeerSends(s) ==
  /\ Online(s) /\ ~conn[s].hup /\ ~conn[s].data
  /\ conn' = [conn EXCEPT ![s].data = TRUE]
  /\ Wakes(s, "in")
  /\ UNCHANGED <<socketVars, fds, gcVars, open, interest, backlog, listenReady, threadVars, bounds>>

(* The kernel reports room only to somebody who missed it.                   *)
PeerReads(s) ==
  /\ Online(s) /\ conn[s].room < KernelRoom
  /\ conn' = [conn EXCEPT ![s].room = KernelRoom, ![s].nospace = FALSE]
  /\ IF conn[s].nospace THEN Wakes(s, "out") ELSE UNCHANGED ready
  /\ UNCHANGED <<socketVars, fds, gcVars, open, interest, backlog, listenReady, threadVars, bounds>>

PeerCloses(s) ==
  /\ Online(s) /\ ~conn[s].hup
  /\ conn' = [conn EXCEPT ![s].hup = TRUE]
  /\ Wakes(s, "hup")
  /\ UNCHANGED <<socketVars, fds, gcVars, open, interest, backlog, listenReady, threadVars, bounds>>
-----------------------------------------------------------------------------
At(t, place) == pc[t] = place
(* A thread enters an operation of the socket s; goes on in it, or leaves it. *)
Enter(t, s, place, return) ==
  /\ pc' = [pc EXCEPT ![t] = place]
  /\ sock' = [sock EXCEPT ![t] = s] /\ back' = [back EXCEPT ![t] = return]
Go(t, place) ==
  IF place \in {"idle", "next"} THEN Enter(t, NULL, place, "idle")
  ELSE pc' = [pc EXCEPT ![t] = place] /\ UNCHANGED <<sock, back>>
Stays == UNCHANGED <<pc, sock, back>>

(* The application knows a socket from its construction until it is freed.  *)
Known(s) == m_fd[s] # NULL /\ s \notin freed

(* BurstBegin and BurstSend; a Write that does not fit may still open B. *)
Send(t, s) ==
  /\ At(t, "idle") /\ Known(s) /\ m_writeMutex[s] = NULL
  /\ sends < MaxSends /\ sends' = sends + 1
  /\ \/ \E n \in 1..Size :
          /\ n <= Space(writeBuffer[s])
          /\ writeBuffer' = [writeBuffer EXCEPT ![s] = Filled(@, n)]
          /\ m_writeMutex' = [m_writeMutex EXCEPT ![s] = t]
          /\ Enter(t, s, "acquire", "idle")
     \/ /\ writeBuffer' = [writeBuffer EXCEPT ![s].two = UsesB(writeBuffer[s])]
        /\ UNCHANGED m_writeMutex /\ Stays
  /\ UNCHANGED <<m_fd, m_connected, m_deleted, m_writeLock, fds, gcVars, kernelVars,
                 inDelete, batch, closes>>

BurstEnd(s) == m_writeMutex' = [m_writeMutex EXCEPT ![s] = NULL]

(* BurstPush: an event is posted by whoever finds the send lock free. *)
LeaveSendLock(s) == m_writeLock
TakeSendLock(s) == [m_writeLock EXCEPT ![s] = 1]

AcquireSendLock(t) ==
  LET s == sock[t] IN
  /\ At(t, "acquire")
  /\ \/ /\ m_writeLock[s] = 0
        /\ m_writeLock' = TakeSendLock(s)
        /\ Go(t, "post")
        /\ UNCHANGED m_writeMutex
     \/ /\ m_writeLock[s] # 0
        /\ BurstEnd(s)
        /\ Go(t, "idle")
        /\ UNCHANGED m_writeLock
  /\ UNCHANGED <<m_fd, m_connected, m_deleted, writeBuffer, fds, gcVars, kernelVars,
                 inDelete, batch, bounds>>

BurstPush(t) ==
  LET s == sock[t] IN
  /\ At(t, "post")
  /\ PostEvent(s, "out")
  /\ BurstEnd(s)
  /\ Go(t, "idle")
  /\ UNCHANGED <<m_fd, m_connected, m_deleted, m_writeLock, writeBuffer, fds, gcVars,
                 open, backlog, listenReady, inDelete, batch, bounds>>
-----------------------------------------------------------------------------
(* The application closes a socket. *)
Close(t, s) ==
  /\ At(t, "idle") /\ Known(s)
  /\ closes < MaxCloses /\ closes' = closes + 1
  /\ \E place \in {"disconnect", "delete"} : Enter(t, s, place, "idle")
  /\ UNCHANGED <<socketVars, fds, gcVars, kernelVars, inDelete, batch, sends>>

Disconnect(t) ==
  /\ At(t, "disconnect")
  /\ m_connected' = [m_connected EXCEPT ![sock[t]] = FALSE]
  /\ Go(t, "removesocket")
  /\ UNCHANGED <<m_fd, m_deleted, m_writeLock, m_writeMutex, writeBuffer, fds, gcVars,
                 kernelVars, inDelete, batch, bounds>>

RemoveSocket(t) ==
  /\ At(t, "removesocket")
  /\ Go(t, IF fds[m_fd[sock[t]]] = sock[t] THEN "unbind" ELSE "shutdown")
  /\ UNCHANGED <<socketVars, fds, gcVars, kernelVars, inDelete, batch, bounds>>

Unregister(f) == /\ interest' = [interest EXCEPT ![f] = "none"]
                 /\ ready' = [ready EXCEPT ![f] = FALSE]

StillBound(f) == fds
Unbound(f) == [fds EXCEPT ![f] = NULL]

UnbindSocket(t) ==
  /\ At(t, "unbind")
  /\ fds' = Unbound(m_fd[sock[t]])
  /\ Go(t, "unregister")
  /\ UNCHANGED <<socketVars, gcVars, kernelVars, inDelete, batch, bounds>>

UnregisterSocket(t) ==
  /\ At(t, "unregister")
  /\ Unregister(m_fd[sock[t]])
  /\ Go(t, "shutdown")
  /\ UNCHANGED <<socketVars, fds, gcVars, open, conn, backlog, listenReady, inDelete, batch,
                 bounds>>

(* CloseSocket shuts down and closes the number, whichever socket has it now. *)
ShutdownSocket(t) ==
  LET o == open[m_fd[sock[t]]] IN
  /\ At(t, "shutdown")
  /\ Go(t, "close")
  /\ \/ /\ o # NULL
        /\ conn' = [conn EXCEPT ![o].hup = TRUE]
        /\ Wakes(o, "hup")
     \/ /\ o = NULL
        /\ UNCHANGED <<conn, ready>>
  /\ UNCHANGED <<socketVars, fds, gcVars, open, interest, backlog, listenReady, inDelete, batch,
                 bounds>>

CloseSocket(t) ==
  /\ At(t, "close")
  /\ open' = [open EXCEPT ![m_fd[sock[t]]] = NULL]
  /\ Unregister(m_fd[sock[t]])
  /\ Go(t, "closed")
  /\ UNCHANGED <<socketVars, fds, gcVars, conn, backlog, listenReady, inDelete, batch,
                 bounds>>

(* Disconnect calls Delete unless that was called already, here or elsewhere. *)
OnlyClosed(t) == IF inDelete[t] THEN "queue" ELSE back[t]
AfterClose(t) == IF ~m_deleted[sock[t]] THEN "delete" ELSE OnlyClosed(t)

Disconnected(t) ==
  /\ At(t, "closed")
  /\ Go(t, AfterClose(t))
  /\ UNCHANGED <<socketVars, fds, gcVars, kernelVars, inDelete, batch, bounds>>

Delete(t) ==
  /\ At(t, "delete")
  /\ Go(t, IF m_deleted[sock[t]] THEN back[t] ELSE "mark")
  /\ UNCHANGED <<socketVars, fds, gcVars, kernelVars, inDelete, batch, bounds>>

MarkDeleted(t) ==
  /\ At(t, "mark")
  /\ m_deleted' = [m_deleted EXCEPT ![sock[t]] = TRUE]
  /\ Go(t, "drop")
  /\ UNCHANGED <<m_fd, m_connected, m_writeLock, m_writeMutex, writeBuffer, fds, gcVars,
                 kernelVars, inDelete, batch, bounds>>

(* Delete of a socket that is still connected calls Disconnect. *)
DropConnection(t) ==
  /\ At(t, "drop")
  /\ \/ /\ m_connected[sock[t]]
        /\ Go(t, "disconnect")
        /\ inDelete' = [inDelete EXCEPT ![t] = TRUE]
     \/ /\ ~m_connected[sock[t]]
        /\ Go(t, "queue")
        /\ UNCHANGED inDelete
  /\ UNCHANGED <<socketVars, fds, gcVars, kernelVars, batch, bounds>>

QueueSocket(t) ==
  /\ At(t, "queue")
  /\ deletionQueue' = deletionQueue \cup {sock[t]}
  /\ Go(t, back[t])
  /\ inDelete' = [inDelete EXCEPT ![t] = FALSE]
  /\ UNCHANGED <<socketVars, fds, freed, kernelVars, batch, bounds>>

Closing(t) ==
  \/ Disconnect(t) \/ RemoveSocket(t) \/ UnbindSocket(t) \/ UnregisterSocket(t)
  \/ ShutdownSocket(t) \/ CloseSocket(t) \/ Disconnected(t)
  \/ Delete(t) \/ MarkDeleted(t) \/ DropConnection(t) \/ QueueSocket(t)

(* SocketGarbageCollector::Update, SOCKET_GC_TIMEOUT seconds after the socket *)
(* was queued: every call that was using it has returned by then.            *)
InUse(s) == \E t \in Thread : sock[t] = s /\ pc[t] \notin {"idle", "next"}

Update ==
  /\ \E s \in deletionQueue :
       /\ ~InUse(s)
       /\ deletionQueue' = deletionQueue \ {s}
       /\ freed' = freed \cup {s}
  /\ UNCHANGED <<socketVars, fds, kernelVars, threadVars, bounds>>
-----------------------------------------------------------------------------
(* SocketWorkerThread::run.  epoll_wait empties the ready list. *)
EpollWait ==
  LET events == {<<f, Reported(f, interest[f])>> : f \in {g \in Fd : ready[g]}}
      listening == IF listenReady /\ backlog > 0 THEN {<<LISTEN, {"in"}>>} ELSE {}
  IN
  /\ At(Worker, "next") /\ batch = {}
  /\ (\E f \in Fd : ready[f]) \/ listenReady
  /\ batch' = {e \in events : e[2] # {}} \cup listening
  /\ ready' = [f \in Fd |-> FALSE] /\ listenReady' = FALSE
  /\ conn' = Polled({f \in Fd : ready[f]})
  /\ UNCHANGED <<socketVars, fds, gcVars, open, interest, backlog, pc, sock, back, inDelete,
                 bounds>>

(* The descriptor's number is looked up when its event is handled. *)
HandleEvent ==
  /\ At(Worker, "next")
  /\ \E e \in batch :
       /\ e[1] # LISTEN
       /\ batch' = batch \ {e}
       /\ \/ /\ fds[e[1]] = NULL
             /\ Stays
          \/ /\ fds[e[1]] # NULL
             /\ Enter(Worker, fds[e[1]],
                      IF "hup" \in e[2] THEN "disconnect"
                      ELSE IF "in" \in e[2] THEN "read" ELSE "burst", "next")
  /\ UNCHANGED <<socketVars, fds, gcVars, kernelVars, inDelete, bounds>>

(* ListenSocket::OnAccept takes one connection of those waiting, if there is *)
(* a descriptor for it; the new socket is added to the manager, or deleted   *)
(* if the manager still has another one under its number.                    *)
Ignored(s) == Stays
Refused(s) == Enter(Worker, s, "delete", "next")

AddSocket(s, f) ==
  \/ /\ fds[f] = NULL
     /\ fds' = [fds EXCEPT ![f] = s]
     /\ interest' = [interest EXCEPT ![f] = "in"]
     /\ Stays
  \/ /\ fds[f] # NULL
     /\ Refused(s)
     /\ UNCHANGED <<fds, interest>>

NextSocket(s) == m_fd[s] = NULL /\ \A r \in Socket : r < s => m_fd[r] # NULL

OnAccept ==
  /\ At(Worker, "next")
  /\ \E e \in batch : e[1] = LISTEN /\ batch' = batch \ {e}
  /\ \/ \E s \in Socket, f \in Fd :
          /\ NextSocket(s) /\ open[f] = NULL
          /\ backlog' = backlog - 1
          /\ m_fd' = [m_fd EXCEPT ![s] = f]
          /\ m_connected' = [m_connected EXCEPT ![s] = TRUE]
          /\ open' = [open EXCEPT ![f] = s]
          /\ AddSocket(s, f)
     \/ /\ \A f \in Fd : open[f] # NULL
        /\ UNCHANGED <<backlog, m_fd, m_connected, open, fds, interest>> /\ Stays
  /\ UNCHANGED <<m_deleted, m_writeLock, m_writeMutex, writeBuffer, gcVars, ready, conn,
                 listenReady, inDelete, bounds>>

(* ReadCallback: recv fails, finds nothing, or has no space to read into; or *)
(* it takes all that has come, or as much as there is space for.             *)
ReadCallback ==
  LET o == open[m_fd[sock[Worker]]] IN
  /\ At(Worker, "read")
  /\ \/ Go(Worker, "disconnect") /\ UNCHANGED conn
     \/ /\ o # NULL
        /\ conn[o].data
        /\ \E rest \in BOOLEAN : conn' = [conn EXCEPT ![o].data = rest]
        /\ Go(Worker, "changing")
  /\ UNCHANGED <<socketVars, fds, gcVars, open, interest, ready, backlog, listenReady,
                 inDelete, batch, bounds>>

(* "Changing to written state?": looked at without the write mutex. *)
ChangeToWrite ==
  LET s == sock[Worker] IN
  /\ At(Worker, "changing")
  /\ Go(Worker, IF Bytes(s) > 0 /\ m_writeLock[s] = 0 /\ m_connected[s] THEN "toout" ELSE "next")
  /\ UNCHANGED <<socketVars, fds, gcVars, kernelVars, inDelete, batch, bounds>>

PostWrite ==
  /\ At(Worker, "toout")
  /\ PostEvent(sock[Worker], "out")
  /\ Go(Worker, "next")
  /\ UNCHANGED <<socketVars, fds, gcVars, open, backlog, listenReady, inDelete, batch,
                 bounds>>

BurstBegin ==
  LET s == sock[Worker] IN
  /\ At(Worker, "burst") /\ m_writeMutex[s] = NULL
  /\ m_writeMutex' = [m_writeMutex EXCEPT ![s] = Worker]
  /\ Go(Worker, "write")
  /\ UNCHANGED <<m_fd, m_connected, m_deleted, m_writeLock, writeBuffer, fds, gcVars, kernelVars,
                 inDelete, batch, bounds>>

(* WriteCallback: send takes what the kernel has room for of region A.       *)
WriteCallback ==
  LET s == sock[Worker]
      o == open[m_fd[s]]
      n == writeBuffer[s].a
      Works == o # NULL /\ ~conn[o].hup /\ (n > 0 => conn[o].room > 0)
      sent == IF n < conn[o].room THEN n ELSE conn[o].room
  IN
  /\ At(Worker, "write")
  /\ \/ /\ ~Works
        /\ Enter(Worker, s, "disconnect", "written")
        /\ UNCHANGED <<writeBuffer, conn>>
     \/ /\ Works
        /\ conn' = [conn EXCEPT ![o].room = @ - sent, ![o].nospace = @ \/ sent < n]
        /\ writeBuffer' = [writeBuffer EXCEPT ![s] = Cut(@, sent)]
        /\ Go(Worker, "written")
  /\ UNCHANGED <<m_fd, m_connected, m_deleted, m_writeLock, m_writeMutex, fds, gcVars, open,
                 interest, ready, backlog, listenReady, inDelete, batch, bounds>>

(* Nothing left: DecSendLock, and back to a read event. *)
KeepSendLock(s) == m_writeLock
DecSendLock(s) == [m_writeLock EXCEPT ![s] = (@ + MaxUInt) % (MaxUInt + 1)]

Written ==
  LET s == sock[Worker] IN
  /\ At(Worker, "written")
  /\ \/ /\ Bytes(s) > 0
        /\ BurstEnd(s)
        /\ Go(Worker, "next")
        /\ UNCHANGED m_writeLock
     \/ /\ Bytes(s) = 0
        /\ m_writeLock' = DecSendLock(s)
        /\ Go(Worker, "toin")
        /\ UNCHANGED m_writeMutex
  /\ UNCHANGED <<m_fd, m_connected, m_deleted, writeBuffer, fds, gcVars, kernelVars,
                 inDelete, batch, bounds>>

PostRead ==
  LET s == sock[Worker] IN
  /\ At(Worker, "toin")
  /\ PostEvent(s, "in")
  /\ BurstEnd(s)
  /\ Go(Worker, "next")
  /\ UNCHANGED <<m_fd, m_connected, m_deleted, m_writeLock, writeBuffer, fds, gcVars, open,
                 backlog, listenReady, inDelete, batch, bounds>>
-----------------------------------------------------------------------------
WorkerStep ==
  \/ EpollWait \/ HandleEvent \/ OnAccept
  \/ ReadCallback \/ ChangeToWrite \/ PostWrite
  \/ BurstBegin \/ WriteCallback \/ Written \/ PostRead
  \/ Closing(Worker)

AppStep(t) == AcquireSendLock(t) \/ BurstPush(t) \/ Closing(t)
Calls == \E t \in App, s \in Socket : Send(t, s) \/ Close(t, s)
Peer == PeerConnects \/ \E s \in Socket : PeerSends(s) \/ PeerReads(s) \/ PeerCloses(s)

Next == WorkerStep \/ (\E t \in App : AppStep(t)) \/ Calls \/ Peer \/ Update

Spec == Init /\ [][Next]_vars

(* The operating system runs every thread that can go on, and the peer reads *)
(* what it is sent.                                                          *)
FairSpec ==
  /\ Spec
  /\ WF_vars(WorkerStep)
  /\ \A t \in App : WF_vars(AppStep(t))
  /\ \A s \in Socket : WF_vars(PeerReads(s))
-----------------------------------------------------------------------------
Place == {"idle", "next", "acquire", "post", "disconnect", "removesocket", "unbind", "unregister", "shutdown", "close",
          "closed", "delete", "mark", "drop", "queue", "read", "changing", "toout", "burst",
          "write", "written", "toin"}

TypeOK ==
  /\ m_fd \in [Socket -> Fd \cup {NULL}]
  /\ m_connected \in [Socket -> BOOLEAN] /\ m_deleted \in [Socket -> BOOLEAN]
  /\ m_writeLock \in [Socket -> 0..MaxUInt]
  /\ m_writeMutex \in [Socket -> Thread \cup {NULL}]
  /\ writeBuffer \in [Socket -> {w \in [at : 0..Size, a : 0..Size, b : 0..Size, two : BOOLEAN] :
                                 w.at + w.a <= Size /\ w.b <= w.at}]
  /\ fds \in [Fd -> Socket \cup {NULL}] /\ open \in [Fd -> Socket \cup {NULL}]
  /\ deletionQueue \subseteq Socket /\ freed \subseteq Socket
  /\ interest \in [Fd -> {"none", "in", "out"}] /\ ready \in [Fd -> BOOLEAN]
  /\ conn \in [Socket -> [data : BOOLEAN, hup : BOOLEAN, room : 0..KernelRoom, nospace : BOOLEAN]]
  /\ backlog \in Nat /\ listenReady \in BOOLEAN
  /\ pc \in [Thread -> Place] /\ sock \in [Thread -> Socket \cup {NULL}]
  /\ back \in [Thread -> {"idle", "next", "written"}] /\ inDelete \in [Thread -> BOOLEAN]
  /\ batch \subseteq (Fd \cup {LISTEN}) \X SUBSET {"in", "out", "hup"}
  /\ sends \in 0..MaxSends /\ closes \in 0..MaxCloses

(* No other socket has had this one's descriptor.                            *)
OnlyOnFd(s) == \A r \in Socket \ {s} : m_fd[r] # m_fd[s]

(* Bytes in the write buffer of a connected socket are on their way out: a   *)
(* sender is about to try the send lock, or it is held once and the write    *)
(* event is posted or about to be.                                           *)
WritesArePosted ==
  \A s \in Socket : m_connected[s] /\ OnlyOnFd(s) /\ Bytes(s) > 0 =>
    \/ \E t \in App : sock[t] = s /\ pc[t] = "acquire"
    \/ m_writeLock[s] = 1 /\ (interest[m_fd[s]] = "out" \/ \E t \in App : sock[t] = s /\ pc[t] = "post")

(* Between two holders of the write mutex, a connected socket waits for a    *)
(* write event when its send lock is taken, and else for a read event: the   *)
(* worker's own look at buffer and lock does not part the two.               *)
LockMatchesEvent ==
  \A s \in Socket : m_connected[s] /\ OnlyOnFd(s) /\ m_writeMutex[s] = NULL =>
    m_writeLock[s] = IF interest[m_fd[s]] = "out" THEN 1 ELSE 0

(* When nobody uses it any more, a socket that was queued for deletion is    *)
(* unknown to the manager and its descriptor is closed.                      *)
QueuedIsGone ==
  \A s \in deletionQueue \cup freed : ~InUse(s) =>
    /\ ~m_connected[s]
    /\ \A f \in Fd : fds[f] # s /\ open[f] # s

(* The worker reads and writes through the descriptor of the socket that it  *)
(* handles, through a closed one, or through that of a socket which has been *)
(* refused by the manager and deleted: never through that of another live    *)
(* socket, whoever closed what and however often since the event was         *)
(* reported.                                                                 *)
WorkerOnOwn ==
  pc[Worker] \in {"read", "burst", "write"} =>
    \/ open[m_fd[sock[Worker]]] \in {sock[Worker], NULL}
    \/ m_deleted[open[m_fd[sock[Worker]]]]

(* What is written is sent as long as the peer reads and stays, when it never *)
(* has to go to the second region of the buffer: the worker sends one region  *)
(* for each event, and the kernel reports no other event after a send that    *)
(* fitted (SocketMgrLinux.cpp:133).                                           *)
IsSent(s) == m_connected[s] /\ Bytes(s) > 0 ~> Bytes(s) = 0 \/ ~m_connected[s]
ContiguousIsSent ==
  \A s \in Socket : [](OnlyOnFd(s) /\ writeBuffer[s].b = 0) => IsSent(s)

(* A socket that is disconnected or deleted comes to the garbage collector.  *)
ClosedIsQueued ==
  \A s \in Socket : m_fd[s] # NULL /\ (~m_connected[s] \/ m_deleted[s])
                      ~> s \in deletionQueue \cup freed
=============================================================================
