--------------------------- MODULE SocketEpoll_proof ---------------------------
(***************************************************************************)
(* For any number of sockets, descriptors and sending threads: what is in  *)
(* the write buffer of a connected socket is on its way out; between two   *)
(* holders of the write mutex the send lock tells the event the socket     *)
(* waits for; the worker stays off the connections of other live sockets;  *)
(* and a socket that waits for deletion is unbound and closed.             *)
(***************************************************************************)
EXTENDS SocketEpoll, TLAPS

InCall(t) == pc[t] \notin {"idle", "next"} => sock[t] \in Socket /\ m_fd[sock[t]] \in Fd
(* The worker has one event of a descriptor, and a connection it goes to     *)
(* accept is there.                                                          *)
Events == /\ (\E e \in batch : e[1] = LISTEN) => backlog > 0
          /\ \A e \in batch : e[2] # {}
          /\ \A e, d \in batch : e[1] = d[1] => e = d

(* The manager finds a socket under the number of its descriptor.            *)
Bound == \A f \in Fd : fds[f] # NULL => m_fd[fds[f]] = f

Typed == TypeOK /\ (\A t \in Thread : InCall(t)) /\ Events /\ Bound
-----------------------------------------------------------------------------
LEMMA ReportedIs ==
  ASSUME NEW f \in Fd, NEW event
  PROVE  Reported(f, event) \subseteq {"in", "out", "hup"} \cap {event, "hup"}
BY DEF Reported, Poll

LEMMA PolledTyped ==
  ASSUME TypeOK, NEW fs
  PROVE  Polled(fs) \in [Socket -> [data : BOOLEAN, hup : BOOLEAN, room : 0..KernelRoom,
                                     nospace : BOOLEAN]]
<1> DEFINE C == [data : BOOLEAN, hup : BOOLEAN, room : 0..KernelRoom, nospace : BOOLEAN]
<1> SUFFICES ASSUME NEW s \in Socket
             PROVE  [conn[s] EXCEPT !.nospace =
                       @ \/ (conn[s].room = 0 /\ \E f \in fs : open[f] = s)] \in C
  BY DEF Polled
<1>1. conn[s] \in C
  BY DEF TypeOK
<1>2. PICK b \in BOOLEAN : b = (conn[s].nospace \/ (conn[s].room = 0 /\ \E f \in fs : open[f] = s))
  OBVIOUS
<1>3. [conn[s] EXCEPT !.nospace = b] \in C
  BY <1>1
<1> QED
  BY <1>2, <1>3

LEMMA PostTyped ==
  ASSUME TypeOK, NEW s \in Socket, m_fd[s] \in Fd, NEW event \in {"in", "out"},
         PostEvent(s, event)
  PROVE  /\ interest' \in [Fd -> {"none", "in", "out"}] /\ ready' \in [Fd -> BOOLEAN]
         /\ conn' \in [Socket -> [data : BOOLEAN, hup : BOOLEAN, room : 0..KernelRoom,
                                  nospace : BOOLEAN]]
<1>1. CASE interest[m_fd[s]] = "none"
  BY <1>1 DEF TypeOK, PostEvent
<1>2. CASE interest[m_fd[s]] # "none"
  <2>1. interest' \in [Fd -> {"none", "in", "out"}]
    BY <1>2 DEF TypeOK, PostEvent
  <2>2. ready' \in [Fd -> BOOLEAN]
    BY <1>2 DEF TypeOK, PostEvent
  <2> QED
    BY <1>2, <2>1, <2>2, PolledTyped DEF PostEvent
<1> QED
  BY <1>1, <1>2

LEMMA WakesTyped ==
  ASSUME TypeOK, NEW s, NEW event, Wakes(s, event)
  PROVE  ready' \in [Fd -> BOOLEAN]
<1> SUFFICES ASSUME NEW f \in Fd
             PROVE  (ready[f] \/ (open[f] = s /\ interest[f] # "none"
                                     /\ (event = "hup" \/ interest[f] = event))) \in BOOLEAN
  BY DEF Wakes
<1> QED
  OBVIOUS

LEMMA GoTyped ==
  ASSUME Typed, NEW t \in Thread, NEW place \in Place, Go(t, place), m_fd' = m_fd,
         pc[t] \notin {"idle", "next"}
  PROVE  /\ pc' \in [Thread -> Place] /\ sock' \in [Thread -> Socket \cup {NULL}]
         /\ back' \in [Thread -> {"idle", "next", "written"}]
         /\ \A u \in Thread : InCall(u)'
<1>1. /\ pc \in [Thread -> Place] /\ sock \in [Thread -> Socket \cup {NULL}]
      /\ back \in [Thread -> {"idle", "next", "written"}]
  BY DEF Typed, TypeOK
<1>2. CASE place \in {"idle", "next"}
  BY <1>1, <1>2 DEF Go, Enter, Typed, InCall
<1>3. CASE place \notin {"idle", "next"}
  BY <1>1, <1>3 DEF Go, Typed, InCall
<1> QED
  BY <1>2, <1>3

LEMMA EnterTyped ==
  ASSUME Typed, NEW t \in Thread, NEW place \in Place, NEW s \in Socket,
         NEW return \in {"idle", "next", "written"}, Enter(t, s, place, return),
         m_fd'[s] \in Fd, \A r \in Socket : m_fd'[r] = m_fd[r] \/ m_fd[r] = NULL
  PROVE  /\ pc' \in [Thread -> Place] /\ sock' \in [Thread -> Socket \cup {NULL}]
         /\ back' \in [Thread -> {"idle", "next", "written"}]
         /\ \A u \in Thread : InCall(u)'
<1>1. /\ pc \in [Thread -> Place] /\ sock \in [Thread -> Socket \cup {NULL}]
      /\ back \in [Thread -> {"idle", "next", "written"}]
  BY DEF Typed, TypeOK
<1> QED
  BY <1>1, EpollAssumption DEF Enter, Typed, InCall
-----------------------------------------------------------------------------
(* The type invariant, action by action. *)
LEMMA TypedCalls ==
  ASSUME Typed, NEW t \in App, NEW s \in Socket, Send(t, s) \/ Close(t, s)
  PROVE  Typed'
<1> USE DEF socketVars, kernelVars, gcVars, bounds
<1>0. t \in Thread /\ TypeOK /\ {"acquire", "disconnect", "delete"} \subseteq Place
  BY DEF Thread, Place, Typed
<1>1. CASE Send(t, s)
  <2>1. m_fd[s] \in Fd /\ m_fd' = m_fd
    BY <1>0, <1>1 DEF Send, Known, TypeOK
  <2>2. /\ pc' \in [Thread -> Place] /\ sock' \in [Thread -> Socket \cup {NULL}]
        /\ back' \in [Thread -> {"idle", "next", "written"}] /\ \A u \in Thread : InCall(u)'
    <3>1. CASE Stays
      BY <1>0, <2>1, <3>1 DEF Stays, Typed, TypeOK, InCall
    <3>2. CASE Enter(t, s, "acquire", "idle")
      BY <1>0, <2>1, <3>2, EnterTyped
    <3> QED
      BY <1>1, <3>1, <3>2 DEF Send
  <2>3. writeBuffer' \in [Socket -> {w \in [at : 0..Size, a : 0..Size, b : 0..Size, two : BOOLEAN] :
                                       w.at + w.a <= Size /\ w.b <= w.at}]
    <3> DEFINE W == {w \in [at : 0..Size, a : 0..Size, b : 0..Size, two : BOOLEAN] :
                       w.at + w.a <= Size /\ w.b <= w.at}
    <3>1. writeBuffer \in [Socket -> W]
      BY <1>0 DEF TypeOK
    <3>2. ASSUME NEW w \in W, NEW n \in 1..Size, n <= Space(w)
          PROVE  Filled(w, n) \in W
      <4>1. /\ w.at \in 0..Size /\ w.a \in 0..Size /\ w.b \in 0..Size
            /\ w.at + w.a <= Size /\ w.b <= w.at /\ n \in Nat /\ Size \in Nat
        BY EpollAssumption
      <4>2. CASE UsesB(w)
        <5>1. w.b + n \in 0..Size /\ w.b + n <= w.at
          BY <3>2, <4>1, <4>2 DEF Space
        <5>2. Filled(w, n) = [w EXCEPT !.two = TRUE, !.b = w.b + n]
          BY <4>2 DEF Filled
        <5> QED
          BY <4>1, <5>1, <5>2
      <4>3. CASE ~UsesB(w)
        <5>1. w.a + n \in 0..Size /\ w.at + (w.a + n) <= Size
          BY <3>2, <4>1, <4>3 DEF Space, SpaceBehindA
        <5>2. Filled(w, n) = [w EXCEPT !.a = w.a + n]
          BY <4>3 DEF Filled
        <5> QED
          BY <4>1, <5>1, <5>2
      <4> QED
        BY <4>2, <4>3
    <3>3. ASSUME NEW w \in W
          PROVE  [w EXCEPT !.two = UsesB(w)] \in W
      <4>1. PICK b \in BOOLEAN : b = UsesB(w)
        BY DEF UsesB
      <4> QED
        BY <4>1
    <3> HIDE DEF W
    <3>4. ASSUME NEW n \in 1..Size, n <= Space(writeBuffer[s]),
                 writeBuffer' = [writeBuffer EXCEPT ![s] = Filled(writeBuffer[s], n)]
          PROVE  writeBuffer' \in [Socket -> W]
      BY <3>1, <3>2, <3>4
    <3>5. ASSUME writeBuffer' = [writeBuffer EXCEPT ![s] =
                                   [writeBuffer[s] EXCEPT !.two = UsesB(writeBuffer[s])]]
          PROVE  writeBuffer' \in [Socket -> W]
      BY <3>1, <3>3, <3>5
    <3> QED
      BY <1>1, <3>4, <3>5 DEF Send, W
  <2>4. m_writeMutex' \in [Socket -> Thread \cup {NULL}] /\ sends' \in 0..MaxSends
    BY <1>0, <1>1, EpollAssumption DEF Send, TypeOK
  <2>5. TypeOK'
    BY <1>0, <1>1, <2>2, <2>3, <2>4 DEF Send, TypeOK
  <2> QED
    BY <1>1, <2>2, <2>5 DEF Send, Typed, Events, Bound
<1>2. CASE Close(t, s)
  <2>1. m_fd[s] \in Fd /\ m_fd' = m_fd
    BY <1>0, <1>2 DEF Close, Known, TypeOK
  <2>2. /\ pc' \in [Thread -> Place] /\ sock' \in [Thread -> Socket \cup {NULL}]
        /\ back' \in [Thread -> {"idle", "next", "written"}] /\ \A u \in Thread : InCall(u)'
    BY <1>0, <1>2, <2>1, EnterTyped DEF Close
  <2>3. TypeOK'
    BY <1>0, <1>2, <2>2, EpollAssumption DEF Close, TypeOK
  <2> QED
    BY <1>2, <2>2, <2>3 DEF Close, Typed, Events, Bound
<1> QED
  BY <1>1, <1>2

LEMMA TypedSender ==
  ASSUME Typed, NEW t \in App, AcquireSendLock(t) \/ BurstPush(t)
  PROVE  Typed'
<1> USE DEF socketVars, kernelVars, gcVars, bounds
<1>0. t \in Thread /\ TypeOK /\ {"post", "idle"} \subseteq Place
  BY DEF Thread, Place, Typed
<1>1. CASE AcquireSendLock(t)
  <2>1. /\ pc' \in [Thread -> Place] /\ sock' \in [Thread -> Socket \cup {NULL}]
        /\ back' \in [Thread -> {"idle", "next", "written"}] /\ \A u \in Thread : InCall(u)'
    BY <1>0, <1>1, GoTyped DEF AcquireSendLock, At
  <2>2. m_writeMutex' \in [Socket -> Thread \cup {NULL}] /\ m_writeLock' \in [Socket -> 0..MaxUInt]
    BY <1>0, <1>1, EpollAssumption DEF AcquireSendLock, TypeOK, TakeSendLock, BurstEnd
  <2>3. TypeOK'
    BY <1>0, <1>1, <2>1, <2>2 DEF AcquireSendLock, TypeOK
  <2> QED
    BY <1>1, <2>1, <2>3 DEF AcquireSendLock, Typed, Events, Bound
<1>2. CASE BurstPush(t)
  <2>1. /\ pc' \in [Thread -> Place] /\ sock' \in [Thread -> Socket \cup {NULL}]
        /\ back' \in [Thread -> {"idle", "next", "written"}] /\ \A u \in Thread : InCall(u)'
    BY <1>0, <1>2, GoTyped DEF BurstPush, At
  <2>2. m_writeMutex' \in [Socket -> Thread \cup {NULL}]
    BY <1>0, <1>2 DEF BurstPush, TypeOK, BurstEnd
  <2>3. /\ interest' \in [Fd -> {"none", "in", "out"}] /\ ready' \in [Fd -> BOOLEAN]
        /\ conn' \in [Socket -> [data : BOOLEAN, hup : BOOLEAN, room : 0..KernelRoom,
                                 nospace : BOOLEAN]]
    BY <1>0, <1>2, PostTyped DEF BurstPush, At, Typed, InCall
  <2>4. TypeOK'
    BY <1>0, <1>2, <2>1, <2>2, <2>3 DEF BurstPush, TypeOK
  <2> QED
    BY <1>2, <2>1, <2>4 DEF BurstPush, Typed, Events, Bound
<1> QED
  BY <1>1, <1>2

LEMMA TypedClosing ==
  ASSUME Typed, NEW t \in Thread, Closing(t)
  PROVE  Typed'
<1> USE DEF socketVars, kernelVars, gcVars, bounds
<1>0. /\ TypeOK /\ {"removesocket", "unbind", "unregister", "shutdown", "close", "closed", "delete",
                     "mark", "drop", "disconnect", "queue", "idle", "next", "written"} \subseteq Place
      /\ back[t] \in Place
  BY DEF Place, Typed, TypeOK
<1>1. pc[t] \notin {"idle", "next"} /\ m_fd' = m_fd /\ \E place \in Place : Go(t, place)
  BY <1>0 DEF Closing, At, Disconnect, RemoveSocket, UnbindSocket, UnregisterSocket, ShutdownSocket,
              CloseSocket, Disconnected, Delete, MarkDeleted, DropConnection, QueueSocket,
              AfterClose, OnlyClosed
<1>2. sock[t] \in Socket /\ m_fd[sock[t]] \in Fd
  BY <1>1 DEF Typed, InCall
<1>3. /\ pc' \in [Thread -> Place] /\ sock' \in [Thread -> Socket \cup {NULL}]
      /\ back' \in [Thread -> {"idle", "next", "written"}] /\ \A u \in Thread : InCall(u)'
  BY <1>1, GoTyped
<1>4. CASE Disconnect(t) \/ MarkDeleted(t)
  BY <1>0, <1>3, <1>4 DEF Disconnect, MarkDeleted, TypeOK, Typed, Events, Bound
<1>5. CASE RemoveSocket(t) \/ Disconnected(t) \/ Delete(t)
  BY <1>0, <1>3, <1>5 DEF RemoveSocket, Disconnected, Delete, TypeOK, Typed, Events, Bound
<1>6. CASE UnbindSocket(t)
  BY <1>0, <1>2, <1>3, <1>6 DEF UnbindSocket, Unbound, TypeOK, Typed, Events, Bound
<1>7. CASE UnregisterSocket(t) \/ CloseSocket(t)
  <2>1. interest' \in [Fd -> {"none", "in", "out"}] /\ ready' \in [Fd -> BOOLEAN]
        /\ open' \in [Fd -> Socket \cup {NULL}]
    BY <1>0, <1>2, <1>7 DEF UnregisterSocket, CloseSocket, Unregister, TypeOK
  <2>2. TypeOK'
    BY <1>0, <1>3, <1>7, <2>1 DEF UnregisterSocket, CloseSocket, TypeOK
  <2> QED
    BY <1>3, <1>7, <2>2 DEF UnregisterSocket, CloseSocket, Typed, Events, Bound
<1>8. CASE ShutdownSocket(t)
  <2>1. ready' \in [Fd -> BOOLEAN]
    BY <1>0, <1>8, WakesTyped DEF ShutdownSocket, TypeOK
  <2>2. conn' \in [Socket -> [data : BOOLEAN, hup : BOOLEAN, room : 0..KernelRoom, nospace : BOOLEAN]]
    <3> DEFINE o == open[m_fd[sock[t]]]
    <3>1. o \in Socket \cup {NULL}
      BY <1>0, <1>2 DEF TypeOK
    <3>2. CASE o # NULL
      <4>1. o \in Socket /\ conn' = [conn EXCEPT ![o].hup = TRUE]
        BY <1>8, <3>1, <3>2 DEF ShutdownSocket
      <4> HIDE DEF o
      <4> QED
        BY <1>0, <4>1 DEF TypeOK
    <3>3. CASE o = NULL
      BY <1>0, <1>8, <3>3 DEF ShutdownSocket, TypeOK
    <3> QED
      BY <3>2, <3>3
  <2>3. TypeOK'
    BY <1>0, <1>3, <1>8, <2>1, <2>2 DEF ShutdownSocket, TypeOK
  <2> QED
    BY <1>3, <1>8, <2>3 DEF ShutdownSocket, Typed, Events, Bound
<1>9. CASE DropConnection(t)
  <2>1. inDelete' \in [Thread -> BOOLEAN]
    BY <1>0, <1>9 DEF DropConnection, TypeOK
  <2> QED
    BY <1>0, <1>3, <1>9, <2>1 DEF DropConnection, TypeOK, Typed, Events, Bound
<1>10. CASE QueueSocket(t)
  BY <1>0, <1>2, <1>3, <1>10 DEF QueueSocket, TypeOK, Typed, Events, Bound
<1> QED
  BY <1>4, <1>5, <1>6, <1>7, <1>8, <1>9, <1>10 DEF Closing

LEMMA TypedPeer ==
  ASSUME Typed, Peer \/ Update
  PROVE  Typed'
<1> USE DEF socketVars, kernelVars, gcVars, bounds, threadVars
<1>0. TypeOK /\ \A f \in Fd : Poll(f) \subseteq {"in", "out", "hup"}
  BY DEF Typed, Poll
<1>1. UNCHANGED <<m_fd, pc, sock, back, batch>>
  BY DEF Peer, PeerConnects, PeerSends, PeerReads, PeerCloses, Update
<1>2. \A u \in Thread : InCall(u)'
  BY <1>1 DEF Typed, InCall
<1>3. CASE PeerConnects
  BY <1>0, <1>2, <1>3 DEF PeerConnects, TypeOK, Typed, Events, Bound
<1>4. ASSUME NEW s \in Socket, PeerSends(s) \/ PeerReads(s) \/ PeerCloses(s)
      PROVE  Typed'
  <2>1. ready' \in [Fd -> BOOLEAN]
    BY <1>0, <1>4, WakesTyped DEF PeerSends, PeerReads, PeerCloses, TypeOK
  <2>2. conn' \in [Socket -> [data : BOOLEAN, hup : BOOLEAN, room : 0..KernelRoom, nospace : BOOLEAN]]
    <3>1. conn \in [Socket -> [data : BOOLEAN, hup : BOOLEAN, room : 0..KernelRoom, nospace : BOOLEAN]]
      BY <1>0 DEF TypeOK
    <3>2. KernelRoom \in 0..KernelRoom
      BY EpollAssumption
    <3>3. PICK c \in [data : BOOLEAN, hup : BOOLEAN, room : 0..KernelRoom, nospace : BOOLEAN] :
            conn' = [conn EXCEPT ![s] = c]
      <4>1. CASE PeerSends(s)
        <5>1. conn' = [conn EXCEPT ![s] = [conn[s] EXCEPT !.data = TRUE]]
          BY <4>1 DEF PeerSends
        <5>2. [conn[s] EXCEPT !.data = TRUE] \in [data : BOOLEAN, hup : BOOLEAN, room : 0..KernelRoom,
                                               nospace : BOOLEAN]
          BY <3>1
        <5> QED
          BY <5>1, <5>2
      <4>2. CASE PeerCloses(s)
        <5>1. conn' = [conn EXCEPT ![s] = [conn[s] EXCEPT !.hup = TRUE]]
          BY <4>2 DEF PeerCloses
        <5>2. [conn[s] EXCEPT !.hup = TRUE] \in [data : BOOLEAN, hup : BOOLEAN, room : 0..KernelRoom,
                                               nospace : BOOLEAN]
          BY <3>1
        <5> QED
          BY <5>1, <5>2
      <4>3. CASE PeerReads(s)
        BY <3>1, <3>2, <4>3 DEF PeerReads
      <4> QED
        BY <1>4, <4>1, <4>2, <4>3
    <3> QED
      BY <3>1, <3>3
  <2>3. TypeOK'
    BY <1>0, <1>4, <2>1, <2>2 DEF PeerSends, PeerReads, PeerCloses, TypeOK
  <2> QED
    BY <1>2, <1>4, <2>3 DEF PeerSends, PeerReads, PeerCloses, Typed, Events, Bound
<1>5. CASE Update
  BY <1>0, <1>2, <1>5 DEF Update, TypeOK, Typed, Events, Bound
<1> QED
  BY <1>3, <1>4, <1>5 DEF Peer

LEMMA TypedEvents ==
  ASSUME Typed, EpollWait \/ HandleEvent
  PROVE  Typed'
<1> USE DEF socketVars, kernelVars, gcVars, bounds
<1>0. TypeOK /\ Worker \in Thread /\ {"disconnect", "read", "burst"} \subseteq Place
  BY DEF Thread, Place, Typed
<1>1. CASE EpollWait
  <2> DEFINE events == {<<f, Reported(f, interest[f])>> : f \in {g \in Fd : ready[g]}}
             listening == IF listenReady /\ backlog > 0 THEN {<<LISTEN, {"in"}>>} ELSE {}
  <2>1. batch' = {e \in events : e[2] # {}} \cup listening
    BY <1>1 DEF EpollWait
  <2>2. \A e \in events : e[1] \in Fd /\ e[2] = Reported(e[1], interest[e[1]])
                           /\ e = <<e[1], e[2]>>
    OBVIOUS
  <2>3. \A e \in listening : e = <<LISTEN, {"in"}>> /\ backlog > 0
    OBVIOUS
  <2>4. batch' \subseteq (Fd \cup {LISTEN}) \X SUBSET {"in", "out", "hup"}
    <3>1. \A e \in events : e \in (Fd \cup {LISTEN}) \X SUBSET {"in", "out", "hup"}
      <4> SUFFICES ASSUME NEW f \in Fd
                   PROVE  <<f, Reported(f, interest[f])>>
                            \in (Fd \cup {LISTEN}) \X SUBSET {"in", "out", "hup"}
        OBVIOUS
      <4> QED
        BY ReportedIs
    <3> QED
      BY <2>1, <2>3, <3>1
  <2>5. Events'
    <3>1. backlog' = backlog /\ LISTEN \notin Fd
      BY <1>1, EpollAssumption DEF EpollWait
    <3> HIDE DEF events, listening
    <3>2. \A e \in batch' : (e \in events /\ e[2] # {}) \/ e \in listening
      BY <2>1
    <3>3. \A e \in listening : e[1] = LISTEN /\ e[2] = {"in"}
      BY <2>3
    <3>4. \A e \in batch' : e[2] # {}
      BY <3>2, <3>3
    <3>5. \A e \in batch' : e[1] = LISTEN => e \in listening
      BY <2>2, <3>1, <3>2
    <3>6. ASSUME NEW e \in batch', NEW d \in batch', e[1] = d[1]
          PROVE  e = d
      <4>1. CASE e \in events /\ d \in events
        BY <2>2, <3>6, <4>1
      <4>2. CASE e \in listening \/ d \in listening
        BY <2>3, <3>3, <3>5, <3>6, <4>2
      <4> QED
        BY <3>2, <4>1, <4>2
    <3> QED
      BY <2>3, <3>1, <3>4, <3>5, <3>6 DEF Events
  <2>6. ready' \in [Fd -> BOOLEAN] /\ listenReady' \in BOOLEAN
    BY <1>1 DEF EpollWait
  <2>7. conn' \in [Socket -> [data : BOOLEAN, hup : BOOLEAN, room : 0..KernelRoom, nospace : BOOLEAN]]
    BY <1>0, <1>1, PolledTyped DEF EpollWait
  <2> HIDE DEF events, listening
  <2>8. TypeOK'
    BY <1>0, <1>1, <2>4, <2>6, <2>7 DEF EpollWait, TypeOK
  <2> QED
    BY <1>1, <2>5, <2>8 DEF EpollWait, Typed, InCall, Bound
<1>2. CASE HandleEvent
  <2>1. PICK e \in batch :
          /\ e[1] # LISTEN /\ batch' = batch \ {e}
          /\ \/ Stays
             \/ /\ fds[e[1]] # NULL
                /\ \E place \in {"disconnect", "read", "burst"} :
                     Enter(Worker, fds[e[1]], place, "next")
    BY <1>2 DEF HandleEvent
  <2>2. e[1] \in Fd /\ fds[e[1]] \in Socket \cup {NULL} /\ m_fd' = m_fd
    BY <1>0, <1>2, <2>1 DEF TypeOK, HandleEvent
  <2>3. /\ pc' \in [Thread -> Place] /\ sock' \in [Thread -> Socket \cup {NULL}]
        /\ back' \in [Thread -> {"idle", "next", "written"}] /\ \A u \in Thread : InCall(u)'
    <3>1. CASE Stays
      BY <1>0, <2>2, <3>1 DEF Stays, Typed, TypeOK, InCall
    <3>2. ASSUME NEW place \in {"disconnect", "read", "burst"}, fds[e[1]] # NULL,
                 Enter(Worker, fds[e[1]], place, "next")
          PROVE  /\ pc' \in [Thread -> Place] /\ sock' \in [Thread -> Socket \cup {NULL}]
                 /\ back' \in [Thread -> {"idle", "next", "written"}] /\ \A u \in Thread : InCall(u)'
      <4>1. m_fd[fds[e[1]]] \in Fd
        BY <2>2, <3>2 DEF Typed, Bound
      <4> QED
        BY <1>0, <2>2, <3>2, <4>1, EnterTyped
    <3> QED
      BY <2>1, <3>1, <3>2
  <2>4. batch' \subseteq batch
    BY <2>1
  <2>5. TypeOK'
    BY <1>0, <1>2, <2>3, <2>4 DEF HandleEvent, TypeOK
  <2>6. Events'
    BY <1>2, <2>4 DEF HandleEvent, Events, Typed
  <2> QED
    BY <1>2, <2>3, <2>5, <2>6 DEF HandleEvent, Typed, Bound
<1> QED
  BY <1>1, <1>2

LEMMA TypedAccept ==
  ASSUME Typed, OnAccept
  PROVE  Typed'
<1> USE DEF socketVars, kernelVars, gcVars, bounds
<1>0. TypeOK /\ Worker \in Thread /\ "delete" \in Place /\ NULL \notin Fd
  BY EpollAssumption DEF Thread, Place, Typed
<1>1. PICK e \in batch : e[1] = LISTEN /\ batch' = batch \ {e}
  BY DEF OnAccept
<1>2. backlog > 0 /\ \A d \in batch' : d[1] # LISTEN
  BY <1>0, <1>1 DEF Typed, Events
<1>3. UNCHANGED <<m_deleted, m_writeLock, m_writeMutex, writeBuffer, deletionQueue, freed, ready, conn,
                  listenReady, inDelete, sends, closes>>
  BY DEF OnAccept
<1>4. Events'
  BY <1>1, <1>2 DEF Typed, Events
<1>5. batch' \subseteq (Fd \cup {LISTEN}) \X SUBSET {"in", "out", "hup"}
  BY <1>0, <1>1 DEF TypeOK
<1>6. CASE UNCHANGED <<backlog, m_fd, m_connected, open, fds, interest>> /\ Stays
  BY <1>0, <1>3, <1>4, <1>5, <1>6 DEF Stays, Typed, TypeOK, InCall, Bound
<1>7. ASSUME NEW s \in Socket, NEW f \in Fd, NextSocket(s), backlog' = backlog - 1,
             m_fd' = [m_fd EXCEPT ![s] = f], m_connected' = [m_connected EXCEPT ![s] = TRUE],
             open' = [open EXCEPT ![f] = s], AddSocket(s, f)
      PROVE  Typed'
  <2>1. m_fd[s] = NULL /\ m_fd'[s] = f /\ \A r \in Socket : m_fd'[r] = m_fd[r] \/ m_fd[r] = NULL
    BY <1>0, <1>7 DEF NextSocket, TypeOK
  <2>2. /\ m_fd' \in [Socket -> Fd \cup {NULL}] /\ m_connected' \in [Socket -> BOOLEAN]
        /\ open' \in [Fd -> Socket \cup {NULL}] /\ backlog' \in Nat
    BY <1>0, <1>2, <1>7 DEF TypeOK
  <2>3. fds' \in [Fd -> Socket \cup {NULL}] /\ interest' \in [Fd -> {"none", "in", "out"}]
    <3>1. fds \in [Fd -> Socket \cup {NULL}] /\ interest \in [Fd -> {"none", "in", "out"}]
      BY <1>0 DEF TypeOK
    <3>2. CASE UNCHANGED <<fds, interest>>
      BY <3>1, <3>2
    <3>3. CASE fds' = [fds EXCEPT ![f] = s] /\ interest' = [interest EXCEPT ![f] = "in"]
      BY <3>1, <3>3
    <3> QED
      BY <1>7, <3>2, <3>3 DEF AddSocket, Refused
  <2>4. /\ pc' \in [Thread -> Place] /\ sock' \in [Thread -> Socket \cup {NULL}]
        /\ back' \in [Thread -> {"idle", "next", "written"}] /\ \A u \in Thread : InCall(u)'
    <3>1. CASE Stays
      BY <1>0, <2>1, <3>1 DEF Stays, Typed, TypeOK, InCall
    <3>2. CASE Enter(Worker, s, "delete", "next")
      BY <1>0, <2>1, <3>2, EnterTyped
    <3> QED
      BY <1>7, <3>1, <3>2 DEF AddSocket, Refused
  <2>5. Bound'
    <3> SUFFICES ASSUME NEW g \in Fd, fds'[g] # NULL PROVE m_fd'[fds'[g]] = g
      BY DEF Bound
    <3>1. CASE fds'[g] = fds[g]
      BY <1>0, <2>1, <3>1 DEF Typed, Bound, TypeOK
    <3>2. CASE fds'[g] # fds[g]
      BY <1>0, <1>7, <2>1, <3>2 DEF AddSocket, Refused, TypeOK
    <3> QED
      BY <3>1, <3>2
  <2>6. TypeOK'
    BY <1>0, <1>3, <1>5, <2>2, <2>3, <2>4 DEF TypeOK
  <2> QED
    BY <1>4, <2>4, <2>5, <2>6 DEF Typed
<1> QED
  BY <1>6, <1>7 DEF OnAccept

LEMMA TypedReads ==
  ASSUME Typed, ReadCallback \/ ChangeToWrite \/ PostWrite
  PROVE  Typed'
<1> USE DEF socketVars, kernelVars, gcVars, bounds
<1>0. TypeOK /\ Worker \in Thread /\ {"disconnect", "changing", "toout", "next"} \subseteq Place
  BY DEF Thread, Place, Typed
<1>1. pc[Worker] \notin {"idle", "next"} /\ m_fd' = m_fd /\ \E place \in Place : Go(Worker, place)
  BY <1>0 DEF At, ReadCallback, ChangeToWrite, PostWrite
<1>2. sock[Worker] \in Socket /\ m_fd[sock[Worker]] \in Fd
  BY <1>0, <1>1 DEF Typed, InCall
<1>3. /\ pc' \in [Thread -> Place] /\ sock' \in [Thread -> Socket \cup {NULL}]
      /\ back' \in [Thread -> {"idle", "next", "written"}] /\ \A u \in Thread : InCall(u)'
  BY <1>0, <1>1, GoTyped
<1>4. UNCHANGED <<m_fd, m_connected, m_deleted, m_writeLock, m_writeMutex, writeBuffer, fds,
                  deletionQueue, freed, open, backlog, listenReady, inDelete, batch, sends, closes>>
  BY DEF ReadCallback, ChangeToWrite, PostWrite
<1>5. /\ interest' \in [Fd -> {"none", "in", "out"}] /\ ready' \in [Fd -> BOOLEAN]
      /\ conn' \in [Socket -> [data : BOOLEAN, hup : BOOLEAN, room : 0..KernelRoom, nospace : BOOLEAN]]
  <2>1. CASE ReadCallback
    <3> DEFINE o == open[m_fd[sock[Worker]]]
    <3>1. o \in Socket \cup {NULL}
      BY <1>0, <1>2 DEF TypeOK
    <3>2. UNCHANGED <<interest, ready>> /\ (UNCHANGED conn \/ \E rest \in BOOLEAN :
            o # NULL /\ conn' = [conn EXCEPT ![o].data = rest])
      BY <2>1 DEF ReadCallback
    <3> HIDE DEF o
    <3>3. CASE UNCHANGED conn
      BY <1>0, <3>2, <3>3 DEF TypeOK
    <3>4. ASSUME NEW rest \in BOOLEAN, o # NULL, conn' = [conn EXCEPT ![o].data = rest]
          PROVE  conn' \in [Socket -> [data : BOOLEAN, hup : BOOLEAN, room : 0..KernelRoom,
                                       nospace : BOOLEAN]]
      BY <1>0, <3>1, <3>4 DEF TypeOK
    <3> QED
      BY <1>0, <3>2, <3>3, <3>4 DEF TypeOK
  <2>2. CASE ChangeToWrite
    BY <1>0, <2>2 DEF ChangeToWrite, TypeOK
  <2>3. CASE PostWrite
    BY <1>0, <1>2, <2>3, PostTyped DEF PostWrite
  <2> QED
    BY <2>1, <2>2, <2>3
<1>6. TypeOK'
  BY <1>0, <1>3, <1>4, <1>5 DEF TypeOK
<1> QED
  BY <1>3, <1>4, <1>6 DEF Typed, Events, Bound

LEMMA CutTyped ==
  ASSUME NEW w \in [at : 0..Size, a : 0..Size, b : 0..Size, two : BOOLEAN],
         w.at + w.a <= Size, w.b <= w.at, NEW n \in Nat, n <= w.a
  PROVE  Cut(w, n) \in {v \in [at : 0..Size, a : 0..Size, b : 0..Size, two : BOOLEAN] :
                          v.at + v.a <= Size /\ v.b <= v.at}
<1>1. w.at \in 0..Size /\ w.a \in 0..Size /\ w.b \in 0..Size /\ Size \in Nat
  BY EpollAssumption
<1>2. CASE n < w.a
  <2>1. Cut(w, n) = [w EXCEPT !.at = w.at + n, !.a = w.a - n]
    BY <1>2 DEF Cut
  <2>2. w.at + n \in 0..Size /\ w.a - n \in 0..Size /\ (w.at + n) + (w.a - n) <= Size /\ w.b <= w.at + n
    BY <1>1, <1>2
  <2> QED
    BY <2>1, <2>2
<1>3. CASE ~(n < w.a)
  <2>1. Cut(w, n) = [at |-> 0, a |-> w.b, b |-> 0, two |-> FALSE]
    BY <1>3 DEF Cut, EmptyBuffer
  <2> QED
    BY <1>1, <2>1
<1> QED
  BY <1>2, <1>3

LEMMA TypedWrites ==
  ASSUME Typed, BurstBegin \/ WriteCallback \/ Written \/ PostRead
  PROVE  Typed'
<1> USE DEF socketVars, kernelVars, gcVars, bounds
<1> DEFINE C == [data : BOOLEAN, hup : BOOLEAN, room : 0..KernelRoom, nospace : BOOLEAN]
           W == {w \in [at : 0..Size, a : 0..Size, b : 0..Size, two : BOOLEAN] :
                   w.at + w.a <= Size /\ w.b <= w.at}
           s == sock[Worker]
<1>0. TypeOK /\ Worker \in Thread /\ {"disconnect", "write", "written", "toin", "next"} \subseteq Place
  BY DEF Thread, Place, Typed
<1>1. pc[Worker] \notin {"idle", "next"} /\ m_fd' = m_fd
  BY DEF At, BurstBegin, WriteCallback, Written, PostRead
<1>2. s \in Socket /\ m_fd[s] \in Fd
  BY <1>0, <1>1 DEF Typed, InCall
<1>3. /\ pc' \in [Thread -> Place] /\ sock' \in [Thread -> Socket \cup {NULL}]
      /\ back' \in [Thread -> {"idle", "next", "written"}] /\ \A u \in Thread : InCall(u)'
  <2>1. CASE \E place \in Place : Go(Worker, place)
    BY <1>0, <1>1, <2>1, GoTyped
  <2>2. CASE Enter(Worker, s, "disconnect", "written")
    <3> HIDE DEF s
    <3> QED
      BY <1>0, <1>1, <1>2, <2>2, EnterTyped
  <2> QED
    BY <1>0, <2>1, <2>2 DEF BurstBegin, WriteCallback, Written, PostRead
<1>4. UNCHANGED <<m_fd, m_connected, m_deleted, fds, deletionQueue, freed, open, backlog,
                  listenReady, inDelete, batch, sends, closes>>
  BY DEF BurstBegin, WriteCallback, Written, PostRead
<1>5. m_writeLock' \in [Socket -> 0..MaxUInt] /\ m_writeMutex' \in [Socket -> Thread \cup {NULL}]
  <2>1. \A l \in 0..MaxUInt : (l + MaxUInt) % (MaxUInt + 1) \in 0..MaxUInt
    BY EpollAssumption
  <2>2. m_writeLock' \in [Socket -> 0..MaxUInt]
    <3>1. m_writeLock \in [Socket -> 0..MaxUInt]
      BY <1>0 DEF TypeOK
    <3>2. m_writeLock' = m_writeLock \/ m_writeLock' = DecSendLock(s)
      BY DEF BurstBegin, WriteCallback, Written, PostRead
    <3> HIDE DEF s
    <3> QED
      BY <1>2, <2>1, <3>1, <3>2 DEF DecSendLock
  <2>3. m_writeMutex' \in [Socket -> Thread \cup {NULL}]
    <3>1. m_writeMutex \in [Socket -> Thread \cup {NULL}]
      BY <1>0 DEF TypeOK
    <3>2. \/ m_writeMutex' = m_writeMutex \/ BurstEnd(s)
          \/ m_writeMutex' = [m_writeMutex EXCEPT ![s] = Worker]
      BY DEF BurstBegin, WriteCallback, Written, PostRead
    <3> HIDE DEF s
    <3> QED
      BY <1>0, <3>1, <3>2 DEF BurstEnd
  <2> QED
    BY <2>2, <2>3
<1>6. /\ interest' \in [Fd -> {"none", "in", "out"}] /\ ready' \in [Fd -> BOOLEAN]
      /\ conn' \in [Socket -> C] /\ writeBuffer' \in [Socket -> W]
  <2>1. CASE BurstBegin \/ Written
    BY <1>0, <2>1 DEF BurstBegin, Written, TypeOK
  <2>2. CASE PostRead
    BY <1>0, <1>2, <2>2, PostTyped DEF PostRead, TypeOK
  <2>3. CASE WriteCallback
    <3> DEFINE o == open[m_fd[s]]
               n == writeBuffer[s].a
               sent == IF n < conn[o].room THEN n ELSE conn[o].room
    <3>1. conn \in [Socket -> C] /\ writeBuffer \in [Socket -> W] /\ o \in Socket \cup {NULL}
      BY <1>0, <1>2 DEF TypeOK
    <3>2. UNCHANGED <<interest, ready>>
      BY <2>3 DEF WriteCallback
    <3>3. \/ UNCHANGED <<writeBuffer, conn>>
          \/ /\ o # NULL
             /\ conn' = [conn EXCEPT ![o].room = @ - sent, ![o].nospace = @ \/ sent < n]
             /\ writeBuffer' = [writeBuffer EXCEPT ![s] = Cut(writeBuffer[s], sent)]
      BY <2>3 DEF WriteCallback
    <3>4. CASE UNCHANGED <<writeBuffer, conn>>
      BY <1>0, <3>2, <3>4 DEF TypeOK
    <3>5. CASE /\ o # NULL
               /\ conn' = [conn EXCEPT ![o].room = @ - sent, ![o].nospace = @ \/ sent < n]
               /\ writeBuffer' = [writeBuffer EXCEPT ![s] = Cut(writeBuffer[s], sent)]
      <4>1. o \in Socket /\ conn[o] \in C /\ writeBuffer[s] \in W
        BY <1>2, <3>1, <3>5
      <4>2. n \in 0..Size /\ conn[o].room \in 0..KernelRoom
        BY <4>1
      <4>3. sent \in Nat /\ sent <= n /\ conn[o].room - sent \in 0..KernelRoom
        BY <4>2, EpollAssumption
      <4>4. Cut(writeBuffer[s], sent) \in W
        <5> HIDE DEF sent
        <5> QED
          BY <4>1, <4>3, CutTyped
      <4>5. PICK b \in BOOLEAN : b = (conn[o].nospace \/ sent < n)
        OBVIOUS
      <4>6. [conn[o] EXCEPT !.room = conn[o].room - sent, !.nospace = b] \in C
        <5> HIDE DEF sent, o
        <5> QED
          BY <4>1, <4>3
      <4>7. conn' = [conn EXCEPT ![o] = [conn[o] EXCEPT !.room = conn[o].room - sent, !.nospace = b]]
        BY <3>5, <4>5
      <4>8. conn' \in [Socket -> C]
        <5> HIDE DEF sent, o, C
        <5> QED
          BY <3>1, <4>1, <4>6, <4>7
      <4>9. writeBuffer' \in [Socket -> W]
        <5> HIDE DEF sent, o, W
        <5> QED
          BY <3>1, <3>5, <4>4
      <4> QED
        BY <1>0, <3>2, <4>8, <4>9 DEF TypeOK
    <3> QED
      BY <3>3, <3>4, <3>5
  <2> QED
    BY <2>1, <2>2, <2>3
<1>7. TypeOK'
  BY <1>0, <1>3, <1>4, <1>5, <1>6 DEF TypeOK
<1> QED
  BY <1>3, <1>4, <1>7 DEF Typed, Events, Bound

LEMMA TypedInit == Init => Typed
<1> SUFFICES ASSUME Init PROVE Typed
  OBVIOUS
<1> USE EpollAssumption DEF Init
<1>1. /\ m_fd \in [Socket -> Fd \cup {NULL}]
      /\ m_connected \in [Socket -> BOOLEAN] /\ m_deleted \in [Socket -> BOOLEAN]
      /\ m_writeLock \in [Socket -> 0..MaxUInt] /\ m_writeMutex \in [Socket -> Thread \cup {NULL}]
  OBVIOUS
<1>2. writeBuffer \in [Socket -> {w \in [at : 0..Size, a : 0..Size, b : 0..Size, two : BOOLEAN] :
                                    w.at + w.a <= Size /\ w.b <= w.at}]
  BY DEF EmptyBuffer
<1>3. /\ fds \in [Fd -> Socket \cup {NULL}] /\ open \in [Fd -> Socket \cup {NULL}]
      /\ interest \in [Fd -> {"none", "in", "out"}] /\ ready \in [Fd -> BOOLEAN]
      /\ conn \in [Socket -> [data : BOOLEAN, hup : BOOLEAN, room : 0..KernelRoom, nospace : BOOLEAN]]
  OBVIOUS
<1>4. /\ pc \in [Thread -> {"idle", "next"}] /\ sock \in [Thread -> Socket \cup {NULL}]
      /\ back \in [Thread -> {"idle", "next", "written"}] /\ inDelete \in [Thread -> BOOLEAN]
  OBVIOUS
<1>5. /\ batch = {} /\ sends \in 0..MaxSends /\ closes \in 0..MaxCloses
      /\ backlog \in Nat /\ listenReady \in BOOLEAN
      /\ deletionQueue = {} /\ freed = {}
  <2>1. MaxSends \in Nat /\ MaxCloses \in Nat
    OBVIOUS
  <2>2. sends = 0 /\ closes = 0 /\ backlog = 0
    OBVIOUS
  <2>3. sends \in 0..MaxSends /\ closes \in 0..MaxCloses /\ backlog \in Nat
    BY <2>1, <2>2
  <2>4. batch = {} /\ deletionQueue = {} /\ freed = {} /\ listenReady \in BOOLEAN
    OBVIOUS
  <2> QED
    BY <2>3, <2>4
<1>6. pc \in [Thread -> Place]
  BY <1>4 DEF Place
<1>7. TypeOK
  BY <1>1, <1>2, <1>3, <1>4, <1>5, <1>6 DEF TypeOK
<1> QED
  BY <1>4, <1>5, <1>7 DEF Typed, InCall, Events, Bound

LEMMA TypedNext == Typed /\ [Next]_vars => Typed'
<1> SUFFICES ASSUME Typed, [Next]_vars PROVE Typed'
  OBVIOUS
<1>1. CASE WorkerStep
  BY <1>1, TypedEvents, TypedAccept, TypedReads, TypedWrites, TypedClosing DEF WorkerStep, Thread
<1>2. ASSUME NEW t \in App, AppStep(t) PROVE Typed'
  BY <1>2, TypedSender, TypedClosing DEF AppStep, Thread
<1>3. CASE Calls
  BY <1>3, TypedCalls DEF Calls
<1>4. CASE Peer \/ Update
  BY <1>4, TypedPeer
<1>5. CASE UNCHANGED vars
  <2> USE <1>5 DEF vars, socketVars, gcVars, kernelVars, threadVars, bounds
  <2>1. TypeOK'
    BY DEF Typed, TypeOK
  <2> QED
    BY <2>1 DEF Typed, InCall, Events, Bound
<1> QED
  BY <1>1, <1>2, <1>3, <1>4, <1>5 DEF Next

(* Every variable keeps its type: a buffer is never filled beyond its size,  *)
(* and OnAccept takes no connection that is not there.                       *)
THEOREM TypeCorrect == Spec => []TypeOK
<1>1. Typed => TypeOK
  BY DEF Typed
<1> QED
  BY <1>1, TypedInit, TypedNext, PTL DEF Spec
-----------------------------------------------------------------------------
(* Where the threads may be. *)
ClosingPlace == {"disconnect", "removesocket", "unbind", "unregister", "shutdown", "close",
                 "closed", "delete", "mark", "drop", "queue"}

(* The worker writes, or closes a socket because its write has failed.       *)
Serving == \/ pc[Worker] \in {"write", "written", "toin"}
           \/ pc[Worker] \in ClosingPlace /\ back[Worker] = "written"

Holders ==
  /\ \A t \in App : pc[t] \in {"idle", "acquire", "post"} \cup ClosingPlace /\ back[t] = "idle"
  /\ \A t \in App : pc[t] \in {"acquire", "post"} => m_writeMutex[sock[t]] = t
  /\ pc[Worker] \notin {"acquire", "post"} /\ (pc[Worker] = "read" => back[Worker] = "next")
  /\ Serving => m_writeMutex[sock[Worker]] = Worker

Gone ==
  /\ \A t \in Thread :
       pc[t] \in {"removesocket", "unbind", "unregister", "shutdown", "close", "closed"} =>
         ~m_connected[sock[t]]
  /\ pc[Worker] \in ClosingPlace \ {"disconnect"} /\ back[Worker] = "written" =>
       ~m_connected[sock[Worker]]
  /\ \A s \in Socket : m_connected[s] => m_fd[s] \in Fd

(* A number that no socket has had is not registered, and nothing is         *)
(* reported of it; a socket without a number has not been written to.        *)
Owned == \A f \in Fd : interest[f] # "none" \/ ready[f] \/ (\E e \in batch : e[1] = f) =>
                         \E r \in Socket : m_fd[r] = f
Unused == \A s \in Socket : m_fd[s] = NULL => m_writeLock[s] = 0 /\ Bytes(s) = 0

(* The event that made the worker write is no longer in the batch.           *)
Handled == Serving \/ pc[Worker] = "burst" => \A e \in batch : e[1] # m_fd[sock[Worker]]

Places == Typed /\ Holders /\ Gone /\ Owned /\ Unused /\ Handled

LEMMA GoFacts ==
  ASSUME Typed, NEW t \in Thread, NEW place, Go(t, place)
  PROVE  /\ pc'[t] = place
         /\ place \notin {"idle", "next"} => sock'[t] = sock[t] /\ back'[t] = back[t]
         /\ place \in {"idle", "next"} => back'[t] = "idle" /\ sock'[t] = NULL
         /\ \A u \in Thread \ {t} : pc'[u] = pc[u] /\ sock'[u] = sock[u] /\ back'[u] = back[u]
BY DEF Go, Enter, Typed, TypeOK

LEMMA EnterFacts ==
  ASSUME Typed, NEW t \in Thread, NEW place, NEW s, NEW return, Enter(t, s, place, return)
  PROVE  /\ pc'[t] = place /\ sock'[t] = s /\ back'[t] = return
         /\ \A u \in Thread \ {t} : pc'[u] = pc[u] /\ sock'[u] = sock[u] /\ back'[u] = back[u]
BY DEF Enter, Typed, TypeOK

LEMMA InCallFacts ==
  ASSUME Typed, NEW t \in Thread, pc[t] \notin {"idle", "next"}
  PROVE  sock[t] \in Socket /\ m_fd[sock[t]] \in Fd
BY DEF Typed, InCall

GonePlace == {"removesocket", "unbind", "unregister", "shutdown", "close", "closed"}

(* What Closing does to the places. *)
LEMMA ClosingFacts ==
  ASSUME Typed, NEW t \in Thread, Closing(t)
  PROVE  /\ pc[t] \in ClosingPlace
         /\ \E place \in ClosingPlace \cup {back[t]} :
              /\ Go(t, place)
              /\ place \in GonePlace => pc[t] \in GonePlace \/ Disconnect(t)
         /\ pc[t] = "disconnect" => Disconnect(t)
         /\ UNCHANGED <<m_fd, m_writeLock, m_writeMutex, writeBuffer, batch>>
         /\ \/ m_connected' = m_connected /\ ~Disconnect(t)
            \/ Disconnect(t) /\ m_connected' = [m_connected EXCEPT ![sock[t]] = FALSE]
         /\ \/ interest' = interest /\ (ready' = ready \/ \E o : Wakes(o, "hup"))
            \/ pc[t] \in {"unregister", "close"} /\ Unregister(m_fd[sock[t]])
<1> USE DEF socketVars, kernelVars, gcVars, bounds, ClosingPlace, GonePlace
<1>0. back[t] \notin GonePlace /\ \A place : Disconnect(t) /\ At(t, place) => place = "disconnect"
  BY DEF Typed, TypeOK, Disconnect, At
<1>1. CASE Disconnect(t)
  BY <1>1 DEF Disconnect, At
<1>2. CASE RemoveSocket(t) \/ UnbindSocket(t)
  BY <1>0, <1>2 DEF RemoveSocket, UnbindSocket, At
<1>3. CASE UnregisterSocket(t) \/ CloseSocket(t)
  BY <1>0, <1>3 DEF UnregisterSocket, CloseSocket, At
<1>4. CASE ShutdownSocket(t)
  BY <1>0, <1>4 DEF ShutdownSocket, At
<1>5. CASE Disconnected(t)
  BY <1>0, <1>5 DEF Disconnected, AfterClose, OnlyClosed, At
<1>6. CASE Delete(t) \/ MarkDeleted(t)
  BY <1>0, <1>6 DEF Delete, MarkDeleted, At
<1>7. CASE DropConnection(t) \/ QueueSocket(t)
  BY <1>0, <1>7 DEF DropConnection, QueueSocket, At
<1> QED
  BY <1>1, <1>2, <1>3, <1>4, <1>5, <1>6, <1>7 DEF Closing

LEMMA PlacesClosing ==
  ASSUME Places, NEW t \in Thread, Closing(t)
  PROVE  Holders' /\ Gone' /\ Owned' /\ Unused' /\ Handled'
<1> USE DEF ClosingPlace, GonePlace
<1>0. Typed /\ Worker \in Thread /\ Worker \notin App /\ Thread = App \cup {Worker}
  BY EpollAssumption DEF Places, Thread
<1>1. /\ pc[t] \in ClosingPlace
      /\ pc[t] = "disconnect" => Disconnect(t)
      /\ UNCHANGED <<m_fd, m_writeLock, m_writeMutex, writeBuffer, batch>>
      /\ \/ m_connected' = m_connected /\ ~Disconnect(t)
         \/ Disconnect(t) /\ m_connected' = [m_connected EXCEPT ![sock[t]] = FALSE]
      /\ \/ interest' = interest /\ (ready' = ready \/ \E o : Wakes(o, "hup"))
         \/ pc[t] \in {"unregister", "close"} /\ Unregister(m_fd[sock[t]])
  BY <1>0, ClosingFacts
<1>2. PICK place \in ClosingPlace \cup {back[t]} :
        /\ Go(t, place)
        /\ place \in GonePlace => pc[t] \in GonePlace \/ Disconnect(t)
  BY <1>0, ClosingFacts
<1>3. sock[t] \in Socket /\ m_fd[sock[t]] \in Fd
  BY <1>0, <1>1, InCallFacts
<1>4. back[t] \in {"idle", "next", "written"}
  BY <1>0 DEF Typed, TypeOK
<1>5. /\ pc'[t] = place
      /\ place \notin {"idle", "next"} => sock'[t] = sock[t] /\ back'[t] = back[t]
      /\ place \in {"idle", "next"} => back'[t] = "idle"
      /\ \A u \in Thread \ {t} : pc'[u] = pc[u] /\ sock'[u] = sock[u] /\ back'[u] = back[u]
  BY <1>0, <1>2, GoFacts
<1>6. /\ Serving' => Serving /\ sock'[Worker] = sock[Worker]
      /\ pc'[Worker] = "burst" => pc[Worker] = "burst" /\ sock'[Worker] = sock[Worker]
  BY <1>0, <1>1, <1>2, <1>4, <1>5 DEF Serving
<1>7. Holders'
  BY <1>0, <1>1, <1>2, <1>4, <1>5, <1>6 DEF Places, Holders
<1>8. Handled'
  BY <1>1, <1>6 DEF Places, Handled
<1>9. \A x \in Socket : m_connected'[x] => m_connected[x]
  BY <1>0, <1>1, <1>3 DEF Typed, TypeOK
<1>10. Disconnect(t) => ~m_connected'[sock[t]]
  BY <1>0, <1>1, <1>3 DEF Typed, TypeOK
<1>11. Gone'
  <2>1. ASSUME NEW u \in Thread, pc'[u] \in GonePlace PROVE ~m_connected'[sock'[u]]
    <3>1. CASE u = t
      BY <1>1, <1>2, <1>3, <1>4, <1>5, <1>9, <1>10, <2>1, <3>1 DEF Places, Gone
    <3>2. CASE u # t
      <4>1. sock[u] \in Socket
        BY <1>0, <1>5, <2>1, <3>2, InCallFacts
      <4> QED
        BY <1>5, <1>9, <2>1, <3>2, <4>1 DEF Places, Gone
    <3> QED
      BY <3>1, <3>2
  <2>2. ASSUME pc'[Worker] \in ClosingPlace \ {"disconnect"}, back'[Worker] = "written"
        PROVE  ~m_connected'[sock'[Worker]]
    <3>1. CASE Worker = t
      BY <1>1, <1>2, <1>3, <1>4, <1>5, <1>9, <1>10, <2>2, <3>1 DEF Places, Gone
    <3>2. CASE Worker # t
      <4>1. sock[Worker] \in Socket
        BY <1>0, <1>5, <2>2, <3>2, InCallFacts
      <4> QED
        BY <1>0, <1>5, <1>9, <2>2, <3>2, <4>1 DEF Places, Gone
    <3> QED
      BY <3>1, <3>2
  <2> QED
    BY <1>1, <1>9, <2>1, <2>2 DEF Places, Gone
<1>12. Owned'
  <2>1. \A f \in Fd : (interest'[f] # "none" => interest[f] # "none")
                       /\ (ready'[f] => ready[f] \/ interest[f] # "none")
    BY <1>0, <1>1, <1>3 DEF Typed, TypeOK, Unregister, Wakes
  <2> QED
    BY <1>1, <2>1 DEF Places, Owned
<1>13. Unused'
  BY <1>1 DEF Places, Unused, Bytes
<1> QED
  BY <1>7, <1>8, <1>11, <1>12, <1>13

LEMMA PostFacts ==
  ASSUME Typed, NEW s \in Socket, m_fd[s] \in Fd, NEW event \in {"in", "out"}, PostEvent(s, event)
  PROVE  /\ \A f \in Fd : (interest'[f] # "none" => interest[f] # "none")
                           /\ (ready'[f] => ready[f] \/ interest[f] # "none")
         /\ \A f \in Fd \ {m_fd[s]} : interest'[f] = interest[f]
         /\ interest[m_fd[s]] # "none" => interest'[m_fd[s]] = event
BY DEF Typed, TypeOK, PostEvent

LEMMA PlacesApp ==
  ASSUME Places, NEW t \in App, NEW s \in Socket,
         Send(t, s) \/ Close(t, s) \/ AcquireSendLock(t) \/ BurstPush(t)
  PROVE  Holders' /\ Gone' /\ Owned' /\ Unused' /\ Handled'
<1> USE DEF ClosingPlace, GonePlace, socketVars, gcVars, kernelVars, bounds
<1>0. Typed /\ Worker \notin App /\ Thread = App \cup {Worker} /\ t \in Thread /\ t # Worker
      /\ NULL \notin Thread
  BY EpollAssumption DEF Places, Thread
<1>1. m_writeMutex \in [Socket -> Thread \cup {NULL}] /\ m_writeLock \in [Socket -> 0..MaxUInt]
  BY <1>0 DEF Typed, TypeOK
<1>2. UNCHANGED <<m_fd, m_connected, batch>>
  BY DEF Send, Close, AcquireSendLock, BurstPush
\* The thread itself, and the mutex of its socket.
<1>3. /\ \A u \in Thread \ {t} : pc'[u] = pc[u] /\ sock'[u] = sock[u] /\ back'[u] = back[u]
      /\ \A u \in Thread \ {t}, x \in Socket : m_writeMutex[x] = u => m_writeMutex'[x] = u
      /\ pc'[t] \in {"idle", "acquire", "post", "disconnect", "delete"} /\ back'[t] = "idle"
      /\ pc'[t] \in {"acquire", "post"} => sock'[t] \in Socket /\ m_writeMutex'[sock'[t]] = t
  <2>1. CASE Send(t, s)
    <3>1. CASE Stays
      BY <1>0, <1>1, <2>1, <3>1 DEF Send, Stays, Places, Holders, At
    <3>2. CASE /\ m_writeMutex' = [m_writeMutex EXCEPT ![s] = t]
               /\ Enter(t, s, "acquire", "idle")
      <4>1. m_writeMutex[s] = NULL
        BY <2>1 DEF Send
      <4> QED
        BY <1>0, <1>1, <3>2, <4>1, EnterFacts
    <3> QED
      BY <2>1, <3>1, <3>2 DEF Send
  <2>2. CASE Close(t, s)
    <3>1. PICK place \in {"disconnect", "delete"} : Enter(t, s, place, "idle")
      BY <2>2 DEF Close
    <3> QED
      BY <1>0, <1>1, <2>2, <3>1, EnterFacts DEF Close
  <2>3. CASE AcquireSendLock(t)
    <3>1. pc[t] = "acquire" /\ m_writeMutex[sock[t]] = t /\ sock[t] \in Socket /\ back[t] = "idle"
      BY <1>0, <2>3, InCallFacts DEF AcquireSendLock, At, Places, Holders
    <3>2. CASE Go(t, "post") /\ UNCHANGED m_writeMutex
      BY <1>0, <1>1, <3>1, <3>2, GoFacts
    <3>3. CASE Go(t, "idle") /\ BurstEnd(sock[t])
      BY <1>0, <1>1, <3>1, <3>3, GoFacts DEF BurstEnd
    <3> QED
      BY <2>3, <3>2, <3>3 DEF AcquireSendLock
  <2>4. CASE BurstPush(t)
    <3>1. pc[t] = "post" /\ m_writeMutex[sock[t]] = t /\ sock[t] \in Socket
      BY <1>0, <2>4, InCallFacts DEF BurstPush, At, Places, Holders
    <3>2. Go(t, "idle") /\ BurstEnd(sock[t])
      BY <2>4 DEF BurstPush
    <3> QED
      BY <1>0, <1>1, <3>1, <3>2, GoFacts DEF BurstEnd
  <2> QED
    BY <2>1, <2>2, <2>3, <2>4
<1>4. \A u \in Thread : pc[u] \notin {"idle", "next"} => sock[u] \in Socket
  BY <1>0, InCallFacts
<1>5. Serving' <=> Serving
  BY <1>0, <1>3 DEF Serving
<1>6. Holders'
  <2>1. \A u \in App \ {t} : pc'[u] \in {"acquire", "post"} => m_writeMutex'[sock'[u]] = u
    BY <1>0, <1>3, <1>4 DEF Places, Holders
  <2>2. Serving' => m_writeMutex'[sock'[Worker]] = Worker
    <3>1. Serving => pc[Worker] \notin {"idle", "next"}
      BY DEF Serving
    <3> QED
      BY <1>0, <1>3, <1>4, <1>5, <3>1 DEF Places, Holders
  <2> QED
    BY <1>0, <1>3, <2>1, <2>2 DEF Places, Holders
<1>7. Gone' /\ Handled'
  BY <1>0, <1>2, <1>3, <1>5 DEF Places, Gone, Handled
<1>8. Owned'
  <2>1. \A f \in Fd : (interest'[f] # "none" => interest[f] # "none")
                       /\ (ready'[f] => ready[f] \/ interest[f] # "none")
    <3>1. CASE UNCHANGED <<interest, ready>>
      BY <3>1
    <3>2. CASE BurstPush(t)
      BY <1>0, <3>2, InCallFacts, PostFacts DEF BurstPush, At
    <3> QED
      BY <3>1, <3>2 DEF Send, Close, AcquireSendLock
  <2> QED
    BY <1>2, <2>1 DEF Places, Owned
<1>9. Unused'
  <2>1. ASSUME NEW x \in Socket, m_fd[x] = NULL
        PROVE  m_writeLock'[x] = m_writeLock[x] /\ writeBuffer'[x] = writeBuffer[x]
    <3>1. NULL \notin Fd /\ writeBuffer \in [Socket -> [at : 0..Size, a : 0..Size, b : 0..Size, two : BOOLEAN]]
      BY <1>0, EpollAssumption DEF Typed, TypeOK
    <3>2. CASE Send(t, s)
      BY <2>1, <3>1, <3>2 DEF Send, Known
    <3>3. CASE AcquireSendLock(t)
      <4>1. sock[t] # x
        BY <1>0, <2>1, <3>1, <3>3, InCallFacts DEF AcquireSendLock, At
      <4> QED
        BY <1>1, <3>3, <4>1 DEF AcquireSendLock, TakeSendLock
    <3>4. CASE Close(t, s) \/ BurstPush(t)
      BY <3>4 DEF Close, BurstPush
    <3> QED
      BY <3>2, <3>3, <3>4
  <2> QED
    BY <1>2, <2>1 DEF Places, Unused, Bytes
<1> QED
  BY <1>6, <1>7, <1>8, <1>9

LEMMA PlacesPeer ==
  ASSUME Places, Peer \/ Update
  PROVE  Holders' /\ Gone' /\ Owned' /\ Unused' /\ Handled'
<1> USE DEF socketVars, gcVars, kernelVars, bounds, threadVars
<1>1. UNCHANGED <<m_fd, m_connected, m_writeLock, m_writeMutex, writeBuffer, interest, pc, sock, back, batch>>
  BY DEF Peer, PeerConnects, PeerSends, PeerReads, PeerCloses, Update
<1>2. Holders' /\ Gone' /\ Unused' /\ Handled'
  BY <1>1 DEF Places, Holders, Gone, Unused, Bytes, Handled, Serving
<1>3. ready' = ready \/ \E s, event : Wakes(s, event)
  BY DEF Peer, PeerConnects, PeerSends, PeerReads, PeerCloses, Update
<1>4. Owned'
  <2>1. \A f \in Fd : ready'[f] => ready[f] \/ interest[f] # "none"
    BY <1>3 DEF Wakes
  <2> QED
    BY <1>1, <2>1 DEF Places, Owned
<1> QED
  BY <1>2, <1>4

LEMMA PlacesEvents ==
  ASSUME Places, EpollWait \/ HandleEvent
  PROVE  Holders' /\ Gone' /\ Owned' /\ Unused' /\ Handled'
<1> USE DEF socketVars, gcVars, kernelVars, bounds, threadVars, ClosingPlace, GonePlace
<1>0. Typed /\ Worker \in Thread /\ Worker \notin App /\ Thread = App \cup {Worker} /\ LISTEN \notin Fd
  BY EpollAssumption DEF Places, Thread
<1>1. UNCHANGED <<m_fd, m_connected, m_writeLock, m_writeMutex, writeBuffer, interest>>
      /\ pc[Worker] = "next"
  BY DEF EpollWait, HandleEvent, At
<1>2. Unused'
  BY <1>1 DEF Places, Unused, Bytes
<1>3. CASE EpollWait
  <2>1. UNCHANGED <<pc, sock, back>> /\ \A f \in Fd : ~ready'[f]
    BY <1>3 DEF EpollWait
  <2>2. Holders' /\ Gone' /\ Handled'
    BY <1>1, <2>1 DEF Places, Holders, Gone, Handled, Serving
  <2>3. \A e \in batch' : e[1] \in Fd => ready[e[1]]
    BY <1>0, <1>3 DEF EpollWait
  <2>4. Owned'
    BY <1>1, <2>1, <2>3 DEF Places, Owned
  <2> QED
    BY <1>2, <2>2, <2>4
<1>4. CASE HandleEvent
  <2>1. PICK e \in batch :
          /\ e[1] # LISTEN /\ batch' = batch \ {e}
          /\ \/ Stays
             \/ /\ fds[e[1]] # NULL
                /\ \E place \in {"disconnect", "read", "burst"} :
                     Enter(Worker, fds[e[1]], place, "next")
    BY <1>4 DEF HandleEvent
  <2>2. e[1] \in Fd /\ ready' = ready
    BY <1>0, <1>4, <2>1 DEF Typed, TypeOK, HandleEvent
  <2>3. /\ \A u \in Thread \ {Worker} : pc'[u] = pc[u] /\ sock'[u] = sock[u] /\ back'[u] = back[u]
        /\ \/ pc'[Worker] = "next"
           \/ /\ pc'[Worker] \in {"disconnect", "read", "burst"} /\ back'[Worker] = "next"
              /\ sock'[Worker] = fds[e[1]] /\ fds[e[1]] # NULL
    BY <1>0, <1>1, <2>1, EnterFacts DEF Stays
  <2>4. Holders'
    BY <1>0, <1>1, <2>3 DEF Places, Holders, Serving
  <2>5. Gone'
    BY <1>0, <1>1, <2>3 DEF Places, Gone
  <2>6. Owned'
    BY <1>1, <2>1, <2>2 DEF Places, Owned
  <2>7. Handled'
    <3> SUFFICES ASSUME Serving' \/ pc'[Worker] = "burst", NEW d \in batch'
                 PROVE  d[1] # m_fd'[sock'[Worker]]
      BY DEF Handled
    <3>1. sock'[Worker] = fds[e[1]] /\ fds[e[1]] # NULL
      BY <2>3 DEF Serving
    <3>2. m_fd[fds[e[1]]] = e[1]
      BY <1>0, <2>2, <3>1 DEF Typed, Bound
    <3>3. d[1] # e[1]
      BY <1>0, <2>1 DEF Typed, Events
    <3> QED
      BY <1>1, <3>1, <3>2, <3>3
  <2> QED
    BY <1>2, <2>4, <2>5, <2>6, <2>7
<1> QED
  BY <1>3, <1>4

LEMMA PlacesAccept ==
  ASSUME Places, OnAccept
  PROVE  Holders' /\ Gone' /\ Owned' /\ Unused' /\ Handled'
<1> USE DEF socketVars, gcVars, kernelVars, bounds, threadVars, ClosingPlace, GonePlace
<1>0. /\ Typed /\ Worker \in Thread /\ Worker \notin App /\ Thread = App \cup {Worker}
      /\ NULL \notin Fd /\ m_fd \in [Socket -> Fd \cup {NULL}] /\ m_connected \in [Socket -> BOOLEAN]
  BY EpollAssumption DEF Places, Thread, Typed, TypeOK
<1>1. /\ UNCHANGED <<m_writeLock, m_writeMutex, writeBuffer, ready>> /\ pc[Worker] = "next"
      /\ batch' \subseteq batch
  BY DEF OnAccept, At
<1>2. CASE UNCHANGED <<m_fd, m_connected, interest>> /\ Stays
  BY <1>1, <1>2 DEF Stays, Places, Holders, Gone, Owned, Unused, Bytes, Handled, Serving
<1>3. ASSUME NEW s \in Socket, NEW f \in Fd, NextSocket(s),
             m_fd' = [m_fd EXCEPT ![s] = f], m_connected' = [m_connected EXCEPT ![s] = TRUE],
             AddSocket(s, f)
      PROVE  Holders' /\ Gone' /\ Owned' /\ Unused' /\ Handled'
  <2>1. m_fd[s] = NULL /\ m_fd'[s] = f /\ \A r \in Socket \ {s} : m_fd'[r] = m_fd[r]
    BY <1>0, <1>3 DEF NextSocket
  <2>2. /\ \A u \in Thread \ {Worker} : pc'[u] = pc[u] /\ sock'[u] = sock[u] /\ back'[u] = back[u]
        /\ \/ pc'[Worker] = "next"
           \/ pc'[Worker] = "delete" /\ back'[Worker] = "next"
    BY <1>0, <1>1, <1>3, EnterFacts DEF AddSocket, Refused, Stays
  <2>3. Holders'
    BY <1>0, <1>1, <2>2 DEF Places, Holders, Serving
  <2>4. \A u \in Thread : pc[u] \notin {"idle", "next"} => sock[u] \in Socket /\ sock[u] # s
    BY <1>0, <2>1, InCallFacts
  <2>5. Gone'
    <3>1. \A u \in Thread : pc'[u] \in GonePlace => ~m_connected'[sock'[u]]
      BY <1>0, <1>3, <2>2, <2>4 DEF Places, Gone
    <3>2. \A x \in Socket : m_connected'[x] => m_fd'[x] \in Fd
      BY <1>0, <1>3, <2>1 DEF Places, Gone
    <3> QED
      BY <2>2, <3>1, <3>2 DEF Gone
  <2>6. \A r \in Socket : m_fd[r] \in Fd => m_fd'[r] = m_fd[r]
    BY <1>0, <2>1
  <2>7. Owned'
    <3> SUFFICES ASSUME NEW g \in Fd,
                        interest'[g] # "none" \/ ready'[g] \/ \E e \in batch' : e[1] = g
                 PROVE  \E r \in Socket : m_fd'[r] = g
      BY DEF Owned
    <3>1. CASE g = f
      BY <2>1, <3>1
    <3>2. CASE g # f
      <4>1. interest'[g] = interest[g]
        BY <1>0, <1>3, <3>2 DEF AddSocket, Refused, Typed, TypeOK
      <4>2. \E r \in Socket : m_fd[r] = g
        BY <1>1, <4>1 DEF Places, Owned
      <4> QED
        BY <2>6, <4>2
    <3> QED
      BY <3>1, <3>2
  <2>8. Unused'
    BY <1>0, <1>1, <2>1 DEF Places, Unused, Bytes
  <2>9. Handled'
    BY <2>2 DEF Handled, Serving
  <2> QED
    BY <2>3, <2>5, <2>7, <2>8, <2>9
<1> QED
  BY <1>2, <1>3 DEF OnAccept

LEMMA PlacesReads ==
  ASSUME Places, ReadCallback \/ ChangeToWrite \/ PostWrite
  PROVE  Holders' /\ Gone' /\ Owned' /\ Unused' /\ Handled'
<1> USE DEF socketVars, gcVars, kernelVars, bounds, ClosingPlace, GonePlace
<1>0. Typed /\ Worker \in Thread /\ Worker \notin App /\ Thread = App \cup {Worker}
  BY EpollAssumption DEF Places, Thread
<1>1. /\ UNCHANGED <<m_fd, m_connected, m_writeLock, m_writeMutex, writeBuffer, batch>>
      /\ pc[Worker] \in {"read", "changing", "toout"}
      /\ \/ UNCHANGED <<interest, ready>>
         \/ PostEvent(sock[Worker], "out")
      /\ \/ pc[Worker] = "read" /\ Go(Worker, "disconnect")
         \/ \E place \in {"changing", "toout", "next"} : Go(Worker, place)
  BY DEF ReadCallback, ChangeToWrite, PostWrite, At
<1>2. sock[Worker] \in Socket /\ m_fd[sock[Worker]] \in Fd
  BY <1>0, <1>1, InCallFacts
<1>3. /\ \A u \in Thread \ {Worker} : pc'[u] = pc[u] /\ sock'[u] = sock[u] /\ back'[u] = back[u]
      /\ \/ pc'[Worker] = "disconnect" /\ back'[Worker] = back[Worker] /\ back[Worker] = "next"
         \/ pc'[Worker] \in {"changing", "toout", "next"}
  BY <1>0, <1>1, GoFacts DEF Places, Holders
<1>4. Holders' /\ Gone' /\ Handled'
  BY <1>0, <1>1, <1>3 DEF Places, Holders, Gone, Handled, Serving
<1>5. Unused'
  BY <1>1 DEF Places, Unused, Bytes
<1>6. \A f \in Fd : (interest'[f] # "none" => interest[f] # "none")
                     /\ (ready'[f] => ready[f] \/ interest[f] # "none")
  BY <1>0, <1>1, <1>2, PostFacts
<1>7. Owned'
  BY <1>1, <1>6 DEF Places, Owned
<1> QED
  BY <1>4, <1>5, <1>7

LEMMA PlacesWrites ==
  ASSUME Places, BurstBegin \/ WriteCallback \/ Written \/ PostRead
  PROVE  Holders' /\ Gone' /\ Owned' /\ Unused' /\ Handled'
<1> USE DEF socketVars, gcVars, kernelVars, bounds, ClosingPlace, GonePlace
<1>0. /\ Typed /\ Worker \in Thread /\ Worker \notin App /\ Thread = App \cup {Worker}
      /\ NULL \notin Thread /\ NULL \notin Fd
      /\ m_writeMutex \in [Socket -> Thread \cup {NULL}] /\ m_writeLock \in [Socket -> 0..MaxUInt]
  BY EpollAssumption DEF Places, Thread, Typed, TypeOK
<1>1. UNCHANGED <<m_fd, m_connected, batch>> /\ pc[Worker] \in {"burst", "write", "written", "toin"}
  BY DEF BurstBegin, WriteCallback, Written, PostRead, At
<1>2. sock[Worker] \in Socket /\ m_fd[sock[Worker]] \in Fd
  BY <1>0, <1>1, InCallFacts
<1>3. m_writeMutex[sock[Worker]] = Worker \/ BurstBegin
  BY DEF Places, Holders, Serving, WriteCallback, Written, PostRead, At
\* Its place, and the mutex of its socket.
<1>4. /\ \A u \in Thread \ {Worker} : pc'[u] = pc[u] /\ sock'[u] = sock[u] /\ back'[u] = back[u]
      /\ \A u \in Thread \ {Worker}, x \in Socket : m_writeMutex[x] = u => m_writeMutex'[x] = u
      /\ \/ pc'[Worker] = "next"
         \/ /\ pc'[Worker] \in {"write", "written", "toin", "disconnect"}
            /\ sock'[Worker] = sock[Worker] /\ m_writeMutex'[sock[Worker]] = Worker
  <2>1. CASE BurstBegin
    <3>1. /\ m_writeMutex[sock[Worker]] = NULL
          /\ m_writeMutex' = [m_writeMutex EXCEPT ![sock[Worker]] = Worker] /\ Go(Worker, "write")
      BY <2>1 DEF BurstBegin
    <3> QED
      BY <1>0, <1>2, <3>1, GoFacts
  <2>2. CASE WriteCallback
    <3>0. m_writeMutex[sock[Worker]] = Worker /\ m_writeMutex' = m_writeMutex
      BY <1>3, <2>2 DEF WriteCallback, BurstBegin, At
    <3>1. CASE Enter(Worker, sock[Worker], "disconnect", "written")
      BY <1>0, <3>0, <3>1, EnterFacts
    <3>2. CASE Go(Worker, "written")
      BY <1>0, <3>0, <3>2, GoFacts
    <3> QED
      BY <2>2, <3>1, <3>2 DEF WriteCallback
  <2>3. CASE Written
    <3>0. m_writeMutex[sock[Worker]] = Worker
      BY <1>3, <2>3 DEF Written, BurstBegin, At
    <3>1. CASE BurstEnd(sock[Worker]) /\ Go(Worker, "next")
      BY <1>0, <1>2, <3>0, <3>1, GoFacts DEF BurstEnd
    <3>2. CASE UNCHANGED m_writeMutex /\ Go(Worker, "toin")
      BY <1>0, <1>2, <3>0, <3>2, GoFacts
    <3> QED
      BY <2>3, <3>1, <3>2 DEF Written
  <2>4. CASE PostRead
    <3>0. m_writeMutex[sock[Worker]] = Worker
      BY <1>3, <2>4 DEF PostRead, BurstBegin, At
    <3>1. BurstEnd(sock[Worker]) /\ Go(Worker, "next")
      BY <2>4 DEF PostRead
    <3> QED
      BY <1>0, <1>2, <3>0, <3>1, GoFacts DEF BurstEnd
  <2> QED
    BY <2>1, <2>2, <2>3, <2>4
<1>5. \A u \in Thread : pc[u] \notin {"idle", "next"} => sock[u] \in Socket
  BY <1>0, InCallFacts
<1>6. Holders'
  <2>1. \A u \in App : pc'[u] \in {"acquire", "post"} => m_writeMutex'[sock'[u]] = u
    BY <1>0, <1>4, <1>5 DEF Places, Holders
  <2>2. Serving' => m_writeMutex'[sock'[Worker]] = Worker
    BY <1>4 DEF Serving
  <2> QED
    BY <1>0, <1>4, <2>1, <2>2 DEF Places, Holders
<1>7. Gone' /\ Handled'
  <2>1. Gone'
    BY <1>0, <1>1, <1>4 DEF Places, Gone
  <2>2. Serving \/ pc[Worker] = "burst"
    BY <1>1 DEF Serving
  <2>3. Handled'
    <3>1. CASE pc'[Worker] = "next"
      BY <3>1 DEF Handled, Serving
    <3>2. CASE sock'[Worker] = sock[Worker]
      BY <1>1, <2>2, <3>2 DEF Places, Handled
    <3> QED
      BY <1>4, <3>1, <3>2
  <2> QED
    BY <2>1, <2>3
<1>8. Owned'
  <2>1. \A f \in Fd : (interest'[f] # "none" => interest[f] # "none")
                       /\ (ready'[f] => ready[f] \/ interest[f] # "none")
    <3>1. CASE UNCHANGED <<interest, ready>>
      BY <3>1
    <3>2. CASE PostRead
      BY <1>0, <1>2, <3>2, PostFacts DEF PostRead
    <3> QED
      BY <3>1, <3>2 DEF BurstBegin, WriteCallback, Written
  <2> QED
    BY <1>1, <2>1 DEF Places, Owned
<1>9. Unused'
  <2>1. ASSUME NEW x \in Socket, m_fd[x] = NULL
        PROVE  m_writeLock'[x] = m_writeLock[x] /\ writeBuffer'[x] = writeBuffer[x]
    <3>1. x # sock[Worker] /\ writeBuffer \in [Socket -> [at : 0..Size, a : 0..Size, b : 0..Size, two : BOOLEAN]]
      BY <1>0, <1>2, <2>1 DEF Typed, TypeOK
    <3>2. writeBuffer' = writeBuffer
          \/ \E w : writeBuffer' = [writeBuffer EXCEPT ![sock[Worker]] = w]
      BY DEF BurstBegin, WriteCallback, Written, PostRead
    <3>3. m_writeLock' = m_writeLock \/ m_writeLock' = DecSendLock(sock[Worker])
      BY DEF BurstBegin, WriteCallback, Written, PostRead
    <3> QED
      BY <1>0, <3>1, <3>2, <3>3 DEF DecSendLock
  <2> QED
    BY <1>1, <2>1 DEF Places, Unused, Bytes
<1> QED
  BY <1>6, <1>7, <1>8, <1>9

LEMMA PlacesInit == Init => Places
<1> SUFFICES ASSUME Init PROVE Places
  OBVIOUS
<1> USE EpollAssumption DEF Init, ClosingPlace, GonePlace
<1>1. Typed
  BY TypedInit
<1>2. \A t \in Thread : pc[t] = (IF t = Worker THEN "next" ELSE "idle") /\ back[t] = "idle"
  OBVIOUS
<1>3. Worker \in Thread /\ App \subseteq Thread /\ batch = {}
  BY DEF Thread
<1>4. Holders
  BY <1>2, <1>3 DEF Holders, Serving
<1>5. Gone
  BY <1>2, <1>3 DEF Gone
<1>6. Owned
  BY <1>3 DEF Owned
<1>7. Unused
  <2> SUFFICES ASSUME NEW s \in Socket PROVE m_writeLock[s] = 0 /\ Bytes(s) = 0
    BY DEF Unused
  <2>1. writeBuffer[s] = EmptyBuffer
    OBVIOUS
  <2>2. Bytes(s) = 0
    BY <2>1 DEF Bytes, EmptyBuffer
  <2> QED
    BY <2>2
<1>8. Handled
  BY <1>3 DEF Handled
<1> QED
  BY <1>1, <1>4, <1>5, <1>6, <1>7, <1>8 DEF Places

LEMMA PlacesNext == Places /\ [Next]_vars => Places'
<1> SUFFICES ASSUME Places, [Next]_vars PROVE Places'
  OBVIOUS
<1>1. Typed'
  BY TypedNext DEF Places
<1>2. CASE WorkerStep
  BY <1>1, <1>2, PlacesEvents, PlacesAccept, PlacesReads, PlacesWrites, PlacesClosing
     DEF WorkerStep, Thread, Places
<1>3. ASSUME NEW t \in App, AppStep(t) PROVE Places'
  <2>1. CASE Closing(t)
    BY <1>1, <2>1, PlacesClosing DEF Places, Thread
  <2>2. CASE AcquireSendLock(t) \/ BurstPush(t)
    <3>1. sock[t] \in Socket
      BY <2>2, InCallFacts DEF AcquireSendLock, BurstPush, At, Places, Thread
    <3> QED
      BY <1>1, <2>2, <3>1, PlacesApp DEF Places
  <2> QED
    BY <1>3, <2>1, <2>2 DEF AppStep
<1>4. CASE Calls
  BY <1>1, <1>4, PlacesApp DEF Calls, Places
<1>5. CASE Peer \/ Update
  BY <1>1, <1>5, PlacesPeer DEF Places
<1>6. CASE UNCHANGED vars
  BY <1>1, <1>6 DEF vars, socketVars, gcVars, kernelVars, threadVars, bounds,
                    Places, Holders, Gone, Owned, Unused, Handled, Serving, Bytes
<1> QED
  BY <1>2, <1>3, <1>4, <1>5, <1>6 DEF Next
-----------------------------------------------------------------------------
(* A sender is about to take the send lock, or it is taken; it has to post   *)
(* the write event; the worker writes, or has written all there was.         *)
Promised(s) == m_writeLock[s] = 1 \/ \E t \in App : sock[t] = s /\ pc[t] = "acquire"
Posting(s) == \E t \in App : sock[t] = s /\ pc[t] = "post"
WritesFor(s) == sock[Worker] = s /\ \/ pc[Worker] \in {"toout", "burst", "write", "written"}
                                    \/ pc[Worker] = "disconnect" /\ back[Worker] = "written"
OutReported(s) == \E e \in batch : e[1] = m_fd[s] /\ "out" \in e[2]
EndsWrite(s) == sock[Worker] = s /\ pc[Worker] = "toin"

(* Whatever makes the worker write, or is left to write, was promised.       *)
Agrees(s) ==
  /\ interest[m_fd[s]] \in {"in", "out"}
  /\ interest[m_fd[s]] = "out" => Promised(s) \/ EndsWrite(s)
  /\ OutReported(s) \/ WritesFor(s) => Promised(s)
  /\ Bytes(s) > 0 => Promised(s)
  /\ m_writeLock[s] \in {0, 1}
  /\ m_writeLock[s] = 1 => interest[m_fd[s]] = "out" \/ Posting(s)
  /\ Posting(s) => m_writeLock[s] = 1
  /\ EndsWrite(s) => m_writeLock[s] = 0

Agreement == \A s \in Socket : m_connected[s] /\ OnlyOnFd(s) => Agrees(s)

(* A connected socket that has its descriptor for itself. *)
Alone(s) == Places /\ m_connected[s] /\ OnlyOnFd(s) /\ Agrees(s)

LEMMA AgreesKept ==
  ASSUME NEW s \in Socket, Agrees(s),
         m_fd'[s] = m_fd[s], interest'[m_fd[s]] = interest[m_fd[s]],
         m_writeLock'[s] = m_writeLock[s], Bytes(s)' > 0 => Bytes(s) > 0,
         Promised(s) => Promised(s)', Posting(s)' <=> Posting(s), EndsWrite(s)' <=> EndsWrite(s),
         OutReported(s)' \/ WritesFor(s)' => OutReported(s) \/ WritesFor(s) \/ Promised(s)
  PROVE  Agrees(s)'
BY DEF Agrees

(* Of a thread that neither was nor is now about to post a write event of s. *)
LEMMA SendersKept ==
  ASSUME NEW t \in Thread, NEW s \in Socket,
         \A u \in Thread \ {t} : pc'[u] = pc[u] /\ sock'[u] = sock[u],
         pc[t] \in {"acquire", "post"} => sock[t] # s, pc'[t] = "post" => sock'[t] # s,
         m_writeLock'[s] = m_writeLock[s]
  PROVE  (Promised(s) => Promised(s)') /\ (Posting(s)' <=> Posting(s))
<1>1. App \subseteq Thread
  BY DEF Thread
<1>2. Promised(s) => Promised(s)'
  BY <1>1 DEF Promised
<1>3. Posting(s)' <=> Posting(s)
  BY <1>1 DEF Posting
<1> QED
  BY <1>2, <1>3

LEMMA AgreesCalls ==
  ASSUME NEW s \in Socket, Alone(s), NEW t \in App, NEW r \in Socket, Send(t, r) \/ Close(t, r)
  PROVE  Agrees(s)'
<1> USE DEF socketVars, gcVars, kernelVars, bounds
<1>0. /\ Typed /\ t \in Thread /\ Worker \in Thread /\ t # Worker /\ pc[t] = "idle"
      /\ writeBuffer \in [Socket -> [at : 0..Size, a : 0..Size, b : 0..Size, two : BOOLEAN]]
  BY EpollAssumption DEF Alone, Places, Typed, TypeOK, Thread, Send, Close, At
<1>1. /\ UNCHANGED <<m_fd, m_writeLock, interest, batch>>
      /\ \A u \in Thread \ {t} : pc'[u] = pc[u] /\ sock'[u] = sock[u] /\ back'[u] = back[u]
      /\ pc'[t] \in {"idle", "acquire", "disconnect", "delete"}
  BY <1>0, EnterFacts DEF Send, Close, Stays
<1>2. /\ Promised(s) => Promised(s)'
      /\ Posting(s)' <=> Posting(s)
  BY <1>0, <1>1, SendersKept
<1>3. /\ EndsWrite(s)' <=> EndsWrite(s)
      /\ WritesFor(s)' <=> WritesFor(s)
      /\ OutReported(s)' <=> OutReported(s)
  BY <1>0, <1>1 DEF EndsWrite, WritesFor, OutReported
<1>4. CASE Bytes(s)' = Bytes(s)
  BY <1>1, <1>2, <1>3, <1>4, AgreesKept DEF Alone
<1>5. CASE Promised(s)'
  BY <1>1, <1>2, <1>3, <1>5 DEF Alone, Agrees
<1>6. Bytes(s)' = Bytes(s) \/ Promised(s)'
  <2>1. CASE Close(t, r)
    BY <2>1 DEF Close, Bytes
  <2>2. CASE Send(t, r) /\ r # s
    <3>1. writeBuffer'[s] = writeBuffer[s]
      BY <1>0, <2>2 DEF Send
    <3> QED
      BY <3>1 DEF Bytes
  <2>3. CASE Send(t, r) /\ Enter(t, s, "acquire", "idle")
    <3>1. pc'[t] = "acquire" /\ sock'[t] = s
      BY <1>0, <2>3, EnterFacts
    <3> QED
      BY <3>1 DEF Promised
  <2>4. CASE writeBuffer' = [writeBuffer EXCEPT ![s].two = UsesB(writeBuffer[s])]
    <3>1. writeBuffer'[s].a = writeBuffer[s].a /\ writeBuffer'[s].b = writeBuffer[s].b
      BY <1>0, <2>4
    <3> QED
      BY <3>1 DEF Bytes
  <2> QED
    BY <2>1, <2>2, <2>3, <2>4 DEF Send
<1> QED
  BY <1>4, <1>5, <1>6

LEMMA AgreesSender ==
  ASSUME NEW s \in Socket, Alone(s), NEW t \in App, AcquireSendLock(t) \/ BurstPush(t)
  PROVE  Agrees(s)'
<1> USE DEF socketVars, gcVars, kernelVars, bounds
<1>0. /\ Typed /\ t \in Thread /\ Worker \in Thread /\ t # Worker /\ pc[t] \in {"acquire", "post"}
      /\ m_writeLock \in [Socket -> 0..MaxUInt] /\ m_fd \in [Socket -> Fd \cup {NULL}]
  BY EpollAssumption DEF Alone, Places, Typed, TypeOK, Thread, AcquireSendLock, BurstPush, At
<1>1. sock[t] \in Socket /\ m_fd[sock[t]] \in Fd /\ m_writeMutex[sock[t]] = t
  BY <1>0, InCallFacts DEF Alone, Places, Holders
<1>2. /\ UNCHANGED <<m_fd, batch, writeBuffer>>
      /\ \A u \in Thread \ {t} : pc'[u] = pc[u] /\ sock'[u] = sock[u] /\ back'[u] = back[u]
      /\ pc'[t] \in {"idle", "post"} /\ (pc'[t] = "post" => sock'[t] = sock[t])
  BY <1>0, GoFacts DEF AcquireSendLock, BurstPush
<1>3. /\ EndsWrite(s)' <=> EndsWrite(s)
      /\ WritesFor(s)' <=> WritesFor(s)
      /\ OutReported(s)' <=> OutReported(s)
      /\ Bytes(s)' = Bytes(s)
  BY <1>0, <1>2 DEF EndsWrite, WritesFor, OutReported, Bytes
<1>4. CASE sock[t] # s
  <2>1. m_writeLock'[s] = m_writeLock[s]
    BY <1>0, <1>1, <1>4 DEF AcquireSendLock, BurstPush, TakeSendLock
  <2>2. interest'[m_fd[s]] = interest[m_fd[s]]
    <3>1. m_fd[sock[t]] # m_fd[s] /\ m_fd[s] \in Fd
      BY <1>1, <1>4 DEF Alone, OnlyOnFd, Places, Gone
    <3>2. CASE BurstPush(t)
      BY <1>0, <1>1, <3>1, <3>2, PostFacts DEF BurstPush
    <3> QED
      BY <3>2 DEF AcquireSendLock
  <2>3. /\ Promised(s) => Promised(s)'
        /\ Posting(s)' <=> Posting(s)
    BY <1>0, <1>2, <1>4, <2>1, SendersKept
  <2> QED
    BY <1>2, <1>3, <2>1, <2>2, <2>3, AgreesKept DEF Alone
<1>5. CASE sock[t] = s
  <2>1. ~EndsWrite(s)
    BY <1>0, <1>1, <1>5 DEF EndsWrite, Alone, Places, Holders, Serving
  <2>2. CASE AcquireSendLock(t) /\ m_writeLock[s] = 0
    <3>1. m_writeLock'[s] = 1 /\ pc'[t] = "post" /\ sock'[t] = s /\ interest' = interest
      BY <1>0, <1>1, <1>5, <2>2, GoFacts DEF AcquireSendLock, TakeSendLock
    <3>2. Promised(s)' /\ Posting(s)'
      BY <3>1 DEF Promised, Posting
    <3> QED
      BY <1>2, <1>3, <2>1, <3>1, <3>2 DEF Alone, Agrees
  <2>3. CASE AcquireSendLock(t) /\ m_writeLock[s] # 0
    <3>1. m_writeLock[s] = 1 /\ UNCHANGED <<m_writeLock, interest>> /\ pc'[t] = "idle" /\ pc[t] = "acquire"
      BY <1>0, <1>5, <2>3, GoFacts DEF AcquireSendLock, At, Alone, Agrees
    <3>2. Promised(s)' /\ Promised(s) /\ (Posting(s)' <=> Posting(s))
      BY <1>2, <3>1 DEF Promised, Posting, Thread
    <3> QED
      BY <1>2, <1>3, <3>1, <3>2, AgreesKept DEF Alone
  <2>4. CASE BurstPush(t)
    <3>1. m_writeLock[s] = 1 /\ m_writeLock' = m_writeLock
      BY <1>5, <2>4 DEF BurstPush, At, Alone, Agrees, Posting
    <3>2. interest'[m_fd[s]] = "out"
      <4>1. interest[m_fd[s]] # "none"
        BY DEF Alone, Agrees
      <4> QED
        BY <1>0, <1>1, <1>5, <2>4, <4>1, PostFacts DEF BurstPush
    <3>3. Promised(s)'
      BY <3>1 DEF Promised
    <3> QED
      BY <1>2, <1>3, <2>1, <3>1, <3>2, <3>3 DEF Agrees
  <2> QED
    BY <2>2, <2>3, <2>4, <1>0
<1> QED
  BY <1>4, <1>5

LEMMA AgreesClosing ==
  ASSUME NEW s \in Socket, Alone(s), NEW t \in Thread, Closing(t), m_connected'[s]
  PROVE  Agrees(s)'
<1> USE DEF ClosingPlace, GonePlace
<1>0. /\ Typed /\ Worker \in Thread /\ Worker \notin App /\ Thread = App \cup {Worker}
      /\ m_connected \in [Socket -> BOOLEAN] /\ interest \in [Fd -> {"none", "in", "out"}]
      /\ m_connected[s]
  BY EpollAssumption DEF Alone, Places, Typed, TypeOK, Thread
<1>1. /\ pc[t] \in ClosingPlace
      /\ pc[t] = "disconnect" => Disconnect(t)
      /\ UNCHANGED <<m_fd, m_writeLock, writeBuffer, batch>>
      /\ \/ m_connected' = m_connected /\ ~Disconnect(t)
         \/ Disconnect(t) /\ m_connected' = [m_connected EXCEPT ![sock[t]] = FALSE]
      /\ \/ interest' = interest
         \/ pc[t] \in {"unregister", "close"} /\ Unregister(m_fd[sock[t]])
  BY <1>0, ClosingFacts
<1>2. PICK place \in ClosingPlace \cup {back[t]} :
        /\ Go(t, place)
        /\ place \in GonePlace => pc[t] \in GonePlace \/ Disconnect(t)
  BY <1>0, ClosingFacts
<1>3. sock[t] \in Socket /\ m_fd[sock[t]] \in Fd /\ back[t] \in {"idle", "next", "written"}
  BY <1>0, <1>1, InCallFacts DEF Typed, TypeOK
<1>4. /\ pc'[t] = place
      /\ place \notin {"idle", "next"} => sock'[t] = sock[t] /\ back'[t] = back[t]
      /\ \A u \in Thread \ {t} : pc'[u] = pc[u] /\ sock'[u] = sock[u] /\ back'[u] = back[u]
  BY <1>0, <1>2, GoFacts
<1>5. /\ Promised(s) => Promised(s)'
      /\ Posting(s)' <=> Posting(s)
  BY <1>1, <1>2, <1>3, <1>4, SendersKept
<1>6. /\ EndsWrite(s)' <=> EndsWrite(s)
      /\ OutReported(s)' <=> OutReported(s)
      /\ Bytes(s)' = Bytes(s)
  BY <1>0, <1>1, <1>2, <1>3, <1>4 DEF EndsWrite, OutReported, Bytes
\* A write that has failed goes on when its socket is disconnected.
<1>7. WritesFor(s)' => WritesFor(s)
  <2> SUFFICES ASSUME t = Worker, WritesFor(s)' PROVE WritesFor(s)
    BY <1>0, <1>4 DEF WritesFor
  <2>1. back[t] = "written" /\ sock[t] = s
    BY <1>2, <1>3, <1>4 DEF WritesFor, Alone, Places, Holders
  <2>2. ~Disconnect(t)
    BY <1>0, <1>1, <2>1
  <2> QED
    BY <1>0, <1>1, <2>1, <2>2 DEF Alone, Places, Gone
<1>8. interest'[m_fd[s]] = interest[m_fd[s]]
  <2>1. CASE pc[t] \in {"unregister", "close"} /\ Unregister(m_fd[sock[t]])
    <3>1. sock[t] # s
      BY <1>0, <2>1 DEF Alone, Places, Gone
    <3>2. m_fd[sock[t]] # m_fd[s] /\ m_fd[s] \in Fd
      BY <1>3, <3>1 DEF Alone, OnlyOnFd, Places, Gone
    <3> QED
      BY <1>0, <1>3, <2>1, <3>2 DEF Unregister
  <2> QED
    BY <1>1, <2>1
<1> QED
  BY <1>1, <1>5, <1>6, <1>7, <1>8, AgreesKept DEF Alone

LEMMA AgreesPeer ==
  ASSUME NEW s \in Socket, Alone(s), Peer \/ Update
  PROVE  Agrees(s)'
<1>1. UNCHANGED <<m_fd, m_writeLock, writeBuffer, interest, pc, sock, back, batch>>
  BY DEF Peer, PeerConnects, PeerSends, PeerReads, PeerCloses, Update,
         socketVars, gcVars, kernelVars, bounds, threadVars
<1>2. Agrees(s)
  BY DEF Alone
<1> QED
  BY <1>1, <1>2, AgreesKept DEF Promised, Posting, EndsWrite, WritesFor, OutReported, Bytes

LEMMA AgreesEvents ==
  ASSUME NEW s \in Socket, Alone(s), EpollWait \/ HandleEvent
  PROVE  Agrees(s)'
<1> USE DEF socketVars, gcVars, kernelVars, bounds, threadVars
<1>0. /\ Typed /\ Worker \in Thread /\ m_fd[s] \in Fd /\ LISTEN \notin Fd /\ Agrees(s)
      /\ pc[Worker] = "next"
  BY EpollAssumption DEF Alone, Places, Thread, Gone, EpollWait, HandleEvent, At
<1>1. UNCHANGED <<m_fd, m_writeLock, writeBuffer, interest>> /\ Bytes(s)' = Bytes(s)
  BY DEF EpollWait, HandleEvent, Bytes
<1>2. ~EndsWrite(s)
  BY <1>0 DEF EndsWrite
<1>3. CASE EpollWait
  <2>1. UNCHANGED <<pc, sock, back>>
    BY <1>3 DEF EpollWait
  <2>2. OutReported(s)' => Promised(s)
    <3> SUFFICES ASSUME NEW e \in batch', e[1] = m_fd[s], "out" \in e[2]
                 PROVE  Promised(s)
      BY <1>1 DEF OutReported
    <3>1. e[2] = Reported(m_fd[s], interest[m_fd[s]])
      BY <1>0, <1>3 DEF EpollWait
    <3>2. interest[m_fd[s]] = "out"
      BY <1>0, <3>1, ReportedIs
    <3> QED
      BY <1>0, <1>2, <3>2 DEF Agrees
  <2> QED
    BY <1>0, <1>1, <2>1, <2>2, AgreesKept DEF Promised, Posting, EndsWrite, WritesFor
<1>4. CASE HandleEvent
  <2>1. PICK e \in batch :
          /\ e[1] # LISTEN /\ batch' = batch \ {e}
          /\ \/ Stays
             \/ /\ fds[e[1]] # NULL
                /\ Enter(Worker, fds[e[1]],
                         IF "hup" \in e[2] THEN "disconnect"
                         ELSE IF "in" \in e[2] THEN "read" ELSE "burst", "next")
    BY <1>4 DEF HandleEvent
  <2>2. /\ e[1] \in Fd /\ e[2] \subseteq {"in", "out", "hup"} /\ e[2] # {}
    BY <1>0, <2>1 DEF Typed, TypeOK, Events
  <2>3. /\ \A u \in Thread \ {Worker} : pc'[u] = pc[u] /\ sock'[u] = sock[u]
        /\ \/ pc'[Worker] = "next"
           \/ /\ fds[e[1]] # NULL /\ sock'[Worker] = fds[e[1]] /\ back'[Worker] = "next"
              /\ \/ pc'[Worker] \in {"disconnect", "read"}
                 \/ pc'[Worker] = "burst" /\ "out" \in e[2]
    <3>1. CASE Stays
      BY <1>0, <3>1 DEF Stays
    <3>2. CASE fds[e[1]] # NULL /\ Enter(Worker, fds[e[1]],
                         IF "hup" \in e[2] THEN "disconnect"
                         ELSE IF "in" \in e[2] THEN "read" ELSE "burst", "next")
      BY <1>0, <2>2, <3>2, EnterFacts
    <3> QED
      BY <2>1, <3>1, <3>2
  <2>4. WritesFor(s)' => OutReported(s)
    <3> SUFFICES ASSUME WritesFor(s)' PROVE OutReported(s)
      OBVIOUS
    <3>1. fds[e[1]] = s /\ fds[e[1]] # NULL /\ "out" \in e[2]
      BY <2>3 DEF WritesFor
    <3>2. m_fd[s] = e[1]
      BY <1>0, <2>2, <3>1 DEF Typed, Bound
    <3> QED
      BY <3>1, <3>2 DEF OutReported
  <2>5. OutReported(s)' => OutReported(s)
    BY <1>1, <2>1 DEF OutReported
  <2>6. /\ Promised(s) => Promised(s)'
        /\ Posting(s)' <=> Posting(s)
    BY <1>0, <1>1, <2>3, SendersKept
  <2>7. ~EndsWrite(s)'
    BY <2>3 DEF EndsWrite
  <2> QED
    BY <1>0, <1>1, <1>2, <2>4, <2>5, <2>6, <2>7, AgreesKept
<1> QED
  BY <1>3, <1>4

LEMMA AgreesReads ==
  ASSUME NEW s \in Socket, Alone(s), ReadCallback \/ ChangeToWrite \/ PostWrite
  PROVE  Agrees(s)'
<1> USE DEF socketVars, gcVars, kernelVars, bounds
<1>0. Typed /\ Worker \in Thread /\ m_fd[s] \in Fd /\ Agrees(s)
  BY DEF Alone, Places, Thread, Gone
<1>1. /\ UNCHANGED <<m_fd, m_writeLock, writeBuffer, batch>> /\ Bytes(s)' = Bytes(s)
      /\ pc[Worker] \in {"read", "changing", "toout"}
      /\ \/ UNCHANGED interest
         \/ pc[Worker] = "toout" /\ PostEvent(sock[Worker], "out")
      /\ \/ pc[Worker] = "read" /\ Go(Worker, "disconnect")
         \/ Bytes(sock[Worker]) > 0 /\ Go(Worker, "toout")
         \/ \E place \in {"changing", "next"} : Go(Worker, place)
  BY DEF ReadCallback, ChangeToWrite, PostWrite, At, Bytes
<1>2. sock[Worker] \in Socket /\ m_fd[sock[Worker]] \in Fd
  BY <1>0, <1>1, InCallFacts
<1>3. /\ \A u \in Thread \ {Worker} : pc'[u] = pc[u] /\ sock'[u] = sock[u] /\ back'[u] = back[u]
      /\ \/ pc'[Worker] = "disconnect" /\ back'[Worker] = "next"
         \/ pc'[Worker] = "toout" /\ sock'[Worker] = sock[Worker] /\ Bytes(sock[Worker]) > 0
         \/ pc'[Worker] \in {"changing", "next"}
  BY <1>0, <1>1, GoFacts DEF Alone, Places, Holders
<1>4. /\ Promised(s) => Promised(s)'
      /\ Posting(s)' <=> Posting(s)
  BY <1>0, <1>1, <1>3, SendersKept
<1>5. ~EndsWrite(s)' /\ ~EndsWrite(s) /\ (OutReported(s)' <=> OutReported(s))
  BY <1>1, <1>3 DEF EndsWrite, OutReported
<1>6. WritesFor(s)' => Promised(s)
  BY <1>0, <1>3 DEF WritesFor, Agrees
<1>7. CASE interest'[m_fd[s]] = interest[m_fd[s]]
  BY <1>0, <1>1, <1>4, <1>5, <1>6, <1>7, AgreesKept
<1>8. CASE pc[Worker] = "toout" /\ PostEvent(sock[Worker], "out") /\ sock[Worker] = s
  <2>1. Promised(s)
    BY <1>0, <1>8 DEF WritesFor, Agrees
  <2>2. interest'[m_fd[s]] = "out"
    BY <1>0, <1>2, <1>8, PostFacts DEF Agrees
  <2> QED
    BY <1>0, <1>1, <1>4, <1>5, <2>1, <2>2 DEF Agrees
<1>9. CASE PostEvent(sock[Worker], "out") /\ sock[Worker] # s
  <2>1. m_fd[sock[Worker]] # m_fd[s]
    BY <1>2, <1>9 DEF Alone, OnlyOnFd
  <2>2. interest'[m_fd[s]] = interest[m_fd[s]]
    BY <1>0, <1>2, <1>9, <2>1, PostFacts
  <2> QED
    BY <1>7, <2>2
<1> QED
  BY <1>1, <1>7, <1>8, <1>9

LEMMA AgreesWrites ==
  ASSUME NEW s \in Socket, Alone(s), BurstBegin \/ WriteCallback \/ Written \/ PostRead
  PROVE  Agrees(s)'
<1> USE DEF socketVars, gcVars, kernelVars, bounds
<1>0. /\ Typed /\ Worker \in Thread /\ Worker \notin App /\ m_fd[s] \in Fd /\ Agrees(s)
      /\ m_writeLock \in [Socket -> 0..MaxUInt]
      /\ writeBuffer \in [Socket -> [at : 0..Size, a : 0..Size, b : 0..Size, two : BOOLEAN]]
  BY EpollAssumption DEF Alone, Places, Thread, Gone, Typed, TypeOK
<1>1. UNCHANGED <<m_fd, batch>> /\ pc[Worker] \in {"burst", "write", "written", "toin"}
  BY DEF BurstBegin, WriteCallback, Written, PostRead, At
<1>2. sock[Worker] \in Socket /\ m_fd[sock[Worker]] \in Fd
  BY <1>0, <1>1, InCallFacts
<1>3. /\ \A u \in Thread \ {Worker} : pc'[u] = pc[u] /\ sock'[u] = sock[u] /\ back'[u] = back[u]
      /\ \/ BurstBegin /\ pc'[Worker] = "write" /\ sock'[Worker] = sock[Worker]
         \/ /\ WriteCallback /\ sock'[Worker] = sock[Worker]
            /\ pc'[Worker] \in {"disconnect", "written"}
         \/ Written /\ pc'[Worker] = "next" /\ m_writeLock' = m_writeLock
         \/ /\ Written /\ pc'[Worker] = "toin" /\ sock'[Worker] = sock[Worker]
            /\ Bytes(sock[Worker]) = 0 /\ m_writeLock' = DecSendLock(sock[Worker])
         \/ PostRead /\ pc'[Worker] = "next"
  <2>1. CASE BurstBegin
    BY <1>0, <2>1, GoFacts DEF BurstBegin
  <2>2. CASE WriteCallback
    <3>1. CASE Enter(Worker, sock[Worker], "disconnect", "written")
      BY <1>0, <2>2, <3>1, EnterFacts
    <3>2. CASE Go(Worker, "written")
      BY <1>0, <2>2, <3>2, GoFacts
    <3> QED
      BY <2>2, <3>1, <3>2 DEF WriteCallback
  <2>3. CASE Written
    BY <1>0, <2>3, GoFacts DEF Written
  <2>4. CASE PostRead
    BY <1>0, <2>4, GoFacts DEF PostRead
  <2> QED
    BY <2>1, <2>2, <2>3, <2>4
<1>4. ASSUME m_writeLock'[s] = m_writeLock[s]
      PROVE  /\ Promised(s) => Promised(s)'
             /\ Posting(s)' <=> Posting(s)
  BY <1>0, <1>1, <1>3, <1>4, SendersKept
<1>5. OutReported(s)' <=> OutReported(s)
  BY <1>1 DEF OutReported
<1>6. Bytes(s)' > 0 => Bytes(s) > 0
  <2>1. CASE WriteCallback
    <3> DEFINE n == writeBuffer[sock[Worker]].a
               room == conn[open[m_fd[sock[Worker]]]].room
               sent == IF n < room THEN n ELSE room
    <3>1. \/ writeBuffer' = writeBuffer
          \/ /\ open[m_fd[sock[Worker]]] # NULL
             /\ writeBuffer' = [writeBuffer EXCEPT ![sock[Worker]] = Cut(writeBuffer[sock[Worker]], sent)]
      BY <2>1 DEF WriteCallback
    <3>2. CASE writeBuffer'[s] = writeBuffer[s]
      BY <3>2 DEF Bytes
    <3>3. CASE open[m_fd[sock[Worker]]] # NULL /\ writeBuffer'[s] = Cut(writeBuffer[s], sent)
      <4>1. open[m_fd[sock[Worker]]] \in Socket
        BY <1>0, <1>2, <3>3 DEF Typed, TypeOK
      <4>2. room \in 0..KernelRoom /\ n \in 0..Size
        BY <1>0, <1>2, <4>1 DEF Typed, TypeOK
      <4>3. sent \in Nat
        BY <4>2, EpollAssumption
      <4> HIDE DEF sent, n, room
      <4>4. CASE sent < writeBuffer[s].a
        <5>1. writeBuffer[s].a > 0 /\ writeBuffer[s].b \in Nat /\ writeBuffer[s].a \in Nat
          BY <1>0, <4>3, <4>4, EpollAssumption
        <5> QED
          BY <5>1 DEF Bytes
      <4>5. CASE ~(sent < writeBuffer[s].a)
        <5>1. writeBuffer'[s].a = writeBuffer[s].b /\ writeBuffer'[s].b = 0
          BY <3>3, <4>5 DEF Cut, EmptyBuffer
        <5>2. writeBuffer[s].b \in Nat /\ writeBuffer[s].a \in Nat
          BY <1>0, EpollAssumption
        <5> QED
          BY <5>1, <5>2 DEF Bytes
      <4> QED
        BY <4>4, <4>5
    <3> HIDE DEF sent
    <3> QED
      BY <1>0, <1>2, <3>1, <3>2, <3>3
  <2>2. CASE BurstBegin \/ Written \/ PostRead
    BY <2>2 DEF BurstBegin, Written, PostRead, Bytes
  <2> QED
    BY <2>1, <2>2
<1>7. CASE sock[Worker] # s
  <2>1. m_writeLock'[s] = m_writeLock[s]
    BY <1>0, <1>2, <1>7 DEF BurstBegin, WriteCallback, Written, PostRead, DecSendLock
  <2>2. interest'[m_fd[s]] = interest[m_fd[s]]
    <3>1. m_fd[sock[Worker]] # m_fd[s]
      BY <1>2, <1>7 DEF Alone, OnlyOnFd
    <3>2. CASE PostRead
      BY <1>0, <1>2, <3>1, <3>2, PostFacts DEF PostRead
    <3> QED
      BY <3>2 DEF BurstBegin, WriteCallback, Written
  <2>3. ~EndsWrite(s)' /\ ~EndsWrite(s) /\ ~WritesFor(s)'
    BY <1>3, <1>7 DEF EndsWrite, WritesFor
  <2> QED
    BY <1>0, <1>1, <1>4, <1>5, <1>6, <2>1, <2>2, <2>3, AgreesKept
<1>8. CASE sock[Worker] = s /\ (BurstBegin \/ WriteCallback \/ (Written /\ pc'[Worker] = "next"))
  <2>1. m_writeLock' = m_writeLock /\ interest' = interest
    BY <1>3, <1>8 DEF BurstBegin, WriteCallback, Written, PostRead, At
  <2>2. WritesFor(s) /\ ~EndsWrite(s)
    BY <1>8 DEF WritesFor, EndsWrite, BurstBegin, WriteCallback, Written, At
  <2>3. ~EndsWrite(s)'
    BY <1>3, <1>8 DEF EndsWrite, BurstBegin, WriteCallback, Written, At
  <2> QED
    BY <1>0, <1>1, <1>4, <1>5, <1>6, <2>1, <2>2, <2>3, AgreesKept
\* No other thread is between the send lock and its event.
<1>9. CASE sock[Worker] = s /\ ((Written /\ pc'[Worker] = "toin") \/ PostRead)
  <2>1. Serving
    BY <1>9 DEF Serving, Written, PostRead, At
  <2>2. m_writeMutex[s] = Worker /\ \A e \in batch : e[1] # m_fd[s]
    BY <1>9, <2>1 DEF Alone, Places, Holders, Handled
  <2>3. \A u \in App : pc[u] \in {"acquire", "post"} => sock[u] # s
    BY <1>0, <2>2 DEF Alone, Places, Holders
  <2>4. \A u \in App : pc'[u] = pc[u] /\ sock'[u] = sock[u]
    BY <1>0, <1>3 DEF Thread
  <2>5. ~Posting(s)' /\ ~OutReported(s)'
    BY <1>1, <2>2, <2>3, <2>4 DEF Posting, OutReported
  <2>6. ~WritesFor(s)'
    BY <1>3, <1>9 DEF WritesFor, BurstBegin, WriteCallback, Written, PostRead, At
  <2>7. CASE Written /\ pc'[Worker] = "toin"
    <3>1. m_writeLock[s] = 1
      BY <1>0, <1>9, <2>3, <2>7 DEF Agrees, WritesFor, Promised, Written, At
    <3>2. m_writeLock'[s] = (1 + MaxUInt) % (MaxUInt + 1)
      BY <1>0, <1>3, <1>9, <2>7, <3>1 DEF DecSendLock, Written, PostRead, At
    <3>3. m_writeLock'[s] = 0
      BY <3>2, EpollAssumption
    <3>4. EndsWrite(s)' /\ interest' = interest /\ writeBuffer' = writeBuffer
      BY <1>3, <1>9, <2>7 DEF EndsWrite, Written, WriteCallback, At
    <3>5. ~(Bytes(s)' > 0)
      BY <1>3, <1>9, <2>7, <3>4 DEF Bytes, Written, PostRead, At
    <3> QED
      BY <1>0, <1>1, <2>5, <2>6, <3>3, <3>4, <3>5 DEF Agrees
  <2>8. CASE PostRead
    <3>1. m_writeLock'[s] = 0 /\ ~EndsWrite(s)' /\ m_writeLock' = m_writeLock
      BY <1>0, <1>3, <1>9, <2>8 DEF Agrees, EndsWrite, PostRead, WriteCallback, Written, BurstBegin, At
    <3>2. interest'[m_fd[s]] = "in"
      BY <1>0, <1>2, <1>9, <2>8, PostFacts DEF PostRead, Agrees
    <3>3. Bytes(s)' > 0 => Promised(s)'
      BY <1>0, <1>4, <1>6, <3>1 DEF Agrees
    <3> QED
      BY <1>1, <2>5, <2>6, <3>1, <3>2, <3>3 DEF Agrees
  <2> QED
    BY <1>9, <2>7, <2>8
<1> QED
  BY <1>3, <1>7, <1>8, <1>9

(* A socket that is accepted on a number no other socket has starts afresh.  *)
LEMMA AgreesAccept ==
  ASSUME Places, Agreement, NEW s \in Socket, OnAccept, m_connected'[s], OnlyOnFd(s)'
  PROVE  Agrees(s)'
<1> USE DEF socketVars, gcVars, kernelVars, bounds
<1>0. /\ Typed /\ Worker \in Thread /\ pc[Worker] = "next" /\ NULL \notin Fd /\ NULL \notin Socket
      /\ m_fd \in [Socket -> Fd \cup {NULL}] /\ m_connected \in [Socket -> BOOLEAN]
      /\ interest \in [Fd -> {"none", "in", "out"}] /\ fds \in [Fd -> Socket \cup {NULL}]
  BY EpollAssumption DEF Places, Thread, Typed, TypeOK, OnAccept, At
<1>1. /\ UNCHANGED <<m_writeLock, writeBuffer>> /\ Bytes(s)' = Bytes(s) /\ batch' \subseteq batch
  BY DEF OnAccept, Bytes
<1>2. /\ \A u \in Thread \ {Worker} : pc'[u] = pc[u] /\ sock'[u] = sock[u] /\ back'[u] = back[u]
      /\ \/ pc'[Worker] = "next"
         \/ pc'[Worker] = "delete" /\ back'[Worker] = "next"
  BY <1>0, EnterFacts DEF OnAccept, AddSocket, Refused, Stays
<1>3. /\ Promised(s) => Promised(s)'
      /\ Posting(s)' <=> Posting(s)
  BY <1>0, <1>1, <1>2, SendersKept
<1>4. ~EndsWrite(s)' /\ ~EndsWrite(s) /\ ~WritesFor(s)'
  BY <1>0, <1>2 DEF EndsWrite, WritesFor
<1>5. CASE UNCHANGED <<m_fd, m_connected, interest>>
  <2>1. Agrees(s)
    BY <1>5 DEF Agreement, OnlyOnFd
  <2>2. OutReported(s)' => OutReported(s)
    BY <1>1, <1>5 DEF OutReported
  <2> QED
    BY <1>1, <1>3, <1>4, <1>5, <2>1, <2>2, AgreesKept
<1>6. ASSUME NEW r \in Socket, NEW f \in Fd, NextSocket(r),
             m_fd' = [m_fd EXCEPT ![r] = f], m_connected' = [m_connected EXCEPT ![r] = TRUE],
             AddSocket(r, f)
      PROVE  Agrees(s)'
  <2>1. m_fd[r] = NULL /\ m_fd'[r] = f /\ \A q \in Socket \ {r} : m_fd'[q] = m_fd[q]
    BY <1>0, <1>6 DEF NextSocket
  <2>2. CASE s # r
    <3>1. m_connected[s] /\ m_fd'[s] = m_fd[s] /\ m_fd[s] \in Fd /\ m_fd[s] # f
      BY <1>0, <1>6, <2>1, <2>2 DEF OnlyOnFd, Places, Gone
    <3>2. OnlyOnFd(s)
      BY <1>0, <2>1, <3>1 DEF OnlyOnFd
    <3>3. Agrees(s)
      BY <3>1, <3>2 DEF Agreement
    <3>4. interest'[m_fd[s]] = interest[m_fd[s]]
      BY <1>0, <1>6, <3>1 DEF AddSocket, Refused
    <3>5. OutReported(s)' => OutReported(s)
      BY <1>1, <3>1 DEF OutReported
    <3> QED
      BY <1>1, <1>3, <1>4, <3>1, <3>3, <3>4, <3>5, AgreesKept
  <2>3. CASE s = r
    <3>1. \A q \in Socket : m_fd[q] # f
      BY <1>0, <2>1, <2>3 DEF OnlyOnFd
    <3>2. fds[f] = NULL /\ \A e \in batch : e[1] # f
      BY <1>0, <3>1 DEF Places, Owned, Typed, Bound
    <3>3. interest'[m_fd'[s]] = "in"
      BY <1>0, <1>6, <2>1, <2>3, <3>2 DEF AddSocket, Refused
    <3>4. m_writeLock'[s] = 0 /\ ~(Bytes(s)' > 0)
      BY <1>1, <2>1, <2>3 DEF Places, Unused
    <3>5. ~Posting(s)
      <4> SUFFICES ASSUME NEW u \in App, sock[u] = s, pc[u] = "post" PROVE FALSE
        BY DEF Posting
      <4> QED
        BY <1>0, <2>1, <2>3, InCallFacts DEF Thread
    <3>6. ~OutReported(s)'
      BY <1>1, <2>1, <2>3, <3>2 DEF OutReported
    <3> QED
      BY <1>3, <1>4, <3>3, <3>4, <3>5, <3>6 DEF Agrees
  <2> QED
    BY <2>2, <2>3
<1> QED
  BY <1>5, <1>6 DEF OnAccept
-----------------------------------------------------------------------------
LEMMA AgreementNext == Places /\ Agreement /\ [Next]_vars => Agreement'
<1> SUFFICES ASSUME Places, Agreement, [Next]_vars, NEW s \in Socket,
                    m_connected'[s], OnlyOnFd(s)'
             PROVE  Agrees(s)'
  BY DEF Agreement
<1>1. CASE OnAccept
  BY <1>1, AgreesAccept
\* Every other step gives no socket a number.
<1>2. ASSUME UNCHANGED m_fd, m_connected[s] PROVE Alone(s)
  BY <1>2 DEF Alone, Agreement, OnlyOnFd
<1>3. m_connected \in [Socket -> BOOLEAN]
  BY DEF Places, Typed, TypeOK
<1>4. ASSUME NEW t \in Thread, Closing(t) PROVE Agrees(s)'
  <2>1. sock[t] \in Socket
    BY <1>4, ClosingFacts, InCallFacts DEF Places, ClosingPlace
  <2>2. UNCHANGED m_fd /\ m_connected[s]
    BY <1>3, <1>4, <2>1, ClosingFacts DEF Places
  <2> QED
    BY <1>2, <1>4, <2>2, AgreesClosing
<1> USE DEF socketVars, gcVars, kernelVars, bounds, threadVars
<1>5. CASE EpollWait \/ HandleEvent
  <2>1. UNCHANGED <<m_fd, m_connected>>
    BY <1>5 DEF EpollWait, HandleEvent
  <2> QED
    BY <1>2, <1>5, <2>1, AgreesEvents
<1>6. CASE ReadCallback \/ ChangeToWrite \/ PostWrite
  <2>1. UNCHANGED <<m_fd, m_connected>>
    BY <1>6 DEF ReadCallback, ChangeToWrite, PostWrite
  <2> QED
    BY <1>2, <1>6, <2>1, AgreesReads
<1>7. CASE BurstBegin \/ WriteCallback \/ Written \/ PostRead
  <2>1. UNCHANGED <<m_fd, m_connected>>
    BY <1>7 DEF BurstBegin, WriteCallback, Written, PostRead
  <2> QED
    BY <1>2, <1>7, <2>1, AgreesWrites
<1>8. ASSUME NEW t \in App, AcquireSendLock(t) \/ BurstPush(t) PROVE Agrees(s)'
  <2>1. UNCHANGED <<m_fd, m_connected>>
    BY <1>8 DEF AcquireSendLock, BurstPush
  <2> QED
    BY <1>2, <1>8, <2>1, AgreesSender
<1>9. ASSUME NEW t \in App, NEW r \in Socket, Send(t, r) \/ Close(t, r) PROVE Agrees(s)'
  <2>1. UNCHANGED <<m_fd, m_connected>>
    BY <1>9 DEF Send, Close
  <2> QED
    BY <1>2, <1>9, <2>1, AgreesCalls
<1>10. CASE Peer \/ Update
  <2>1. UNCHANGED <<m_fd, m_connected>>
    BY <1>10 DEF Peer, PeerConnects, PeerSends, PeerReads, PeerCloses, Update
  <2> QED
    BY <1>2, <1>10, <2>1, AgreesPeer
<1>11. CASE UNCHANGED vars
  <2>1. UNCHANGED <<m_fd, m_connected, m_writeLock, writeBuffer, interest, pc, sock, back, batch>>
    BY <1>11 DEF vars
  <2>2. Agrees(s)
    BY <1>2, <2>1 DEF Alone
  <2> QED
    BY <2>1, <2>2, AgreesKept DEF Promised, Posting, EndsWrite, WritesFor, OutReported, Bytes
<1>12. CASE WorkerStep
  BY <1>1, <1>4, <1>5, <1>6, <1>7, <1>12 DEF WorkerStep, Thread
<1>13. ASSUME NEW t \in App, AppStep(t) PROVE Agrees(s)'
  BY <1>4, <1>8, <1>13 DEF AppStep, Thread
<1>14. CASE Calls
  BY <1>9, <1>14 DEF Calls
<1> QED
  BY <1>10, <1>11, <1>12, <1>13, <1>14 DEF Next

LEMMA PlacesHold == Spec => [](Places /\ Agreement)
<1>1. Init => Agreement
  BY DEF Init, Agreement
<1>2. Places /\ Agreement /\ [Next]_vars => (Places /\ Agreement)'
  BY PlacesNext, AgreementNext
<1> QED
  BY <1>1, <1>2, PlacesInit, PTL DEF Spec

(* What Send puts into the write buffer of a connected socket is on its way  *)
(* out: a sender is about to try the send lock of BurstPush, or it is held   *)
(* once and the write event is posted or about to be.                        *)
THEOREM WritesPosted == Spec => []WritesArePosted
<1>1. ASSUME Places, Agreement, NEW s \in Socket, m_connected[s], OnlyOnFd(s), Bytes(s) > 0
      PROVE  \/ \E t \in App : sock[t] = s /\ pc[t] = "acquire"
             \/ /\ m_writeLock[s] = 1
                /\ \/ interest[m_fd[s]] = "out"
                   \/ \E t \in App : sock[t] = s /\ pc[t] = "post"
  BY <1>1 DEF Agreement, Agrees, Promised, Posting
<1>2. Places /\ Agreement => WritesArePosted
  BY <1>1 DEF WritesArePosted
<1> QED
  BY <1>2, PlacesHold, PTL

(* Whenever nobody holds the write mutex of a connected socket, its send lock *)
(* is taken exactly when it waits for a write event, for any number of       *)
(* senders and whatever the worker saw without the mutex.                    *)
THEOREM LockTellsEvent == Spec => []LockMatchesEvent
<1>1. ASSUME Places, Agreement, NEW s \in Socket, m_connected[s], OnlyOnFd(s),
             m_writeMutex[s] = NULL
      PROVE  m_writeLock[s] = IF interest[m_fd[s]] = "out" THEN 1 ELSE 0
  <2>1. \A t \in App : pc[t] \in {"acquire", "post"} => sock[t] # s
    BY <1>1, EpollAssumption DEF Places, Holders, Thread
  <2>2. ~EndsWrite(s)
    BY <1>1, EpollAssumption DEF Places, Holders, Serving, EndsWrite, Thread
  <2>3. Agrees(s)
    BY <1>1 DEF Agreement
  <2> QED
    BY <2>1, <2>2, <2>3 DEF Agrees, Promised, Posting
<1>2. Places /\ Agreement => LockMatchesEvent
  BY <1>1 DEF LockMatchesEvent
<1> QED
  BY <1>2, PlacesHold, PTL
-----------------------------------------------------------------------------
(* Descriptors: only OnAccept opens one and gives it to a socket.            *)
Reads == {"read", "burst", "write"}

LEMMA OnlyAcceptOpens ==
  ASSUME Places, [Next]_vars, ~OnAccept
  PROVE  /\ m_fd' = m_fd
         /\ \A f \in Fd : fds'[f] \in {fds[f], NULL} /\ open'[f] \in {open[f], NULL}
         /\ \A s \in Socket : m_deleted[s] => m_deleted'[s]
<1> USE DEF socketVars, gcVars, kernelVars, bounds, threadVars
<1>0. /\ fds \in [Fd -> Socket \cup {NULL}] /\ open \in [Fd -> Socket \cup {NULL}]
      /\ m_deleted \in [Socket -> BOOLEAN]
  BY DEF Places, Typed, TypeOK
<1>1. ASSUME NEW t \in Thread, Closing(t)
      PROVE  /\ m_fd' = m_fd
             /\ \A f \in Fd : fds'[f] \in {fds[f], NULL} /\ open'[f] \in {open[f], NULL}
             /\ \A s \in Socket : m_deleted[s] => m_deleted'[s]
  <2>1. CASE Disconnect(t) \/ RemoveSocket(t) \/ UnregisterSocket(t) \/ ShutdownSocket(t)
    BY <2>1 DEF Disconnect, RemoveSocket, UnregisterSocket, ShutdownSocket
  <2>2. CASE UnbindSocket(t)
    BY <1>0, <2>2 DEF UnbindSocket, Unbound
  <2>3. CASE CloseSocket(t)
    BY <1>0, <2>3 DEF CloseSocket
  <2>4. CASE MarkDeleted(t)
    BY <1>0, <2>4 DEF MarkDeleted
  <2>5. CASE Disconnected(t) \/ Delete(t) \/ DropConnection(t) \/ QueueSocket(t)
    BY <2>5 DEF Disconnected, Delete, DropConnection, QueueSocket
  <2> QED
    BY <1>1, <2>1, <2>2, <2>3, <2>4, <2>5 DEF Closing
<1>2. CASE EpollWait \/ HandleEvent \/ ReadCallback \/ ChangeToWrite \/ PostWrite
           \/ BurstBegin \/ WriteCallback \/ Written \/ PostRead
  BY <1>2 DEF EpollWait, HandleEvent, ReadCallback, ChangeToWrite, PostWrite,
              BurstBegin, WriteCallback, Written, PostRead
<1>3. ASSUME NEW t \in App, AcquireSendLock(t) \/ BurstPush(t) \/ Calls
      PROVE  UNCHANGED <<m_fd, fds, open, m_deleted>>
  BY <1>3 DEF AcquireSendLock, BurstPush, Calls, Send, Close
<1>4. CASE Peer \/ Update \/ UNCHANGED vars
  BY <1>4 DEF Peer, PeerConnects, PeerSends, PeerReads, PeerCloses, Update, vars
<1> QED
  BY <1>1, <1>2, <1>3, <1>4 DEF Next, WorkerStep, AppStep, Calls, Thread

(* How the worker comes to a descriptor, and what it does to a refused socket. *)
LEMMA WorkerGoes ==
  ASSUME Places, [Next]_vars, ~OnAccept
  PROVE  /\ pc'[Worker] \in Reads =>
              \/ pc[Worker] \in Reads /\ sock'[Worker] = sock[Worker]
              \/ /\ pc[Worker] = "next"
                 /\ \E f \in Fd : fds[f] # NULL /\ sock'[Worker] = fds[f]
         /\ pc[Worker] \in {"delete", "mark"} =>
              \/ pc'[Worker] \in {"delete", "mark"} /\ sock'[Worker] = sock[Worker]
              \/ m_deleted'[sock[Worker]]
<1> USE DEF socketVars, gcVars, kernelVars, bounds, threadVars, Reads
<1>0. /\ Typed /\ Worker \in Thread /\ Worker \notin App /\ App \subseteq Thread /\ LISTEN \notin Fd
      /\ m_deleted \in [Socket -> BOOLEAN] /\ back[Worker] \in {"idle", "next", "written"}
  BY EpollAssumption DEF Places, Thread, Typed, TypeOK
<1>1. CASE pc'[Worker] = pc[Worker] /\ sock'[Worker] = sock[Worker]
  BY <1>1
<1>2. CASE Closing(Worker)
  <2>1. pc[Worker] \in ClosingPlace /\ \E place \in ClosingPlace \cup {back[Worker]} : Go(Worker, place)
    BY <1>0, <1>2, ClosingFacts
  <2>2. pc'[Worker] \notin Reads
    BY <1>0, <2>1, GoFacts DEF ClosingPlace
  <2>3. sock[Worker] \in Socket
    BY <1>0, <2>1, InCallFacts DEF ClosingPlace
  <2>4. CASE Delete(Worker)
    BY <1>0, <2>2, <2>4, GoFacts DEF Delete
  <2>5. CASE MarkDeleted(Worker)
    BY <1>0, <2>2, <2>3, <2>5 DEF MarkDeleted
  <2>6. pc[Worker] \in {"delete", "mark"} => Delete(Worker) \/ MarkDeleted(Worker)
    BY <1>2 DEF Closing, Disconnect, RemoveSocket, UnbindSocket, UnregisterSocket, ShutdownSocket,
                CloseSocket, Disconnected, DropConnection, QueueSocket, At
  <2> QED
    BY <2>2, <2>4, <2>5, <2>6
<1>3. CASE HandleEvent
  <2>1. PICK e \in batch :
          /\ e[1] # LISTEN
          /\ Stays \/ (fds[e[1]] # NULL /\ \E place : Enter(Worker, fds[e[1]], place, "next"))
    BY <1>3 DEF HandleEvent
  <2>2. pc[Worker] = "next" /\ e[1] \in Fd
    BY <1>0, <1>3, <2>1 DEF HandleEvent, At, Typed, TypeOK
  <2> QED
    BY <1>0, <2>1, <2>2, EnterFacts DEF Stays
<1>4. CASE ReadCallback \/ ChangeToWrite \/ PostWrite
  BY <1>0, <1>4, GoFacts DEF ReadCallback, ChangeToWrite, PostWrite, At
<1>5. CASE BurstBegin \/ Written \/ PostRead
  BY <1>0, <1>5, GoFacts DEF BurstBegin, Written, PostRead, At
<1>6. CASE WriteCallback
  BY <1>0, <1>6, GoFacts, EnterFacts DEF WriteCallback, At
<1>7. ASSUME NEW t \in App, AppStep(t) PROVE pc'[Worker] = pc[Worker] /\ sock'[Worker] = sock[Worker]
  <2>1. CASE Closing(t)
    BY <1>0, <2>1, ClosingFacts, GoFacts
  <2>2. CASE AcquireSendLock(t) \/ BurstPush(t)
    BY <1>0, <2>2, GoFacts DEF AcquireSendLock, BurstPush
  <2> QED
    BY <1>7, <2>1, <2>2 DEF AppStep
<1>8. CASE Calls
  BY <1>0, <1>1, <1>8, EnterFacts DEF Calls, Send, Close, Stays
<1>9. CASE EpollWait \/ Peer \/ Update \/ UNCHANGED vars
  BY <1>1, <1>9 DEF EpollWait, Peer, PeerConnects, PeerSends, PeerReads, PeerCloses, Update, vars
<1> QED
  BY <1>1, <1>2, <1>3, <1>4, <1>5, <1>6, <1>7, <1>8, <1>9 DEF Next, WorkerStep

(* A socket that was opened under the number of another is deleted, or the   *)
(* worker is about to do it: it handles no event before.                     *)
RefusedIsDeleted ==
  \A f \in Fd : fds[f] # NULL /\ open[f] \notin {fds[f], NULL} =>
    \/ m_deleted[open[f]]
    \/ sock[Worker] = open[f] /\ pc[Worker] \in {"delete", "mark"}

LEMMA OwnNext ==
  Places /\ RefusedIsDeleted /\ WorkerOnOwn /\ [Next]_vars => (RefusedIsDeleted /\ WorkerOnOwn)'
<1> SUFFICES ASSUME Places, RefusedIsDeleted, WorkerOnOwn, [Next]_vars
             PROVE  (RefusedIsDeleted /\ WorkerOnOwn)'
  OBVIOUS
<1> USE DEF Reads
<1>0. /\ Typed /\ Worker \in Thread /\ NULL \notin Fd /\ NULL \notin Socket
      /\ fds \in [Fd -> Socket \cup {NULL}] /\ open \in [Fd -> Socket \cup {NULL}]
  BY EpollAssumption DEF Places, Thread, Typed, TypeOK
<1>1. CASE OnAccept
  <2>1. pc[Worker] = "next" /\ m_deleted' = m_deleted
    BY <1>1 DEF OnAccept, At, socketVars
  <2>2. pc'[Worker] \notin Reads
    BY <1>0, <1>1, <2>1, EnterFacts DEF OnAccept, AddSocket, Refused, Stays
  <2>3. \/ UNCHANGED <<fds, open>>
        \/ \E s \in Socket, f \in Fd :
             /\ open' = [open EXCEPT ![f] = s]
             /\ \/ fds' = [fds EXCEPT ![f] = s]
                \/ fds' = fds /\ pc'[Worker] = "delete" /\ sock'[Worker] = s
    BY <1>0, <1>1, EnterFacts DEF OnAccept, AddSocket, Refused
  <2>4. RefusedIsDeleted'
    BY <1>0, <2>1, <2>3 DEF RefusedIsDeleted
  <2> QED
    BY <2>2, <2>4 DEF WorkerOnOwn
<1>2. CASE ~OnAccept
  <2>1. /\ m_fd' = m_fd
        /\ \A f \in Fd : fds'[f] \in {fds[f], NULL} /\ open'[f] \in {open[f], NULL}
        /\ \A s \in Socket : m_deleted[s] => m_deleted'[s]
    BY <1>2, OnlyAcceptOpens
  <2>2. pc[Worker] \in {"delete", "mark"} =>
              \/ pc'[Worker] \in {"delete", "mark"} /\ sock'[Worker] = sock[Worker]
              \/ m_deleted'[sock[Worker]]
    BY <1>2, WorkerGoes
  <2>3. RefusedIsDeleted'
    BY <1>0, <2>1, <2>2 DEF RefusedIsDeleted
  <2>4. ASSUME pc'[Worker] \in Reads
        PROVE  \/ open'[m_fd'[sock'[Worker]]] \in {sock'[Worker], NULL}
               \/ m_deleted'[open'[m_fd'[sock'[Worker]]]]
    <3>1. CASE pc[Worker] \in Reads /\ sock'[Worker] = sock[Worker]
      <4>1. m_fd[sock[Worker]] \in Fd
        BY <1>0, <3>1, InCallFacts
      <4> QED
        BY <1>0, <2>1, <3>1, <4>1 DEF WorkerOnOwn
    <3>2. ASSUME pc[Worker] = "next", NEW f \in Fd, fds[f] # NULL, sock'[Worker] = fds[f]
          PROVE  \/ open'[m_fd'[sock'[Worker]]] \in {sock'[Worker], NULL}
                 \/ m_deleted'[open'[m_fd'[sock'[Worker]]]]
      <4>1. m_fd[fds[f]] = f
        BY <1>0, <3>2 DEF Typed, Bound
      <4> QED
        BY <1>0, <2>1, <3>2, <4>1 DEF RefusedIsDeleted
    <3> QED
      BY <1>2, <2>4, <3>1, <3>2, WorkerGoes
  <2> QED
    BY <2>3, <2>4 DEF WorkerOnOwn
<1> QED
  BY <1>1, <1>2

(* While the worker receives or sends for a socket, the number it uses is    *)
(* that socket's, is closed, or belongs to one that the manager has refused. *)
THEOREM OwnDescriptor == Spec => []WorkerOnOwn
<1>1. Init => RefusedIsDeleted /\ WorkerOnOwn
  BY EpollAssumption DEF Init, RefusedIsDeleted, WorkerOnOwn, Thread
<1>2. Places /\ RefusedIsDeleted /\ WorkerOnOwn /\ [Next]_vars => (RefusedIsDeleted /\ WorkerOnOwn)'
  BY OwnNext
<1> QED
  BY <1>1, <1>2, PlacesHold, PTL DEF Spec
-----------------------------------------------------------------------------
(* Whoever has disconnected a socket is on the way to unbind and close it.   *)
Closers(s, places) == \E t \in Thread : sock[t] = s /\ pc[t] \in places
Unbinding == {"removesocket", "unbind"}
Shutting == {"removesocket", "unbind", "unregister", "shutdown", "close"}

Cleared ==
  /\ \A f \in Fd : open[f] # NULL => m_fd[open[f]] = f
  /\ \A s \in deletionQueue \cup freed : ~m_connected[s] /\ m_fd[s] # NULL
  /\ \A t \in Thread : pc[t] = "queue" => ~m_connected[sock[t]]
  /\ \A f \in Fd, s \in Socket : fds[f] = s /\ ~m_connected[s] => Closers(s, Unbinding)
  /\ \A f \in Fd, s \in Socket : open[f] = s /\ ~m_connected[s] => Closers(s, Shutting)

LEMMA ClearedClosing ==
  ASSUME Places, Cleared, NEW t \in Thread, Closing(t)
  PROVE  Cleared'
<1> USE DEF socketVars, gcVars, kernelVars, bounds, ClosingPlace
<1>0. /\ Typed /\ NULL \notin Fd /\ NULL \notin Socket
      /\ fds \in [Fd -> Socket \cup {NULL}] /\ open \in [Fd -> Socket \cup {NULL}]
      /\ m_connected \in [Socket -> BOOLEAN] /\ back[t] \in {"idle", "next", "written"}
  BY EpollAssumption DEF Places, Typed, TypeOK
<1>1. pc[t] \in ClosingPlace /\ m_fd' = m_fd
  BY <1>0, ClosingFacts
<1>2. sock[t] \in Socket /\ m_fd[sock[t]] \in Fd
  BY <1>0, <1>1, InCallFacts
<1>3. PICK place \in ClosingPlace \cup {back[t]} : Go(t, place)
  BY <1>0, ClosingFacts
<1>4. /\ pc'[t] = place
      /\ place \notin {"idle", "next"} => sock'[t] = sock[t]
      /\ \A u \in Thread \ {t} : pc'[u] = pc[u] /\ sock'[u] = sock[u]
  BY <1>0, <1>3, GoFacts
<1>5. \A s \in Socket : m_connected'[s] <=> m_connected[s] /\ ~(Disconnect(t) /\ s = sock[t])
  BY <1>0, <1>2, ClosingFacts
<1>6. \A f \in Fd : fds'[f] \in {fds[f], NULL} /\ open'[f] \in {open[f], NULL}
  <2>1. ~OnAccept
    BY <1>0, ClosingFacts DEF OnAccept
  <2>2. Next
    BY DEF Next, AppStep, WorkerStep, Thread
  <2> QED
    BY <2>1, <2>2, OnlyAcceptOpens
<1>7. \A s \in deletionQueue' \cup freed' : s \in deletionQueue \cup freed \/ (pc[t] = "queue" /\ s = sock[t])
  BY <1>1 DEF Closing, Disconnect, RemoveSocket, UnbindSocket, UnregisterSocket, ShutdownSocket,
              CloseSocket, Disconnected, Delete, MarkDeleted, DropConnection, QueueSocket, At
<1>8. \A s \in deletionQueue' \cup freed' : ~m_connected'[s] /\ m_fd'[s] # NULL
  BY <1>0, <1>1, <1>2, <1>5, <1>7 DEF Cleared, Typed, TypeOK
<1>9. place = "queue" => ~m_connected[sock[t]]
  <2>1. CASE DropConnection(t)
    BY <1>0, <1>4, <2>1, GoFacts DEF DropConnection
  <2>2. CASE Disconnected(t)
    BY <2>2 DEF Disconnected, At, Places, Gone
  <2>3. place = "queue" => DropConnection(t) \/ Disconnected(t)
    BY <1>0, <1>4, GoFacts DEF Closing, Disconnect, RemoveSocket, UnbindSocket, UnregisterSocket,
              ShutdownSocket, CloseSocket, Delete, MarkDeleted, QueueSocket
  <2> QED
    BY <2>1, <2>2, <2>3
<1>10. \A u \in Thread : pc'[u] = "queue" => ~m_connected'[sock'[u]]
  <2> SUFFICES ASSUME NEW u \in Thread, pc'[u] = "queue" PROVE ~m_connected'[sock'[u]]
    OBVIOUS
  <2>1. CASE u = t
    BY <1>2, <1>4, <1>5, <1>9, <2>1
  <2>2. CASE u # t
    <3>1. sock[u] \in Socket
      BY <1>0, <1>4, <2>2, InCallFacts
    <3> QED
      BY <1>4, <1>5, <2>2, <3>1 DEF Cleared
  <2> QED
    BY <2>1, <2>2
<1>11. ASSUME NEW s \in Socket, NEW places, Closers(s, places),
              sock[t] = s /\ pc[t] \in places => pc'[t] \in places /\ sock'[t] = s
       PROVE  Closers(s, places)'
  BY <1>4, <1>11 DEF Closers
<1>12. Disconnect(t) => pc'[t] = "removesocket" /\ sock'[t] = sock[t]
  BY <1>0, GoFacts DEF Disconnect
<1>13. ASSUME NEW f \in Fd, NEW s \in Socket, fds'[f] = s, ~m_connected'[s]
       PROVE  Closers(s, Unbinding)'
  <2>1. fds[f] = s /\ m_fd[s] = f
    BY <1>0, <1>6, <1>13 DEF Typed, Bound
  <2>2. CASE Disconnect(t) /\ sock[t] = s
    BY <1>12, <2>1, <2>2 DEF Closers, Unbinding
  <2>3. CASE ~m_connected[s]
    <3>1. sock[t] = s /\ pc[t] = "removesocket" => pc'[t] = "unbind" /\ sock'[t] = sock[t]
      <4> SUFFICES ASSUME sock[t] = s, pc[t] = "removesocket"
                   PROVE  pc'[t] = "unbind" /\ sock'[t] = sock[t]
        OBVIOUS
      <4>1. RemoveSocket(t)
        BY DEF Closing, Disconnect, UnbindSocket, UnregisterSocket, ShutdownSocket, CloseSocket,
               Disconnected, Delete, MarkDeleted, DropConnection, QueueSocket, At
      <4>2. Go(t, "unbind")
        BY <2>1, <4>1 DEF RemoveSocket
      <4> QED
        BY <1>0, <4>2, GoFacts
    <3>2. ~(sock[t] = s /\ pc[t] = "unbind")
      <4> SUFFICES ASSUME sock[t] = s, pc[t] = "unbind" PROVE FALSE
        OBVIOUS
      <4>1. UnbindSocket(t)
        BY DEF Closing, Disconnect, RemoveSocket, UnregisterSocket, ShutdownSocket, CloseSocket,
               Disconnected, Delete, MarkDeleted, DropConnection, QueueSocket, At
      <4>2. fds'[f] = NULL
        BY <1>0, <2>1, <4>1 DEF UnbindSocket, Unbound
      <4> QED
        BY <1>0, <1>13, <4>2
    <3>3. Closers(s, Unbinding)
      BY <1>0, <2>1, <2>3 DEF Cleared
    <3> QED
      BY <2>1, <3>1, <3>2, <3>3, <1>11 DEF Unbinding
  <2> QED
    BY <1>5, <1>13, <2>1, <2>2, <2>3
<1>14. ASSUME NEW f \in Fd, NEW s \in Socket, open'[f] = s, ~m_connected'[s]
       PROVE  Closers(s, Shutting)'
  <2>1. open[f] = s /\ m_fd[s] = f
    BY <1>0, <1>6, <1>14 DEF Cleared
  <2>2. CASE Disconnect(t) /\ sock[t] = s
    BY <1>12, <2>1, <2>2 DEF Closers, Shutting
  <2>3. CASE ~m_connected[s]
    <3>1. sock[t] = s /\ pc[t] \in Shutting \ {"close"} => pc'[t] \in Shutting /\ sock'[t] = sock[t]
      <4> SUFFICES ASSUME sock[t] = s, pc[t] \in Shutting \ {"close"}
                   PROVE  pc'[t] \in Shutting /\ sock'[t] = sock[t]
        OBVIOUS
      <4>1. RemoveSocket(t) \/ UnbindSocket(t) \/ UnregisterSocket(t) \/ ShutdownSocket(t)
        BY DEF Closing, Disconnect, CloseSocket, Shutting,
               Disconnected, Delete, MarkDeleted, DropConnection, QueueSocket, At
      <4>2. \E p \in {"unbind", "unregister", "shutdown", "close"} : Go(t, p)
        BY <4>1 DEF RemoveSocket, UnbindSocket, UnregisterSocket, ShutdownSocket
      <4> QED
        BY <1>0, <4>2, GoFacts DEF Shutting
    <3>2. ~(sock[t] = s /\ pc[t] = "close")
      <4> SUFFICES ASSUME sock[t] = s, pc[t] = "close" PROVE FALSE
        OBVIOUS
      <4>1. CloseSocket(t)
        BY DEF Closing, Disconnect, RemoveSocket, UnbindSocket, UnregisterSocket, ShutdownSocket,
               Disconnected, Delete, MarkDeleted, DropConnection, QueueSocket, At
      <4>2. open'[f] = NULL
        BY <1>0, <2>1, <4>1 DEF CloseSocket
      <4> QED
        BY <1>0, <1>14, <4>2
    <3>3. Closers(s, Shutting)
      BY <1>0, <2>1, <2>3 DEF Cleared
    <3> QED
      BY <2>1, <3>1, <3>2, <3>3, <1>11 DEF Shutting
  <2> QED
    BY <1>5, <1>14, <2>1, <2>2, <2>3
<1>15. \A f \in Fd : open'[f] # NULL => m_fd'[open'[f]] = f
  BY <1>0, <1>1, <1>6 DEF Cleared
<1> QED
  BY <1>8, <1>10, <1>13, <1>14, <1>15 DEF Cleared

LEMMA ClearedAccept ==
  ASSUME Places, Cleared, OnAccept
  PROVE  Cleared'
<1> USE DEF socketVars, gcVars, kernelVars, bounds, Unbinding, Shutting
<1>0. /\ Typed /\ NULL \notin Fd /\ NULL \notin Socket /\ pc[Worker] = "next"
      /\ fds \in [Fd -> Socket \cup {NULL}] /\ open \in [Fd -> Socket \cup {NULL}]
      /\ m_connected \in [Socket -> BOOLEAN] /\ m_fd \in [Socket -> Fd \cup {NULL}]
      /\ deletionQueue \subseteq Socket /\ freed \subseteq Socket /\ Worker \in Thread
  BY EpollAssumption DEF Places, Typed, TypeOK, OnAccept, At, Thread
<1>1. deletionQueue' = deletionQueue /\ freed' = freed
  BY DEF OnAccept
<1>2. /\ \A u \in Thread \ {Worker} : pc'[u] = pc[u] /\ sock'[u] = sock[u]
      /\ pc'[Worker] \in {"next", "delete"}
  BY <1>0, EnterFacts DEF OnAccept, AddSocket, Refused, Stays
<1>3. \A s \in Socket : /\ Closers(s, Unbinding) => Closers(s, Unbinding)'
                        /\ Closers(s, Shutting) => Closers(s, Shutting)'
  BY <1>0, <1>2 DEF Closers
<1>4. CASE UNCHANGED <<m_fd, m_connected, open, fds>>
  <2>1. \A u \in Thread : pc'[u] = "queue" => ~m_connected'[sock'[u]]
    BY <1>0, <1>2, <1>4 DEF Cleared
  <2> QED
    BY <1>1, <1>3, <1>4, <2>1 DEF Cleared
<1>5. ASSUME NEW s \in Socket, NEW f \in Fd, NextSocket(s), open[f] = NULL,
             m_fd' = [m_fd EXCEPT ![s] = f], m_connected' = [m_connected EXCEPT ![s] = TRUE],
             open' = [open EXCEPT ![f] = s], AddSocket(s, f)
      PROVE  Cleared'
  <2>1. m_fd[s] = NULL
    BY <1>5 DEF NextSocket
  <2>2. fds' = fds \/ fds' = [fds EXCEPT ![f] = s]
    BY <1>5 DEF AddSocket
  <2>3. \A r \in Socket : ~m_connected'[r] => r # s /\ ~m_connected[r]
    BY <1>0, <1>5
  <2>4. \A g \in Fd, r \in Socket \ {s} : (fds'[g] = r => fds[g] = r) /\ (open'[g] = r => open[g] = r)
    BY <1>0, <1>5, <2>2
  <2>5. \A u \in Thread : pc'[u] = "queue" => ~m_connected'[sock'[u]]
    <3> SUFFICES ASSUME NEW u \in Thread, pc'[u] = "queue" PROVE ~m_connected'[sock'[u]]
      OBVIOUS
    <3>1. u # Worker /\ pc[u] = "queue" /\ sock'[u] = sock[u]
      BY <1>2
    <3>2. sock[u] \in Socket /\ sock[u] # s
      BY <1>0, <2>1, <3>1, InCallFacts
    <3> QED
      BY <1>0, <1>5, <3>1, <3>2 DEF Cleared
  <2>6. \A g \in Fd : open'[g] # NULL => m_fd'[open'[g]] = g
    BY <1>0, <1>5, <2>1 DEF Cleared
  <2>7. \A r \in deletionQueue' \cup freed' : ~m_connected'[r] /\ m_fd'[r] # NULL
    BY <1>0, <1>1, <1>5, <2>1 DEF Cleared
  <2> QED
    BY <1>3, <2>3, <2>4, <2>5, <2>6, <2>7 DEF Cleared
<1> QED
  BY <1>4, <1>5 DEF OnAccept, Stays

LEMMA ClearedNext == Places /\ Cleared /\ [Next]_vars => Cleared'
<1> SUFFICES ASSUME Places, Cleared, [Next]_vars PROVE Cleared'
  OBVIOUS
<1> USE DEF socketVars, gcVars, kernelVars, bounds, threadVars
<1>0. /\ Typed /\ Worker \in Thread /\ App \subseteq Thread
  BY DEF Places, Thread
<1>1. ASSUME UNCHANGED <<m_fd, m_connected, fds, open>>,
             deletionQueue' \cup freed' \subseteq deletionQueue \cup freed,
             NEW t \in Thread, pc[t] \notin Shutting, pc'[t] # "queue",
             \A u \in Thread \ {t} : pc'[u] = pc[u] /\ sock'[u] = sock[u]
      PROVE  Cleared'
  <2>1. \A s \in Socket : /\ Closers(s, Unbinding) => Closers(s, Unbinding)'
                          /\ Closers(s, Shutting) => Closers(s, Shutting)'
    BY <1>1 DEF Closers, Unbinding, Shutting
  <2>2. \A u \in Thread : pc'[u] = "queue" => ~m_connected'[sock'[u]]
    BY <1>1 DEF Cleared
  <2> QED
    BY <1>1, <2>1, <2>2 DEF Cleared
<1>2. CASE OnAccept
  BY <1>2, ClearedAccept
<1>3. ASSUME NEW t \in Thread, Closing(t) PROVE Cleared'
  BY <1>3, ClearedClosing
<1>4. CASE UNCHANGED <<pc, sock, m_fd, m_connected, fds, open>>
           /\ deletionQueue' \cup freed' \subseteq deletionQueue \cup freed
  BY <1>4 DEF Cleared, Closers
<1>5. CASE EpollWait \/ Peer \/ Update \/ UNCHANGED vars
  BY <1>4, <1>5 DEF EpollWait, Peer, PeerConnects, PeerSends, PeerReads, PeerCloses, Update, vars
<1>6. CASE HandleEvent
  <2>1. pc[Worker] = "next" /\ UNCHANGED <<m_fd, m_connected, fds, open, deletionQueue, freed>>
    BY <1>6 DEF HandleEvent, At
  <2>2. Stays \/ \E s : \E place \in {"disconnect", "read", "burst"} : Enter(Worker, s, place, "next")
    BY <1>6 DEF HandleEvent
  <2> QED
    BY <1>0, <1>1, <2>1, <2>2, EnterFacts DEF Stays, Shutting
<1>7. CASE ReadCallback \/ ChangeToWrite \/ PostWrite \/ BurstBegin \/ WriteCallback \/ Written \/ PostRead
  <2>1. /\ pc[Worker] \in {"read", "changing", "toout", "burst", "write", "written", "toin"}
        /\ UNCHANGED <<m_fd, m_connected, fds, open, deletionQueue, freed>>
    BY <1>7 DEF ReadCallback, ChangeToWrite, PostWrite, BurstBegin, WriteCallback, Written, PostRead, At
  <2>2. \/ \E place \in {"disconnect", "changing", "toout", "write", "written", "toin", "next"} :
             Go(Worker, place)
        \/ \E s : Enter(Worker, s, "disconnect", "written")
    BY <1>7 DEF ReadCallback, ChangeToWrite, PostWrite, BurstBegin, WriteCallback, Written, PostRead
  <2> QED
    BY <1>0, <1>1, <2>1, <2>2, GoFacts, EnterFacts DEF Shutting
<1>8. ASSUME NEW t \in App, AcquireSendLock(t) \/ BurstPush(t) PROVE Cleared'
  <2>1. /\ pc[t] \in {"acquire", "post"} /\ \E place \in {"idle", "post"} : Go(t, place)
        /\ UNCHANGED <<m_fd, m_connected, fds, open, deletionQueue, freed>>
    BY <1>8 DEF AcquireSendLock, BurstPush, At
  <2> QED
    BY <1>0, <1>1, <2>1, GoFacts DEF Shutting
<1>9. ASSUME NEW t \in App, NEW s \in Socket, Send(t, s) \/ Close(t, s) PROVE Cleared'
  <2>1. /\ pc[t] = "idle" /\ UNCHANGED <<m_fd, m_connected, fds, open, deletionQueue, freed>>
        /\ Stays \/ \E place \in {"acquire", "disconnect", "delete"} : Enter(t, s, place, "idle")
    BY <1>9 DEF Send, Close, At
  <2> QED
    BY <1>0, <1>1, <2>1, EnterFacts DEF Shutting, Stays
<1> QED
  BY <1>0, <1>2, <1>3, <1>5, <1>6, <1>7, <1>8, <1>9 DEF Next, WorkerStep, AppStep, Calls

(* A socket that Disconnect or Delete has given to the garbage collector is, *)
(* when every call that uses it has returned, neither bound in the manager   *)
(* nor open, whichever threads disconnected and deleted it at once.          *)
THEOREM QueuedAreGone == Spec => []QueuedIsGone
<1>1. Init => Cleared
  BY EpollAssumption DEF Init, Cleared, Thread
<1>2. Places /\ Cleared => QueuedIsGone
  <2> SUFFICES ASSUME Places, Cleared, NEW s \in deletionQueue \cup freed, ~InUse(s)
               PROVE  ~m_connected[s] /\ \A f \in Fd : fds[f] # s /\ open[f] # s
    BY DEF QueuedIsGone
  <2>1. s \in Socket /\ ~m_connected[s]
    BY DEF Cleared, Places, Typed, TypeOK
  <2>2. ~Closers(s, Unbinding) /\ ~Closers(s, Shutting)
    BY DEF InUse, Closers, Unbinding, Shutting
  <2> QED
    BY <2>1, <2>2 DEF Cleared
<1> QED
  BY <1>1, <1>2, ClearedNext, PlacesHold, PTL DEF Spec
==============================================================================
