--------------------------- MODULE SocketIocp_proof ---------------------------
(***************************************************************************)
(* For any number of sockets, workers and sending threads: no event is     *)
(* posted while it is in use, and the send lock of a living socket is      *)
(* taken exactly while a write of it is on its way.                        *)
(*                                                                         *)
(* Inv says that a socket is read by one party at a time, the kernel, a    *)
(* completion in the port or the thread that will set up the next read,    *)
(* and likewise written by one.  That needs what the lists of the threads  *)
(* look like (Lists).  A socket without a living connection may leave its  *)
(* events marked and its lock taken for ever.                              *)
(***************************************************************************)
EXTENDS SocketIocp, SequenceTheorems, TLAPS

Has(t, l) == \E i \in 1..Len(todo[t]) : todo[t][i] = l

Once(t) == \A i, j \in 1..Len(todo[t]) :
             todo[t][i] = "setupRead" /\ todo[t][j] = "setupRead" => i = j
Alone(t) == Has(t, "written") => todo[t] = <<"written">> /\ t \in Worker
OnSocket(t) == \A l \in {"send", "written", "setupRead", "onRead", "add"} :
                 Has(t, l) => sock[t] \in Socket
(* What closes a socket has disconnected it first. *)
Ordered(t) == \A i \in 1..Len(todo[t]) :
                todo[t][i] \in {"remove", "close"} =>
                  \/ sock[t] \notin m_connected
                  \/ \E j \in 1..(i - 1) : todo[t][j] = "disconnect"

Lists == \A t \in Thread : Once(t) /\ Alone(t) /\ OnSocket(t) /\ Ordered(t)

Typed ==
  /\ todo \in [Thread -> Seq(Label)] /\ sock \in [Thread -> accepted \cup {NULL}]
  /\ len \in [Thread -> Nat] /\ send \in [Socket -> Nat] /\ writeBuffer \in [Socket -> Int]
  /\ m_writeLock \in [Socket -> {0, 1}] /\ doubleUse \in BOOLEAN
  /\ port \subseteq [socket : Socket, event : {"read", "write"}, len : Nat]
  /\ accepted \subseteq Socket
  /\ m_connected \subseteq accepted /\ closed \subseteq accepted \cup {NULL}
  /\ known \subseteq accepted /\ _sockets \subseteq accepted
  /\ tokill \subseteq accepted
  /\ recv \subseteq accepted /\ readEvent \subseteq accepted
  /\ \A s \in Socket : m_writeLock[s] = 1 => s \in accepted

Reads(t, s)  == sock[t] = s /\ Has(t, "setupRead")
Writes(t, s) == sock[t] = s /\ At(t, "written")

OneReader ==
  /\ \A t \in Thread, s \in Socket : Reads(t, s) =>
       /\ s \notin recv /\ s \notin readEvent
       /\ \A c \in port : ~(c.socket = s /\ c.event = "read")
  /\ \A t, u \in Thread, s \in Socket : Reads(t, s) /\ Reads(u, s) => t = u
  /\ \A c \in port : c.event = "read" => c.socket \notin recv /\ c.socket \in accepted
  /\ \A c, d \in port :
       c.event = "read" /\ d.event = "read" /\ c.socket = d.socket => c = d

OneWriter ==
  /\ \A t \in Thread, s \in Socket : Writes(t, s) =>
       /\ m_writeLock[s] = 1 /\ send[s] = 0 /\ s \notin writeEvent
       /\ \A c \in port : ~(c.socket = s /\ c.event = "write")
  /\ \A t, u \in Thread, s \in Socket : Writes(t, s) /\ Writes(u, s) => t = u
  /\ \A c \in port : c.event = "write" => m_writeLock[c.socket] = 1 /\ send[c.socket] = 0
  /\ \A c, d \in port :
       c.event = "write" /\ d.event = "write" /\ c.socket = d.socket => c = d
  /\ \A s \in Socket : send[s] > 0 \/ s \in writeEvent => m_writeLock[s] = 1

InFlight(s) == \/ send[s] > 0
               \/ \E c \in port : c.socket = s /\ c.event = "write"
               \/ \E u \in Thread : Writes(u, s)
LockIsUsed == \A s \in Socket : ~Dead(s) /\ s \notin dropped /\ m_writeLock[s] = 1 => InFlight(s)
ClosedIsDisconnected == \A s \in closed : s \notin m_connected

Inv == /\ Typed /\ Lists /\ OneReader /\ OneWriter /\ LockIsUsed /\ ClosedIsDisconnected
       /\ NoDoubleUse
-----------------------------------------------------------------------------
(* What a call leaves to do before the rest. *)
Prefix == {<<>>, Disconnect, Delete, <<"mark", "drop", "queue">>, <<"send">>,
           <<"next">>, <<"empty">>, <<"end">>}

LEMMA PrefixFacts ==
  ASSUME NEW ls \in Prefix
  PROVE  /\ ls \in Seq(Label) /\ Len(ls) \in Nat
         /\ \A i \in 1..Len(ls) :
              /\ ls[i] \notin {"setupRead", "written", "onRead", "add"}
              /\ ls[i] = "send" => ls = <<"send">>
              /\ ls[i] \in {"remove", "close"} => i > 1 /\ ls[1] = "disconnect"
<1>1. CASE ls = <<>>
  BY <1>1 DEF Label
<1>2. CASE ls = Disconnect
  BY <1>2 DEF Disconnect, Label
<1>3. CASE ls = Delete
  BY <1>3 DEF Delete, Label
<1>4. CASE ls = <<"mark", "drop", "queue">>
  BY <1>4 DEF Label
<1>5. CASE ls = <<"send">>
  BY <1>5 DEF Label
<1>6. CASE ls = <<"next">>
  BY <1>6 DEF Label
<1>7. CASE ls = <<"empty">>
  BY <1>7 DEF Label
<1>8. CASE ls = <<"end">>
  BY <1>8 DEF Label
<1> QED
  BY <1>1, <1>2, <1>3, <1>4, <1>5, <1>6, <1>7, <1>8 DEF Prefix

(* The threads other than t are where they were. *)
Others(t) == \A u \in Thread \ {t} : todo'[u] = todo[u] /\ sock'[u] = sock[u]
(* After a step t neither reads nor writes what it did not before. *)
Moved(t) == /\ Others(t)
            /\ todo' \in [Thread -> Seq(Label)] /\ sock' \in [Thread -> accepted \cup {NULL}]
            /\ \A s \in Socket : Reads(t, s)' => Reads(t, s) /\ ~At(t, "setupRead")
            /\ \A s \in Socket : ~Writes(t, s)'

LEMMA ThenList ==
  ASSUME Typed, NEW t \in Thread, todo[t] # <<>>, NEW ls \in Prefix, Then(t, ls)
  PROVE  /\ todo' \in [Thread -> Seq(Label)] /\ sock' \in [Thread -> accepted \cup {NULL}]
         /\ Others(t)
         /\ sock'[t] = sock[t] \/ todo'[t] = <<>>
         /\ Len(todo'[t]) = Len(ls) + Len(todo[t]) - 1 /\ Len(todo[t]) \in Nat
         /\ \A i \in 1..Len(todo'[t]) :
              todo'[t][i] = IF i <= Len(ls) THEN ls[i] ELSE todo[t][i - Len(ls) + 1]
<1>1. todo[t] \in Seq(Label) /\ ls \in Seq(Label) /\ Len(ls) \in Nat
  BY PrefixFacts DEF Typed
<1>2. /\ Tail(todo[t]) \in Seq(Label) /\ Len(Tail(todo[t])) = Len(todo[t]) - 1
      /\ Len(todo[t]) \in Nat
      /\ \A i \in 1..(Len(todo[t]) - 1) : Tail(todo[t])[i] = todo[t][i + 1]
  BY <1>1, HeadTailProperties, LenProperties
<1> DEFINE rest == Tail(todo[t])
           left == ls \o rest
<1>3. /\ left \in Seq(Label) /\ Len(left) = Len(ls) + Len(rest)
      /\ \A i \in 1..(Len(ls) + Len(rest)) :
           left[i] = IF i <= Len(ls) THEN ls[i] ELSE rest[i - Len(ls)]
  <2>1. rest \in Seq(Label)
    BY <1>2
  <2> HIDE DEF rest
  <2> QED
    BY <1>1, <2>1, ConcatProperties
<1>4. todo' = [todo EXCEPT ![t] = left]
      /\ sock' = IF left = <<>> THEN [sock EXCEPT ![t] = NULL] ELSE sock
  BY DEF Then
<1> HIDE DEF left
<1>5. todo' \in [Thread -> Seq(Label)] /\ sock' \in [Thread -> accepted \cup {NULL}]
  BY <1>3, <1>4 DEF Typed
<1>6. todo'[t] = left /\ (sock'[t] = sock[t] \/ todo'[t] = <<>>) /\ Others(t)
  BY <1>3, <1>4 DEF Typed, Others
<1>7. \A i \in 1..Len(left) :
        left[i] = IF i <= Len(ls) THEN ls[i] ELSE todo[t][i - Len(ls) + 1]
  <2> TAKE i \in 1..Len(left)
  <2>1. CASE i <= Len(ls)
    BY <1>1, <1>2, <1>3, <2>1
  <2>2. CASE i > Len(ls)
    <3>1. i - Len(ls) \in 1..(Len(todo[t]) - 1)
      BY <1>1, <1>2, <1>3, <2>2
    <3>2. rest[i - Len(ls)] = todo[t][i - Len(ls) + 1]
      BY <1>2, <3>1
    <3> QED
      BY <1>1, <1>2, <1>3, <2>2, <3>2
  <2> QED
    BY <1>1, <1>2, <1>3, <2>1, <2>2
<1> QED
  BY <1>2, <1>3, <1>5, <1>6, <1>7

LEMMA OthersLists ==
  ASSUME Typed, Lists, NEW t \in Thread, NEW u \in Thread \ {t}, Others(t),
         m_connected' \cap (accepted \cup {NULL}) \subseteq m_connected
  PROVE  (Once(u) /\ Alone(u) /\ OnSocket(u) /\ Ordered(u))'
<1>1. todo'[u] = todo[u] /\ sock'[u] = sock[u]
  BY DEF Others
<1>2. Once(u) /\ Alone(u) /\ OnSocket(u) /\ Ordered(u)
  BY DEF Lists
<1>3. Once(u)'
  BY <1>1, <1>2 DEF Once
<1>4. Alone(u)' /\ OnSocket(u)'
  BY <1>1, <1>2 DEF Alone, OnSocket, Has
<1>5. Ordered(u)'
  <2>1. sock[u] \in accepted \cup {NULL}
    BY DEF Typed
  <2>2. sock[u] \notin m_connected => sock'[u] \notin m_connected'
    BY <1>1, <2>1
  <2> QED
    BY <1>1, <1>2, <2>2 DEF Ordered
<1> QED
  BY <1>3, <1>4, <1>5

LEMMA ThenStep ==
  ASSUME Typed, Lists, NEW t \in Thread, todo[t] # <<>>, NEW ls \in Prefix, Then(t, ls),
         accepted' = accepted, m_connected' \subseteq m_connected,
         At(t, "disconnect") => sock[t] \notin m_connected',
         ls = <<"send">> => sock[t] \in Socket
  PROVE  Lists' /\ Moved(t)
<1> DEFINE new == todo'[t]
           old == todo[t]
           n == Len(ls)
<1>1. /\ todo' \in [Thread -> Seq(Label)] /\ sock' \in [Thread -> accepted \cup {NULL}]
      /\ Others(t) /\ (sock'[t] = sock[t] \/ new = <<>>)
      /\ Len(new) = n + Len(old) - 1 /\ Len(old) \in Nat
      /\ \A i \in 1..Len(new) : new[i] = IF i <= n THEN ls[i] ELSE old[i - n + 1]
  BY ThenList
<1>2. /\ n \in Nat
      /\ \A i \in 1..n : /\ ls[i] \notin {"setupRead", "written", "onRead", "add"}
                         /\ ls[i] = "send" => ls = <<"send">>
                         /\ ls[i] \in {"remove", "close"} => i > 1 /\ ls[1] = "disconnect"
  BY PrefixFacts
<1>3. Once(t) /\ Alone(t) /\ OnSocket(t) /\ Ordered(t)
  BY DEF Lists
<1>4. Len(old) > 0 /\ old[1] = Head(old) /\ old \in Seq(Label)
  BY EmptySeq, HeadTailProperties DEF Typed
\* An entry of the new list stands in the prefix, or one place on in the old list.
<1>5. \A i \in 1..Len(new) :
        \/ i \in 1..n /\ new[i] = ls[i]
        \/ i - n + 1 \in 2..Len(old) /\ new[i] = old[i - n + 1] /\ i > n
  <2> SUFFICES ASSUME NEW i \in 1..Len(new)
               PROVE  \/ i \in 1..n /\ new[i] = ls[i]
                      \/ i - n + 1 \in 2..Len(old) /\ new[i] = old[i - n + 1] /\ i > n
    OBVIOUS
  <2> HIDE DEF n, old, new
  <2>0. i \in Nat /\ i >= 1 /\ i <= n + Len(old) - 1
    BY <1>1, <1>2
  <2>1. new[i] = IF i <= n THEN ls[i] ELSE old[i - n + 1]
    BY <1>1
  <2>2. CASE i <= n
    BY <1>2, <2>0, <2>1, <2>2
  <2>3. CASE i > n
    BY <1>1, <1>2, <2>0, <2>1, <2>3
  <2> QED
    BY <1>2, <2>0, <2>2, <2>3
<1>6. \A l \in {"setupRead", "written", "onRead", "add"} : \A i \in 1..Len(new) :
        new[i] = l => i - n + 1 \in 2..Len(old) /\ old[i - n + 1] = l
  BY <1>2, <1>5
<1>7. Once(t)'
  <2> SUFFICES ASSUME NEW i \in 1..Len(new), NEW j \in 1..Len(new),
                      new[i] = "setupRead", new[j] = "setupRead"
               PROVE  i = j
    BY DEF Once
  <2>0. /\ i - n + 1 \in 2..Len(old) /\ old[i - n + 1] = "setupRead"
        /\ j - n + 1 \in 2..Len(old) /\ old[j - n + 1] = "setupRead"
    BY <1>6
  <2>1. /\ i - n + 1 \in 1..Len(old) /\ old[i - n + 1] = "setupRead"
        /\ j - n + 1 \in 1..Len(old) /\ old[j - n + 1] = "setupRead"
    <3> HIDE DEF n, old, new
    <3> QED
      BY <1>1, <1>2, <2>0
  <2>2. i - n + 1 = j - n + 1
    BY <1>3, <2>1 DEF Once
  <2>3. i \in Int /\ j \in Int
    BY <1>1, <1>2
  <2> QED
    BY <1>2, <2>2, <2>3
<1>8. \A i \in 1..Len(new) : new[i] # "written"
  <2> SUFFICES ASSUME NEW i \in 1..Len(new), new[i] = "written" PROVE FALSE
    OBVIOUS
  <2>1. i - n + 1 \in 2..Len(old) /\ old[i - n + 1] = "written"
    BY <1>6
  <2>2. old = <<"written">>
    BY <1>3, <1>4, <2>1 DEF Alone, Has
  <2>3. Len(old) = 1
    BY <2>2
  <2> QED
    BY <2>1, <2>3
<1>9. Alone(t)'
  BY <1>8 DEF Alone, Has
<1>10. OnSocket(t)'
  <2> SUFFICES ASSUME NEW l \in {"send", "written", "setupRead", "onRead", "add"},
                      NEW i \in 1..Len(new), new[i] = l
               PROVE  sock'[t] \in Socket
    BY DEF OnSocket, Has
  <2>1. sock'[t] = sock[t]
    BY <1>1, <1>2, <1>4, EmptySeq
  <2>2. CASE i \in 1..n /\ new[i] = ls[i]
    BY <1>2, <2>1, <2>2
  <2>3. CASE i - n + 1 \in 2..Len(old) /\ new[i] = old[i - n + 1]
    BY <1>3, <1>4, <2>1, <2>3 DEF OnSocket, Has
  <2> QED
    BY <1>5, <2>2, <2>3
<1>11. Ordered(t)'
  <2> SUFFICES ASSUME NEW i \in 1..Len(new), new[i] \in {"remove", "close"},
                      sock'[t] \in m_connected'
               PROVE  \E j \in 1..(i - 1) : new[j] = "disconnect"
    BY DEF Ordered
  <2>1. sock'[t] = sock[t] /\ i \in Nat /\ Len(new) \in Nat
    BY <1>1, <1>2, <1>4, EmptySeq
  <2>2. CASE i \in 1..n /\ new[i] = ls[i]
    <3>1. i > 1 /\ ls[1] = "disconnect"
      BY <1>2, <2>2
    <3>2. 1 \in 1..(i - 1) /\ 1 \in 1..Len(new) /\ 1 <= n
      BY <1>2, <2>1, <2>2, <3>1
    <3> QED
      BY <1>1, <3>1, <3>2
  <2>3. CASE i - n + 1 \in 2..Len(old) /\ new[i] = old[i - n + 1] /\ i > n
    <3>1. PICK j \in 1..(i - n) : old[j] = "disconnect"
      <4>1. i - n + 1 \in 1..Len(old) /\ i - n + 1 - 1 = i - n
        BY <1>2, <1>4, <2>1, <2>3
      <4>2. sock[t] \in m_connected
        BY <2>1
      <4> QED
        BY <1>3, <2>3, <4>1, <4>2 DEF Ordered
    <3>2. j # 1
      BY <1>4, <2>1, <3>1 DEF At
    <3>3. j + n - 1 \in 1..(i - 1) /\ j + n - 1 \in 1..Len(new) /\ j + n - 1 > n
          /\ (j + n - 1) - n + 1 = j
      BY <1>1, <1>2, <1>4, <2>1, <2>3, <3>1, <3>2
    <3>4. new[j + n - 1] = old[(j + n - 1) - n + 1]
      BY <1>1, <1>2, <3>3
    <3> QED
      BY <3>1, <3>3, <3>4
  <2> QED
    BY <1>5, <2>2, <2>3
<1>12. Lists'
  <2> SUFFICES ASSUME NEW u \in Thread PROVE (Once(u) /\ Alone(u) /\ OnSocket(u) /\ Ordered(u))'
    BY DEF Lists
  <2> QED
    BY <1>1, <1>7, <1>9, <1>10, <1>11, OthersLists
<1>13. \A s \in Socket : Reads(t, s)' => Reads(t, s) /\ ~At(t, "setupRead")
  <2> SUFFICES ASSUME NEW s \in Socket, sock'[t] = s,
                      NEW i \in 1..Len(new), new[i] = "setupRead"
               PROVE  Reads(t, s) /\ ~At(t, "setupRead")
    BY DEF Reads, Has
  <2>1. i - n + 1 \in 2..Len(old) /\ old[i - n + 1] = "setupRead"
    BY <1>6
  <2>2. sock'[t] = sock[t]
    BY <1>1, <1>2, <1>4, EmptySeq
  <2>3. Reads(t, s)
    BY <1>4, <2>1, <2>2 DEF Reads, Has
  <2>4. old[1] # "setupRead"
    BY <1>3, <1>4, <2>1 DEF Once
  <2> QED
    BY <1>4, <2>3, <2>4 DEF At
<1>14. \A s \in Socket : ~Writes(t, s)'
  <2> SUFFICES ASSUME new # <<>>, Head(new) = "written" PROVE FALSE
    BY DEF Writes, At
  <2>1. 1 \in 1..Len(new) /\ new[1] = "written"
    BY <1>1, EmptySeq, HeadTailProperties
  <2> QED
    BY <1>8, <2>1
<1> QED
  BY <1>1, <1>12, <1>13, <1>14 DEF Moved
-----------------------------------------------------------------------------
(* What a call that begins has to do. *)
Beginning == {<<"setupRead", "add">>, <<"onRead", "setupRead">>, Delete, <<"written">>,
              <<"send">>, <<"find">>, Disconnect \o <<"next">>}

LEMMA KillList ==
  LET kill == Disconnect \o <<"next">>
  IN  /\ kill \in Seq(Label) /\ Len(kill) = 5
      /\ kill[1] = "disconnect" /\ kill[2] = "remove" /\ kill[3] = "close"
      /\ kill[4] = "delete" /\ kill[5] = "next"
<1> DEFINE kill == Disconnect \o <<"next">>
           d == Disconnect
           n == <<"next">>
<1>1. d \in Seq(Label) /\ Len(d) = 4 /\ n \in Seq(Label) /\ Len(n) = 1 /\ n[1] = "next"
      /\ d[1] = "disconnect" /\ d[2] = "remove" /\ d[3] = "close" /\ d[4] = "delete"
  BY DEF Disconnect, Label
<1>2. kill = d \o n
  OBVIOUS
<1> HIDE DEF d, n, kill
<1>3. /\ kill \in Seq(Label) /\ Len(kill) = 5
      /\ \A i \in 1..5 : kill[i] = IF i <= 4 THEN d[i] ELSE n[i - 4]
  <2>1. /\ kill \in Seq(Label) /\ Len(kill) = Len(d) + Len(n)
        /\ \A i \in 1..(Len(d) + Len(n)) : kill[i] = IF i <= Len(d) THEN d[i] ELSE n[i - Len(d)]
    BY <1>1, <1>2, ConcatProperties
  <2>2. Len(d) = 4 /\ Len(d) + Len(n) = 5
    BY <1>1
  <2> QED
    BY <2>1, <2>2
<1>4. kill[1] = "disconnect" /\ kill[2] = "remove" /\ kill[3] = "close" /\ kill[4] = "delete"
      /\ kill[5] = "next"
  BY <1>1, <1>3
<1> QED
  BY <1>3, <1>4 DEF kill

LEMMA BeginningFacts ==
  ASSUME NEW ls \in Beginning
  PROVE  /\ ls \in Seq(Label)
         /\ \A i, j \in 1..Len(ls) : ls[i] = "setupRead" /\ ls[j] = "setupRead" => i = j
         /\ \A i \in 1..Len(ls) :
              /\ ls[i] = "written" => ls = <<"written">>
              /\ ls[i] \in {"send", "written", "setupRead", "onRead", "add"} => ls # <<"find">>
              /\ ls[i] = "setupRead" => ls \in {<<"setupRead", "add">>, <<"onRead", "setupRead">>}
              /\ ls[i] \in {"remove", "close"} => i > 1 /\ ls[1] = "disconnect"
<1>1. CASE ls = <<"setupRead", "add">>
  BY <1>1 DEF Label
<1>2. CASE ls = <<"onRead", "setupRead">>
  BY <1>2 DEF Label
<1>3. CASE ls = Delete
  BY <1>3 DEF Delete, Label
<1>4. CASE ls = <<"written">>
  BY <1>4 DEF Label
<1>5. CASE ls = <<"send">>
  BY <1>5 DEF Label
<1>6. CASE ls = <<"find">>
  BY <1>6 DEF Label
<1>7. CASE ls = Disconnect \o <<"next">>
  <2>1. \A i \in 1..5 : i = 1 \/ i = 2 \/ i = 3 \/ i = 4 \/ i = 5
    OBVIOUS
  <2> QED
    BY <1>7, <2>1, KillList
<1> QED
  BY <1>1, <1>2, <1>3, <1>4, <1>5, <1>6, <1>7 DEF Beginning

LEMMA BeginStep ==
  ASSUME Typed, Lists, NEW t \in Thread, NEW s \in accepted' \cup {NULL}, NEW ls \in Beginning,
         todo' = [todo EXCEPT ![t] = ls], sock' = [sock EXCEPT ![t] = s],
         s \in Socket \/ ls = <<"find">>, ls = <<"written">> => t \in Worker,
         accepted \subseteq accepted', accepted' \subseteq Socket,
         m_connected' \cap (accepted \cup {NULL}) \subseteq m_connected
  PROVE  /\ Lists' /\ Others(t)
         /\ todo' \in [Thread -> Seq(Label)] /\ sock' \in [Thread -> accepted' \cup {NULL}]
         /\ \A x \in Socket : Reads(t, x)' =>
              x = s /\ ls \in {<<"setupRead", "add">>, <<"onRead", "setupRead">>}
         /\ \A x \in Socket : Writes(t, x)' => x = s /\ ls = <<"written">>
<1>1. /\ ls \in Seq(Label)
      /\ \A i, j \in 1..Len(ls) : ls[i] = "setupRead" /\ ls[j] = "setupRead" => i = j
      /\ \A i \in 1..Len(ls) :
           /\ ls[i] = "written" => ls = <<"written">>
           /\ ls[i] \in {"send", "written", "setupRead", "onRead", "add"} => ls # <<"find">>
           /\ ls[i] = "setupRead" => ls \in {<<"setupRead", "add">>, <<"onRead", "setupRead">>}
           /\ ls[i] \in {"remove", "close"} => i > 1 /\ ls[1] = "disconnect"
  BY BeginningFacts
<1>2. todo'[t] = ls /\ sock'[t] = s /\ Others(t)
  BY DEF Typed, Others
<1>3. todo' \in [Thread -> Seq(Label)] /\ sock' \in [Thread -> accepted' \cup {NULL}]
  BY <1>1 DEF Typed
<1>4. Once(t)'
  BY <1>1, <1>2 DEF Once
<1>5. Alone(t)'
  BY <1>1, <1>2 DEF Alone, Has
<1>6. OnSocket(t)'
  BY <1>1, <1>2 DEF OnSocket, Has
<1>7. Ordered(t)'
  <2> SUFFICES ASSUME NEW i \in 1..Len(ls), ls[i] \in {"remove", "close"}
               PROVE  \E j \in 1..(i - 1) : ls[j] = "disconnect"
    BY <1>2 DEF Ordered
  <2>1. i > 1 /\ ls[1] = "disconnect"
    BY <1>1
  <2>2. Len(ls) \in Nat
    BY <1>1, LenProperties
  <2> QED
    BY <2>1, <2>2
<1>8. Lists'
  <2> SUFFICES ASSUME NEW u \in Thread PROVE (Once(u) /\ Alone(u) /\ OnSocket(u) /\ Ordered(u))'
    BY DEF Lists
  <2> QED
    BY <1>2, <1>4, <1>5, <1>6, <1>7, OthersLists
<1>9. \A x \in Socket : Reads(t, x)' =>
        x = s /\ ls \in {<<"setupRead", "add">>, <<"onRead", "setupRead">>}
  BY <1>1, <1>2 DEF Reads, Has
<1>10. \A x \in Socket : Writes(t, x)' => x = s /\ ls = <<"written">>
  <2> SUFFICES ASSUME NEW x \in Socket, Writes(t, x)' PROVE x = s /\ ls = <<"written">>
    OBVIOUS
  <2>1. x = s /\ ls # <<>> /\ Head(ls) = "written"
    BY <1>2 DEF Writes, At
  <2>2. 1 \in 1..Len(ls) /\ ls[1] = "written"
    BY <1>1, <2>1, EmptySeq, HeadTailProperties
  <2> QED
    BY <1>1, <2>1, <2>2
<1> QED
  BY <1>2, <1>3, <1>8, <1>9, <1>10
-----------------------------------------------------------------------------
(* Steps that leave the reads or the writes of every socket alone. *)
LEMMA MovedFacts ==
  ASSUME NEW t \in Thread, Moved(t)
  PROVE  /\ \A u \in Thread, x \in Socket : Reads(u, x)' => Reads(u, x)
         /\ \A u \in Thread, x \in Socket : Writes(u, x)' <=> u # t /\ Writes(u, x)
<1> SUFFICES ASSUME NEW u \in Thread, NEW x \in Socket
             PROVE  /\ Reads(u, x)' => Reads(u, x)
                    /\ Writes(u, x)' <=> u # t /\ Writes(u, x)
  OBVIOUS
<1>1. CASE u = t
  BY <1>1 DEF Moved
<1>2. CASE u # t
  <2>1. todo'[u] = todo[u] /\ sock'[u] = sock[u]
    BY <1>2 DEF Moved, Others
  <2> QED
    BY <1>2, <2>1 DEF Reads, Writes, Has, At
<1> QED
  BY <1>1, <1>2

LEMMA ReadFrame ==
  ASSUME OneReader, \A u \in Thread, x \in Socket : Reads(u, x)' => Reads(u, x),
         recv' \subseteq recv, readEvent' \subseteq readEvent, accepted \subseteq accepted',
         \A c \in port' : c.event = "read" => c \in port
  PROVE  OneReader'
BY DEF OneReader

LEMMA WriteFrame ==
  ASSUME OneWriter, \A u \in Thread, x \in Socket : Writes(u, x)' => Writes(u, x),
         UNCHANGED <<m_writeLock, send, writeEvent>>,
         \A c \in port' : c.event = "write" => c \in port
  PROVE  OneWriter'
BY DEF OneWriter

LEMMA WritersAre ==
  ASSUME Typed, Lists, NEW x \in Socket
  PROVE  Writing(x) <=> InFlight(x)
<1>1. \A u \in Thread : At(u, "written") => u \in Worker
  <2> SUFFICES ASSUME NEW u \in Thread, todo[u] # <<>>, Head(todo[u]) = "written"
               PROVE  u \in Worker
    BY DEF At
  <2>1. todo[u] \in Seq(Label)
    BY DEF Typed
  <2>2. 1 \in 1..Len(todo[u]) /\ todo[u][1] = "written"
    BY <2>1, EmptySeq, HeadTailProperties
  <2> QED
    BY <2>2 DEF Lists, Alone, Has
<1>2. Worker \subseteq Thread
  BY DEF Thread
<1> QED
  BY <1>1, <1>2 DEF Writing, InFlight, Writes

(* A step of t within a call that neither reads nor writes. *)
LEMMA QuietStep ==
  ASSUME Inv, NEW t \in Thread, Lists', Moved(t), ~At(t, "written"),
         UNCHANGED <<m_writeLock, events, len, recv, send, port, accepted, dropped>>,
         writeBuffer' = writeBuffer \/ writeBuffer' \in [Socket -> Int],
         m_connected' \subseteq m_connected, m_deleted \subseteq m_deleted',
         known' \subseteq accepted, _sockets' \subseteq accepted, tokill' \subseteq accepted,
         closed' \subseteq closed \cup {sock[t]},
         closed' = closed \/ sock[t] \notin m_connected
  PROVE  Inv'
<1>1. Typed'
  BY DEF Inv, Typed, Moved, events
<1>2. OneReader'
  BY MovedFacts, ReadFrame DEF Inv, events
<1>3. OneWriter'
  BY MovedFacts, WriteFrame DEF Inv, events
<1>4. LockIsUsed'
  <2> SUFFICES ASSUME NEW s \in Socket, (~Dead(s) /\ s \notin dropped /\ m_writeLock[s] = 1)'
               PROVE  InFlight(s)'
    BY DEF LockIsUsed
  <2>1. InFlight(s)
    BY DEF Inv, LockIsUsed, Dead
  <2>2. \A u \in Thread : Writes(u, s) => Writes(u, s)'
    BY MovedFacts DEF Writes
  <2> QED
    BY <2>1, <2>2 DEF InFlight
<1>5. ClosedIsDisconnected'
  BY DEF Inv, ClosedIsDisconnected
<1>6. NoDoubleUse'
  BY DEF Inv, NoDoubleUse, events
<1> QED
  BY <1>1, <1>2, <1>3, <1>4, <1>5, <1>6 DEF Inv

LEMMA BeginQuiet ==
  ASSUME Typed, Lists, NEW t \in Thread, NEW s \in accepted \cup {NULL},
         NEW ls \in {Delete, <<"send">>, <<"find">>, Disconnect \o <<"next">>},
         todo' = [todo EXCEPT ![t] = ls], sock' = [sock EXCEPT ![t] = s],
         s \in Socket \/ ls = <<"find">>, accepted' = accepted, m_connected' \subseteq m_connected,
         ~At(t, "setupRead")
  PROVE  Lists' /\ Moved(t)
<1>1. ls[1] \notin {"written", "setupRead", "onRead"}
  BY KillList DEF Delete
<1>2. /\ ls # <<"written">> /\ ls # <<"setupRead", "add">> /\ ls # <<"onRead", "setupRead">>
  BY <1>1
<1>3. ls \in Beginning
  BY DEF Beginning
<1>4. accepted' \subseteq Socket
  BY DEF Typed
<1>5. /\ Lists' /\ Others(t)
      /\ todo' \in [Thread -> Seq(Label)] /\ sock' \in [Thread -> accepted' \cup {NULL}]
      /\ \A x \in Socket : Reads(t, x)' =>
           x = s /\ ls \in {<<"setupRead", "add">>, <<"onRead", "setupRead">>}
      /\ \A x \in Socket : Writes(t, x)' => x = s /\ ls = <<"written">>
  BY <1>2, <1>3, <1>4, BeginStep
<1> QED
  BY <1>2, <1>5 DEF Moved

LEMMA HeadFacts ==
  ASSUME Typed, NEW t \in Thread, NEW l, At(t, l)
  PROVE  /\ todo[t] # <<>> /\ 1 \in 1..Len(todo[t]) /\ todo[t][1] = l /\ Has(t, l)
         /\ \A k : At(t, k) => k = l
<1>1. todo[t] \in Seq(Label) /\ todo[t] # <<>> /\ Head(todo[t]) = l
  BY DEF Typed, At
<1>2. 1 \in 1..Len(todo[t]) /\ todo[t][1] = l
  BY <1>1, EmptySeq, HeadTailProperties
<1> QED
  BY <1>1, <1>2 DEF Has, At
-----------------------------------------------------------------------------
(* Each action keeps Inv. *)
LEMMA CallSteps ==
  ASSUME Inv, NEW t \in Thread,
         \/ OnRead(t) \/ MarkDisconnected(t) \/ RemoveSocket(t) \/ CloseSocket(t)
         \/ TestDeleted(t) \/ MarkDeleted(t) \/ DropConnection(t) \/ QueueSocket(t)
  PROVE  Inv'
<1> USE DEF LifeOnly, users, kernel, counts, socket, manager, events, closing, thread
<1>0. Typed /\ Lists
  BY DEF Inv
<1> DEFINE frame == /\ UNCHANGED <<m_writeLock, events, writeBuffer, len, recv, send, port>>
                    /\ UNCHANGED <<accepted, dropped, known, tokill>>
<1>1. ASSUME NEW ls \in Prefix, Then(t, ls), NEW l, At(t, l), l # "written", frame,
             m_connected' \subseteq m_connected, l = "disconnect" => sock[t] \notin m_connected',
             ls = <<"send">> => sock[t] \in Socket,
             m_deleted \subseteq m_deleted', _sockets' \subseteq _sockets,
             closed' \subseteq closed \cup {sock[t]}, closed' = closed \/ sock[t] \notin m_connected
      PROVE  Inv'
  <2>1. todo[t] # <<>> /\ \A k : At(t, k) => k = l
    BY <1>0, <1>1, HeadFacts
  <2>2. Lists' /\ Moved(t)
    BY <1>0, <1>1, <2>1, ThenStep
  <2> QED
    BY <1>0, <1>1, <2>1, <2>2, QuietStep DEF Typed
<1>2. <<>> \in Prefix /\ Disconnect \in Prefix /\ Delete \in Prefix
      /\ <<"mark", "drop", "queue">> \in Prefix /\ <<"send">> \in Prefix
  BY DEF Prefix
<1>3. Disconnect # <<"send">> /\ Delete # <<"send">> /\ <<>> # <<"send">>
      /\ <<"mark", "drop", "queue">> # <<"send">>
  BY DEF Disconnect, Delete
<1>4. CASE OnRead(t)
  <2>1. At(t, "onRead") /\ frame /\ UNCHANGED <<m_connected, m_deleted, _sockets, closed>>
    BY <1>4 DEF OnRead
  <2>2. sock[t] \in Socket
    BY <1>0, <2>1, HeadFacts DEF Lists, OnSocket
  <2>3. PICK ls \in {<<>>, Disconnect, Delete, <<"send">>} : Then(t, ls)
    BY <1>4 DEF OnRead, Return
  <2> QED
    BY <1>1, <1>2, <2>1, <2>2, <2>3
<1>5. CASE MarkDisconnected(t)
  BY <1>1, <1>2, <1>3, <1>5 DEF MarkDisconnected, Return
<1>6. CASE RemoveSocket(t)
  BY <1>1, <1>2, <1>3, <1>6 DEF RemoveSocket, Return, Without
<1>7. CASE CloseSocket(t)
  <2>1. At(t, "close")
    BY <1>7 DEF CloseSocket
  <2>2. 1 \in 1..Len(todo[t]) /\ todo[t][1] = "close"
    BY <1>0, <2>1, HeadFacts
  <2>3. sock[t] \notin m_connected
    BY <1>0, <2>2 DEF Lists, Ordered
  <2> QED
    BY <1>1, <1>2, <1>3, <1>7, <2>3 DEF CloseSocket, Return
<1>8. CASE TestDeleted(t)
  BY <1>1, <1>2, <1>3, <1>8 DEF TestDeleted
<1>9. CASE MarkDeleted(t)
  BY <1>1, <1>2, <1>3, <1>9 DEF MarkDeleted, Return
<1>10. CASE DropConnection(t)
  BY <1>1, <1>2, <1>3, <1>10 DEF DropConnection
<1>11. CASE QueueSocket(t)
  BY <1>1, <1>2, <1>3, <1>11 DEF QueueSocket, Return
<1> QED
  BY <1>4, <1>5, <1>6, <1>7, <1>8, <1>9, <1>10, <1>11

LEMMA ManagerSteps ==
  ASSUME Inv,
         \/ AddSocket \/ CloseAll \/ MainStep
         \/ \E a \in App, s \in Socket : CallSend(a, s)
  PROVE  Inv'
<1> USE DEF CloseOnly, CallOnly, users, kernel, counts, socket, manager, events, closing, thread
<1>0. Typed /\ Lists /\ Acceptor \in Thread /\ Main \in Thread
  BY DEF Inv, Thread
<1> DEFINE frame == /\ UNCHANGED <<m_writeLock, events, writeBuffer, len, recv, send, port>>
                    /\ UNCHANGED <<accepted, dropped, m_connected, m_deleted, closed>>
<1>1. ASSUME NEW t \in Thread, NEW ls \in Prefix, Then(t, ls), NEW l, At(t, l),
             l \notin {"written", "disconnect"}, frame, ls # <<"send">>,
             known' \subseteq accepted, _sockets' \subseteq accepted, tokill' \subseteq accepted
      PROVE  Inv'
  <2>1. todo[t] # <<>> /\ \A k : At(t, k) => k = l
    BY <1>0, <1>1, HeadFacts
  <2>2. Lists' /\ Moved(t)
    BY <1>0, <1>1, <2>1, ThenStep
  <2> QED
    BY <1>1, <2>1, <2>2, QuietStep
<1>2. ASSUME NEW t \in Thread, NEW s \in accepted \cup {NULL},
             NEW ls \in {Delete, <<"send">>, <<"find">>, Disconnect \o <<"next">>},
             todo' = [todo EXCEPT ![t] = ls], sock' = [sock EXCEPT ![t] = s],
             s \in Socket \/ ls = <<"find">>, ~At(t, "setupRead"), ~At(t, "written"), frame,
             UNCHANGED <<known, _sockets, tokill>>
      PROVE  Inv'
  <2>1. Lists' /\ Moved(t)
    BY <1>0, <1>2, BeginQuiet
  <2> QED
    BY <1>0, <1>2, <2>1, QuietStep DEF Typed
<1>3. <<"next">> \in Prefix /\ <<"empty">> \in Prefix /\ <<"end">> \in Prefix /\ <<>> \in Prefix
  BY DEF Prefix
<1>4. CASE AddSocket
  <2>1. At(Acceptor, "add")
    BY <1>4 DEF AddSocket
  <2>2. sock[Acceptor] \in Socket
    BY <1>0, <2>1, HeadFacts DEF Lists, OnSocket
  <2>3. sock[Acceptor] \in accepted
    BY <1>0, <2>2, NullIsNothing DEF Typed
  <2> QED
    BY <1>0, <1>1, <1>3, <1>4, <2>1, <2>3 DEF AddSocket, Return, Typed
<1>5. CASE CloseAll
  BY <1>0, <1>2, <1>5 DEF CloseAll, Begin, Idle, At
<1>6. CASE FindSockets
  BY <1>0, <1>1, <1>3, <1>6 DEF FindSockets, Typed
<1>7. CASE DisconnectNext
  <2>1. At(Main, "next") /\ frame /\ UNCHANGED <<known, _sockets, tokill>>
    BY <1>7 DEF DisconnectNext
  <2>2. \A k : At(Main, k) => k = "next"
    BY <1>0, <2>1, HeadFacts
  <2>3. ASSUME NEW s \in tokill \ killed, sock' = [sock EXCEPT ![Main] = s],
               todo' = [todo EXCEPT ![Main] = Disconnect \o <<"next">>]
        PROVE  Inv'
    BY <1>0, <1>2, <2>1, <2>2, <2>3 DEF Typed
  <2>4. CASE Then(Main, <<"empty">>)
    BY <1>0, <1>1, <1>3, <2>1, <2>4 DEF Typed
  <2> QED
    BY <1>7, <2>3, <2>4 DEF DisconnectNext
<1>8. CASE AllClosed
  BY <1>0, <1>1, <1>3, <1>8 DEF AllClosed, Typed
<1>9. ASSUME NEW a \in App, NEW s \in Socket, CallSend(a, s)
      PROVE  Inv'
  <2>1. a \in Thread /\ s \in accepted
    BY <1>0, <1>9 DEF Thread, CallSend, Typed
  <2> QED
    BY <1>2, <1>9, <2>1 DEF CallSend, Begin, Idle, At
<1> QED
  BY <1>4, <1>5, <1>6, <1>7, <1>8, <1>9 DEF MainStep

(* SetupReadEvent: the thread that was the reader gives the read to the      *)
(* kernel.                                                                   *)
LEMMA ReadStep ==
  ASSUME Inv, NEW t \in Thread, SetupReadEvent(t)
  PROVE  Inv'
<1> USE DEF users, kernel, counts, socket, manager, closing
<1> DEFINE s == sock[t]
<1>0. Typed /\ Lists /\ OneReader
  BY DEF Inv
<1>1. At(t, "setupRead") /\ Has(t, "setupRead") /\ todo[t] # <<>>
      /\ \A k : At(t, k) => k = "setupRead"
  <2>1. At(t, "setupRead")
    BY DEF SetupReadEvent
  <2> QED
    BY <1>0, <2>1, HeadFacts
<1>2. s \in Socket /\ s \in accepted
  BY <1>0, <1>1, NullIsNothing DEF Lists, OnSocket, Typed
<1>3. Reads(t, s)
  BY <1>1 DEF Reads
<1>4. s \notin recv /\ s \notin readEvent /\ \A c \in port : ~(c.socket = s /\ c.event = "read")
  BY <1>0, <1>2, <1>3 DEF OneReader
<1>5. <<>> \in Prefix /\ Disconnect \in Prefix /\ Disconnect # <<"send">> /\ <<>> # <<"send">>
  BY DEF Prefix, Disconnect
<1>6. UNCHANGED <<m_connected, m_deleted, m_writeLock, writeEvent, writeBuffer, _sockets, len,
                  tokill, accepted, known, send, port, closed, dropped>>
  BY DEF SetupReadEvent
<1>7. ASSUME NEW ls \in {<<>>, Disconnect}, Then(t, ls)
      PROVE  Lists' /\ Moved(t)
  BY <1>0, <1>1, <1>5, <1>6, <1>7, ThenStep
<1>8. ASSUME NEW ls \in {<<>>, Disconnect}, Then(t, ls), recv' = recv, readEvent' = readEvent,
             doubleUse' = doubleUse
      PROVE  Inv'
  <2>1. Lists' /\ Moved(t)
    BY <1>7, <1>8
  <2>2. known \subseteq accepted /\ _sockets \subseteq accepted /\ tokill \subseteq accepted
    BY <1>0 DEF Typed
  <2> QED
    BY <1>1, <1>6, <1>8, <2>1, <2>2, QuietStep DEF events
<1>9. CASE Dead(s) /\ Return(t) /\ UNCHANGED <<recv, readEvent, doubleUse>>
  BY <1>8, <1>9 DEF Return
<1>10. CASE /\ recv' = recv \cup {s} /\ Mark(readEvent, s) /\ readEvent' = readEvent \cup {s}
            /\ Return(t)
  <2>1. Lists' /\ Moved(t)
    BY <1>7, <1>10 DEF Return
  <2>2. Typed'
    BY <1>0, <1>2, <1>6, <1>10, <2>1 DEF Typed, Moved, Mark
  <2>3. \A u \in Thread, x \in Socket : Reads(u, x)' => Reads(u, x) /\ x # s
    <3> SUFFICES ASSUME NEW u \in Thread, NEW x \in Socket, Reads(u, x)'
                 PROVE  Reads(u, x) /\ x # s
      OBVIOUS
    <3>1. Reads(u, x)
      BY <2>1, MovedFacts
    <3>2. CASE x = s
      <4>1. u = t
        BY <1>0, <1>2, <1>3, <3>1, <3>2 DEF OneReader
      <4> QED
        BY <1>1, <2>1, <4>1 DEF Moved
    <3> QED
      BY <3>1, <3>2
  <2>4. OneReader'
    BY <1>0, <1>2, <1>4, <1>6, <1>10, <2>3 DEF OneReader
  <2>5. \A u \in Thread, x \in Socket : Writes(u, x)' <=> Writes(u, x)
    <3>1. \A x \in Socket : ~Writes(t, x)
      BY <1>1 DEF Writes
    <3> QED
      BY <2>1, <3>1, MovedFacts
  <2>6. OneWriter'
    BY <1>6, <2>5, WriteFrame DEF Inv
  <2>7. LockIsUsed'
    BY <1>6, <2>5 DEF Inv, LockIsUsed, InFlight, Dead
  <2>8. ClosedIsDisconnected' /\ NoDoubleUse'
    BY <1>4, <1>6, <1>10 DEF Inv, ClosedIsDisconnected, NoDoubleUse, Mark
  <2> QED
    BY <2>1, <2>2, <2>4, <2>6, <2>7, <2>8 DEF Inv
<1>11. CASE /\ Mark(readEvent, s) /\ readEvent' = readEvent \ {s} /\ Then(t, Disconnect)
            /\ UNCHANGED recv
  <2>1. readEvent' = readEvent
    BY <1>4, <1>11
  <2>2. doubleUse' = doubleUse
    BY <1>0, <1>4, <1>11 DEF Mark, Typed
  <2> QED
    BY <1>8, <1>11, <2>1, <2>2
<1> QED
  BY <1>9, <1>10, <1>11 DEF SetupReadEvent


(* Whoever gets the send lock of an idle event, or has it, posts what is     *)
(* left or gives the lock back.                                              *)
LEMMA WriteStep ==
  ASSUME Inv, NEW t \in Thread, NEW n \in Int, todo[t] # <<>>, sock[t] \in Socket,
         ~At(t, "disconnect"), ~At(t, "setupRead"),
         \A u \in Thread : Writes(u, sock[t]) => u = t,
         send[sock[t]] = 0, sock[t] \notin writeEvent,
         \A c \in port : ~(c.socket = sock[t] /\ c.event = "write"),
         \A x \in Socket : Writes(t, x) => x = sock[t],
         WriteCallback(t, sock[t], n, 1) \/ Quiet(t, sock[t], 0),
         writeBuffer' \in [Socket -> Int], len' \in [Thread -> Nat], WriteOnly
  PROVE  Inv'
<1> USE DEF users, kernel, counts, socket, manager, closing
<1> DEFINE s == sock[t]
<1>0. Typed /\ Lists /\ OneReader /\ OneWriter
  BY DEF Inv
<1>1. UNCHANGED <<m_connected, m_deleted, readEvent, _sockets, tokill, accepted, known,
                  recv, port, closed, dropped>>
  BY DEF WriteOnly
<1>2. s \in accepted
  BY <1>0, NullIsNothing DEF Typed
<1>3. <<>> \in Prefix /\ Disconnect \in Prefix /\ Disconnect # <<"send">> /\ <<>> # <<"send">>
  BY DEF Prefix, Disconnect
<1> DEFINE locked == m_writeLock' = [m_writeLock EXCEPT ![s] = 1]
           unlocked == m_writeLock' = [m_writeLock EXCEPT ![s] = 0]
           same == UNCHANGED <<send, writeEvent, doubleUse>>
           posted == /\ \E k \in Nat \ {0} : send' = [send EXCEPT ![s] = k]
                     /\ writeEvent' = writeEvent \cup {s} /\ UNCHANGED doubleUse
           outcome == \/ Dead(s) /\ locked /\ same
                      \/ unlocked /\ same
                      \/ locked /\ posted
<1>4. Lists' /\ Moved(t) /\ outcome
  <2>1. ASSUME NEW ls \in {<<>>, Disconnect}, Then(t, ls)
        PROVE  Lists' /\ Moved(t)
    BY <1>0, <1>1, <1>3, <2>1, ThenStep
  <2>2. ASSUME NEW l \in {0, 1}, Quiet(t, s, l), Dead(s) \/ l = 0
        PROVE  Lists' /\ Moved(t) /\ outcome
    BY <2>1, <2>2 DEF Quiet, Return
  <2>3. ASSUME Post(t, s, n, 1)
        PROVE  Lists' /\ Moved(t) /\ outcome
    <3>1. PICK k \in 1..n : send' = [send EXCEPT ![s] = k]
      BY <2>3 DEF Post
    <3>2. k \in Nat \ {0} /\ doubleUse' = doubleUse
      BY <1>0, <2>3 DEF Post, Mark, Typed
    <3> QED
      BY <2>1, <2>3, <3>1, <3>2 DEF Post, Return
  <2>4. ASSUME PostFails(t, s, 1)
        PROVE  Lists' /\ Moved(t) /\ outcome
    <3>1. writeEvent' = writeEvent /\ doubleUse' = doubleUse
      BY <1>0, <2>4 DEF PostFails, Mark, Typed
    <3> QED
      BY <2>1, <2>4, <3>1 DEF PostFails
  <2>5. CASE Quiet(t, s, 0)
    BY <2>2, <2>5
  <2>6. CASE WriteCallback(t, s, n, 1)
    BY <2>2, <2>3, <2>4, <2>6 DEF WriteCallback
  <2> QED
    BY <2>5, <2>6
<1>5. Typed'
  <2>1. m_writeLock' \in [Socket -> {0, 1}] /\ \A x \in Socket : m_writeLock'[x] = 1 => x \in accepted
    BY <1>0, <1>2, <1>4 DEF Typed
  <2>2. send' \in [Socket -> Nat] /\ doubleUse' \in BOOLEAN
    <3>1. send \in [Socket -> Nat] /\ doubleUse \in BOOLEAN
      BY <1>0 DEF Typed
    <3>2. CASE same
      BY <3>1, <3>2
    <3>3. CASE posted
      BY <3>1, <3>3
    <3> QED
      BY <1>4, <3>2, <3>3
  <2>3. todo' \in [Thread -> Seq(Label)] /\ sock' \in [Thread -> accepted \cup {NULL}]
    BY <1>4 DEF Moved
  <2> QED
    BY <1>0, <1>1, <2>1, <2>2, <2>3 DEF Typed
<1>6. OneReader'
  BY <1>0, <1>1, <1>4, MovedFacts, ReadFrame
<1>7. \A u \in Thread, x \in Socket : /\ Writes(u, x)' => Writes(u, x) /\ x # s
                                      /\ Writes(u, x) /\ x # s => Writes(u, x)'
  <2> SUFFICES ASSUME NEW u \in Thread, NEW x \in Socket
               PROVE  /\ Writes(u, x)' => Writes(u, x) /\ x # s
                      /\ Writes(u, x) /\ x # s => Writes(u, x)'
    OBVIOUS
  <2>1. Writes(u, x)' <=> u # t /\ Writes(u, x)
    BY <1>4, MovedFacts
  <2> QED
    BY <2>1
<1>8. OneWriter'
  BY <1>0, <1>1, <1>4, <1>7 DEF OneWriter, Typed
<1>9. LockIsUsed'
  <2> SUFFICES ASSUME NEW x \in Socket, (~Dead(x) /\ x \notin dropped /\ m_writeLock[x] = 1)'
               PROVE  InFlight(x)'
    BY DEF LockIsUsed
  <2>1. CASE x = s
    <3>1. send'[s] > 0
      BY <1>0, <1>1, <1>4, <2>1 DEF Typed, Dead
    <3> QED
      BY <2>1, <3>1 DEF InFlight
  <2>2. CASE x # s
    <3>1. m_writeLock[x] = 1 /\ send'[x] = send[x]
      BY <1>0, <1>4, <2>2 DEF Typed
    <3>2. InFlight(x)
      BY <1>1, <3>1 DEF Inv, LockIsUsed, Dead
    <3> QED
      BY <1>1, <1>7, <2>2, <3>1, <3>2 DEF InFlight
  <2> QED
    BY <2>1, <2>2
<1>10. ClosedIsDisconnected' /\ NoDoubleUse'
  BY <1>1, <1>4 DEF Inv, ClosedIsDisconnected, NoDoubleUse
<1> QED
  BY <1>4, <1>5, <1>6, <1>8, <1>9, <1>10 DEF Inv


LEMMA SendStep ==
  ASSUME Inv, NEW t \in Thread, Send(t)
  PROVE  Inv'
<1> USE DEF users, kernel, counts, socket, manager, closing
<1> DEFINE s == sock[t]
<1>0. Typed /\ Lists /\ OneWriter
  BY DEF Inv
<1>1. At(t, "send") /\ todo[t] # <<>> /\ (\A k : At(t, k) => k = "send") /\ Has(t, "send")
  BY <1>0, HeadFacts DEF Send
<1>2. s \in Socket
  BY <1>0, <1>1 DEF Lists, OnSocket
<1>3. WriteOnly /\ len' = len /\ len \in [Thread -> Nat]
  BY <1>0 DEF Send, Typed
<1>4. writeBuffer' \in [Socket -> Int]
  BY <1>0 DEF Send, Typed
<1>5. CASE AcquireSendLock(s) /\ WriteCallback(t, s, writeBuffer[s] + 1, Locked(s))
  <2>1. m_writeLock[s] = 0 /\ Locked(s) = 1
    BY <1>5 DEF AcquireSendLock, Locked
  <2>2. /\ \A u \in Thread : ~Writes(u, s)
        /\ s \notin writeEvent /\ \A c \in port : ~(c.socket = s /\ c.event = "write")
    BY <1>0, <1>2, <2>1 DEF OneWriter
  <2>3. send[s] = 0
    BY <1>0, <1>2, <2>1 DEF OneWriter, Typed
  <2>4. \A x \in Socket : ~Writes(t, x)
    BY <1>1 DEF Writes
  <2>5. writeBuffer[s] + 1 \in Int
    BY <1>0, <1>2 DEF Typed
  <2>6. WriteCallback(t, s, writeBuffer[s] + 1, 1)
    BY <1>5, <2>1
  <2> HIDE DEF s
  <2>7. DEFINE n == writeBuffer[s] + 1
  <2> HIDE DEF n
  <2> QED
    BY <1>1, <1>2, <1>3, <1>4, <2>2, <2>3, <2>4, <2>5, <2>6, WriteStep DEF s, n
<1>6. CASE Quiet(t, s, m_writeLock[s])
  <2>1. m_writeLock' = m_writeLock
    BY <1>0, <1>2, <1>6 DEF Quiet, Typed
  <2>2. <<>> \in Prefix /\ <<>> # <<"send">>
    BY DEF Prefix
  <2>3. UNCHANGED <<m_connected, m_deleted, events, _sockets, tokill, accepted, known, recv,
                    send, port, closed, dropped>>
    BY <1>3, <1>6 DEF WriteOnly, Quiet, events
  <2>4. Lists' /\ Moved(t)
    BY <1>0, <1>1, <1>6, <2>2, <2>3, ThenStep DEF Quiet, Return
  <2> QED
    BY <1>0, <1>1, <1>3, <1>4, <2>1, <2>3, <2>4, QuietStep DEF Typed
<1> QED
  BY <1>5, <1>6 DEF Send

LEMMA WrittenStep ==
  ASSUME Inv, NEW t \in Thread, HandleWritten(t)
  PROVE  Inv'
<1> DEFINE s == sock[t]
           n == Rest(s, len[t])
<1>0. Typed /\ Lists /\ OneWriter
  BY DEF Inv
<1>1. /\ At(t, "written") /\ todo[t] # <<>> /\ (\A k : At(t, k) => k = "written")
      /\ Has(t, "written")
  BY <1>0, HeadFacts DEF HandleWritten
<1>2. s \in Socket
  BY <1>0, <1>1 DEF Lists, OnSocket
<1>3. Writes(t, s)
  BY <1>1 DEF Writes
<1>4. /\ m_writeLock[s] = 1 /\ send[s] = 0 /\ s \notin writeEvent
      /\ (\A c \in port : ~(c.socket = s /\ c.event = "write"))
      /\ (\A u \in Thread : Writes(u, s) => u = t)
  BY <1>0, <1>2, <1>3 DEF OneWriter
<1>5. \A x \in Socket : Writes(t, x) => x = s
  BY DEF Writes
<1>6. n \in Int
  BY <1>0, <1>2 DEF Typed, Rest
<1>7. WriteOnly /\ len' \in [Thread -> Nat] /\ writeBuffer' \in [Socket -> Int]
  <2> HIDE DEF n
  <2> QED
    BY <1>0, <1>6 DEF HandleWritten, Typed, n
<1>8. WriteCallback(t, s, n, 1) \/ Quiet(t, s, 0)
  BY <1>4 DEF HandleWritten, DecSendLock
<1> HIDE DEF n
<1> QED
  BY <1>1, <1>2, <1>4, <1>5, <1>6, <1>7, <1>8, WriteStep DEF s


LEMMA DeletedStep ==
  ASSUME Inv, NEW w \in Worker, NEW c \in port, HandleDeleted(w, c)
  PROVE  Inv'
<1> USE DEF users, kernel, counts, socket, manager, closing, thread
<1>0. Typed /\ Lists /\ OneReader /\ OneWriter
  BY DEF Inv
<1>1. /\ port' = port \ {c} /\ c.socket \in m_deleted
      /\ UNCHANGED <<m_connected, m_deleted, m_writeLock, events, writeBuffer, _sockets, len,
                     tokill, accepted, known, recv, send, closed, dropped, todo, sock>>
  BY DEF HandleDeleted, Completed, WorkerOnly, events
<1>2. Typed'
  BY <1>0, <1>1 DEF Typed, events
<1>3. Lists'
  BY <1>0, <1>1 DEF Lists, Once, Alone, OnSocket, Ordered, Has
<1>4. \A u \in Thread, x \in Socket : (Reads(u, x)' <=> Reads(u, x)) /\ (Writes(u, x)' <=> Writes(u, x))
  BY <1>1 DEF Reads, Writes, Has, At
<1>5. OneReader'
  BY <1>0, <1>1, <1>4, ReadFrame DEF events
<1>6. OneWriter'
  BY <1>0, <1>1, <1>4, WriteFrame DEF events
<1>7. LockIsUsed'
  BY <1>1, <1>4 DEF Inv, LockIsUsed, InFlight, Dead
<1>8. ClosedIsDisconnected' /\ NoDoubleUse'
  BY <1>1 DEF Inv, ClosedIsDisconnected, NoDoubleUse, events
<1> QED
  BY <1>2, <1>3, <1>5, <1>6, <1>7, <1>8 DEF Inv

(* A completed read goes to the worker that takes it. *)
LEMMA ReadCompleteStep ==
  ASSUME Inv, NEW w \in Worker, NEW c \in port, HandleReadComplete(w, c)
  PROVE  Inv'
<1> USE DEF users, kernel, counts, socket, manager, closing
<1> DEFINE s == c.socket
           ls == AfterRead(c.len)
<1>0. Typed /\ Lists /\ OneReader /\ OneWriter /\ w \in Thread
  BY DEF Inv, Thread
<1>1. /\ port' = port \ {c} /\ c.event = "read" /\ readEvent' = readEvent \ {s} /\ todo[w] = <<>>
      /\ todo' = [todo EXCEPT ![w] = ls] /\ sock' = [sock EXCEPT ![w] = s]
      /\ UNCHANGED <<m_connected, m_deleted, m_writeLock, writeEvent, doubleUse, writeBuffer,
                     _sockets, len, tokill, accepted, known, recv, send, closed, dropped>>
  BY DEF HandleReadComplete, Completed, WorkerOnly, Begin, Idle
<1>2. s \in Socket /\ s \in accepted /\ s \notin recv
  BY <1>0, <1>1 DEF OneReader, Typed
<1>3. ls \in Beginning /\ ls # <<"written">>
  BY DEF AfterRead, Beginning, Delete
<1>4. /\ Lists' /\ Others(w)
      /\ todo' \in [Thread -> Seq(Label)] /\ sock' \in [Thread -> accepted' \cup {NULL}]
      /\ \A x \in Socket : Reads(w, x)' => x = s
      /\ \A x \in Socket : ~Writes(w, x)'
  <2>1. accepted' \subseteq Socket /\ s \in accepted' \cup {NULL}
    BY <1>0, <1>1, <1>2 DEF Typed
  <2> HIDE DEF ls, s
  <2> QED
    BY <1>0, <1>1, <1>2, <1>3, <2>1, BeginStep
<1>5. Typed'
  BY <1>0, <1>1, <1>4 DEF Typed
<1>6. \A u \in Thread \ {w}, x \in Socket : (Reads(u, x)' <=> Reads(u, x)) /\ (Writes(u, x)' <=> Writes(u, x))
  BY <1>4 DEF Others, Reads, Writes, Has, At
<1>7. \A u \in Thread, x \in Socket :
        Reads(u, x)' => \/ u # w /\ Reads(u, x) /\ x # s
                        \/ u = w /\ x = s
  <2>1. \A u \in Thread : ~Reads(u, s)
    BY <1>0, <1>1, <1>2 DEF OneReader
  <2> QED
    BY <1>4, <1>6, <2>1
<1>8. \A d \in port' : d \in port /\ (d.event = "read" => d.socket # s)
  BY <1>0, <1>1 DEF OneReader
<1>9. OneReader'
  BY <1>0, <1>1, <1>2, <1>7, <1>8 DEF OneReader
<1>10. \A u \in Thread, x \in Socket : Writes(u, x)' <=> Writes(u, x)
  <2>1. \A x \in Socket : ~Writes(w, x)
    BY <1>1 DEF Writes, At
  <2> QED
    BY <1>4, <1>6, <2>1
<1>11. OneWriter'
  BY <1>0, <1>1, <1>8, <1>10, WriteFrame
<1>12. LockIsUsed'
  BY <1>1, <1>10 DEF Inv, LockIsUsed, InFlight, Dead
<1>13. ClosedIsDisconnected' /\ NoDoubleUse'
  BY <1>1 DEF Inv, ClosedIsDisconnected, NoDoubleUse
<1> QED
  BY <1>4, <1>5, <1>9, <1>11, <1>12, <1>13 DEF Inv

(* A completed write goes to the worker that takes it. *)
LEMMA WriteCompleteStep ==
  ASSUME Inv, NEW w \in Worker, NEW c \in port, HandleWriteComplete(w, c)
  PROVE  Inv'
<1> USE DEF users, kernel, counts, socket, manager, closing
<1> DEFINE s == c.socket
           ls == <<"written">>
<1>0. Typed /\ Lists /\ OneReader /\ OneWriter /\ w \in Thread
  BY DEF Inv, Thread
<1>1. /\ port' = port \ {c} /\ c.event = "write" /\ writeEvent' = writeEvent \ {s} /\ todo[w] = <<>>
      /\ todo' = [todo EXCEPT ![w] = ls] /\ sock' = [sock EXCEPT ![w] = s]
      /\ len' = [len EXCEPT ![w] = c.len]
      /\ UNCHANGED <<m_connected, m_deleted, m_writeLock, readEvent, doubleUse, writeBuffer,
                     _sockets, tokill, accepted, known, recv, send, closed, dropped>>
  BY DEF HandleWriteComplete, Completed, WorkerOnly, Begin, Idle
<1>2. s \in Socket /\ m_writeLock[s] = 1 /\ send[s] = 0 /\ s \in accepted /\ c.len \in Nat
  BY <1>0, <1>1 DEF OneWriter, Typed
<1>3. ls \in Beginning
  BY DEF Beginning
<1>4. /\ Lists' /\ Others(w)
      /\ todo' \in [Thread -> Seq(Label)] /\ sock' \in [Thread -> accepted' \cup {NULL}]
      /\ \A x \in Socket : ~Reads(w, x)'
      /\ \A x \in Socket : Writes(w, x)' => x = s
  <2>1. accepted' \subseteq Socket /\ s \in accepted' \cup {NULL}
    BY <1>0, <1>1, <1>2 DEF Typed
  <2>2. ls # <<"setupRead", "add">> /\ ls # <<"onRead", "setupRead">>
    OBVIOUS
  <2> HIDE DEF ls, s
  <2> QED
    BY <1>0, <1>1, <1>2, <1>3, <2>1, <2>2, BeginStep
<1>5. Typed'
  BY <1>0, <1>1, <1>2, <1>4 DEF Typed
<1>6. \A u \in Thread \ {w}, x \in Socket : (Reads(u, x)' <=> Reads(u, x)) /\ (Writes(u, x)' <=> Writes(u, x))
  BY <1>4 DEF Others, Reads, Writes, Has, At
<1>7. \A u \in Thread, x \in Socket :
        Writes(u, x)' => \/ u # w /\ Writes(u, x) /\ x # s
                         \/ u = w /\ x = s
  <2>1. \A u \in Thread : ~Writes(u, s)
    BY <1>0, <1>1, <1>2 DEF OneWriter
  <2> QED
    BY <1>4, <1>6, <2>1
<1>8. \A d \in port' : d \in port /\ (d.event = "write" => d.socket # s)
  BY <1>0, <1>1 DEF OneWriter
<1>9. OneWriter'
  BY <1>0, <1>1, <1>2, <1>7, <1>8 DEF OneWriter
<1>10. \A u \in Thread, x \in Socket : Reads(u, x)' => Reads(u, x)
  BY <1>4, <1>6
<1>11. OneReader'
  BY <1>0, <1>1, <1>8, <1>10, ReadFrame
<1>12. LockIsUsed'
  <2> SUFFICES ASSUME NEW x \in Socket, (~Dead(x) /\ x \notin dropped /\ m_writeLock[x] = 1)'
               PROVE  InFlight(x)'
    BY DEF LockIsUsed
  <2>1. CASE x = s
    <3>1. todo'[w] = ls /\ sock'[w] = s
      BY <1>0, <1>1 DEF Typed
    <3>2. Writes(w, s)'
      BY <3>1 DEF Writes, At
    <3> QED
      BY <1>0, <2>1, <3>2 DEF InFlight
  <2>2. CASE x # s
    <3>1. InFlight(x)
      BY <1>1 DEF Inv, LockIsUsed, Dead
    <3>2. \A u \in Thread : Writes(u, x) => Writes(u, x)'
      <4>1. ~Writes(w, x)
        BY <1>1 DEF Writes, At
      <4> QED
        BY <1>6, <4>1
    <3>3. \A d \in port : d.socket = x => d \in port'
      BY <1>1, <2>2
    <3> QED
      BY <1>1, <3>1, <3>2, <3>3 DEF InFlight
  <2> QED
    BY <2>1, <2>2
<1>13. ClosedIsDisconnected' /\ NoDoubleUse'
  BY <1>1 DEF Inv, ClosedIsDisconnected, NoDoubleUse
<1> QED
  BY <1>4, <1>5, <1>9, <1>11, <1>12, <1>13 DEF Inv


(* The kernel and its failures leave the threads alone. *)
LEMMA KernelSteps ==
  ASSUME Inv, NEW s \in Socket, Kernel(s) \/ \E w \in Worker : IgnoreFailure(w, s)
  PROVE  Inv'
<1> USE DEF users, kernel, counts, socket, manager, closing, thread, events
<1>0. Typed /\ Lists /\ OneReader /\ OneWriter /\ NULL \notin Socket
  BY NullIsNothing DEF Inv
<1>1. UNCHANGED <<m_connected, m_deleted, m_writeLock, readEvent, writeEvent, doubleUse,
                  writeBuffer, _sockets, len, tokill, accepted, known, closed, todo, sock>>
  BY DEF Kernel, Arrives, WriteEnds, ConnectionDrops, KernelOnly, IgnoreFailure
<1>2. Lists' /\ ClosedIsDisconnected' /\ NoDoubleUse'
  BY <1>1 DEF Inv, Lists, Once, Alone, OnSocket, Ordered, Has, ClosedIsDisconnected, NoDoubleUse
<1>3. \A u \in Thread, x \in Socket : (Reads(u, x)' <=> Reads(u, x)) /\ (Writes(u, x)' <=> Writes(u, x))
  BY <1>1 DEF Reads, Writes, Has, At
<1>4. CASE Arrives(s)
  <2>1. PICK c \in [socket : {s}, event : {"read"}, len : {0, 1}] : port' = port \cup {c}
    BY <1>4 DEF Arrives
  <2>2. s \in recv /\ recv' = recv \ {s} /\ UNCHANGED <<send, dropped>> /\ s \in accepted
    BY <1>0, <1>4 DEF Arrives, Typed
  <2>3. c.socket = s /\ c.event = "read" /\ c \in [socket : Socket, event : {"read", "write"}, len : Nat]
    BY <2>1
  <2>4. Typed'
    BY <1>0, <1>1, <2>1, <2>2, <2>3 DEF Typed
  <2>5. OneReader'
    BY <1>0, <1>1, <1>3, <2>1, <2>2, <2>3 DEF OneReader
  <2>6. OneWriter'
    BY <1>0, <1>1, <1>3, <2>1, <2>2, <2>3, WriteFrame
  <2>7. LockIsUsed'
    BY <1>1, <1>3, <2>1, <2>2 DEF Inv, LockIsUsed, InFlight, Dead
  <2> QED
    BY <1>2, <2>4, <2>5, <2>6, <2>7 DEF Inv
<1>5. CASE WriteEnds(s)
  <2> DEFINE c == [socket |-> s, event |-> "write", len |-> send[s]]
  <2>1. /\ send[s] > 0 /\ send' = [send EXCEPT ![s] = 0] /\ port' = port \cup {c}
        /\ UNCHANGED <<recv, dropped>>
    BY <1>5 DEF WriteEnds
  <2>2. c \in [socket : Socket, event : {"read", "write"}, len : Nat]
    BY <1>0 DEF Typed
  <2>3. c.socket = s /\ c.event = "write"
    OBVIOUS
  <2> HIDE DEF c
  <2>4. Typed'
    BY <1>0, <1>1, <2>1, <2>2 DEF Typed
  <2>5. OneReader'
    BY <1>0, <1>1, <1>3, <2>1, <2>3, ReadFrame
  <2>6. OneWriter'
    <3>1. /\ m_writeLock[s] = 1 /\ (\A u \in Thread : ~Writes(u, s))
          /\ \A d \in port : ~(d.socket = s /\ d.event = "write")
      BY <1>0, <2>1 DEF OneWriter, Typed
    <3>2. send'[s] = 0 /\ \A x \in Socket : send'[x] = send[x] \/ send'[x] = 0
      BY <1>0, <2>1 DEF Typed
    <3>3. \A d \in port : d.socket \in Socket /\ send[d.socket] \in Nat
      BY <1>0 DEF Typed
    <3>4. \A x \in Socket : send[x] \in Nat
      BY <1>0 DEF Typed
    <3> QED
      BY <1>0, <1>1, <1>3, <2>1, <2>3, <3>1, <3>2, <3>3, <3>4 DEF OneWriter
  <2>7. LockIsUsed'
    <3> SUFFICES ASSUME NEW x \in Socket, (~Dead(x) /\ x \notin dropped /\ m_writeLock[x] = 1)'
                 PROVE  InFlight(x)'
      BY DEF LockIsUsed
    <3>1. InFlight(x)
      BY <1>1, <2>1 DEF Inv, LockIsUsed, Dead
    <3>2. x # s => send'[x] = send[x]
      BY <1>0, <2>1 DEF Typed
    <3> QED
      BY <1>3, <2>1, <2>3, <3>1, <3>2 DEF InFlight
  <2> QED
    BY <1>2, <2>4, <2>5, <2>6, <2>7 DEF Inv
<1>6. CASE ConnectionDrops(s)
  <2>1. dropped' = dropped \cup {s} /\ UNCHANGED <<recv, send, port>>
    BY <1>6 DEF ConnectionDrops
  <2>2. Typed'
    BY <1>0, <1>1, <2>1 DEF Typed
  <2>3. OneReader' /\ OneWriter'
    BY <1>0, <1>1, <1>3, <2>1, ReadFrame, WriteFrame
  <2>4. LockIsUsed'
    BY <1>1, <1>3, <2>1 DEF Inv, LockIsUsed, InFlight, Dead
  <2> QED
    BY <1>2, <2>2, <2>3, <2>4 DEF Inv
\* The lock of a write that failed stays taken: its connection is gone.
<1>7. ASSUME NEW w \in Worker, IgnoreFailure(w, s)
      PROVE  Inv'
  <2>1. UNCHANGED <<port, dropped>> /\ s \in closed \cup dropped
    BY <1>7 DEF IgnoreFailure
  <2>2. \/ recv' = recv \ {s} /\ send' = send
        \/ send' = [send EXCEPT ![s] = 0] /\ recv' = recv
    BY <1>7 DEF IgnoreFailure
  <2>3. send' \in [Socket -> Nat] /\ \A x \in Socket : send'[x] = send[x] \/ (send'[x] = 0 /\ x = s)
    <3>1. send \in [Socket -> Nat]
      BY <1>0 DEF Typed
    <3>2. CASE send' = send
      BY <3>1, <3>2
    <3>3. CASE send' = [send EXCEPT ![s] = 0]
      BY <3>1, <3>3
    <3> QED
      BY <2>2, <3>2, <3>3
  <2>4. Typed'
    <3>1. recv' \subseteq accepted
      BY <1>0, <2>2 DEF Typed
    <3> QED
      BY <1>0, <1>1, <2>1, <2>3, <3>1 DEF Typed
  <2>5. OneReader'
    BY <1>0, <1>1, <1>3, <2>1, <2>2, ReadFrame
  <2>6. OneWriter'
    <3>1. \A d \in port : d.socket \in Socket
      BY <1>0 DEF Typed
    <3> QED
      BY <1>0, <1>1, <1>3, <2>1, <2>3, <3>1 DEF OneWriter
  <2>7. LockIsUsed'
    <3> SUFFICES ASSUME NEW x \in Socket, (~Dead(x) /\ x \notin dropped /\ m_writeLock[x] = 1)'
                 PROVE  InFlight(x)'
      BY DEF LockIsUsed
    <3>1. x # s
      BY <1>1, <2>1 DEF Inv, ClosedIsDisconnected, Dead
    <3>2. InFlight(x)
      BY <1>1, <2>1 DEF Inv, LockIsUsed, Dead
    <3> QED
      BY <1>3, <2>1, <2>3, <3>1, <3>2 DEF InFlight
  <2> QED
    BY <1>2, <2>4, <2>5, <2>6, <2>7 DEF Inv
<1> QED
  BY <1>4, <1>5, <1>6, <1>7 DEF Kernel

(* Nothing refers to a socket that is not accepted yet. *)
LEMMA AcceptStep ==
  ASSUME Inv, NEW s \in Socket, Accept(s)
  PROVE  Inv'
<1> USE DEF users, kernel, counts, socket, manager, closing, events
<1> DEFINE t == Acceptor
           ls == <<"setupRead", "add">>
<1>0. Typed /\ Lists /\ OneReader /\ OneWriter /\ t \in Thread /\ NULL \notin Socket
  BY NullIsNothing DEF Inv, Thread
<1>1. /\ todo[t] = <<>> /\ todo' = [todo EXCEPT ![t] = ls] /\ sock' = [sock EXCEPT ![t] = s]
      /\ s \notin accepted /\ accepted' = accepted \cup {s} /\ m_connected' = m_connected \cup {s}
      /\ UNCHANGED <<m_deleted, m_writeLock, readEvent, writeEvent, doubleUse, writeBuffer,
                     _sockets, len, tokill, known, recv, send, port, closed, dropped>>
  BY DEF Accept, Begin, Idle
<1>2. ls \in Beginning
  BY DEF Beginning
<1>3. /\ Lists' /\ Others(t)
      /\ todo' \in [Thread -> Seq(Label)] /\ sock' \in [Thread -> accepted' \cup {NULL}]
      /\ \A x \in Socket : Reads(t, x)' => x = s
      /\ \A x \in Socket : ~Writes(t, x)'
  <2>1. /\ accepted \subseteq accepted' /\ accepted' \subseteq Socket /\ s \in accepted' \cup {NULL}
        /\ m_connected' \cap (accepted \cup {NULL}) \subseteq m_connected
    BY <1>0, <1>1 DEF Typed
  <2>2. ls # <<"written">>
    OBVIOUS
  <2> HIDE DEF ls, t
  <2> QED
    BY <1>0, <1>1, <1>2, <2>1, <2>2, BeginStep
<1>4. Typed'
  BY <1>0, <1>1, <1>3 DEF Typed
<1>5. \A u \in Thread \ {t}, x \in Socket : (Reads(u, x)' <=> Reads(u, x)) /\ (Writes(u, x)' <=> Writes(u, x))
  BY <1>3 DEF Others, Reads, Writes, Has, At
<1>6. \A u \in Thread : sock[u] # s
  BY <1>0, <1>1 DEF Typed
<1>7. /\ s \notin recv /\ s \notin readEvent /\ m_writeLock[s] # 1
      /\ \A c \in port : c.socket # s
  BY <1>0, <1>1 DEF Typed, OneReader, OneWriter
<1>8. \A u \in Thread, x \in Socket :
        Reads(u, x)' => \/ u # t /\ Reads(u, x) /\ x # s
                        \/ u = t /\ x = s
  BY <1>3, <1>5, <1>6 DEF Reads
<1>9. OneReader'
  BY <1>0, <1>1, <1>7, <1>8 DEF OneReader
<1>10. \A u \in Thread, x \in Socket : Writes(u, x)' <=> Writes(u, x)
  <2>1. \A x \in Socket : ~Writes(t, x)
    BY <1>1 DEF Writes, At
  <2> QED
    BY <1>3, <1>5, <2>1
<1>11. OneWriter'
  BY <1>0, <1>1, <1>10, WriteFrame
<1>12. LockIsUsed'
  BY <1>1, <1>7, <1>10 DEF Inv, LockIsUsed, InFlight, Dead
<1>13. ClosedIsDisconnected' /\ NoDoubleUse'
  BY <1>0, <1>1 DEF Inv, ClosedIsDisconnected, NoDoubleUse, Typed
<1> QED
  BY <1>3, <1>4, <1>9, <1>11, <1>12, <1>13 DEF Inv

-----------------------------------------------------------------------------
(* Before the first connection is accepted. *)
THEOREM InitInv == Init => Inv
<1> SUFFICES ASSUME Init PROVE Inv
  OBVIOUS
<1> USE DEF Init
<1>1. \A t \in Thread : todo[t] = <<>> /\ sock[t] = NULL /\ Len(todo[t]) = 0
  OBVIOUS
<1>2. Typed
  <2>1. todo \in [Thread -> Seq(Label)] /\ sock \in [Thread -> accepted \cup {NULL}]
    <3>1. <<>> \in Seq(Label)
      OBVIOUS
    <3> QED
      BY <3>1
  <2>2. /\ len \in [Thread -> Nat] /\ send \in [Socket -> Nat] /\ writeBuffer \in [Socket -> Int]
        /\ m_writeLock \in [Socket -> {0, 1}]
    OBVIOUS
  <2>3. \A s \in Socket : m_writeLock[s] # 1
    OBVIOUS
  <2> QED
    BY <2>1, <2>2, <2>3 DEF Typed
<1>3. Lists
  BY <1>1 DEF Lists, Once, Alone, OnSocket, Ordered, Has
<1>4. OneReader /\ OneWriter
  BY <1>1 DEF OneReader, OneWriter, Reads, Writes, Has, At
<1>5. LockIsUsed /\ ClosedIsDisconnected /\ NoDoubleUse
  BY DEF LockIsUsed, ClosedIsDisconnected, NoDoubleUse
<1> QED
  BY <1>2, <1>3, <1>4, <1>5 DEF Inv

(* Every step of the threads, the kernel, the peers and the application keeps *)
(* one reader and one writer of a socket.                                     *)
THEOREM NextInv == Inv /\ [Next]_vars => Inv'
<1> SUFFICES ASSUME Inv, [Next]_vars PROVE Inv'
  OBVIOUS
<1>1. ASSUME NEW t \in Thread, Step(t) PROVE Inv'
  BY <1>1, SendStep, WrittenStep, ReadStep, CallSteps DEF Step
<1>2. ASSUME NEW w \in Worker, Handle(w) PROVE Inv'
  BY <1>2, DeletedStep, ReadCompleteStep, WriteCompleteStep DEF Handle
<1>3. ASSUME NEW w \in Worker, NEW s \in Socket, IgnoreFailure(w, s) PROVE Inv'
  BY <1>3, KernelSteps
<1>4. ASSUME NEW s \in Socket, Accept(s) \/ Kernel(s) PROVE Inv'
  BY <1>4, AcceptStep, KernelSteps
<1>5. ASSUME NEW a \in App, NEW s \in Socket, CallSend(a, s) PROVE Inv'
  BY <1>5, ManagerSteps
<1>6. CASE AddSocket \/ CloseAll \/ MainStep
  BY <1>6, ManagerSteps
<1>7. CASE UNCHANGED vars
  <2> USE <1>7 DEF vars, socket, events, manager, thread, closing, users, kernel, counts
  <2>1. Typed' /\ ClosedIsDisconnected' /\ NoDoubleUse'
    BY DEF Inv, Typed, ClosedIsDisconnected, NoDoubleUse
  <2>2. Lists'
    BY DEF Inv, Lists, Once, Alone, OnSocket, Ordered, Has
  <2>3. OneReader' /\ OneWriter'
    BY DEF Inv, OneReader, OneWriter, Reads, Writes, Has, At
  <2>4. LockIsUsed'
    BY DEF Inv, LockIsUsed, InFlight, Dead, Writes, At
  <2> QED
    BY <2>1, <2>2, <2>3, <2>4 DEF Inv
<1> QED
  BY <1>1, <1>2, <1>3, <1>4, <1>5, <1>6, <1>7 DEF Next

(* The strengthening both properties rest on holds in every state. *)
THEOREM Invariant == Spec => []Inv
BY InitInv, NextInv, PTL DEF Spec

(* No event is posted while the kernel or a completion still has it           *)
(* (OverlappedStruct::Mark in SetupReadEvent and WriteCallback).              *)
THEOREM EventsAreFree == Spec => []NoDoubleUse
<1>1. Inv => NoDoubleUse
  BY DEF Inv
<1> QED
  BY <1>1, Invariant, PTL

(* The send lock of a living socket is taken exactly while a write of it is   *)
(* on its way: a message that finds it taken will be sent by the completion   *)
(* (BurstPush, HandleWriteComplete).                                          *)
THEOREM LockFollowsWrite == Spec => []LockMatchesWrite
<1>1. Inv => LockMatchesWrite
  <2> SUFFICES ASSUME Inv, NEW s \in Socket, ~Dead(s), s \notin dropped
               PROVE  m_writeLock[s] = 1 <=> Writing(s)
    BY DEF LockMatchesWrite
  <2>1. Writing(s) <=> InFlight(s)
    BY WritersAre DEF Inv
  <2>2. m_writeLock[s] = 1 => InFlight(s)
    BY DEF Inv, LockIsUsed
  <2>3. InFlight(s) => m_writeLock[s] = 1
    BY DEF Inv, OneWriter, InFlight
  <2> QED
    BY <2>1, <2>2, <2>3
<1> QED
  BY <1>1, Invariant, PTL

==============================================================================
