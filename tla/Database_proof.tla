--------------------------- MODULE Database_proof ---------------------------
(* Connections and waits of Database, for any clients, queries, buffers and *)
(* connections, with or without spurious wakeups and failing statements.    *)
EXTENDS Database, SequenceTheorems, TLAPS

(* What each thread has at hand where it is: a thread about to send has a   *)
(* statement of an item, the query thread keeps its connection in its loop, *)
(* and only a thread that has left its loop drains.                         *)
AtHand ==
  /\ \A t \in Thread : pc[t] = "send" => work[t] # <<>>
  /\ \A t \in Thread : work[t] # <<>> => item[t] \in Item
  /\ \A t \in Thread : pc[t] = "push" => item[t] \in Item
  /\ pc[QueryThread] \in {"pop", "wait"} => con[QueryThread] # NULL
  /\ \A t \in Consumer : pc[t] \in {"start", "pop", "wait"} => t \notin draining
  /\ \A t \in Consumer : pc[t] = "drain" => t \in draining
  /\ \A t \in Consumer : pc[t] = "connect" /\ t \in draining => work[t] # <<>>
  /\ con[Main] = NULL

IInv == TypeOK /\ OwnConnection /\ WaitsForWork /\ AtHand

LEMMA RowsType == ASSUME NEW i \in Item PROVE Rows(i) \in Seq(Row) /\ Rows(i) \in Seq(Statement)
<1>1. PICK n \in Nat : n = IF i \in Buffer THEN BufferSize ELSE 1
  BY Sizes
<1>2. Rows(i) = [k \in 1..n |-> <<i, k>>]
  BY <1>1 DEF Rows
<1>3. \A k \in 1..n : <<i, k>> \in Row /\ <<i, k>> \in Statement
  BY DEF Row, Statement
<1>. QED
  BY <1>2, <1>3

LEMMA StatementsType == ASSUME NEW i \in Item
                        PROVE Statements(i) \in Seq(Statement)
<1>1. <<BEGIN>> \in Seq(Statement) /\ <<COMMIT>> \in Seq(Statement) /\ <<>> \in Seq(Statement)
  BY DEF Statement
<1>2. Rows(i) \in Seq(Statement)
  BY RowsType
<1>3. Transaction(i) \in Seq(Statement)
  BY <1>1, <1>2 DEF Transaction
<1>. QED
  BY <1>2, <1>3 DEF Statements

LEMMA QueryHasRow == ASSUME NEW q \in Query PROVE Statements(q) # <<>>
<1>1. q \notin Buffer
  BY DistinctItems
<1>2. Statements(q) = [k \in 1..1 |-> <<q, k>>]
  BY <1>1 DEF Statements, Rows
<1>3. Len(Statements(q)) = 1
  BY <1>2
<1>. QED
  BY <1>3

(* What a statement makes of a session and a table has their types. *)
LEMMA EffectType == ASSUME NEW s \in Statement, NEW p \in Seq(Row) \cup {NULL}, NEW b \in Seq(Row)
                    PROVE /\ Effect(s, p, b).session \in Seq(Row) \cup {NULL}
                          /\ Effect(s, p, b).table \in Seq(Row)
<1>1. Committed(p, b) \in Seq(Row)
  BY ConcatProperties DEF Committed
<1>2. CASE s = BEGIN
  <2>1. Effect(s, p, b) = [session |-> <<>>, table |-> Committed(p, b)]
    BY <1>2, DistinctWords DEF Effect
  <2>2. <<>> \in Seq(Row)
    OBVIOUS
  <2>. QED
    BY <1>1, <2>1, <2>2
<1>3. CASE s = COMMIT
  <2>1. Effect(s, p, b) = [session |-> NULL, table |-> Committed(p, b)]
    BY <1>3, DistinctWords DEF Effect
  <2>. QED
    BY <1>1, <2>1
<1>4. CASE s \notin {BEGIN, COMMIT}
  <2>1. s \in Row
    BY <1>4 DEF Statement
  <2>2. Effect(s, p, b) = IF p = NULL THEN [session |-> NULL, table |-> Append(b, s)]
                          ELSE [session |-> Append(p, s), table |-> b]
    BY <1>4 DEF Effect
  <2>. QED
    BY <2>1, <2>2
<1>. QED
  BY <1>2, <1>3, <1>4

LEMMA FailedType == ASSUME NEW s \in Statement, NEW p \in Seq(Row) \cup {NULL}, NEW b \in Seq(Row),
                           NEW r \in Failed(s, p, b)
                    PROVE r.session \in Seq(Row) \cup {NULL} /\ r.table \in Seq(Row)
<1>1. CASE r \in Refused(s, p, b)
  BY <1>1 DEF Refused
<1>2. CASE r \notin Refused(s, p, b)
  <2>1. PICK a \in Lost(s, p, b) : r \in _Reconnect(s, a)
    BY <1>2 DEF Failed
  <2>2. a.session = NULL /\ a.table \in Seq(Row)
    BY <2>1, EffectType DEF Lost
  <2>3. r = a \/ r = Effect(s, a.session, a.table)
    BY <2>1 DEF _Reconnect
  <2>. QED
    BY <2>2, <2>3, EffectType
<1>. QED
  BY <1>1, <1>2

-----------------------------------------------------------------------------
LEMMA Initially == Init => IInv
<1>. SUFFICES ASSUME Init PROVE IInv
  OBVIOUS
<1>. USE DistinctThreads, DistinctItems, NullIsNothing, Sizes DEF Consumer, Thread, Item
<1>1. TypeOK
  BY DEF Init, TypeOK
<1>2. OwnConnection
  BY DEF Init, OwnConnection
<1>3. WaitsForWork
  BY DEF Init, WaitsForWork
<1>4. AtHand
  BY DEF Init, AtHand
<1>. QED
  BY <1>1, <1>2, <1>3, <1>4 DEF IInv

(* The calls of a client: an item to push, or its statements to send. *)
LEMMA CallStep == ASSUME IInv, NEW c \in Client, NEW i \in Item, NEW w \in Seq(Statement),
                         NEW l \in {"push", "connect"}, NewCall(c, i), Take(c, i, w, l),
                         executed' \in [Client -> Seq(Query)], UNCHANGED Others
                  PROVE IInv'
<1>. USE DistinctThreads, DistinctItems, NullIsNothing DEF Consumer, Thread
<1>1. TypeOK'
  BY DEF IInv, TypeOK, NewCall, Take, Goto, Others, queues, flags, server
<1>2. OwnConnection'
  BY DEF IInv, TypeOK, OwnConnection, NewCall, Take, Goto, Others, queues, flags, server
<1>3. WaitsForWork'
  BY DEF IInv, TypeOK, WaitsForWork, NewCall, Take, Goto, Others, queues, flags, server
<1>4. AtHand'
  BY DEF IInv, TypeOK, AtHand, NewCall, Take, Goto, Others, queues, flags, server
<1>. QED
  BY <1>1, <1>2, <1>3, <1>4 DEF IInv
LEMMA ExecuteStep == ASSUME IInv, NEW c \in Client, NEW q \in Query, Execute(c, q) PROVE IInv'
<1>1. q \in Item
  BY DEF Item
<1>2. Statements(q) \in Seq(Statement) /\ <<>> \in Seq(Statement)
  BY <1>1, StatementsType
<1>3. executed' \in [Client -> Seq(Query)]
  BY DEF IInv, TypeOK, Execute
<1>4. NewCall(c, q) /\ UNCHANGED Others
  BY DEF Execute
<1>5. Take(c, q, <<>>, "push") \/ Take(c, q, Statements(q), "connect")
  BY DEF Execute
<1>. QED
  BY <1>1, <1>2, <1>3, <1>4, <1>5, CallStep
LEMMA WaitExecuteStep == ASSUME IInv, NEW c \in Client, NEW q \in Query, WaitExecute(c, q) PROVE IInv'
<1>1. q \in Item /\ Statements(q) \in Seq(Statement)
  BY StatementsType DEF Item
<1>2. executed' \in [Client -> Seq(Query)]
  BY DEF IInv, TypeOK, WaitExecute
<1>. QED
  BY <1>1, <1>2, CallStep DEF WaitExecute
LEMMA AddQueryBufferStep == ASSUME IInv, NEW c \in Client, NEW b \in Buffer, AddQueryBuffer(c, b) PROVE IInv'
<1>1. b \in Item /\ Statements(b) \in Seq(Statement) /\ <<>> \in Seq(Statement)
  BY StatementsType DEF Item
<1>2. executed' \in [Client -> Seq(Query)]
  BY DEF IInv, TypeOK, AddQueryBuffer
<1>3. NewCall(c, b) /\ UNCHANGED Others
  BY DEF AddQueryBuffer
<1>4. CASE Take(c, b, <<>>, "push") \/ Take(c, b, Statements(b), "connect")
  BY <1>1, <1>2, <1>3, <1>4, CallStep
<1>5. CASE UNCHANGED <<pc, item, work>>
  BY <1>1, <1>2, <1>3, <1>5 DEF IInv, TypeOK, OwnConnection, WaitsForWork, AtHand, NewCall, Others,
     queues, flags, server
<1>. QED
  BY <1>4, <1>5 DEF AddQueryBuffer
LEMMA PushStep == ASSUME IInv, NEW c \in Client, Push(c) PROVE IInv'
<1>. USE DistinctThreads, DistinctItems, NullIsNothing DEF Consumer, Thread, Item
<1>1. TypeOK'
  <2>. DEFINE x == ConsumerOf(item[c])
  <2>1. /\ item[c] \in Item /\ x \in Consumer
        /\ x = ExecuteThread => item[c] \in Query
        /\ x = QueryThread => item[c] \in Buffer
    BY DEF IInv, AtHand, Push, ConsumerOf
  <2>2. queue' = [queue EXCEPT ![x] = Append(queue[x], item[c])] /\ waiting' \subseteq waiting
    BY DEF Push, Signalled
  <2>. HIDE DEF x
  <2>3. /\ queue' \in [Consumer -> Seq(Item)]
        /\ queue'[ExecuteThread] \in Seq(Query) /\ queue'[QueryThread] \in Seq(Buffer)
    BY <2>1, <2>2 DEF IInv, TypeOK
  <2>. QED
    BY <2>2, <2>3 DEF IInv, TypeOK, Push, Take, Goto, flags, server
<1>2. OwnConnection'
  BY DEF IInv, TypeOK, OwnConnection, WaitsForWork, AtHand, Push, ConsumerOf, Signalled, vars, thread, queues, flags, server, Goto, Take
<1>3. WaitsForWork'
  BY DEF IInv, TypeOK, OwnConnection, WaitsForWork, AtHand, Push, ConsumerOf, Signalled, vars, thread, queues, flags, server, Goto, Take
<1>4. AtHand'
  BY DEF IInv, TypeOK, OwnConnection, WaitsForWork, AtHand, Push, ConsumerOf, Signalled, vars, thread, queues, flags, server, Goto, Take
<1>. QED
  BY <1>1, <1>2, <1>3, <1>4 DEF IInv


(* The use of a connection. *)
LEMMA ConnectStep == ASSUME IInv, NEW t \in Client \cup Consumer, GetFreeConnection(t) PROVE IInv'
<1>. USE DistinctThreads, DistinctItems, NullIsNothing DEF Consumer, Thread, Item
<1>1. TypeOK'
  BY DEF IInv, TypeOK, OwnConnection, WaitsForWork, AtHand, GetFreeConnection, AfterConnect, vars, thread, queues, flags, server, Goto, Take
<1>2. OwnConnection'
  BY DEF IInv, TypeOK, OwnConnection, WaitsForWork, AtHand, GetFreeConnection, AfterConnect, vars, thread, queues, flags, server, Goto, Take
<1>3. WaitsForWork'
  BY DEF IInv, TypeOK, OwnConnection, WaitsForWork, AtHand, GetFreeConnection, AfterConnect, vars, thread, queues, flags, server, Goto, Take
<1>4. AtHand'
  BY DEF IInv, TypeOK, OwnConnection, WaitsForWork, AtHand, GetFreeConnection, AfterConnect, vars, thread, queues, flags, server, Goto, Take
<1>. QED
  BY <1>1, <1>2, <1>3, <1>4 DEF IInv

LEMMA ReleaseStep == ASSUME IInv, NEW t \in Client \cup Consumer, Release(t) PROVE IInv'
<1>. USE DistinctThreads, DistinctItems, NullIsNothing DEF Consumer, Thread, Item
<1>1. TypeOK'
  BY DEF IInv, TypeOK, OwnConnection, WaitsForWork, AtHand, Release, AfterRelease, vars, thread, queues, flags, server, Goto, Take
<1>2. OwnConnection'
  BY DEF IInv, TypeOK, OwnConnection, WaitsForWork, AtHand, Release, AfterRelease, vars, thread, queues, flags, server, Goto, Take
<1>3. WaitsForWork'
  BY DEF IInv, TypeOK, OwnConnection, WaitsForWork, AtHand, Release, AfterRelease, vars, thread, queues, flags, server, Goto, Take
<1>4. AtHand'
  <2>1. /\ \A x \in Thread : pc'[x] = IF x = t THEN AfterRelease(t) ELSE pc[x]
        /\ \A x \in Thread : con'[x] = IF x = t THEN NULL ELSE con[x]
        /\ UNCHANGED <<work, item, waiting>>
    BY DEF IInv, TypeOK, Release, Goto, queues
  <2>2. draining' = draining \cup ({t} \cap Consumer)
    BY DEF Release
  <2>3. AfterRelease(t) = IF t \in Consumer THEN "drain" ELSE "idle"
    BY DEF AfterRelease
  <2>. QED
    BY <2>1, <2>2, <2>3 DEF IInv, AtHand
<1>. QED
  BY <1>1, <1>2, <1>3, <1>4 DEF IInv


(* The two threads that empty the queues. *)
LEMMA RunStep == ASSUME IInv, Run PROVE IInv'
<1>. USE DistinctThreads, DistinctItems, NullIsNothing DEF Consumer, Thread, Item
<1>1. TypeOK'
  BY DEF IInv, TypeOK, OwnConnection, WaitsForWork, AtHand, Run, vars, thread, queues, flags, server, Goto, Take
<1>2. OwnConnection'
  BY DEF IInv, TypeOK, OwnConnection, WaitsForWork, AtHand, Run, vars, thread, queues, flags, server, Goto, Take
<1>3. WaitsForWork'
  BY DEF IInv, TypeOK, OwnConnection, WaitsForWork, AtHand, Run, vars, thread, queues, flags, server, Goto, Take
<1>4. AtHand'
  BY DEF IInv, TypeOK, OwnConnection, WaitsForWork, AtHand, Run, vars, thread, queues, flags, server, Goto, Take
<1>. QED
  BY <1>1, <1>2, <1>3, <1>4 DEF IInv

LEMMA SpuriousStep == ASSUME IInv, NEW t \in Consumer, SpuriousWakeup(t) PROVE IInv'
<1>. USE DistinctThreads, DistinctItems, NullIsNothing DEF Consumer, Thread, Item
<1>1. TypeOK'
  BY DEF IInv, TypeOK, OwnConnection, WaitsForWork, AtHand, SpuriousWakeup, vars, thread, queues, flags, server, Goto, Take
<1>2. OwnConnection'
  BY DEF IInv, TypeOK, OwnConnection, WaitsForWork, AtHand, SpuriousWakeup, vars, thread, queues, flags, server, Goto, Take
<1>3. WaitsForWork'
  BY DEF IInv, TypeOK, OwnConnection, WaitsForWork, AtHand, SpuriousWakeup, vars, thread, queues, flags, server, Goto, Take
<1>4. AtHand'
  BY DEF IInv, TypeOK, OwnConnection, WaitsForWork, AtHand, SpuriousWakeup, vars, thread, queues, flags, server, Goto, Take
<1>. QED
  BY <1>1, <1>2, <1>3, <1>4 DEF IInv

LEMMA StopStep == ASSUME IInv, NEW t \in Consumer, Stop(t) PROVE IInv'
<1>. USE DistinctThreads, DistinctItems, NullIsNothing DEF Consumer, Thread, Item
<1>1. TypeOK'
  BY DEF IInv, TypeOK, OwnConnection, WaitsForWork, AtHand, Stop, vars, thread, queues, flags, server, Goto, Take
<1>2. OwnConnection'
  BY DEF IInv, TypeOK, OwnConnection, WaitsForWork, AtHand, Stop, vars, thread, queues, flags, server, Goto, Take
<1>3. WaitsForWork'
  BY DEF IInv, TypeOK, OwnConnection, WaitsForWork, AtHand, Stop, vars, thread, queues, flags, server, Goto, Take
<1>4. AtHand'
  BY DEF IInv, TypeOK, OwnConnection, WaitsForWork, AtHand, Stop, vars, thread, queues, flags, server, Goto, Take
<1>. QED
  BY <1>1, <1>2, <1>3, <1>4 DEF IInv


ConsumerOnly == UNCHANGED <<con, busy, waiting, draining, flags, server, called, executed>>

LEMMA PoppedStep == ASSUME IInv, NEW t \in Consumer, queue[t] # <<>>, t \notin waiting,
                           pc[t] \in {"pop", "wait", "drain"}, Popped(t), ConsumerOnly
                    PROVE IInv'
<1>. USE DistinctThreads, DistinctItems, NullIsNothing DEF Consumer, Thread
<1>. DEFINE i == Head(queue[t])
<1>1. /\ i \in Item
      /\ t = ExecuteThread => i \in Query
      /\ Tail(queue[t]) \in Seq(Item)
      /\ Tail(queue[ExecuteThread]) \in Seq(Query) \/ t # ExecuteThread
      /\ Tail(queue[QueryThread]) \in Seq(Buffer) \/ t # QueryThread
  BY HeadTailProperties DEF IInv, TypeOK, Item
<1>2. Statements(i) \in Seq(Statement) /\ (t = ExecuteThread => Statements(i) # <<>>)
  BY <1>1, StatementsType, QueryHasRow
<1>3. queue' = [queue EXCEPT ![t] = Tail(queue[t])]
  BY DEF Popped
<1>4. con[t] # NULL \/ t = ExecuteThread \/ pc[t] = "drain"
  BY DEF IInv, AtHand
<1>5. CASE Statements(i) = <<>>
  <2>. DEFINE l == IF t \in draining THEN "drain" ELSE IF LeavesLoop(t) THEN "release" ELSE "pop"
  <2>1. pc' = [pc EXCEPT ![t] = l] /\ UNCHANGED <<item, work>>
    BY <1>5 DEF Popped, Goto
  <2>2. t = QueryThread
    BY <1>2, <1>5
  <2>3. l \in {"drain", "release", "pop"} /\ (l = "drain" <=> t \in draining)
    OBVIOUS
  <2>4. pc[t] = "drain" <=> t \in draining
    BY DEF IInv, AtHand
  <2>. HIDE DEF l
  <2>5. TypeOK'
    BY <1>1, <1>3, <2>1, <2>3 DEF IInv, TypeOK, ConsumerOnly, flags, server
  <2>6. OwnConnection'
    BY <2>1, <2>2, <2>3, <2>4, <1>4 DEF IInv, TypeOK, OwnConnection, ConsumerOnly
  <2>7. WaitsForWork'
    BY <1>3, <2>1 DEF IInv, TypeOK, WaitsForWork, ConsumerOnly
  <2>8. AtHand'
    BY <2>1, <2>2, <2>3, <2>4, <1>4 DEF IInv, TypeOK, AtHand, ConsumerOnly
  <2>. QED
    BY <2>5, <2>6, <2>7, <2>8 DEF IInv
<1>6. CASE Statements(i) # <<>>
  <2>. DEFINE l == IF con[t] = NULL THEN "connect" ELSE "send"
  <2>1. /\ pc' = [pc EXCEPT ![t] = l]
        /\ item' = [item EXCEPT ![t] = i]
        /\ work' = [work EXCEPT ![t] = Statements(i)]
    BY <1>6 DEF Popped, Take, Goto
  <2>3. l \in {"connect", "send"} /\ (l = "connect" <=> con[t] = NULL)
    OBVIOUS
  <2>. HIDE DEF l, i
  <2>5. TypeOK'
    BY <1>1, <1>2, <1>3, <2>1, <2>3 DEF IInv, TypeOK, ConsumerOnly, flags, server
  <2>6. OwnConnection'
    BY <2>1, <2>3 DEF IInv, TypeOK, OwnConnection, ConsumerOnly
  <2>7. WaitsForWork'
    BY <1>3, <2>1 DEF IInv, TypeOK, WaitsForWork, ConsumerOnly
  <2>8. AtHand'
    BY <1>1, <1>6, <2>1, <2>3 DEF IInv, TypeOK, AtHand, ConsumerOnly
  <2>. QED
    BY <2>5, <2>6, <2>7, <2>8 DEF IInv
<1>. QED
  BY <1>5, <1>6
LEMMA PopStep == ASSUME IInv, NEW t \in Consumer, Pop(t) PROVE IInv'
<1>. USE DistinctThreads, DistinctItems, NullIsNothing DEF Consumer, Thread
<1>1. t \notin waiting /\ pc[t] = "pop"
  BY DEF IInv, WaitsForWork, Pop
<1>2. CASE queue[t] # <<>>
  BY <1>1, <1>2, PoppedStep DEF Pop, ConsumerOnly
<1>3. CASE queue[t] = <<>>
  <2>1. /\ waiting' = waiting \cup {t} /\ pc' = [pc EXCEPT ![t] = "wait"]
        /\ UNCHANGED <<item, work, con, busy, queue, draining, flags, server, called, executed>>
    BY <1>3 DEF Pop, Goto
  <2>. QED
    BY <1>1, <1>3, <2>1 DEF IInv, TypeOK, OwnConnection, WaitsForWork, AtHand, flags, server
<1>. QED
  BY <1>2, <1>3
LEMMA WokenStep == ASSUME IInv, NEW t \in Consumer, Woken(t) PROVE IInv'
<1>. USE DistinctThreads, DistinctItems, NullIsNothing DEF Consumer, Thread
<1>1. t \notin waiting /\ pc[t] = "wait"
  BY DEF Woken
<1>2. CASE queue[t] # <<>>
  BY <1>1, <1>2, PoppedStep DEF Woken, ConsumerOnly
<1>3. CASE queue[t] = <<>>
  <2>. DEFINE l == IF con[t] = NULL THEN "connect" ELSE "release"
  <2>1. /\ pc' = [pc EXCEPT ![t] = l]
        /\ UNCHANGED <<item, work, con, busy, queue, waiting, draining, flags, server, called, executed>>
    BY <1>3 DEF Woken, NothingPopped, Goto
  <2>2. l \in {"connect", "release"} /\ (l = "connect" <=> con[t] = NULL)
    OBVIOUS
  <2>. HIDE DEF l
  <2>. QED
    BY <1>1, <1>3, <2>1, <2>2 DEF IInv, TypeOK, OwnConnection, WaitsForWork, AtHand, flags, server
<1>. QED
  BY <1>2, <1>3
LEMMA PopNoWaitStep == ASSUME IInv, NEW t \in Consumer, PopNoWait(t) PROVE IInv'
<1>. USE DistinctThreads, DistinctItems, NullIsNothing DEF Consumer, Thread
<1>1. t \notin waiting /\ pc[t] = "drain"
  BY DEF IInv, WaitsForWork, PopNoWait
<1>2. CASE queue[t] # <<>>
  BY <1>1, <1>2, PoppedStep DEF PopNoWait, ConsumerOnly
<1>3. CASE queue[t] = <<>>
  <2>1. /\ pc' = [pc EXCEPT ![t] = "stop"]
        /\ UNCHANGED <<item, work, con, busy, queue, waiting, draining, flags, server, called, executed>>
    BY <1>3 DEF PopNoWait, Goto
  <2>. QED
    BY <1>1, <1>3, <2>1 DEF IInv, TypeOK, OwnConnection, WaitsForWork, AtHand, flags, server
<1>. QED
  BY <1>2, <1>3

(* A statement is sent, or fails. *)
LEMMA SendStep == ASSUME IInv, NEW t \in Client \cup Consumer, _SendQuery(t) PROVE IInv'
<1>. USE DistinctThreads, DistinctItems, NullIsNothing DEF Consumer, Thread
<1>. DEFINE s == Head(work[t])  c == con[t]  last == Len(work[t]) = 1
            l == IF last THEN AfterSend(t) ELSE "send"
<1>1. /\ pc[t] = "send" /\ work[t] \in Seq(Statement) /\ work[t] # <<>>
      /\ item[t] \in Item /\ c \in Connection
  BY DEF IInv, TypeOK, OwnConnection, AtHand, _SendQuery
<1>2. s \in Statement /\ Tail(work[t]) \in Seq(Statement)
  BY <1>1, HeadTailProperties
<1>3. last <=> Tail(work[t]) = <<>>
  <2>1. Len(Tail(work[t])) = Len(work[t]) - 1 /\ Len(work[t]) \in Nat
    BY <1>1
  <2>2. Tail(work[t]) = <<>> <=> Len(Tail(work[t])) = 0
    BY <1>2, EmptySeq
  <2>. QED
    BY <2>1, <2>2
<1>4. PICK r : /\ r \in Sent(s, session[c], table) \cup Failed(s, session[c], table)
               /\ session' = [session EXCEPT ![c] = r.session]
               /\ table' = r.table
  BY DEF _SendQuery
<1>5. r.session \in Seq(Row) \cup {NULL} /\ r.table \in Seq(Row)
  <2>1. session[c] \in Seq(Row) \cup {NULL} /\ table \in Seq(Row)
    BY <1>1 DEF IInv, TypeOK
  <2>. QED
    BY <1>2, <1>4, <2>1, EffectType, FailedType DEF Sent
<1>6. /\ work' = [work EXCEPT ![t] = Tail(work[t])]
      /\ item' = [item EXCEPT ![t] = IF last THEN NULL ELSE item[t]]
      /\ pc' = [pc EXCEPT ![t] = l]
  BY DEF _SendQuery, Goto
<1>7. UNCHANGED <<con, busy, queue, waiting, draining, ThreadRunning, m_threadRunning, qt, called, executed>>
  BY DEF _SendQuery, queues, flags
<1>8. faults' \in 0..MaxFaults /\ touched' \subseteq Item
  BY <1>1, Sizes DEF IInv, TypeOK, _SendQuery
<1>9. /\ l \in {"send", "pop", "release"} /\ (l = "send" <=> ~last)
      /\ l = "pop" => t \in Consumer /\ t \notin draining
  BY DEF AfterSend
<1>. HIDE DEF l, last, s, c
<1>10. TypeOK'
  BY <1>1, <1>2, <1>4, <1>5, <1>6, <1>7, <1>8, <1>9 DEF IInv, TypeOK
<1>11. OwnConnection'
  BY <1>1, <1>6, <1>7, <1>9 DEF IInv, TypeOK, OwnConnection, c
<1>12. WaitsForWork'
  BY <1>1, <1>6, <1>7 DEF IInv, TypeOK, WaitsForWork
<1>13. AtHand'
  BY <1>1, <1>3, <1>6, <1>7, <1>9 DEF IInv, TypeOK, AtHand, c
<1>. QED
  BY <1>10, <1>11, <1>12, <1>13 DEF IInv

(* EndThreads. *)
LEMMA EndThreadsLemma == ASSUME IInv, EndThreads \/ EndThreadsStep PROVE IInv'
<1>. USE DistinctThreads, DistinctItems, NullIsNothing DEF Consumer, Thread, Item
<1>1. TypeOK'
  <2>1. CASE EndThreads
    BY <2>1 DEF IInv, TypeOK, OwnConnection, WaitsForWork, AtHand, EndThreads, Broadcast, EndThreadsOnly, Goto,
       flags, server
  <2>2. CASE TestRunning
    BY <2>2 DEF IInv, TypeOK, OwnConnection, WaitsForWork, AtHand, TestRunning, Broadcast, EndThreadsOnly, Goto,
       flags, server
  <2>3. CASE BroadcastQueryBuffer
    BY <2>3 DEF IInv, TypeOK, OwnConnection, WaitsForWork, AtHand, BroadcastQueryBuffer, Broadcast, EndThreadsOnly, Goto,
       flags, server
  <2>4. CASE BroadcastQueriesQueue
    BY <2>4 DEF IInv, TypeOK, OwnConnection, WaitsForWork, AtHand, BroadcastQueriesQueue, Broadcast, EndThreadsOnly, Goto,
       flags, server
  <2>5. CASE TestAgain
    BY <2>5 DEF IInv, TypeOK, OwnConnection, WaitsForWork, AtHand, TestAgain, Broadcast, EndThreadsOnly, Goto,
       flags, server
  <2>. QED
    BY <2>1, <2>2, <2>3, <2>4, <2>5 DEF EndThreadsStep
<1>2. OwnConnection'
  <2>1. CASE EndThreads
    BY <2>1 DEF IInv, TypeOK, OwnConnection, WaitsForWork, AtHand, EndThreads, Broadcast, EndThreadsOnly, Goto,
       flags, server
  <2>2. CASE TestRunning
    BY <2>2 DEF IInv, TypeOK, OwnConnection, WaitsForWork, AtHand, TestRunning, Broadcast, EndThreadsOnly, Goto,
       flags, server
  <2>3. CASE BroadcastQueryBuffer
    BY <2>3 DEF IInv, TypeOK, OwnConnection, WaitsForWork, AtHand, BroadcastQueryBuffer, Broadcast, EndThreadsOnly, Goto,
       flags, server
  <2>4. CASE BroadcastQueriesQueue
    BY <2>4 DEF IInv, TypeOK, OwnConnection, WaitsForWork, AtHand, BroadcastQueriesQueue, Broadcast, EndThreadsOnly, Goto,
       flags, server
  <2>5. CASE TestAgain
    BY <2>5 DEF IInv, TypeOK, OwnConnection, WaitsForWork, AtHand, TestAgain, Broadcast, EndThreadsOnly, Goto,
       flags, server
  <2>. QED
    BY <2>1, <2>2, <2>3, <2>4, <2>5 DEF EndThreadsStep
<1>3. WaitsForWork'
  BY DEF IInv, TypeOK, OwnConnection, WaitsForWork, AtHand, EndThreads, EndThreadsStep, TestRunning, BroadcastQueryBuffer, BroadcastQueriesQueue, TestAgain, Broadcast, EndThreadsOnly, vars, thread, queues, flags, server, Goto, Take
<1>4. AtHand'
  BY DEF IInv, TypeOK, OwnConnection, WaitsForWork, AtHand, EndThreads, EndThreadsStep, TestRunning, BroadcastQueryBuffer, BroadcastQueriesQueue, TestAgain, Broadcast, EndThreadsOnly, vars, thread, queues, flags, server, Goto, Take
<1>. QED
  BY <1>1, <1>2, <1>3, <1>4 DEF IInv

-----------------------------------------------------------------------------
LEMMA Inductive == IInv /\ [Next]_vars => IInv'
<1>. SUFFICES ASSUME IInv, [Next]_vars PROVE IInv'
  OBVIOUS
<1>1. CASE \E c \in Client : Call(c) \/ Push(c)
  BY <1>1, ExecuteStep, WaitExecuteStep, AddQueryBufferStep, PushStep DEF Call
<1>2. CASE \E t \in Client \cup Consumer : UseConnection(t)
  BY <1>2, ConnectStep, SendStep, ReleaseStep DEF UseConnection
<1>3. CASE \E t \in Consumer : Consume(t) \/ SpuriousWakeup(t)
  BY <1>3, PopStep, WokenStep, PopNoWaitStep, StopStep, SpuriousStep DEF Consume
<1>4. CASE Run
  BY <1>4, RunStep
<1>5. CASE EndThreads \/ EndThreadsStep
  BY <1>5, EndThreadsLemma
<1>6. CASE UNCHANGED vars
  BY <1>6 DEF IInv, TypeOK, OwnConnection, WaitsForWork, AtHand, vars, thread, queues, flags, server
<1>. QED
  BY <1>1, <1>2, <1>3, <1>4, <1>5, <1>6 DEF Next

LEMMA Invariant == Spec => []IInv
<1>. QED
  BY Initially, Inductive, PTL DEF Spec

(* The variables have their types whatever the constants are. *)
THEOREM Typed == Spec => []TypeOK
<1>1. IInv => TypeOK
  BY DEF IInv
<1>. QED
  BY <1>1, Invariant, PTL

(* Every connection is used by one thread at a time, the one that took it,   *)
(* and given back before its thread takes another or ends (Busy).            *)
THEOREM Exclusive == Spec => []OwnConnection
<1>1. IInv => OwnConnection
  BY DEF IInv
<1>. QED
  BY <1>1, Invariant, PTL

(* No wakeup is lost: a thread that waits for its queue finds nothing there,  *)
(* although push signals only an empty queue (FQueue).                       *)
THEOREM NoLostWakeup == Spec => []WaitsForWork
<1>1. IInv => WaitsForWork
  BY DEF IInv
<1>. QED
  BY <1>1, Invariant, PTL

-----------------------------------------------------------------------------
(* What a statement does to the rows of its session and of the table. *)
LEMMA EffectIs == ASSUME NEW s \in Statement, NEW p, NEW b
                  PROVE /\ s = BEGIN => Effect(s, p, b) = [session |-> <<>>, table |-> Committed(p, b)]
                        /\ s = COMMIT => Effect(s, p, b) = [session |-> NULL, table |-> Committed(p, b)]
                        /\ s \in Row => Effect(s, p, b) = IF p = NULL THEN [session |-> NULL, table |-> Append(b, s)]
                                                          ELSE [session |-> Append(p, s), table |-> b]
  BY DistinctWords DEF Effect

LEMMA CommittedRows == ASSUME NEW p \in Seq(Row) \cup {NULL}, NEW b \in Seq(Row)
                       PROVE /\ Committed(p, b) \in Seq(Row)
                             /\ p = NULL => Committed(p, b) = b
                             /\ p # NULL =>
                                  /\ p \in Seq(Row)
                                  /\ Len(Committed(p, b)) = Len(b) + Len(p)
                                  /\ \A x \in 1..(Len(b) + Len(p)) :
                                       Committed(p, b)[x] = IF x <= Len(b) THEN b[x] ELSE p[x - Len(b)]
<1>1. CASE p = NULL
  BY <1>1 DEF Committed
<1>2. CASE p # NULL
  <2>1. p \in Seq(Row) /\ Committed(p, b) = b \o p
    BY <1>2 DEF Committed
  <2>. QED
    BY <1>2, <2>1, ConcatProperties
<1>. QED
  BY <1>1, <1>2

(* The table grows at its end, by rows of the session or by the row sent;   *)
(* a session holds what it held and the row sent.                           *)
Grown(s, p, b, r) ==
  /\ \A x \in DOMAIN b : x \in DOMAIN r.table /\ r.table[x] = b[x]
  /\ \A x \in DOMAIN r.table : \/ x \in DOMAIN b
                               \/ s \in Row /\ r.table[x] = s
                               \/ p # NULL /\ \E y \in DOMAIN p : r.table[x] = p[y]
  /\ r.session # NULL => \A x \in DOMAIN r.session : \/ s \in Row /\ r.session[x] = s
                                                     \/ p # NULL /\ \E y \in DOMAIN p : r.session[x] = p[y]

LEMMA EffectGrown == ASSUME NEW s \in Statement, NEW p \in Seq(Row) \cup {NULL}, NEW b \in Seq(Row)
                     PROVE Grown(s, p, b, Effect(s, p, b))
<1>. DEFINE q == Committed(p, b)
<1>0. /\ \A x \in DOMAIN b : x \in DOMAIN q /\ q[x] = b[x]
      /\ \A x \in DOMAIN q : x \in DOMAIN b \/ (p # NULL /\ \E y \in DOMAIN p : q[x] = p[y])
  <2>1. CASE p = NULL
    BY <2>1, CommittedRows
  <2>2. CASE p # NULL
    <3>1. /\ p \in Seq(Row) /\ q \in Seq(Row) /\ Len(q) = Len(b) + Len(p)
          /\ \A x \in 1..Len(q) : q[x] = IF x <= Len(b) THEN b[x] ELSE p[x - Len(b)]
      BY <2>2, CommittedRows
    <3>. HIDE DEF q
    <3>2. DOMAIN b = 1..Len(b) /\ DOMAIN p = 1..Len(p) /\ DOMAIN q = 1..Len(q) /\ Len(b) \in Nat /\ Len(p) \in Nat
      BY <3>1
    <3>3. ASSUME NEW x \in DOMAIN q, x \notin DOMAIN b PROVE \E y \in DOMAIN p : q[x] = p[y]
      <4>1. x - Len(b) \in DOMAIN p /\ q[x] = p[x - Len(b)]
        BY <3>1, <3>2, <3>3
      <4>. QED
        BY <4>1
    <3>. QED
      BY <2>2, <3>1, <3>2, <3>3
  <2>. QED
    BY <2>1, <2>2
<1>. HIDE DEF q
<1>1. CASE s = BEGIN
  <2>1. Effect(s, p, b).table = q /\ Effect(s, p, b).session = <<>>
    BY <1>1, EffectIs DEF q
  <2>. QED
    BY <1>0, <2>1 DEF Grown
<1>2. CASE s = COMMIT
  <2>1. Effect(s, p, b).table = q /\ Effect(s, p, b).session = NULL
    BY <1>2, EffectIs DEF q
  <2>. QED
    BY <1>0, <2>1 DEF Grown
<1>3. CASE s \in Row
  <2>1. CASE p = NULL
    <3>1. Effect(s, p, b) = [session |-> NULL, table |-> Append(b, s)]
      BY <1>3, <2>1, EffectIs
    <3>. QED
      BY <1>3, <3>1 DEF Grown
  <2>2. CASE p # NULL
    <3>1. Effect(s, p, b) = [session |-> Append(p, s), table |-> b]
      BY <1>3, <2>2, EffectIs
    <3>. QED
      BY <1>3, <2>2, <3>1 DEF Grown
  <2>. QED
    BY <2>1, <2>2
<1>. QED
  BY <1>1, <1>2, <1>3 DEF Statement

LEMMA FailedGrown == ASSUME NEW s \in Statement, NEW p \in Seq(Row) \cup {NULL}, NEW b \in Seq(Row),
                            NEW r \in Failed(s, p, b)
                     PROVE Grown(s, p, b, r)
<1>1. CASE r \in Refused(s, p, b)
  BY <1>1 DEF Refused, Grown
<1>2. CASE r \notin Refused(s, p, b)
  <2>1. PICK a \in Lost(s, p, b) : r \in _Reconnect(s, a)
    BY <1>2 DEF Failed
  <2>2. a.session = NULL /\ (a.table = b \/ a.table = Effect(s, p, b).table)
    BY <2>1 DEF Lost
  <2>3. a.table \in Seq(Row)
    BY <2>2, EffectType
  <2>4. Grown(s, p, b, a)
    BY <2>2, EffectGrown DEF Grown
  <2>5. CASE r = a
    BY <2>4, <2>5
  <2>6. CASE r = Effect(s, NULL, a.table)
    <3>1. Grown(s, NULL, a.table, r)
      BY <2>3, <2>6, EffectGrown
    <3>. QED
      BY <2>4, <3>1 DEF Grown
  <2>. QED
    BY <2>1, <2>2, <2>5, <2>6 DEF _Reconnect
<1>. QED
  BY <1>1, <1>2

(* A row is in a session and a table once, or not at all. *)
OnceIn(r, p, b) ==
  /\ \A x, y \in DOMAIN b : b[x] = r /\ b[y] = r => x = y
  /\ p # NULL => /\ \A x, y \in DOMAIN p : p[x] = r /\ p[y] = r => x = y
                 /\ \A x \in DOMAIN p, y \in DOMAIN b : ~(p[x] = r /\ b[y] = r)
NotIn(r, p, b) == /\ \A x \in DOMAIN b : b[x] # r
                  /\ p # NULL => \A x \in DOMAIN p : p[x] # r

LEMMA EffectOnce == ASSUME NEW s \in Statement, NEW p \in Seq(Row) \cup {NULL}, NEW b \in Seq(Row),
                           NEW r \in Row, OnceIn(r, p, b), r = s => NotIn(r, p, b)
                    PROVE OnceIn(r, Effect(s, p, b).session, Effect(s, p, b).table)
<1>. DEFINE q == Committed(p, b)
<1>0. \A x, y \in DOMAIN q : q[x] = r /\ q[y] = r => x = y
  <2>1. CASE p = NULL
    BY <2>1, CommittedRows DEF OnceIn
  <2>2. CASE p # NULL
    <3>1. /\ p \in Seq(Row) /\ q \in Seq(Row) /\ Len(q) = Len(b) + Len(p)
          /\ \A x \in 1..Len(q) : q[x] = IF x <= Len(b) THEN b[x] ELSE p[x - Len(b)]
      BY <2>2, CommittedRows
    <3>. HIDE DEF q
    <3>2. DOMAIN b = 1..Len(b) /\ DOMAIN p = 1..Len(p) /\ DOMAIN q = 1..Len(q) /\ Len(b) \in Nat /\ Len(p) \in Nat
      BY <3>1
    <3>3. ASSUME NEW x \in DOMAIN q, NEW y \in DOMAIN q, q[x] = r, q[y] = r PROVE x = y
      <4>1. CASE x <= Len(b) /\ y <= Len(b)
        BY <3>1, <3>2, <3>3, <4>1 DEF OnceIn
      <4>2. CASE x <= Len(b) /\ ~(y <= Len(b))
        <5>1. x \in DOMAIN b /\ y - Len(b) \in DOMAIN p /\ b[x] = r /\ p[y - Len(b)] = r
          BY <3>1, <3>2, <3>3, <4>2
        <5>. QED
          BY <2>2, <5>1 DEF OnceIn
      <4>3. CASE ~(x <= Len(b)) /\ y <= Len(b)
        <5>1. y \in DOMAIN b /\ x - Len(b) \in DOMAIN p /\ b[y] = r /\ p[x - Len(b)] = r
          BY <3>1, <3>2, <3>3, <4>3
        <5>. QED
          BY <2>2, <5>1 DEF OnceIn
      <4>4. CASE ~(x <= Len(b)) /\ ~(y <= Len(b))
        <5>1. /\ y - Len(b) \in DOMAIN p /\ p[y - Len(b)] = r
              /\ x - Len(b) \in DOMAIN p /\ p[x - Len(b)] = r
          BY <3>1, <3>2, <3>3, <4>4
        <5>2. x - Len(b) = y - Len(b)
          BY <2>2, <5>1 DEF OnceIn
        <5>. QED
          BY <3>2, <3>3, <5>2
      <4>. QED
        BY <4>1, <4>2, <4>3, <4>4
    <3>. QED
      BY <3>3
  <2>. QED
    BY <2>1, <2>2
<1>. HIDE DEF q
<1>1. CASE s = BEGIN
  <2>1. Effect(s, p, b).table = q /\ Effect(s, p, b).session = <<>>
    BY <1>1, EffectIs DEF q
  <2>. QED
    BY <1>0, <2>1 DEF OnceIn
<1>2. CASE s = COMMIT
  <2>1. Effect(s, p, b).table = q /\ Effect(s, p, b).session = NULL
    BY <1>2, EffectIs DEF q
  <2>. QED
    BY <1>0, <2>1 DEF OnceIn
<1>3. CASE s \in Row
  <2>1. CASE p = NULL
    <3>1. Effect(s, p, b).session = NULL /\ Effect(s, p, b).table = Append(b, s)
      BY <1>3, <2>1, EffectIs
    <3>. QED
      BY <1>3, <2>1, <3>1 DEF OnceIn, NotIn
  <2>2. CASE p # NULL
    <3>1. Effect(s, p, b).session = Append(p, s) /\ Effect(s, p, b).table = b /\ p \in Seq(Row)
      BY <1>3, <2>2, EffectIs
    <3>. QED
      BY <1>3, <2>2, <3>1 DEF OnceIn, NotIn
  <2>. QED
    BY <2>1, <2>2
<1>. QED
  BY <1>1, <1>2, <1>3 DEF Statement

LEMMA FailedOnce == ASSUME NEW s \in Statement, NEW p \in Seq(Row) \cup {NULL}, NEW b \in Seq(Row),
                           NEW r \in Row, OnceIn(r, p, b), r # s, NEW e \in Failed(s, p, b)
                    PROVE OnceIn(r, e.session, e.table)
<1>1. CASE e \in Refused(s, p, b)
  BY <1>1 DEF Refused
<1>2. CASE e \notin Refused(s, p, b)
  <2>1. PICK a \in Lost(s, p, b) : e \in _Reconnect(s, a)
    BY <1>2 DEF Failed
  <2>2. a.session = NULL /\ (a.table = b \/ a.table = Effect(s, p, b).table)
    BY <2>1 DEF Lost
  <2>3. a.table \in Seq(Row)
    BY <2>2, EffectType
  <2>5. OnceIn(r, NULL, b)
    BY DEF OnceIn
  <2>6. OnceIn(r, Effect(s, p, b).session, Effect(s, p, b).table)
    BY EffectOnce
  <2>7. OnceIn(r, NULL, Effect(s, p, b).table)
    BY <2>6 DEF OnceIn
  <2>8. OnceIn(r, NULL, a.table)
    BY <2>2, <2>5, <2>7
  <2>4. e = a \/ e = Effect(s, NULL, a.table)
    BY <2>1, <2>2 DEF _Reconnect
  <2>. QED
    BY <2>2, <2>3, <2>4, <2>8, EffectOnce
<1>. QED
  BY <1>1, <1>2

(* The statements of an item hold its rows, each of them once. *)
LEMMA RowsAre == ASSUME NEW i \in Item
                 PROVE \E n \in Nat : /\ i \in Buffer => n = BufferSize
                                      /\ i \notin Buffer => n = 1
                                      /\ Rows(i) \in Seq(Row) /\ Len(Rows(i)) = n
                                      /\ \A k \in 1..n : Rows(i)[k] = <<i, k>>
<1>1. PICK n \in Nat : n = IF i \in Buffer THEN BufferSize ELSE 1
  BY Sizes
<1>2. Rows(i) = [k \in 1..n |-> <<i, k>>]
  BY <1>1 DEF Rows
<1>3. Len(Rows(i)) = n
  BY <1>2
<1>. QED
  BY <1>1, <1>2, <1>3, RowsType

LEMMA TransactionIs == ASSUME NEW b \in Buffer, BufferSize # 0
                       PROVE /\ Transaction(b) \in Seq(Statement)
                             /\ Len(Transaction(b)) = BufferSize + 2
                             /\ Transaction(b)[1] = BEGIN
                             /\ \A k \in 1..BufferSize : Transaction(b)[k + 1] = <<b, k>>
                             /\ Transaction(b)[BufferSize + 2] = COMMIT
<1>. DEFINE u == <<BEGIN>>  v == Rows(b)  w == <<COMMIT>>
<1>0. b \in Item /\ BufferSize \in Nat
  BY Sizes DEF Item
<1>1. u \in Seq(Statement) /\ Len(u) = 1 /\ w \in Seq(Statement) /\ Len(w) = 1 /\ u[1] = BEGIN /\ w[1] = COMMIT
  BY DEF Statement
<1>2. v \in Seq(Statement) /\ Len(v) = BufferSize /\ \A k \in 1..BufferSize : v[k] = <<b, k>>
  BY <1>0, RowsAre, RowsType
<1>3. Transaction(b) = (u \o v) \o w
  BY DEF Transaction
<1>. HIDE DEF u, v, w
<1>4. /\ u \o v \in Seq(Statement) /\ Len(u \o v) = BufferSize + 1
      /\ \A k \in 1..(BufferSize + 1) : (u \o v)[k] = IF k <= 1 THEN u[k] ELSE v[k - 1]
  <2>1. /\ u \o v \in Seq(Statement) /\ Len(u \o v) = Len(u) + Len(v)
        /\ \A k \in 1..(Len(u) + Len(v)) : (u \o v)[k] = IF k <= Len(u) THEN u[k] ELSE v[k - Len(u)]
    BY <1>1, <1>2, ConcatProperties
  <2>2. Len(u) + Len(v) = BufferSize + 1
    BY <1>0, <1>1, <1>2
  <2>. QED
    BY <1>1, <2>1, <2>2
<1>. DEFINE x == u \o v
<1>. HIDE DEF x
<1>5. /\ x \o w \in Seq(Statement) /\ Len(x \o w) = BufferSize + 2
      /\ \A k \in 1..(BufferSize + 2) : (x \o w)[k] = IF k <= BufferSize + 1 THEN x[k] ELSE w[k - (BufferSize + 1)]
  <2>1. x \in Seq(Statement) /\ Len(x) = BufferSize + 1
    BY <1>4 DEF x
  <2>2. /\ x \o w \in Seq(Statement) /\ Len(x \o w) = Len(x) + Len(w)
        /\ \A k \in 1..(Len(x) + Len(w)) : (x \o w)[k] = IF k <= Len(x) THEN x[k] ELSE w[k - Len(x)]
    BY <1>1, <2>1, ConcatProperties
  <2>3. Len(x) + Len(w) = BufferSize + 2
    BY <1>0, <1>1, <2>1
  <2>. QED
    BY <2>1, <2>2, <2>3
<1>6. /\ Transaction(b)[1] = BEGIN /\ Transaction(b)[BufferSize + 2] = COMMIT
  BY <1>0, <1>1, <1>3, <1>4, <1>5 DEF x
<1>7. ASSUME NEW k \in 1..BufferSize PROVE Transaction(b)[k + 1] = <<b, k>>
  <2>1. (x \o w)[k + 1] = x[k + 1] /\ x[k + 1] = v[k]
    BY <1>0, <1>4, <1>5 DEF x
  <2>. QED
    BY <1>2, <1>3, <2>1 DEF x
<1>. QED
  BY <1>3, <1>5, <1>6, <1>7 DEF x

LEMMA StatementRows == ASSUME NEW i \in Item
                       PROVE /\ \A x \in DOMAIN Statements(i) : Statements(i)[x] \in Row => Statements(i)[x][1] = i
                             /\ \A x, y \in DOMAIN Statements(i) :
                                  Statements(i)[x] \in Row /\ Statements(i)[x] = Statements(i)[y] => x = y
                             /\ i \in Query => \A x \in DOMAIN Statements(i) : Statements(i)[x] \in Row
                             /\ i \in Buffer => Statements(i) = Transaction(i)
<1>1. CASE i \notin Buffer
  <2>1. /\ Rows(i) \in Seq(Row) /\ Len(Rows(i)) = 1
        /\ \A k \in 1..1 : Rows(i)[k] = <<i, k>>
    BY <1>1, RowsAre
  <2>2. Statements(i) = Rows(i)
    BY <1>1 DEF Statements
  <2>3. DOMAIN Statements(i) = 1..1 /\ Statements(i)[1] = <<i, 1>> /\ Statements(i)[1] \in Row
    BY <2>1, <2>2
  <2>. QED
    BY <1>1, <2>3
<1>2. CASE i \in Buffer /\ BufferSize = 0
  BY <1>2, DistinctItems DEF Statements, Transaction
<1>3. CASE i \in Buffer /\ BufferSize # 0
  <2>. DEFINE w == Transaction(i)
  <2>1. Statements(i) = w /\ i \notin Query
    BY <1>3, DistinctItems DEF Statements
  <2>2. /\ w \in Seq(Statement) /\ Len(w) = BufferSize + 2 /\ w[1] = BEGIN /\ w[BufferSize + 2] = COMMIT
        /\ \A k \in 1..BufferSize : w[k + 1] = <<i, k>>
    BY <1>3, TransactionIs
  <2>. HIDE DEF w
  <2>3. ASSUME NEW x \in DOMAIN w, w[x] \in Row PROVE x - 1 \in 1..BufferSize /\ w[x] = <<i, x - 1>>
    <3>1. x # 1 /\ x # BufferSize + 2
      BY <2>2, <2>3, DistinctWords
    <3>2. x \in 1..(BufferSize + 2) /\ BufferSize \in Nat
      BY <2>2, Sizes
    <3>3. x - 1 \in 1..BufferSize /\ (x - 1) + 1 = x
      BY <3>1, <3>2
    <3>. QED
      BY <2>2, <3>3
  <2>4. ASSUME NEW x \in DOMAIN w, NEW y \in DOMAIN w, w[x] \in Row, w[x] = w[y] PROVE x = y
    <3>1. <<i, x - 1>> = <<i, y - 1>>
      BY <2>3, <2>4
    <3>2. x - 1 = y - 1 /\ x \in Int /\ y \in Int
      BY <2>2, <3>1
    <3>. QED
      BY <3>2
  <2>5. \A x \in DOMAIN w : w[x] \in Row => w[x][1] = i
    BY <2>3
  <2>6. w = Transaction(i)
    BY DEF w
  <2>. QED
    BY <2>1, <2>4, <2>5, <2>6
<1>. QED
  BY <1>1, <1>2, <1>3

-----------------------------------------------------------------------------
(* What the server has of a row, in the table or in an open transaction. *)
InTable(r) == \E x \in DOMAIN table : table[x] = r
InSession(c, r) == session[c] # NULL /\ \E x \in DOMAIN session[c] : session[c][x] = r
OnServer(r) == InTable(r) \/ \E c \in Connection : InSession(c, r)

(* An item is called once, and from then on one thread or one place of one  *)
(* queue has it, until it is done.                                          *)
OnePlace ==
  /\ \A t \in Thread : item[t] # NULL => item[t] \in called
  /\ \A t \in Consumer : \A x \in DOMAIN queue[t] : queue[t][x] \in called
  /\ \A r \in Row : OnServer(r) => r[1] \in called
  /\ \A t, u \in Thread : item[t] # NULL /\ item[t] = item[u] => t = u
  /\ \A t \in Consumer : \A x, y \in DOMAIN queue[t] : queue[t][x] = queue[t][y] => x = y
  /\ \A t \in Consumer : \A x \in DOMAIN queue[t] : \A u \in Thread : item[u] # queue[t][x]

(* Who has an item has statements of it to send, unless it is to be queued. *)
Working ==
  /\ \A t \in Thread : item[t] # NULL => \/ pc[t] = "push"
                                         \/ pc[t] \in {"connect", "send"} /\ work[t] # <<>>
  /\ \A t \in Thread : item[t] \in Query => \A x \in DOMAIN work[t] : work[t][x] \in Row

(* The server has no row yet of what is queued, or about to be, and none of *)
(* the rows that a thread has still to send.                                *)
Unsent ==
  /\ \A t \in Consumer : \A x \in DOMAIN queue[t] : \A r \in Row : OnServer(r) => r[1] # queue[t][x]
  /\ \A t \in Thread : pc[t] = "push" => \A r \in Row : OnServer(r) => r[1] # item[t]
  /\ \A t \in Thread : \A x \in DOMAIN work[t] : work[t][x] \in Row =>
       work[t][x][1] = item[t] /\ ~OnServer(work[t][x])
  /\ \A t \in Thread : \A x, y \in DOMAIN work[t] : work[t][x] \in Row /\ work[t][x] = work[t][y] => x = y

(* A row of an item without a failed statement is on the server once. *)
Once ==
  \A r \in Row : r[1] \notin touched =>
    /\ OnceIn(r, NULL, table)
    /\ \A c \in Connection : OnceIn(r, session[c], table)
    /\ \A c, d \in Connection : InSession(c, r) /\ InSession(d, r) => c = d

(* Statement s of thread t, and what is then in its session and the table. *)
Sending(t, s, r) ==
  /\ pc[t] = "send" /\ item[t] \in Item /\ con[t] \in Connection /\ busy[con[t]] = t
  /\ work[t] \in Seq(Statement) /\ work[t] # <<>> /\ s \in Statement /\ s = work[t][1]
  /\ \/ r = Effect(s, session[con[t]], table) /\ touched' = touched
     \/ r \in Failed(s, session[con[t]], table) /\ touched' = touched \cup {item[t]}
  /\ session' = [session EXCEPT ![con[t]] = r.session] /\ table' = r.table
  /\ work' = [work EXCEPT ![t] = Tail(work[t])] /\ Tail(work[t]) \in Seq(Statement)
  /\ Len(Tail(work[t])) = Len(work[t]) - 1
  /\ \A x \in 1..(Len(work[t]) - 1) : Tail(work[t])[x] = work[t][x + 1]
  /\ item' = [item EXCEPT ![t] = IF Tail(work[t]) = <<>> THEN NULL ELSE item[t]]
  /\ pc' = [pc EXCEPT ![t] = IF Tail(work[t]) = <<>> THEN AfterSend(t) ELSE "send"]
  /\ UNCHANGED <<con, busy, queues, draining, flags, called, executed>>

LEMMA SendFacts == ASSUME IInv, NEW t \in Client \cup Consumer, _SendQuery(t)
                   PROVE \E r : Sending(t, work[t][1], r)
<1>. USE DEF Consumer, Thread
<1>. DEFINE s == work[t][1]  p == session[con[t]]
<1>1. /\ pc[t] = "send" /\ work[t] \in Seq(Statement) /\ work[t] # <<>>
      /\ item[t] \in Item /\ con[t] \in Connection /\ busy[con[t]] = t
  BY DEF IInv, TypeOK, OwnConnection, AtHand, _SendQuery
<1>2. Head(work[t]) = s /\ s \in Statement
  BY <1>1
<1>3. /\ Tail(work[t]) \in Seq(Statement) /\ Len(Tail(work[t])) = Len(work[t]) - 1
      /\ \A x \in 1..(Len(work[t]) - 1) : Tail(work[t])[x] = work[t][x + 1]
  BY <1>1, HeadTailProperties
<1>4. Len(work[t]) = 1 <=> Tail(work[t]) = <<>>
  <2>1. Len(work[t]) \in Nat
    BY <1>1
  <2>2. Tail(work[t]) = <<>> <=> Len(Tail(work[t])) = 0
    BY <1>3, EmptySeq
  <2>. QED
    BY <1>3, <2>1, <2>2
<1>5. PICK r : /\ \/ r = Effect(s, p, table) /\ touched' = touched
                  \/ r \in Failed(s, p, table) /\ touched' = touched \cup {item[t]}
               /\ session' = [session EXCEPT ![con[t]] = r.session] /\ table' = r.table
  BY <1>2 DEF _SendQuery, Sent
<1>6. /\ work' = [work EXCEPT ![t] = Tail(work[t])]
      /\ item' = [item EXCEPT ![t] = IF Tail(work[t]) = <<>> THEN NULL ELSE item[t]]
      /\ pc' = [pc EXCEPT ![t] = IF Tail(work[t]) = <<>> THEN AfterSend(t) ELSE "send"]
      /\ UNCHANGED <<con, busy, queues, draining, flags, called, executed>>
  BY <1>4 DEF _SendQuery, Goto
<1>. QED
  BY <1>1, <1>2, <1>3, <1>5, <1>6 DEF Sending

LEMMA SendGrown == ASSUME IInv, NEW t \in Client \cup Consumer, NEW s, NEW r, Sending(t, s, r)
                   PROVE Grown(s, session[con[t]], table, r)
<1>1. session[con[t]] \in Seq(Row) \cup {NULL} /\ table \in Seq(Row) /\ s \in Statement
  BY DEF IInv, TypeOK, Sending
<1>. QED
  BY <1>1, EffectGrown, FailedGrown DEF Sending

LEMMA SendServer == ASSUME IInv, NEW t \in Client \cup Consumer, NEW s, NEW r, Sending(t, s, r)
                    PROVE /\ \A q \in Row : OnServer(q)' => OnServer(q) \/ q = s
                          /\ \A q \in Row : \A c \in Connection \ {con[t]} : InSession(c, q)' => InSession(c, q)
                          /\ \A q \in Row : InSession(con[t], q)' => InSession(con[t], q) \/ q = s
                          /\ \A q \in Row : InTable(q)' => InTable(q) \/ InSession(con[t], q) \/ q = s
<1>0. PICK c \in Connection : c = con[t] /\ con' = con
  BY DEF Sending
<1>1. Grown(s, session[c], table, r)
  BY <1>0, SendGrown
<1>2. session \in [Connection -> Seq(Row) \cup {NULL}]
  BY DEF Sending, IInv, TypeOK
<1>3. table' = r.table /\ session' = [session EXCEPT ![c] = r.session]
  BY <1>0 DEF Sending
<1>4. ASSUME NEW q \in Row, InTable(q)' PROVE InTable(q) \/ InSession(c, q) \/ q = s
  BY <1>1, <1>2, <1>3, <1>4 DEF Grown, InTable, InSession
<1>5. ASSUME NEW q \in Row, InSession(c, q)' PROVE InSession(c, q) \/ q = s
  BY <1>1, <1>2, <1>3, <1>5 DEF Grown, InSession
<1>6. \A q \in Row : \A d \in Connection \ {c} : InSession(d, q)' => InSession(d, q)
  BY <1>2, <1>3 DEF InSession
<1>7. ASSUME NEW q \in Row, OnServer(q)' PROVE OnServer(q) \/ q = s
  <2>1. CASE InTable(q)'
    BY <1>2, <1>4, <2>1 DEF OnServer
  <2>2. CASE \E d \in Connection : InSession(d, q)'
    BY <1>2, <1>5, <1>6, <2>2 DEF OnServer
  <2>. QED
    BY <1>7, <2>1, <2>2 DEF OnServer
<1>. QED
  BY <1>0, <1>4, <1>5, <1>6, <1>7

-----------------------------------------------------------------------------
(* Every step, by what it does to items: a client calls with one, a client  *)
(* queues its own, a consumer takes one from its queue or drops an empty    *)
(* buffer, a thread sends a statement, or all items stay where they are.    *)
Calling(c, i) ==
  /\ pc[c] = "idle" /\ i \in Item \ called /\ called' = called \cup {i}
  /\ item' = [item EXCEPT ![c] = i]
  /\ \/ work' = [work EXCEPT ![c] = <<>>] /\ pc' = [pc EXCEPT ![c] = "push"]
     \/ /\ work' = [work EXCEPT ![c] = Statements(i)] /\ Statements(i) # <<>>
        /\ pc' = [pc EXCEPT ![c] = "connect"]
  /\ \/ executed' = executed
     \/ /\ i \in Query /\ executed' = [executed EXCEPT ![c] = Append(executed[c], i)]
        /\ pc'[c] = "connect" => ~ThreadRunning
  /\ UNCHANGED <<con, busy, queue, session, table, touched, ThreadRunning>>

Pushing(c) ==
  /\ pc[c] = "push" /\ item[c] \in Item
  /\ item' = [item EXCEPT ![c] = NULL] /\ work' = [work EXCEPT ![c] = <<>>]
  /\ pc' = [pc EXCEPT ![c] = "idle"]
  /\ queue' = [queue EXCEPT ![ConsumerOf(item[c])] = Append(queue[ConsumerOf(item[c])], item[c])]
  /\ UNCHANGED <<con, busy, session, table, touched, called, executed, ThreadRunning>>

FromQueue(t) ==
  /\ pc[t] \in {"pop", "wait", "drain"} /\ queue[t] # <<>>
  /\ queue' = [queue EXCEPT ![t] = Tail(queue[t])]
  /\ UNCHANGED <<con, busy, session, table, touched, called, executed, ThreadRunning>>
Taking(t, i) ==
  /\ FromQueue(t) /\ i = Head(queue[t]) /\ Statements(i) # <<>>
  /\ item' = [item EXCEPT ![t] = i] /\ work' = [work EXCEPT ![t] = Statements(i)]
  /\ pc' = [pc EXCEPT ![t] = IF con[t] = NULL THEN "connect" ELSE "send"]
Dropping(t) ==
  /\ FromQueue(t) /\ t = QueryThread
  /\ UNCHANGED <<item, work>>
  /\ \E l \in {"drain", "release", "pop"} : pc' = [pc EXCEPT ![t] = l]

Staying ==
  /\ UNCHANGED <<item, work, queue, session, table, touched, executed>> /\ called \subseteq called'
  /\ \A t \in Thread : /\ item[t] # NULL => pc'[t] = pc[t] \/ (pc[t] = "connect" /\ pc'[t] = "send")
                       /\ pc[t] # "push" => pc'[t] # "push"
                       /\ pc[t] = "send" => con'[t] = con[t]
  /\ \A c \in Connection : busy[c] # NULL /\ item[busy[c]] # NULL => busy'[c] = busy[c]
  /\ pc[ExecuteThread] = "ended" => pc'[ExecuteThread] = "ended"
  /\ ThreadRunning' # ThreadRunning => pc'[ExecuteThread] = "ended" \/ ThreadRunning'

Move == \/ \E c \in Client : \E i \in Item : Calling(c, i)
        \/ \E c \in Client : Pushing(c)
        \/ \E t \in Consumer : \E i \in Item : Taking(t, i)
        \/ \E t \in Consumer : Dropping(t)
        \/ \E t \in Client \cup Consumer : \E s, r : Sending(t, s, r)
        \/ Staying

LEMMA BufferNotEmpty == ASSUME NEW b \in Buffer, BufferSize # 0 PROVE Statements(b) # <<>>
<1>1. Statements(b) = Transaction(b) /\ Len(Transaction(b)) = BufferSize + 2 /\ BufferSize \in Nat
  BY TransactionIs, Sizes DEF Statements
<1>. QED
  BY <1>1

LEMMA CallMoves == ASSUME IInv, Working, NEW c \in Client, Call(c)
                   PROVE (\E i \in Item : Calling(c, i)) \/ Staying
<1>. USE DistinctThreads, DistinctItems, NullIsNothing DEF Consumer, Thread
<1>1. ASSUME NEW q \in Query, Execute(c, q) PROVE Calling(c, q) /\ q \in Item
  BY <1>1, QueryHasRow DEF IInv, TypeOK, Execute, NewCall, Take, Goto, Others, queues, flags, server, Calling, Item
<1>2. ASSUME NEW q \in Query, WaitExecute(c, q) PROVE Calling(c, q) /\ q \in Item
  BY <1>2, QueryHasRow DEF IInv, TypeOK, WaitExecute, NewCall, Take, Goto, Others, queues, flags, server, Calling, Item
<1>3. ASSUME NEW b \in Buffer, AddQueryBuffer(c, b) PROVE (Calling(c, b) /\ b \in Item) \/ Staying
  <2>1. CASE Take(c, b, <<>>, "push")
    BY <1>3, <2>1 DEF IInv, TypeOK, AddQueryBuffer, NewCall, Take, Goto, Others, queues, flags, server, Calling, Item
  <2>2. CASE BufferSize # 0 /\ Take(c, b, Statements(b), "connect")
    BY <1>3, <2>2, BufferNotEmpty DEF IInv, TypeOK, AddQueryBuffer, NewCall, Take, Goto, Others, queues, flags, server,
       Calling, Item
  <2>3. CASE UNCHANGED <<pc, item, work>>
    BY <1>3, <2>3 DEF AddQueryBuffer, NewCall, Others, queues, flags, server, Staying
  <2>. QED
    BY <1>3, <2>1, <2>2, <2>3 DEF AddQueryBuffer
<1>. QED
  BY <1>1, <1>2, <1>3 DEF Call

LEMMA PushMoves == ASSUME IInv, NEW c \in Client, Push(c) PROVE Pushing(c)
  BY DEF IInv, AtHand, Push, Take, Goto, flags, server, Pushing, Thread

LEMMA ConnectionMoves == ASSUME IInv, Working, NEW t \in Client \cup Consumer, UseConnection(t)
                         PROVE (\E s, r : Sending(t, s, r)) \/ Staying
<1>. USE DistinctThreads, NullIsNothing DEF Consumer, Thread
<1>1. CASE GetFreeConnection(t)
  <2>1. item[t] # NULL => work[t] # <<>>
    BY <1>1 DEF Working, GetFreeConnection
  <2>2. t = ExecuteThread => pc[ExecuteThread] # "ended"
    BY <1>1 DEF GetFreeConnection
  <2>. QED
    BY <1>1, <2>1, <2>2 DEF IInv, TypeOK, GetFreeConnection, AfterConnect, Goto, queues, flags, server, Staying
<1>2. CASE Release(t)
  <2>1. item[t] = NULL /\ busy[con[t]] = t /\ con[t] # NULL
    BY <1>2 DEF Working, IInv, OwnConnection, Release
  <2>2. AfterRelease(t) \in {"drain", "idle"}
    BY DEF AfterRelease
  <2>. QED
    BY <1>2, <2>1, <2>2 DEF IInv, TypeOK, Release, Goto, queues, flags, server, Staying
<1>3. CASE _SendQuery(t)
  BY <1>3, SendFacts
<1>. QED
  BY <1>1, <1>2, <1>3 DEF UseConnection

LEMMA PoppedMoves == ASSUME IInv, NEW t \in Consumer, queue[t] # <<>>,
                            pc[t] \in {"pop", "wait", "drain"}, Popped(t),
                            UNCHANGED <<con, busy, draining, flags, server, called, executed>>
                     PROVE (\E i \in Item : Taking(t, i)) \/ Dropping(t)
<1>. USE DistinctThreads, DistinctItems DEF Consumer, Thread
<1>. DEFINE i == Head(queue[t])
<1>1. i \in Item /\ (t = ExecuteThread => i \in Query)
  BY HeadTailProperties DEF IInv, TypeOK, Item
<1>2. FromQueue(t)
  BY DEF Popped, FromQueue, flags, server
<1>3. CASE Statements(i) = <<>>
  <2>1. t = QueryThread
    BY <1>1, <1>3, QueryHasRow
  <2>. QED
    BY <1>2, <1>3, <2>1 DEF Popped, Goto, Dropping
<1>4. CASE Statements(i) # <<>>
  BY <1>1, <1>2, <1>4 DEF Popped, Take, Goto, Taking
<1>. QED
  BY <1>3, <1>4

LEMMA ConsumerMoves == ASSUME IInv, Working, NEW t \in Consumer, Consume(t) \/ SpuriousWakeup(t)
                       PROVE (\E i \in Item : Taking(t, i)) \/ Dropping(t) \/ Staying
<1>. USE DistinctThreads, NullIsNothing DEF Consumer, Thread
<1>1. CASE Pop(t)
  <2>1. CASE queue[t] = <<>>
    BY <1>1, <2>1 DEF IInv, TypeOK, Working, Pop, Goto, flags, server, Staying
  <2>2. CASE queue[t] # <<>>
    BY <1>1, <2>2, PoppedMoves DEF Pop
  <2>. QED
    BY <2>1, <2>2
<1>2. CASE Woken(t)
  <2>1. CASE queue[t] = <<>>
    BY <1>2, <2>1 DEF IInv, TypeOK, Working, Woken, NothingPopped, Goto, flags, server, Staying
  <2>2. CASE queue[t] # <<>>
    BY <1>2, <2>2, PoppedMoves DEF Woken
  <2>. QED
    BY <2>1, <2>2
<1>3. CASE PopNoWait(t)
  <2>1. CASE queue[t] = <<>>
    BY <1>3, <2>1 DEF IInv, TypeOK, Working, PopNoWait, Goto, flags, server, Staying
  <2>2. CASE queue[t] # <<>>
    BY <1>3, <2>2, PoppedMoves DEF PopNoWait
  <2>. QED
    BY <2>1, <2>2
<1>4. CASE Stop(t)
  BY <1>4 DEF IInv, TypeOK, Working, Stop, Goto, queues, server, Staying
<1>5. CASE SpuriousWakeup(t)
  BY <1>5 DEF SpuriousWakeup, thread, flags, server, Staying
<1>. QED
  BY <1>1, <1>2, <1>3, <1>4, <1>5 DEF Consume

LEMMA MainMoves == ASSUME IInv, Working, Run \/ EndThreads \/ EndThreadsStep PROVE Staying
<1>. USE DistinctThreads, NullIsNothing DEF Consumer, Thread
<1>1. CASE Run
  BY <1>1 DEF IInv, TypeOK, Working, Run, Goto, queues, server, Staying
<1>2. CASE EndThreads
  BY <1>2 DEF IInv, TypeOK, Working, EndThreads, EndThreadsOnly, Goto, server, Staying
<1>3. CASE EndThreadsStep
  <2>1. PICK l \in {"wakeQuery", "ended", "wakeExecute", "sleep", "test"} : pc' = [pc EXCEPT ![Main] = l]
    BY <1>3 DEF EndThreadsStep, TestRunning, BroadcastQueryBuffer, BroadcastQueriesQueue, TestAgain, Broadcast, Goto
  <2>2. EndThreadsOnly /\ pc[Main] \in {"test", "wakeQuery", "wakeExecute", "sleep"}
    BY <1>3 DEF EndThreadsStep, TestRunning, BroadcastQueryBuffer, BroadcastQueriesQueue, TestAgain, Broadcast
  <2>. QED
    BY <2>1, <2>2 DEF IInv, TypeOK, Working, EndThreadsOnly, server, Staying
<1>. QED
  BY <1>1, <1>2, <1>3

LEMMA NextMoves == ASSUME IInv, Working, [Next]_vars PROVE Move
<1>1. CASE \E c \in Client : Call(c) \/ Push(c)
  BY <1>1, CallMoves, PushMoves DEF Move
<1>2. CASE \E t \in Client \cup Consumer : UseConnection(t)
  BY <1>2, ConnectionMoves DEF Move
<1>3. CASE \E t \in Consumer : Consume(t) \/ SpuriousWakeup(t)
  BY <1>3, ConsumerMoves DEF Move
<1>4. CASE Run \/ EndThreads \/ EndThreadsStep
  BY <1>4, MainMoves DEF Move
<1>5. CASE UNCHANGED vars
  BY <1>5 DEF vars, thread, queues, flags, server, Staying, Move
<1>. QED
  BY <1>1, <1>2, <1>3, <1>4, <1>5 DEF Next

LEMMA WorkingStep == ASSUME IInv, Working, Move PROVE Working'
<1>. USE DistinctThreads, DistinctItems, NullIsNothing DEF Consumer, Thread
<1>1. ASSUME NEW c \in Client, NEW i \in Item, Calling(c, i) PROVE Working'
  BY <1>1, StatementRows DEF IInv, TypeOK, Working, Calling
<1>2. ASSUME NEW c \in Client, Pushing(c) PROVE Working'
  BY <1>2 DEF IInv, TypeOK, Working, Pushing, Item
<1>3. ASSUME NEW t \in Consumer, NEW i \in Item, Taking(t, i) PROVE Working'
  BY <1>3, StatementRows DEF IInv, TypeOK, Working, Taking
<1>4. ASSUME NEW t \in Consumer, Dropping(t) PROVE Working'
  BY <1>4 DEF IInv, TypeOK, Working, Dropping, FromQueue
<1>5. ASSUME NEW t \in Client \cup Consumer, NEW s, NEW r, Sending(t, s, r) PROVE Working'
  <2>1. \A x \in DOMAIN Tail(work[t]) : Tail(work[t])[x] = work[t][x + 1] /\ x + 1 \in DOMAIN work[t]
    BY <1>5 DEF Sending
  <2>2. DistinctItems => \A u \in Thread : item'[u] \in Query => item[u] = item'[u]
    BY <1>5 DEF Sending, IInv, TypeOK, Item
  <2>3. ASSUME NEW u \in Thread, item'[u] \in Query PROVE \A x \in DOMAIN work'[u] : work'[u][x] \in Row
    <3>1. \A x \in DOMAIN work[u] : work[u][x] \in Row
      BY <2>2, <2>3 DEF Working
    <3>2. work'[u] = IF u = t THEN Tail(work[t]) ELSE work[u]
      BY <1>5 DEF Sending, IInv, TypeOK
    <3>. QED
      BY <2>1, <3>1, <3>2
  <2>4. ASSUME NEW u \in Thread, item'[u] # NULL
        PROVE pc'[u] = "push" \/ (pc'[u] \in {"connect", "send"} /\ work'[u] # <<>>)
    BY <1>5, <2>4 DEF Sending, IInv, TypeOK, Working
  <2>. QED
    BY <2>3, <2>4 DEF Working
<1>6. ASSUME Staying PROVE Working'
  BY <1>6 DEF IInv, TypeOK, Working, Staying
<1>. QED
  BY <1>1, <1>2, <1>3, <1>4, <1>5, <1>6 DEF Move

LEMMA OnePlaceStep == ASSUME IInv, Working, OnePlace, Unsent, Move PROVE OnePlace'
<1>. USE DistinctThreads, DistinctItems, NullIsNothing DEF Consumer, Thread
<1>0. ASSUME session' = session, table' = table PROVE \A r \in Row : OnServer(r)' <=> OnServer(r)
  BY <1>0 DEF OnServer, InTable, InSession
<1>1. ASSUME NEW c \in Client, NEW i \in Item, Calling(c, i) PROVE OnePlace'
  <2>1. item[c] = NULL
    BY <1>1 DEF Working, Calling
  <2>2. \A u \in Thread : item'[u] = IF u = c THEN i ELSE item[u]
    BY <1>1 DEF IInv, TypeOK, Calling
  <2>. QED
    BY <1>0, <1>1, <2>1, <2>2 DEF OnePlace, Calling
<1>2. ASSUME NEW c \in Client, Pushing(c) PROVE OnePlace'
  <2>. DEFINE i == item[c]  t == ConsumerOf(i)  q == queue[t]
  <2>1. i \in Item /\ t \in Consumer /\ q \in Seq(Item)
    BY <1>2 DEF IInv, TypeOK, Pushing, ConsumerOf
  <2>2. \A u \in Thread : item'[u] = IF u = c THEN NULL ELSE item[u]
    BY <1>2 DEF IInv, TypeOK, Pushing
  <2>3. \A u \in Consumer : queue'[u] = IF u = t THEN Append(q, i) ELSE queue[u]
    BY <1>2 DEF IInv, TypeOK, Pushing
  <2>4. DOMAIN Append(q, i) = 1..(Len(q) + 1) /\ DOMAIN q = 1..Len(q) /\ Len(q) \in Nat
    BY <2>1
  <2>5. \A x \in DOMAIN Append(q, i) : \/ x \in DOMAIN q /\ Append(q, i)[x] = q[x]
                                       \/ x = Len(q) + 1 /\ Append(q, i)[x] = i
    BY <2>1
  <2>6. /\ \A x \in DOMAIN q : q[x] # i /\ q[x] \in called
        /\ i \in called /\ i # NULL
    BY <2>1 DEF OnePlace, Item
  <2>. HIDE DEF i, q, t
  <2>7. \A u \in Consumer : \A x \in DOMAIN queue'[u] : queue'[u][x] \in called'
    BY <1>2, <2>1, <2>3, <2>5, <2>6 DEF OnePlace, Pushing
  <2>8. \A u \in Consumer : \A x, y \in DOMAIN queue'[u] : queue'[u][x] = queue'[u][y] => x = y
    <3>1. ASSUME NEW x \in DOMAIN Append(q, i), NEW y \in DOMAIN Append(q, i), Append(q, i)[x] = Append(q, i)[y]
          PROVE x = y
      <4>1. \A a, b \in DOMAIN q : q[a] = q[b] => a = b
        BY <2>1 DEF OnePlace, q
      <4>. QED
        BY <2>5, <2>6, <3>1, <4>1
    <3>. QED
      BY <2>3, <3>1 DEF OnePlace
  <2>9. \A u \in Thread : item[u] = i => u = c
    BY <2>1, <2>6 DEF OnePlace, i
  <2>10. \A u \in Consumer : \A x \in DOMAIN queue'[u] : \A v \in Thread : item'[v] # queue'[u][x]
    <3>1. ASSUME NEW u \in Consumer, NEW x \in DOMAIN queue[u], NEW v \in Thread PROVE item'[v] # queue[u][x]
      <4>1. queue[u][x] # NULL /\ item[v] # queue[u][x]
        BY <3>1 DEF OnePlace, IInv, TypeOK, Item
      <4>. QED
        BY <2>2, <4>1
    <3>2. \A v \in Thread : item'[v] # i
      BY <2>2, <2>6, <2>9
    <3>3. ASSUME NEW x \in DOMAIN Append(q, i), NEW v \in Thread PROVE item'[v] # Append(q, i)[x]
      <4>1. \A y \in DOMAIN q : item'[v] # q[y]
        BY <2>1, <3>1 DEF q
      <4>. QED
        BY <2>5, <3>2, <3>3, <4>1
    <3>. QED
      BY <2>3, <3>1, <3>3
  <2>. QED
    BY <1>0, <1>2, <2>2, <2>7, <2>8, <2>10 DEF OnePlace, Pushing
<1>3. ASSUME NEW t \in Consumer, FromQueue(t)
      PROVE /\ \A u \in Consumer : \A x \in DOMAIN queue'[u] : queue'[u][x] \in called'
            /\ \A u \in Consumer : \A x, y \in DOMAIN queue'[u] : queue'[u][x] = queue'[u][y] => x = y
            /\ \A u \in Consumer : \A x \in DOMAIN queue'[u] : \A v \in Thread : item[v] # queue'[u][x]
            /\ \A x \in DOMAIN queue'[t] : queue'[t][x] # Head(queue[t])
            /\ Head(queue[t]) \in called /\ Head(queue[t]) \in Item
            /\ \A v \in Thread : item[v] # Head(queue[t])
            /\ \A r \in Row : OnServer(r)' => r[1] \in called'
  <2>. DEFINE q == queue[t]
  <2>1. /\ q \in Seq(Item) /\ q # <<>> /\ Tail(q) \in Seq(Item) /\ Len(Tail(q)) = Len(q) - 1
        /\ \A x \in 1..Len(Tail(q)) : Tail(q)[x] = q[x + 1]
    BY <1>3, HeadTailProperties DEF IInv, TypeOK, FromQueue
  <2>2. Head(q) = q[1] /\ 1 \in DOMAIN q /\ Head(q) \in Item
    BY <2>1
  <2>3. \A u \in Consumer : queue'[u] = IF u = t THEN Tail(q) ELSE queue[u]
    BY <1>3 DEF IInv, TypeOK, FromQueue
  <2>4. \A x \in DOMAIN Tail(q) : x + 1 \in DOMAIN q /\ x + 1 # 1 /\ Tail(q)[x] = q[x + 1] /\ x \in Nat
    BY <2>1
  <2>. HIDE DEF q
  <2>5. \A u \in Consumer : \A x \in DOMAIN queue'[u] : queue'[u][x] \in called'
    BY <1>3, <2>3, <2>4 DEF OnePlace, FromQueue, q
  <2>6. ASSUME NEW u \in Consumer, NEW x \in DOMAIN queue'[u], NEW y \in DOMAIN queue'[u],
               queue'[u][x] = queue'[u][y]
        PROVE x = y
    <3>1. CASE u = t
      <4>1. q[x + 1] = q[y + 1] /\ x + 1 \in DOMAIN q /\ y + 1 \in DOMAIN q
        BY <2>3, <2>4, <2>6, <3>1
      <4>2. x + 1 = y + 1
        BY <4>1 DEF OnePlace, q
      <4>3. x \in Nat /\ y \in Nat
        BY <2>3, <2>4, <2>6, <3>1
      <4>. QED
        BY <4>2, <4>3
    <3>2. CASE u # t
      BY <2>3, <2>6, <3>2 DEF OnePlace
    <3>. QED
      BY <3>1, <3>2
  <2>7. \A u \in Consumer : \A x \in DOMAIN queue'[u] : \A v \in Thread : item[v] # queue'[u][x]
    <3>1. ASSUME NEW x \in DOMAIN Tail(q), NEW v \in Thread PROVE item[v] # Tail(q)[x]
      BY <2>4, <3>1 DEF OnePlace, q
    <3>. QED
      BY <2>3, <3>1 DEF OnePlace
  <2>8. \A x \in DOMAIN queue'[t] : queue'[t][x] # Head(q)
    <3>1. ASSUME NEW x \in DOMAIN Tail(q) PROVE Tail(q)[x] # Head(q)
      <4>1. x + 1 \in DOMAIN q /\ 1 \in DOMAIN q /\ x + 1 # 1 /\ Tail(q)[x] = q[x + 1] /\ Head(q) = q[1]
        BY <2>2, <2>4, <3>1
      <4>. QED
        BY <4>1 DEF OnePlace, q
    <3>. QED
      BY <2>3, <3>1
  <2>9. Head(q) \in called /\ \A v \in Thread : item[v] # Head(q)
    BY <2>2 DEF OnePlace, q
  <2>10. \A r \in Row : OnServer(r)' => r[1] \in called'
    BY <1>0, <1>3 DEF OnePlace, FromQueue
  <2>. QED
    BY <2>2, <2>5, <2>6, <2>7, <2>8, <2>9, <2>10 DEF q
<1>4. ASSUME NEW t \in Consumer, NEW i \in Item, Taking(t, i) PROVE OnePlace'
  <2>1. \A u \in Thread : item'[u] = IF u = t THEN i ELSE item[u]
    BY <1>4 DEF IInv, TypeOK, Taking
  <2>2. FromQueue(t) /\ i = Head(queue[t]) /\ called' = called
    BY <1>4 DEF Taking, FromQueue
  <2>3. \A u \in Consumer \ {t} : queue'[u] = queue[u]
    BY <2>2 DEF FromQueue, IInv, TypeOK
  <2>4. \A u \in Consumer \ {t} : \A x \in DOMAIN queue[u] : queue[u][x] # i
    <3>1. queue[QueryThread] \in Seq(Buffer) /\ queue[ExecuteThread] \in Seq(Query) /\ queue[t] # <<>>
      BY <2>2 DEF IInv, TypeOK, FromQueue
    <3>. QED
      BY <2>2, <3>1
  <2>5. \A u \in Consumer : \A x \in DOMAIN queue'[u] : queue'[u][x] # i
    BY <1>3, <2>2, <2>3, <2>4
  <2>. QED
    BY <1>3, <2>1, <2>2, <2>5 DEF OnePlace
<1>5. ASSUME NEW t \in Consumer, Dropping(t) PROVE OnePlace'
  <2>1. FromQueue(t) /\ item' = item /\ called' = called
    BY <1>5 DEF Dropping, FromQueue
  <2>. QED
    BY <1>3, <2>1 DEF OnePlace
<1>6. ASSUME NEW t \in Client \cup Consumer, NEW s, NEW r, Sending(t, s, r) PROVE OnePlace'
  <2>1. \A u \in Thread : item'[u] = NULL \/ item'[u] = item[u]
    BY <1>6 DEF IInv, TypeOK, Sending
  <2>2. queue' = queue /\ called' = called
    BY <1>6 DEF Sending, queues
  <2>3. s \in Row => s[1] \in called
    <3>1. 1 \in DOMAIN work[t] /\ s = work[t][1] /\ item[t] \in called
      BY <1>6 DEF Sending, OnePlace, Item
    <3>. QED
      BY <3>1 DEF Unsent
  <2>4. \A q \in Row : OnServer(q)' => q[1] \in called'
    BY <1>6, <2>2, <2>3, SendServer DEF OnePlace
  <2>5. NULL \notin Item /\ \A u \in Consumer : queue[u] \in Seq(Item)
    BY DEF IInv, TypeOK
  <2>. QED
    BY <2>1, <2>2, <2>4, <2>5 DEF OnePlace
<1>7. ASSUME Staying PROVE OnePlace'
  BY <1>0, <1>7 DEF OnePlace, Staying
<1>. QED
  BY <1>1, <1>2, <1>4, <1>5, <1>6, <1>7 DEF Move

LEMMA UnsentStep == ASSUME IInv, Working, OnePlace, Unsent, Move PROVE Unsent'
<1>. USE DistinctThreads, DistinctItems, NullIsNothing DEF Consumer, Thread
<1>0. ASSUME session' = session, table' = table PROVE \A r \in Row : OnServer(r)' <=> OnServer(r)
  BY <1>0 DEF OnServer, InTable, InSession
<1>1. ASSUME NEW c \in Client, NEW i \in Item, Calling(c, i) PROVE Unsent'
  <2>1. \A u \in Thread : item'[u] = IF u = c THEN i ELSE item[u]
    BY <1>1 DEF IInv, TypeOK, Calling
  <2>2. \A r \in Row : OnServer(r)' => OnServer(r) /\ r[1] # i
    BY <1>0, <1>1 DEF OnePlace, Calling
  <2>3. PICK w \in {<<>>, Statements(i)} : \A u \in Thread : work'[u] = IF u = c THEN w ELSE work[u]
    BY <1>1 DEF IInv, TypeOK, Calling
  <2>4. \A u \in Thread \ {c} : pc'[u] = pc[u]
    BY <1>1 DEF IInv, TypeOK, Calling
  <2>5. /\ \A x \in DOMAIN w : w[x] \in Row => w[x][1] = i
        /\ \A x, y \in DOMAIN w : w[x] \in Row /\ w[x] = w[y] => x = y
    BY <2>3, StatementRows
  <2>6. \A x \in DOMAIN w : w[x] \in Row => ~OnServer(w[x])'
    BY <2>2, <2>5
  <2>7. queue' = queue
    BY <1>1 DEF Calling
  <2>. QED
    BY <2>1, <2>2, <2>3, <2>4, <2>5, <2>6, <2>7 DEF Unsent
<1>2. ASSUME NEW c \in Client, Pushing(c) PROVE Unsent'
  <2>. DEFINE i == item[c]  t == ConsumerOf(i)  q == queue[t]
  <2>1. i \in Item /\ t \in Consumer /\ q \in Seq(Item)
    BY <1>2 DEF IInv, TypeOK, Pushing, ConsumerOf
  <2>2. \A u \in Thread : /\ item'[u] = IF u = c THEN NULL ELSE item[u]
                          /\ work'[u] = IF u = c THEN <<>> ELSE work[u]
                          /\ pc'[u] = IF u = c THEN "idle" ELSE pc[u]
    BY <1>2 DEF IInv, TypeOK, Pushing
  <2>3. \A u \in Consumer : queue'[u] = IF u = t THEN Append(q, i) ELSE queue[u]
    BY <1>2 DEF IInv, TypeOK, Pushing
  <2>4. \A x \in DOMAIN Append(q, i) : \/ x \in DOMAIN q /\ Append(q, i)[x] = q[x]
                                       \/ x = Len(q) + 1 /\ Append(q, i)[x] = i
    BY <2>1
  <2>5. \A r \in Row : OnServer(r)' => OnServer(r)
    BY <1>0, <1>2 DEF Pushing
  <2>6. \A r \in Row : OnServer(r)' => r[1] # i
    BY <1>2, <2>5 DEF Unsent, Pushing
  <2>. HIDE DEF i, t, q
  <2>7. ASSUME NEW u \in Consumer, NEW x \in DOMAIN queue'[u], NEW r \in Row, OnServer(r)' PROVE r[1] # queue'[u][x]
    <3>1. CASE u = t
      <4>1. queue'[u] = Append(q, i) /\ x \in DOMAIN Append(q, i)
        BY <2>3, <2>7, <3>1
      <4>2. CASE x \in DOMAIN q /\ Append(q, i)[x] = q[x]
        <5>1. r[1] # q[x]
          BY <2>1, <2>5, <2>7, <4>2 DEF Unsent, q
        <5>. QED
          BY <4>1, <4>2, <5>1
      <4>3. CASE Append(q, i)[x] = i
        BY <2>6, <2>7, <4>1, <4>3
      <4>. QED
        BY <2>4, <4>1, <4>2, <4>3
    <3>2. CASE u # t
      BY <2>3, <2>5, <2>7, <3>2 DEF Unsent
    <3>. QED
      BY <3>1, <3>2
  <2>. QED
    BY <2>2, <2>5, <2>7 DEF Unsent
<1>3. ASSUME NEW t \in Consumer, FromQueue(t)
      PROVE /\ \A u \in Consumer : \A x \in DOMAIN queue'[u] : \A r \in Row : OnServer(r)' => r[1] # queue'[u][x]
            /\ \A r \in Row : OnServer(r)' => OnServer(r) /\ r[1] # Head(queue[t])
  <2>. DEFINE q == queue[t]
  <2>1. /\ q \in Seq(Item) /\ q # <<>> /\ Tail(q) \in Seq(Item) /\ Len(Tail(q)) = Len(q) - 1
        /\ \A x \in 1..Len(Tail(q)) : Tail(q)[x] = q[x + 1]
    BY <1>3, HeadTailProperties DEF IInv, TypeOK, FromQueue
  <2>2. Head(q) = q[1] /\ 1 \in DOMAIN q
    BY <2>1
  <2>3. \A u \in Consumer : queue'[u] = IF u = t THEN Tail(q) ELSE queue[u]
    BY <1>3 DEF IInv, TypeOK, FromQueue
  <2>4. \A x \in DOMAIN Tail(q) : x + 1 \in DOMAIN q /\ Tail(q)[x] = q[x + 1]
    BY <2>1
  <2>5. \A r \in Row : OnServer(r)' => OnServer(r)
    BY <1>0, <1>3 DEF FromQueue
  <2>. HIDE DEF q
  <2>6. ASSUME NEW x \in DOMAIN q, NEW r \in Row, OnServer(r)' PROVE r[1] # q[x]
    BY <2>5, <2>6 DEF Unsent, q
  <2>7. ASSUME NEW u \in Consumer, NEW x \in DOMAIN queue'[u], NEW r \in Row, OnServer(r)' PROVE r[1] # queue'[u][x]
    <3>1. CASE u = t
      <4>1. queue'[u] = Tail(q) /\ x \in DOMAIN Tail(q)
        BY <2>3, <2>7, <3>1
      <4>2. x + 1 \in DOMAIN q /\ Tail(q)[x] = q[x + 1] /\ r[1] # q[x + 1]
        BY <2>4, <2>6, <2>7, <4>1
      <4>. QED
        BY <4>1, <4>2
    <3>2. CASE u # t
      BY <2>3, <2>5, <2>7, <3>2 DEF Unsent
    <3>. QED
      BY <3>1, <3>2
  <2>8. \A r \in Row : OnServer(r)' => r[1] # Head(queue[t])
    BY <2>2, <2>6 DEF q
  <2>. QED
    BY <2>5, <2>7, <2>8
<1>4. ASSUME NEW t \in Consumer, NEW i \in Item, Taking(t, i) PROVE Unsent'
  <2>. DEFINE w == Statements(i)
  <2>1. \A u \in Thread : item'[u] = (IF u = t THEN i ELSE item[u]) /\ work'[u] = (IF u = t THEN w ELSE work[u])
    BY <1>4 DEF IInv, TypeOK, Taking
  <2>2. \A u \in Thread : pc'[u] = "push" => u # t /\ pc[u] = "push"
    BY <1>4 DEF IInv, TypeOK, Taking
  <2>3. FromQueue(t) /\ i = Head(queue[t])
    BY <1>4 DEF Taking
  <2>4. \A r \in Row : OnServer(r)' => OnServer(r) /\ r[1] # i
    BY <1>3, <2>3
  <2>5. /\ \A x \in DOMAIN w : w[x] \in Row => w[x][1] = i
        /\ \A x, y \in DOMAIN w : w[x] \in Row /\ w[x] = w[y] => x = y
    BY StatementRows
  <2>. HIDE DEF w
  <2>6. \A x \in DOMAIN w : w[x] \in Row => ~OnServer(w[x])'
    BY <2>4, <2>5
  <2>7. \A u \in Consumer : \A x \in DOMAIN queue'[u] : \A r \in Row : OnServer(r)' => r[1] # queue'[u][x]
    BY <1>3, <2>3
  <2>. QED
    BY <2>1, <2>2, <2>4, <2>5, <2>6, <2>7 DEF Unsent
<1>5. ASSUME NEW t \in Consumer, Dropping(t) PROVE Unsent'
  <2>1. FromQueue(t) /\ item' = item /\ work' = work
    BY <1>5 DEF Dropping
  <2>2. \A u \in Thread : pc'[u] = "push" => pc[u] = "push"
    BY <1>5 DEF Dropping, IInv, TypeOK
  <2>. QED
    BY <1>3, <2>1, <2>2 DEF Unsent
<1>6. ASSUME NEW t \in Client \cup Consumer, NEW s, NEW r, Sending(t, s, r) PROVE Unsent'
  <2>. DEFINE w == work[t]
  <2>1. \A u \in Thread : work'[u] = IF u = t THEN Tail(w) ELSE work[u]
    BY <1>6 DEF IInv, TypeOK, Sending
  <2>2. \A x \in DOMAIN Tail(w) : x + 1 \in DOMAIN w /\ x + 1 # 1 /\ Tail(w)[x] = w[x + 1] /\ x \in Nat
                                 /\ Tail(w) # <<>>
    BY <1>6 DEF Sending
  <2>3. queue' = queue /\ item[t] \in Item /\ s \in Statement /\ s = w[1] /\ 1 \in DOMAIN w
    BY <1>6 DEF Sending, queues
  <2>4. \A q \in Row : OnServer(q)' => OnServer(q) \/ (q = s /\ s[1] = item[t])
    BY <1>6, <2>3, SendServer DEF Unsent
  <2>5. \A u \in Thread : item'[u] = item[u] \/ (u = t /\ Tail(w) = <<>>)
    BY <1>6 DEF IInv, TypeOK, Sending
  <2>6. \A u \in Thread : pc'[u] = "push" => u # t /\ pc[u] = "push"
    BY <1>6 DEF IInv, TypeOK, Sending, AfterSend
  <2>. HIDE DEF w
  <2>7. ASSUME NEW u \in Consumer, NEW x \in DOMAIN queue[u], NEW q \in Row, OnServer(q)' PROVE q[1] # queue[u][x]
    BY <2>3, <2>4, <2>7 DEF Unsent, OnePlace
  <2>8. ASSUME NEW u \in Thread, pc'[u] = "push", NEW q \in Row, OnServer(q)' PROVE q[1] # item'[u]
    <3>1. item[u] \in Item /\ u # t /\ pc[u] = "push" /\ item'[u] = item[u] /\ item[u] # item[t]
      BY <2>3, <2>5, <2>6, <2>8 DEF IInv, AtHand, OnePlace, Item
    <3>. QED
      BY <2>4, <2>8, <3>1 DEF Unsent
  <2>9. ASSUME NEW u \in Thread, NEW x \in DOMAIN work'[u], NEW q \in Row, q = work'[u][x]
        PROVE q[1] = item'[u] /\ ~OnServer(q)'
    <3>1. CASE u = t
      <4>1. q = w[x + 1] /\ x + 1 \in DOMAIN w /\ x + 1 # 1 /\ Tail(w) # <<>>
        BY <2>1, <2>2, <2>9, <3>1
      <4>2. q[1] = item[t] /\ ~OnServer(q) /\ q # s
        BY <2>3, <2>9, <4>1 DEF Unsent, w
      <4>3. item'[t] = item[t]
        BY <2>5, <3>1, <4>1
      <4>. QED
        BY <2>4, <2>9, <3>1, <4>2, <4>3
    <3>2. CASE u # t
      <4>1. work'[u] = work[u] /\ work[u] # <<>>
        <5>1. work'[u] = work[u] /\ work[u] \in Seq(Statement)
          BY <2>1, <3>2 DEF IInv, TypeOK
        <5>. QED
          BY <2>9, <5>1
      <4>2. item[u] \in Item /\ item[u] # item[t] /\ item'[u] = item[u]
        BY <2>3, <2>5, <3>2, <4>1 DEF IInv, AtHand, OnePlace, Item
      <4>3. q[1] = item[u] /\ ~OnServer(q)
        BY <2>9, <4>1 DEF Unsent
      <4>. QED
        BY <2>4, <2>9, <4>2, <4>3
    <3>. QED
      BY <3>1, <3>2
  <2>10. ASSUME NEW u \in Thread, NEW x \in DOMAIN work'[u], NEW y \in DOMAIN work'[u], work'[u][x] \in Row,
                work'[u][x] = work'[u][y]
         PROVE x = y
    <3>1. CASE u = t
      <4>1. /\ w[x + 1] \in Row /\ w[x + 1] = w[y + 1] /\ x + 1 \in DOMAIN w /\ y + 1 \in DOMAIN w
            /\ x \in Nat /\ y \in Nat
        BY <2>1, <2>2, <2>10, <3>1
      <4>2. x + 1 = y + 1
        BY <4>1 DEF Unsent, w
      <4>. QED
        BY <4>1, <4>2
    <3>2. CASE u # t
      BY <2>1, <2>10, <3>2 DEF Unsent
    <3>. QED
      BY <3>1, <3>2
  <2>. QED
    BY <2>3, <2>7, <2>8, <2>9, <2>10 DEF Unsent
<1>7. ASSUME Staying PROVE Unsent'
  BY <1>0, <1>7 DEF Unsent, Staying
<1>. QED
  BY <1>1, <1>2, <1>4, <1>5, <1>6, <1>7 DEF Move

LEMMA OnceStep == ASSUME IInv, Working, OnePlace, Unsent, Once, Move PROVE Once'
<1>. USE DistinctThreads, DistinctItems, NullIsNothing DEF Consumer, Thread
<1>1. ASSUME NEW t \in Client \cup Consumer, NEW s, NEW e, Sending(t, s, e) PROVE Once'
  <2>1. PICK k \in Connection : k = con[t] /\ con' = con
    BY <1>1 DEF Sending
  <2>2. /\ session \in [Connection -> Seq(Row) \cup {NULL}] /\ table \in Seq(Row) /\ s \in Statement
        /\ session' = [session EXCEPT ![k] = e.session] /\ table' = e.table
    BY <1>1, <2>1 DEF IInv, TypeOK, Sending
  <2>3. s \in Row => ~OnServer(s) /\ s[1] = item[t]
    <3>1. 1 \in DOMAIN work[t] /\ s = work[t][1]
      BY <1>1 DEF Sending
    <3>. QED
      BY <3>1 DEF Unsent
  <2>4. touched' \in {touched, touched \cup {item[t]}}
    BY <1>1 DEF Sending
  <2>5. /\ \A q \in Row : \A c \in Connection \ {k} : InSession(c, q)' => InSession(c, q)
        /\ \A q \in Row : InSession(k, q)' => InSession(k, q) \/ q = s
        /\ \A q \in Row : InTable(q)' => InTable(q) \/ InSession(k, q) \/ q = s
    BY <1>1, <2>1, SendServer
  <2>6. ASSUME NEW q \in Row, q[1] \notin touched' PROVE OnceIn(q, e.session, e.table)
    <3>1. OnceIn(q, session[k], table)
      BY <2>4, <2>6 DEF Once
    <3>2. q = s => NotIn(q, session[k], table)
      BY <2>3 DEF NotIn, OnServer, InTable, InSession
    <3>3. CASE e = Effect(s, session[k], table)
      BY <2>2, <3>1, <3>2, <3>3, EffectOnce
    <3>4. CASE e \in Failed(s, session[k], table) /\ touched' = touched \cup {item[t]}
      <4>1. q # s
        BY <2>3, <2>6, <3>4
      <4>. QED
        BY <2>2, <3>1, <3>4, <4>1, FailedOnce
    <3>. QED
      BY <1>1, <2>1, <3>3, <3>4 DEF Sending
  <2>7. ASSUME NEW q \in Row, q[1] \notin touched', NEW c \in Connection PROVE OnceIn(q, session'[c], table')
    <3>1. CASE c = k
      BY <2>2, <2>6, <2>7, <3>1
    <3>2. CASE c # k
      <4>1. session'[c] = session[c] /\ OnceIn(q, session[c], table)
        BY <2>2, <2>4, <2>7, <3>2 DEF Once
      <4>2. OnceIn(q, e.session, e.table)
        BY <2>6, <2>7
      <4>3. InSession(c, q) => ~InTable(q)'
        <5>1. InSession(c, q) => ~InTable(q) /\ ~InSession(k, q)
          BY <2>4, <2>7, <3>2 DEF Once, OnceIn, InTable, InSession
        <5>2. InSession(c, q) => q # s
          BY <2>3 DEF OnServer
        <5>. QED
          BY <2>5, <5>1, <5>2
      <4>. QED
        BY <2>2, <4>1, <4>2, <4>3 DEF OnceIn, InTable, InSession
    <3>. QED
      BY <3>1, <3>2
  <2>8. ASSUME NEW q \in Row, q[1] \notin touched', NEW c \in Connection, NEW d \in Connection,
               InSession(c, q)', InSession(d, q)'
        PROVE c = d
    <3>1. CASE q = s
      BY <2>3, <2>5, <2>8, <3>1 DEF OnServer
    <3>2. CASE q # s
      BY <2>4, <2>5, <2>8, <3>2 DEF Once
    <3>. QED
      BY <3>1, <3>2
  <2>9. ASSUME NEW q \in Row, q[1] \notin touched' PROVE OnceIn(q, NULL, table')
    BY <2>2, <2>6, <2>9 DEF OnceIn
  <2>. QED
    BY <2>7, <2>8, <2>9 DEF Once
<1>2. CASE session' = session /\ table' = table /\ touched' = touched
  BY <1>2 DEF Once, InSession, OnceIn
<1>. QED
  BY <1>1, <1>2 DEF Move, Calling, Pushing, Taking, Dropping, FromQueue, Staying

OnceInv == IInv /\ Working /\ OnePlace /\ Unsent /\ Once

LEMMA OnceInvariant == Spec => []OnceInv
<1>. USE DistinctThreads, DistinctItems, NullIsNothing DEF Consumer, Thread
<1>1. ASSUME Init PROVE Working /\ OnePlace /\ Unsent /\ Once
  <2>1. /\ item = [t \in Thread |-> NULL] /\ work = [t \in Thread |-> <<>>] /\ table = <<>>
        /\ session = [c \in Connection |-> NULL] /\ queue = [t \in Consumer |-> <<>>]
        /\ \A t \in Thread : pc[t] # "push"
    BY <1>1 DEF Init
  <2>2. \A r \in Row : ~OnServer(r)
    BY <2>1 DEF OnServer, InTable, InSession
  <2>. QED
    BY <2>1, <2>2 DEF Working, OnePlace, Unsent, Once, OnceIn, InSession, Item
<1>2. OnceInv /\ [Next]_vars => OnceInv'
  BY Inductive, NextMoves, WorkingStep, OnePlaceStep, UnsentStep, OnceStep DEF OnceInv
<1>. QED
  BY <1>1, <1>2, Initially, PTL DEF Spec, OnceInv

(* No row is committed twice: an item is with one thread or in one place of  *)
(* one queue from its call on, its rows leave for the server one by one, and *)
(* only a statement that failed is sent again (FQueue, Execute, _SendQuery). *)
THEOREM NothingTwice == Spec => []CommittedOnce
<1>1. OnceInv => CommittedOnce
  <2>. SUFFICES ASSUME OnceInv, NEW x \in DOMAIN table, NEW y \in DOMAIN table, table[x] = table[y],
                       table[x][1] \notin touched
                PROVE x = y
    BY DEF CommittedOnce
  <2>1. table[x] \in Row
    BY DEF OnceInv, IInv, TypeOK
  <2>. QED
    BY <2>1 DEF OnceInv, Once, OnceIn
<1>. QED
  BY <1>1, OnceInvariant, PTL

-----------------------------------------------------------------------------
(* Thread t is inside the transaction of its buffer: what it has sent of the *)
(* buffer is exactly what its connection's transaction holds, in order.      *)
Begun(t) ==
  \E n \in 0..BufferSize :
    /\ Len(work[t]) = BufferSize - n + 1
    /\ work[t][BufferSize - n + 1] = COMMIT
    /\ \A k \in 1..(BufferSize - n) : work[t][k] = <<item[t], n + k>>
    /\ session[con[t]] # NULL
    /\ Len(session[con[t]]) = n
    /\ \A k \in 1..n : session[con[t]][k] = <<item[t], k>>

HeldBy(c, b) == /\ busy[c] # NULL /\ work[busy[c]] # <<>>
                /\ item[busy[c]] = b /\ Begun(busy[c])

(* A buffer without a failed statement is alone in its transaction; only a   *)
(* buffer with one leaves a transaction open that nobody works on.           *)
Buffered ==
  /\ \A t \in Thread : work[t] # <<>> /\ item[t] \in Buffer \ touched =>
       work[t] = Transaction(item[t]) \/ (pc[t] = "send" /\ Begun(t))
  /\ \A c \in Connection : session[c] # NULL =>
       \A x \in DOMAIN session[c] : session[c][x][1] \in Buffer \ touched => HeldBy(c, session[c][x][1])
  /\ touched \cap Buffer = {} =>
       \A c \in Connection : session[c] # NULL => \E b \in Buffer : HeldBy(c, b)

(* Such a buffer is a block of the table. *)
Block(b, f) == \A k \in 1..BufferSize : f + k - 1 \in DOMAIN table /\ table[f + k - 1] = <<b, k>>
Blocks == \A x \in DOMAIN table : table[x][1] \in Buffer \ touched =>
            \E f \in Nat \ {0}, k \in 1..BufferSize : x = f + k - 1 /\ Block(table[x][1], f)

LEMMA BegunKept == ASSUME NEW t \in Thread, Begun(t), item'[t] = item[t], work'[t] = work[t], con'[t] = con[t],
                          session'[con[t]] = session[con[t]]
                   PROVE Begun(t)'
  BY DEF Begun

(* The next statement of a transaction is its next row, or its COMMIT when   *)
(* it holds them all.                                                        *)
LEMMA BegunNext == ASSUME IInv, NEW t \in Client \cup Consumer, NEW s, NEW r, Sending(t, s, r), Begun(t),
                          item[t] \in Buffer
                   PROVE \/ /\ s \in Row /\ Tail(work[t]) # <<>>
                            /\ session[con[t]] # NULL
                            /\ r = Effect(s, session[con[t]], table) => Begun(t)'
                         \/ /\ s = COMMIT /\ Tail(work[t]) = <<>>
                            /\ session[con[t]] # NULL /\ Len(session[con[t]]) = BufferSize
                            /\ \A k \in 1..BufferSize : session[con[t]][k] = <<item[t], k>>
<1>. USE DEF Consumer, Thread
<1>. DEFINE w == work[t]  i == item[t]
<1>1. PICK c \in Connection : c = con[t] /\ con' = con
  BY DEF Sending
<1>. DEFINE p == session[c]
<1>2. PICK n \in 0..BufferSize : /\ Len(w) = BufferSize - n + 1 /\ w[BufferSize - n + 1] = COMMIT
                                 /\ \A k \in 1..(BufferSize - n) : w[k] = <<i, n + k>>
                                 /\ p # NULL /\ Len(p) = n /\ \A k \in 1..n : p[k] = <<i, k>>
  BY <1>1 DEF Begun
<1>3. /\ Tail(w) \in Seq(Statement) /\ Len(Tail(w)) = Len(w) - 1 /\ s = w[1]
      /\ \A x \in 1..(Len(w) - 1) : Tail(w)[x] = w[x + 1]
      /\ BufferSize \in Nat /\ i \in Item
  BY Sizes DEF Sending
<1>4. p \in Seq(Row)
  BY <1>2 DEF IInv, TypeOK
<1>. HIDE DEF w, i, p
<1>5. CASE n = BufferSize
  <2>1. s = COMMIT /\ Len(Tail(w)) = 0
    BY <1>2, <1>3, <1>5
  <2>. QED
    BY <1>1, <1>2, <1>3, <1>5, <2>1, EmptySeq DEF p, w, i
<1>6. CASE n # BufferSize
  <2>1. n + 1 \in 1..BufferSize /\ 1 \in 1..(BufferSize - n) /\ Len(w) - 1 = BufferSize - (n + 1) + 1 /\ n \in Nat
    BY <1>2, <1>3, <1>6
  <2>2. s = <<i, n + 1>> /\ s \in Row
    <3>1. w[1] = <<i, n + 1>>
      BY <1>2, <2>1
    <3>2. n + 1 \in Nat \ {0}
      BY <2>1
    <3>. QED
      BY <1>3, <3>1, <3>2 DEF Row
  <2>3. Len(Tail(w)) # 0
    BY <1>3, <2>1
  <2>4. Tail(w) # <<>>
    BY <1>3, <2>3
  <2>5. ASSUME r = Effect(s, p, table) PROVE Begun(t)'
    <3>1. r = [session |-> Append(p, s), table |-> table]
      <4>1. s \in Statement
        BY DEF Sending
      <4>2. Effect(s, p, table) = [session |-> Append(p, s), table |-> table]
        <5>1. Effect(s, p, table) = IF p = NULL THEN [session |-> NULL, table |-> Append(table, s)]
                                    ELSE [session |-> Append(p, s), table |-> table]
          <6>1. s \in Row
            BY <2>2
          <6>. QED
            BY <4>1, <6>1, EffectIs
        <5>2. p # NULL
          BY <1>2
        <5>. QED
          BY <5>1, <5>2
      <4>. QED
        BY <2>5, <4>2
    <3>2. session'[c] = Append(p, s)
      BY <1>1, <3>1 DEF Sending, IInv, TypeOK
    <3>3. work'[t] = Tail(w) /\ item'[t] = i
      BY <2>4 DEF Sending, IInv, TypeOK, w, i
    <3>4. /\ Append(p, s) # NULL /\ Len(Append(p, s)) = n + 1
          /\ \A k \in 1..(n + 1) : Append(p, s)[k] = <<i, k>>
      <4>1. Append(p, s) \in Seq(Row)
        BY <1>4, <2>2
      <4>2. Append(p, s) # NULL
        BY <4>1, NullIsNothing
      <4>3. Len(Append(p, s)) = n + 1 /\ \A k \in 1..n : Append(p, s)[k] = p[k]
        BY <1>2, <1>4, <2>1, <2>2
      <4>4. Append(p, s)[n + 1] = s
        BY <1>2, <1>4, <2>1, <2>2
      <4>. QED
        BY <1>2, <2>1, <2>2, <4>2, <4>3, <4>4
    <3>5. /\ Len(Tail(w)) = BufferSize - (n + 1) + 1
          /\ Tail(w)[BufferSize - (n + 1) + 1] = COMMIT
      <4>1. BufferSize - (n + 1) + 1 \in 1..(Len(w) - 1) /\ BufferSize - (n + 1) + 1 + 1 = BufferSize - n + 1
        BY <1>2, <1>3, <2>1
      <4>. QED
        BY <1>2, <1>3, <2>1, <4>1
    <3>6. ASSUME NEW k \in 1..(BufferSize - (n + 1)) PROVE Tail(w)[k] = <<i, (n + 1) + k>>
      <4>1. k \in 1..(Len(w) - 1) /\ k + 1 \in 1..(BufferSize - n) /\ n + (k + 1) = (n + 1) + k
        BY <1>2, <1>3, <2>1
      <4>. QED
        BY <1>2, <1>3, <4>1
    <3>7. n + 1 \in 0..BufferSize
      BY <2>1, <1>3
    <3>. QED
      BY <1>1, <3>2, <3>3, <3>4, <3>5, <3>6, <3>7 DEF Begun
  <2>. QED
    BY <1>1, <1>2, <2>2, <2>4, <2>5 DEF p, w, i
<1>. QED
  BY <1>5, <1>6

(* START TRANSACTION opens the transaction of the buffer. *)
LEMMA BegunFirst == ASSUME IInv, NEW t \in Client \cup Consumer, NEW s, NEW r, Sending(t, s, r),
                           item[t] \in Buffer, work[t] = Transaction(item[t])
                    PROVE /\ s = BEGIN /\ Tail(work[t]) # <<>>
                          /\ r = Effect(s, session[con[t]], table) => Begun(t)'
<1>. USE DEF Consumer, Thread
<1>. DEFINE w == work[t]  i == item[t]
<1>0. BufferSize # 0 /\ BufferSize \in Nat /\ i \in Buffer
  BY Sizes DEF Sending, Transaction
<1>1. PICK c \in Connection : c = con[t] /\ con' = con
  BY DEF Sending
<1>2. /\ Len(w) = BufferSize + 2 /\ w[1] = BEGIN /\ w[BufferSize + 2] = COMMIT
      /\ \A k \in 1..BufferSize : w[k + 1] = <<i, k>>
  BY <1>0, TransactionIs
<1>3. /\ Tail(w) \in Seq(Statement) /\ Len(Tail(w)) = Len(w) - 1 /\ s = w[1]
      /\ \A x \in 1..(Len(w) - 1) : Tail(w)[x] = w[x + 1]
  BY DEF Sending
<1>. HIDE DEF w, i
<1>4. Len(Tail(w)) = BufferSize + 1
  BY <1>0, <1>2, <1>3
<1>5. Tail(w) # <<>>
  <2>1. BufferSize + 1 # 0
    BY <1>0
  <2>2. Len(<<>>) = 0
    BY EmptySeq
  <2>. QED
    BY <1>4, <2>1, <2>2, Zenon
<1>6. ASSUME r = Effect(s, session[con[t]], table) PROVE Begun(t)'
  <2>1. session'[c] = <<>>
    <3>1. r.session = <<>>
      <4>1. s = BEGIN /\ s \in Statement
        BY <1>2, <1>3 DEF Statement
      <4>2. Effect(s, session[con[t]], table) = [session |-> <<>>, table |-> Committed(session[con[t]], table)]
        BY <4>1, EffectIs
      <4>. QED
        BY <1>6, <4>2
    <3>. QED
      BY <1>1, <3>1 DEF Sending, IInv, TypeOK
  <2>2. work'[t] = Tail(w) /\ item'[t] = i
    BY <1>5 DEF Sending, IInv, TypeOK, w, i
  <2>3. <<>> # NULL /\ Len(<<>>) = 0
    BY NullIsNothing, EmptySeq
  <2>4. /\ Len(Tail(w)) = BufferSize - 0 + 1 /\ Tail(w)[BufferSize - 0 + 1] = COMMIT
        /\ \A k \in 1..(BufferSize - 0) : Tail(w)[k] = <<i, 0 + k>>
    BY <1>0, <1>2, <1>3, <1>4
  <2>5. 0 \in 0..BufferSize /\ \A k \in 1..0 : session'[c][k] = <<i, k>>
    BY <1>0
  <2>. QED
    BY <1>1, <2>1, <2>2, <2>3, <2>4, <2>5 DEF Begun
<1>. QED
  BY <1>2, <1>3, <1>5, <1>6 DEF w

(* A step that leaves the server alone leaves everybody his transaction. *)
LEMMA BufferedKept ==
  ASSUME IInv, Working, Buffered, session' = session, touched' = touched,
         \A u \in Thread : pc[u] = "send" /\ item[u] # NULL =>
           item'[u] = item[u] /\ work'[u] = work[u] /\ con'[u] = con[u] /\ pc'[u] = "send",
         \A c \in Connection : busy[c] # NULL /\ item[busy[c]] # NULL => busy'[c] = busy[c],
         \A u \in Thread : work'[u] # <<>> /\ item'[u] \in Buffer =>
           \/ work'[u] = Transaction(item'[u])
           \/ item'[u] = item[u] /\ work'[u] = work[u]
  PROVE Buffered'
<1>. USE NullIsNothing, DistinctItems
<1>1. ASSUME NEW u \in Thread, pc[u] = "send", item[u] # NULL, Begun(u) PROVE Begun(u)'
  BY <1>1, BegunKept
<1>2. ASSUME NEW c \in Connection, NEW b \in Buffer, HeldBy(c, b) PROVE HeldBy(c, b)'
  <2>. DEFINE u == busy[c]
  <2>1. u \in Thread /\ con[u] = c /\ con[u] # NULL /\ item[u] # NULL
    BY <1>2 DEF HeldBy, IInv, TypeOK, OwnConnection, Item
  <2>2. pc[u] = "send"
    BY <2>1 DEF Working, IInv, OwnConnection
  <2>3. Begun(u) /\ work[u] # <<>> /\ item[u] = b
    BY <1>2 DEF HeldBy
  <2>. HIDE DEF u
  <2>4. PICK v \in Thread : v = u
    BY <2>1
  <2>5. Begun(v)'
    BY <1>1, <2>1, <2>2, <2>3, <2>4
  <2>6. busy'[c] = v /\ work'[v] # <<>> /\ item'[v] = b
    BY <2>1, <2>2, <2>3, <2>4 DEF u
  <2>7. v # NULL
    BY <2>4
  <2>. QED
    BY <2>5, <2>6, <2>7 DEF HeldBy
<1>3. ASSUME NEW u \in Thread, work'[u] # <<>>, item'[u] \in Buffer \ touched'
      PROVE work'[u] = Transaction(item'[u]) \/ (pc'[u] = "send" /\ Begun(u)')
  <2>1. CASE item'[u] = item[u] /\ work'[u] = work[u]
    <3>1. item[u] # NULL
      BY <1>3, <2>1 DEF Item
    <3>. QED
      BY <1>1, <1>3, <2>1, <3>1 DEF Buffered
  <2>. QED
    BY <1>3, <2>1
<1>4. ASSUME NEW c \in Connection, session'[c] # NULL, NEW x \in DOMAIN session'[c],
             session'[c][x][1] \in Buffer \ touched'
      PROVE HeldBy(c, session[c][x][1])'
  <2>1. PICK b \in Buffer : b = session[c][x][1] /\ HeldBy(c, b)
    BY <1>4 DEF Buffered
  <2>2. HeldBy(c, b)'
    BY <1>2, <2>1
  <2>. QED
    BY <2>1, <2>2
<1>5. ASSUME touched' \cap Buffer = {}, NEW c \in Connection, session'[c] # NULL
      PROVE \E b \in Buffer : HeldBy(c, b)'
  BY <1>2, <1>5 DEF Buffered
<1>. QED
  BY <1>3, <1>4, <1>5 DEF Buffered

LEMMA OthersKept == ASSUME IInv, Working, NEW t \in Client \cup Consumer, NEW s, NEW r, Sending(t, s, r)
                    PROVE /\ \A u \in Thread \ {t} : Begun(u) /\ pc[u] = "send" =>
                               Begun(u)' /\ pc'[u] = "send" /\ item'[u] = item[u] /\ work'[u] = work[u]
                          /\ \A c \in Connection \ {con[t]} : \A b \in Buffer : HeldBy(c, b) => HeldBy(c, b)'
<1>. USE NullIsNothing, DistinctItems DEF Consumer, Thread
<1>1. PICK k \in Connection : k = con[t] /\ con' = con /\ busy' = busy /\ busy[k] = t
  BY DEF Sending
<1>2. \A u \in Thread \ {t} : item'[u] = item[u] /\ work'[u] = work[u] /\ pc'[u] = pc[u]
  BY DEF Sending, IInv, TypeOK
<1>3. \A c \in Connection \ {k} : session'[c] = session[c]
  BY <1>1 DEF Sending, IInv, TypeOK
<1>4. ASSUME NEW u \in Thread \ {t}, Begun(u), pc[u] = "send" PROVE Begun(u)'
  <2>1. con[u] \in Connection \ {k}
    BY <1>1, <1>4 DEF IInv, TypeOK, OwnConnection
  <2>. QED
    BY <1>1, <1>2, <1>3, <1>4, <2>1, BegunKept
<1>5. ASSUME NEW c \in Connection \ {k}, NEW b \in Buffer, HeldBy(c, b) PROVE HeldBy(c, b)'
  <2>1. PICK u \in Thread : u = busy[c] /\ u # NULL
    BY <1>5 DEF HeldBy, IInv, TypeOK
  <2>2. con[u] = c /\ item[u] = b /\ item[u] # NULL /\ work[u] # <<>> /\ Begun(u)
    BY <1>5, <2>1 DEF HeldBy, IInv, OwnConnection, Item
  <2>3. u # t /\ pc[u] = "send"
    BY <1>1, <1>5, <2>1, <2>2 DEF Working, IInv, OwnConnection
  <2>4. Begun(u)' /\ busy'[c] = u /\ item'[u] = b /\ work'[u] # <<>>
    BY <1>1, <1>2, <1>4, <2>1, <2>2, <2>3
  <2>. QED
    BY <2>1, <2>4 DEF HeldBy
<1>. QED
  BY <1>1, <1>2, <1>4, <1>5

LEMMA BufferedSend == ASSUME IInv, Working, Unsent, Buffered,
                             NEW t \in Client \cup Consumer, NEW s, NEW r, Sending(t, s, r)
                      PROVE Buffered'
<1>. USE NullIsNothing, DistinctItems DEF Consumer, Thread
<1>1. PICK k \in Connection : k = con[t] /\ con' = con /\ busy' = busy /\ busy[k] = t
  BY DEF Sending
<1>2. PICK i \in Item : i = item[t]
  BY DEF Sending
<1>. DEFINE p == session[k]  w == work[t]
<1>3. /\ session' = [session EXCEPT ![k] = r.session] /\ session \in [Connection -> Seq(Row) \cup {NULL}]
      /\ table \in Seq(Row) /\ w # <<>> /\ s \in Statement /\ pc[t] = "send"
      /\ touched \subseteq touched' /\ t # NULL
  BY <1>1 DEF Sending, IInv, TypeOK
<1>4. /\ work'[t] = Tail(w) /\ (Tail(w) # <<>> => item'[t] = i /\ pc'[t] = "send")
  BY <1>2 DEF Sending, IInv, TypeOK
<1>5. (r = Effect(s, p, table) /\ touched' = touched) \/ (r \in Failed(s, p, table) /\ i \in touched')
  BY <1>1, <1>2 DEF Sending
<1>6. s \in Row => s[1] = i
  <2>1. 1 \in DOMAIN w /\ s = w[1]
    BY DEF Sending
  <2>. QED
    BY <1>2, <2>1 DEF Unsent
<1>7. ASSUME Tail(w) # <<>>, i \in Buffer, Begun(t)' PROVE HeldBy(k, i)'
  BY <1>1, <1>3, <1>4, <1>7 DEF HeldBy
<1>8. i \in Buffer /\ i \notin touched => w = Transaction(i) \/ Begun(t)
  BY <1>2, <1>3 DEF Buffered
<1>9. \A x \in DOMAIN p : p # NULL /\ p[x][1] \in Buffer \ touched => p[x][1] = i /\ Begun(t)
  BY <1>1, <1>2 DEF Buffered, HeldBy
<1>. HIDE DEF p, w
<1>10. ASSUME i \in Buffer \ touched', Tail(w) # <<>> PROVE Begun(t)'
  <2>1. r = Effect(s, p, table)
    BY <1>5, <1>10
  <2>2. CASE w = Transaction(i)
    BY <1>1, <1>2, <1>10, <2>1, <2>2, BegunFirst DEF p, w
  <2>3. CASE Begun(t)
    BY <1>1, <1>2, <1>10, <2>1, <2>3, BegunNext DEF p, w
  <2>. QED
    BY <1>3, <1>8, <1>10, <2>2, <2>3
<1>11. ASSUME NEW u \in Thread, work'[u] # <<>>, item'[u] \in Buffer \ touched'
       PROVE work'[u] = Transaction(item'[u]) \/ (pc'[u] = "send" /\ Begun(u)')
  <2>1. CASE u = t
    BY <1>4, <1>10, <1>11, <2>1
  <2>2. CASE u # t
    <3>1. item'[u] = item[u] /\ work'[u] = work[u]
      BY <2>2 DEF Sending, IInv, TypeOK
    <3>. QED
      BY <1>3, <1>11, <2>2, <3>1, OthersKept DEF Buffered
  <2>. QED
    BY <2>1, <2>2
<1>12. ASSUME NEW c \in Connection, session'[c] # NULL, NEW x \in DOMAIN session'[c],
              NEW b \in Buffer \ touched', b = session'[c][x][1]
       PROVE HeldBy(c, b)'
  <2>1. CASE c # k
    <3>1. HeldBy(c, b)
      BY <1>3, <1>12, <2>1 DEF Buffered
    <3>. QED
      BY <1>1, <2>1, <3>1, OthersKept
  <2>2. CASE c = k
    <3>0. session'[k] = r.session
      BY <1>3
    <3>1. (s \in Row /\ r.session[x] = s) \/ (p # NULL /\ \E y \in DOMAIN p : r.session[x] = p[y])
      BY <1>1, <1>12, <2>2, <3>0, SendGrown DEF Grown, p
    <3>2. b = i
      BY <1>3, <1>6, <1>9, <1>12, <2>2, <3>0, <3>1
    <3>3. r = Effect(s, p, table) /\ i \in Buffer /\ i \notin touched
      BY <1>3, <1>5, <1>12, <3>2
    <3>4. Tail(w) # <<>>
      <4>1. CASE w = Transaction(i)
        BY <1>2, <3>3, <4>1, BegunFirst DEF w
      <4>2. CASE Begun(t)
        <5>1. s # COMMIT
          <6>1. s = COMMIT => r.session = NULL
            BY <1>3, <3>3, EffectIs
          <6>. QED
            BY <1>12, <2>2, <3>0, <6>1
        <5>. QED
          BY <1>2, <3>3, <4>2, <5>1, BegunNext DEF w
      <4>. QED
        BY <1>8, <3>3, <4>1, <4>2
    <3>. QED
      BY <1>7, <1>10, <1>12, <2>2, <3>2, <3>4
  <2>. QED
    BY <2>1, <2>2
<1>13. ASSUME touched' \cap Buffer = {}, NEW c \in Connection, session'[c] # NULL
       PROVE \E b \in Buffer : HeldBy(c, b)'
  <2>0. touched \cap Buffer = {}
    BY <1>3, <1>13
  <2>1. CASE c # k
    <3>1. session[c] # NULL
      BY <1>3, <1>13, <2>1
    <3>2. PICK b \in Buffer : HeldBy(c, b)
      BY <2>0, <3>1 DEF Buffered
    <3>. QED
      BY <1>1, <2>1, <3>2, OthersKept
  <2>2. CASE c = k /\ i \in Buffer
    <3>1. r = Effect(s, p, table) /\ i \notin touched /\ i \notin touched'
      BY <1>5, <1>13, <2>0, <2>2
    <3>2. Tail(w) # <<>>
      <4>1. CASE w = Transaction(i)
        BY <1>2, <2>2, <4>1, BegunFirst DEF w
      <4>2. CASE Begun(t)
        <5>1. s # COMMIT
          <6>1. s = COMMIT => r.session = NULL
            BY <1>3, <3>1, EffectIs
          <6>2. session'[k] = r.session
            BY <1>3
          <6>. QED
            BY <1>13, <2>2, <6>1, <6>2
        <5>. QED
          BY <1>2, <2>2, <4>2, <5>1, BegunNext DEF w
      <4>. QED
        BY <1>8, <2>2, <3>1, <4>1, <4>2
    <3>. QED
      BY <1>7, <1>10, <2>2, <3>1, <3>2
  <2>3. CASE c = k /\ i \notin Buffer
    <3>1. s \in Row
      <4>1. 1 \in DOMAIN work[t] /\ s = work[t][1] /\ item[t] \in Query
        BY <1>2, <2>3 DEF Sending, Item
      <4>. QED
        BY <4>1 DEF Working
    <3>2. p = NULL
      BY <1>1, <1>2, <2>0, <2>3 DEF Buffered, HeldBy, p
    <3>3. \A b : Effect(s, NULL, b).session = NULL
      BY <1>3, <3>1, EffectIs
    <3>4. r.session = NULL
      <4>1. CASE r = Effect(s, p, table)
        BY <3>2, <3>3, <4>1
      <4>2. CASE r \in Refused(s, p, table)
        BY <3>2, <4>2 DEF Refused
      <4>3. CASE \E a \in Lost(s, p, table) : r \in _Reconnect(s, a)
        <5>1. PICK a \in Lost(s, p, table) : r \in _Reconnect(s, a)
          BY <4>3
        <5>2. a.session = NULL /\ (r = a \/ r = Effect(s, a.session, a.table))
          BY <5>1 DEF Lost, _Reconnect
        <5>. QED
          BY <3>3, <5>2
      <4>. QED
        BY <1>5, <4>1, <4>2, <4>3 DEF Failed
    <3>. QED
      BY <1>3, <1>13, <2>3, <3>4
  <2>. QED
    BY <2>1, <2>2, <2>3
<1>14. ASSUME NEW c \in Connection, session'[c] # NULL, NEW x \in DOMAIN session'[c],
              session'[c][x][1] \in Buffer \ touched'
       PROVE HeldBy(c, session[c][x][1])'
  <2>1. PICK b \in Buffer \ touched' : b = session'[c][x][1]
    BY <1>14
  <2>2. HeldBy(c, b)'
    BY <1>12, <1>14, <2>1
  <2>. QED
    BY <2>1, <2>2
<1>. QED
  BY <1>11, <1>13, <1>14 DEF Buffered

LEMMA BlocksSend == ASSUME IInv, Working, Unsent, Buffered, Blocks,
                           NEW t \in Client \cup Consumer, NEW s, NEW r, Sending(t, s, r)
                    PROVE Blocks'
<1>. USE NullIsNothing, DistinctItems DEF Consumer, Thread
<1>1. PICK k \in Connection : k = con[t] /\ con' = con /\ busy' = busy /\ busy[k] = t
  BY DEF Sending
<1>2. PICK i \in Item : i = item[t]
  BY DEF Sending
<1>. DEFINE p == session[k]  w == work[t]
<1>3. /\ table' = r.table /\ table \in Seq(Row) /\ p \in Seq(Row) \cup {NULL}
      /\ w # <<>> /\ s \in Statement /\ touched \subseteq touched' /\ BufferSize \in Nat
  BY <1>1, Sizes DEF Sending, IInv, TypeOK
<1>4. (r = Effect(s, p, table) /\ touched' = touched) \/ (r \in Failed(s, p, table) /\ i \in touched')
  BY <1>1, <1>2 DEF Sending
<1>5. s \in Row => s[1] = i
  <2>1. 1 \in DOMAIN w /\ s = w[1]
    BY DEF Sending
  <2>. QED
    BY <1>2, <2>1 DEF Unsent
<1>6. i \in Buffer /\ i \notin touched => w = Transaction(i) \/ Begun(t)
  BY <1>2, <1>3 DEF Buffered
<1>7. \A x \in DOMAIN p : p # NULL /\ p[x][1] \in Buffer \ touched => p[x][1] = i /\ Begun(t)
  BY <1>1, <1>2 DEF Buffered, HeldBy
<1>8. Grown(s, p, table, r)
  BY <1>1, SendGrown
<1>. HIDE DEF p, w
<1>9. ASSUME NEW x \in DOMAIN table, NEW b \in Buffer \ touched', b = table[x][1]
      PROVE \E f \in Nat \ {0}, n \in 1..BufferSize : x = f + n - 1 /\ Block(b, f)'
  <2>1. PICK f \in Nat \ {0}, n \in 1..BufferSize : x = f + n - 1 /\ Block(b, f)
    BY <1>3, <1>9 DEF Blocks
  <2>2. Block(b, f)'
    BY <1>3, <1>8, <2>1 DEF Block, Grown
  <2>. QED
    BY <2>1, <2>2
<1>10. ASSUME NEW x \in DOMAIN table', x \notin DOMAIN table, NEW b \in Buffer \ touched', b = table'[x][1]
       PROVE \E f \in Nat \ {0}, n \in 1..BufferSize : x = f + n - 1 /\ Block(b, f)'
  <2>1. (s \in Row /\ table'[x] = s) \/ (p # NULL /\ \E y \in DOMAIN p : table'[x] = p[y])
    BY <1>3, <1>8, <1>10 DEF Grown
  <2>2. b = i
    BY <1>3, <1>5, <1>7, <1>10, <2>1
  <2>3. r = Effect(s, p, table) /\ i \in Buffer /\ i \notin touched
    BY <1>3, <1>4, <1>10, <2>2
  <2>4. Begun(t)
    <3>1. CASE s \in Row /\ table'[x] = s
      <4>1. w # Transaction(i)
        <5>1. w = Transaction(i) => s = BEGIN
          BY <1>2, <2>3, BegunFirst DEF w
        <5>. QED
          BY <3>1, <5>1, DistinctWords
      <4>. QED
        BY <1>6, <2>3, <4>1
    <3>2. CASE p # NULL /\ \E y \in DOMAIN p : table'[x] = p[y]
      BY <1>3, <1>7, <1>10, <3>2
    <3>. QED
      BY <2>1, <3>1, <3>2
  <2>5. p # NULL /\ (s \in Row \/ (s = COMMIT /\ Len(p) = BufferSize /\ \A n \in 1..BufferSize : p[n] = <<i, n>>))
    BY <1>1, <1>2, <2>3, <2>4, BegunNext DEF p
  <2>6. s \notin Row
    <3>1. s \in Row => r.table = table
      BY <1>3, <2>3, <2>5, EffectIs
    <3>. QED
      BY <1>3, <1>10, <3>1
  <2>7. r.table = Committed(p, table) /\ Len(p) = BufferSize /\ \A n \in 1..BufferSize : p[n] = <<i, n>>
    BY <1>3, <2>3, <2>5, <2>6, EffectIs
  <2>8. /\ table' \in Seq(Row) /\ Len(table') = Len(table) + BufferSize
        /\ \A y \in 1..(Len(table) + BufferSize) : table'[y] = IF y <= Len(table) THEN table[y] ELSE p[y - Len(table)]
    <3>1. p \in Seq(Row) /\ p # NULL /\ table' = Committed(p, table)
      BY <1>3, <2>5, <2>7
    <3>2. /\ Committed(p, table) \in Seq(Row)
          /\ Len(Committed(p, table)) = Len(table) + Len(p)
          /\ \A y \in 1..(Len(table) + Len(p)) :
               Committed(p, table)[y] = IF y <= Len(table) THEN table[y] ELSE p[y - Len(table)]
      BY <1>3, <3>1, CommittedRows
    <3>. QED
      BY <2>7, <3>1, <3>2
  <2>. DEFINE f == Len(table) + 1  n == x - Len(table)
  <2>9. Len(table) \in Nat /\ DOMAIN table = 1..Len(table) /\ DOMAIN table' = 1..(Len(table) + BufferSize)
    BY <1>3, <2>8
  <2>10. f \in Nat \ {0} /\ n \in 1..BufferSize /\ x = f + n - 1
    BY <1>3, <1>10, <2>9
  <2>11. ASSUME NEW m \in 1..BufferSize PROVE f + m - 1 \in DOMAIN table' /\ table'[f + m - 1] = <<i, m>>
    <3>1. f + m - 1 = Len(table) + m /\ Len(table) + m \in 1..(Len(table) + BufferSize) /\ (Len(table) + m) - Len(table) = m
          /\ ~(Len(table) + m <= Len(table))
      BY <1>3, <2>9
    <3>. QED
      BY <2>7, <2>8, <2>9, <3>1
  <2>12. PICK g \in Nat \ {0} : g = f
    BY <2>10
  <2>13. Block(b, g)'
    BY <2>2, <2>11, <2>12 DEF Block
  <2>. QED
    BY <2>10, <2>12, <2>13
<1>11. ASSUME NEW x \in DOMAIN table', table'[x][1] \in Buffer \ touched'
       PROVE \E f \in Nat \ {0}, n \in 1..BufferSize : x = f + n - 1 /\ Block(table[x][1], f)'
  <2>1. PICK b \in Buffer \ touched' : b = table'[x][1]
    BY <1>11
  <2>2. x \in DOMAIN table => b = table[x][1]
    BY <1>3, <1>8, <2>1 DEF Grown
  <2>3. PICK f \in Nat \ {0}, n \in 1..BufferSize : x = f + n - 1 /\ Block(b, f)'
    BY <1>9, <1>10, <1>11, <2>1, <2>2
  <2>4. Block(table[x][1], f)'
    BY <2>1, <2>3
  <2>. QED
    BY <2>3, <2>4
<1>. QED
  BY <1>11 DEF Blocks

LEMMA BufferedStep == ASSUME IInv, Working, Unsent, Buffered, Blocks, Move PROVE Buffered' /\ Blocks'
<1>. USE DistinctThreads, DistinctItems, NullIsNothing DEF Consumer, Thread
<1>1. ASSUME NEW c \in Client, NEW i \in Item, Calling(c, i) PROVE Buffered'
  <2>1. item[c] = NULL
    BY <1>1 DEF Working, Calling
  <2>2. \A u \in Thread \ {c} : item'[u] = item[u] /\ work'[u] = work[u] /\ pc'[u] = pc[u]
    BY <1>1 DEF IInv, TypeOK, Calling
  <2>3. item'[c] = i /\ work'[c] \in {<<>>, Statements(i)} /\ pc[c] # "send"
    BY <1>1 DEF IInv, TypeOK, Calling
  <2>4. i \in Buffer => Statements(i) = Transaction(i)
    BY StatementRows
  <2>. QED
    BY <1>1, <2>1, <2>2, <2>3, <2>4, BufferedKept DEF Calling
<1>2. ASSUME NEW c \in Client, Pushing(c) PROVE Buffered'
  <2>1. \A u \in Thread \ {c} : item'[u] = item[u] /\ work'[u] = work[u] /\ pc'[u] = pc[u]
    BY <1>2 DEF IInv, TypeOK, Pushing
  <2>2. work'[c] = <<>> /\ pc[c] # "send"
    BY <1>2 DEF IInv, TypeOK, Pushing
  <2>. QED
    BY <1>2, <2>1, <2>2, BufferedKept DEF Pushing
<1>3. ASSUME NEW t \in Consumer, NEW i \in Item, Taking(t, i) PROVE Buffered'
  <2>1. \A u \in Thread \ {t} : item'[u] = item[u] /\ work'[u] = work[u] /\ pc'[u] = pc[u]
    BY <1>3 DEF IInv, TypeOK, Taking
  <2>2. item'[t] = i /\ work'[t] = Statements(i) /\ pc[t] # "send"
    BY <1>3 DEF IInv, TypeOK, Taking, FromQueue
  <2>3. i \in Buffer => Statements(i) = Transaction(i)
    BY StatementRows
  <2>. QED
    BY <1>3, <2>1, <2>2, <2>3, BufferedKept DEF Taking, FromQueue
<1>4. ASSUME NEW t \in Consumer, Dropping(t) PROVE Buffered'
  <2>1. \A u \in Thread \ {t} : pc'[u] = pc[u]
    BY <1>4 DEF IInv, TypeOK, Dropping
  <2>. QED
    BY <1>4, <2>1, BufferedKept DEF Dropping, FromQueue
<1>5. ASSUME Staying PROVE Buffered'
  BY <1>5, BufferedKept DEF Staying
<1>6. CASE table' = table /\ touched' = touched
  <2>1. Blocks'
    BY <1>6 DEF Blocks, Block
  <2>. QED
    BY <2>1, <1>1, <1>2, <1>3, <1>4, <1>5, BufferedSend DEF Move
<1>7. ASSUME NEW t \in Client \cup Consumer, NEW s, NEW r, Sending(t, s, r) PROVE Buffered' /\ Blocks'
  BY <1>7, BufferedSend, BlocksSend
<1>. QED
  BY <1>6, <1>7 DEF Move, Calling, Pushing, Taking, Dropping, FromQueue, Staying

BlockInv == OnceInv /\ Buffered /\ Blocks

LEMMA BlockInvariant == Spec => []BlockInv
<1>1. ASSUME Init PROVE Buffered /\ Blocks
  BY <1>1 DEF Init, Buffered, Blocks, Thread, Consumer
<1>2. BlockInv /\ [Next]_vars => BlockInv'
  BY Inductive, NextMoves, WorkingStep, OnePlaceStep, UnsentStep, OnceStep, BufferedStep DEF BlockInv, OnceInv
<1>. QED
  BY <1>1, <1>2, OnceInvariant, PTL DEF Spec, BlockInv

(* A buffer is committed as one block of the table or not at all, whatever   *)
(* the other threads send meanwhile: the transaction of its connection holds *)
(* nothing but what has been sent of it (PerformQueryBuffer).                *)
THEOREM AllTogether == Spec => []Together
<1>1. BlockInv => Together
  <2>. SUFFICES ASSUME BlockInv, NEW x \in DOMAIN table, table[x][1] \in Buffer \ touched
                PROVE LET first == x - table[x][2] + 1
                          last  == first + BufferSize - 1
                      IN first \in DOMAIN table /\ last \in DOMAIN table
                         /\ SubSeq(table, first, last) = Rows(table[x][1])
    BY DEF Together
  <2>1. PICK f \in Nat \ {0}, n \in 1..BufferSize : x = f + n - 1 /\ Block(table[x][1], f)
    BY DEF BlockInv, Blocks
  <2>2. PICK b \in Buffer : b = table[x][1]
    OBVIOUS
  <2>3. \A k \in 1..BufferSize : f + k - 1 \in DOMAIN table /\ table[f + k - 1] = <<b, k>>
    BY <2>1, <2>2 DEF Block
  <2>4. table[x] = <<b, n>> /\ x \in Nat /\ BufferSize \in Nat /\ n \in Nat
    <3>1. table[f + n - 1] = <<b, n>>
      BY <2>3
    <3>2. BufferSize \in Nat /\ n \in Nat /\ x \in Nat
      BY <2>1, Sizes
    <3>. QED
      BY <2>1, <3>1, <3>2
  <2>5. x - table[x][2] + 1 = f
    BY <2>1, <2>4
  <2>6. f \in DOMAIN table /\ f + BufferSize - 1 \in DOMAIN table
    <3>1. 1 \in 1..BufferSize /\ BufferSize \in 1..BufferSize /\ f + 1 - 1 = f
      BY <2>1, <2>4
    <3>. QED
      BY <2>3, <3>1
  <2>7. SubSeq(table, f, f + BufferSize - 1) = Rows(b)
    <3>. DEFINE q == SubSeq(table, f, f + BufferSize - 1)
    <3>0. table \in Seq(Row) /\ f \in Int /\ f + BufferSize - 1 \in Int /\ f <= f + BufferSize - 1
      BY <2>1, <2>4 DEF BlockInv, OnceInv, IInv, TypeOK
    <3>1. \A y \in f..(f + BufferSize - 1) : table[y] \in Row
      BY <2>6, <3>0
    <3>2. /\ q \in Seq(Row) /\ Len(q) = (f + BufferSize - 1) - f + 1
          /\ \A y \in 1..((f + BufferSize - 1) - f + 1) : q[y] = table[f + y - 1]
      BY <3>0, <3>1, SubSeqProperties
    <3>3. (f + BufferSize - 1) - f + 1 = BufferSize
      BY <2>4
    <3>4. Rows(b) \in Seq(Row) /\ Len(Rows(b)) = BufferSize /\ \A y \in 1..BufferSize : Rows(b)[y] = <<b, y>>
      BY RowsAre DEF Item
    <3>. HIDE DEF q
    <3>5. Len(q) = Len(Rows(b)) /\ \A y \in 1..Len(q) : q[y] = Rows(b)[y]
      BY <2>3, <3>2, <3>3, <3>4
    <3>6. q = Rows(b)
      BY <3>2, <3>4, <3>5, SeqEqual
    <3>. QED
      BY <3>6 DEF q
  <2>. QED
    BY <2>2, <2>5, <2>6, <2>7
<1>. QED
  BY <1>1, BlockInvariant, PTL

-----------------------------------------------------------------------------
HasRow(q) == \E x \in DOMAIN table : table[x][1] = q
Queued(q) == \E x \in DOMAIN queue[ExecuteThread] : queue[ExecuteThread][x] = q

(* A query given to Execute is its client's own, and is sent past the queue  *)
(* only when the execute thread has ended.                                   *)
CalledOnce ==
  /\ \A c \in Client : \A i \in DOMAIN executed[c] : executed[c][i] \in called
  /\ \A c \in Client : \A i, j \in DOMAIN executed[c] : executed[c][i] = executed[c][j] => i = j
  /\ \A c, d \in Client : c # d => \A i \in DOMAIN executed[c] : item[d] # executed[c][i]
  /\ item[QueryThread] \notin Query
  /\ ~ThreadRunning => pc[ExecuteThread] = "ended"

(* Of two queries of one client the earlier, p, is always further on its way *)
(* than the later, q: client, queue, execute thread, table.                  *)
Ahead(c, p, q) ==
  /\ item[c] # p
  /\ \A x, y \in DOMAIN queue[ExecuteThread] :
       queue[ExecuteThread][x] = p /\ queue[ExecuteThread][y] = q => x < y
  /\ item[ExecuteThread] = q => ~Queued(p)
  /\ touched \cap Buffer = {} /\ HasRow(q) =>
       item[ExecuteThread] # p /\ (pc[ExecuteThread] = "ended" \/ ~Queued(p))
  /\ item[c] = q /\ pc[c] # "push" => pc[ExecuteThread] = "ended"
InTurn == \A c \in Client : \A i, j \in DOMAIN executed[c] : i < j => Ahead(c, executed[c][i], executed[c][j])

LEMMA CalledOnceStep == ASSUME IInv, Working, OnePlace, CalledOnce, Move PROVE CalledOnce'
<1>. USE DistinctThreads, DistinctItems, NullIsNothing DEF Consumer, Thread
<1>0. \A c \in Client : executed[c] \in Seq(Query)
  BY DEF IInv, TypeOK
<1>1. ASSUME NEW c0 \in Client, NEW i0 \in Item, Calling(c0, i0) PROVE CalledOnce'
  <2>1. \A u \in Thread : item'[u] = IF u = c0 THEN i0 ELSE item[u]
    BY <1>1 DEF IInv, TypeOK, Calling
  <2>2. i0 \notin called /\ i0 # NULL /\ called' = called \cup {i0}
    BY <1>1 DEF Calling, Item
  <2>3. ASSUME NEW c \in Client, NEW i \in DOMAIN executed'[c]
        PROVE \/ i \in DOMAIN executed[c] /\ executed'[c][i] = executed[c][i] /\ executed[c][i] \in called
              \/ c = c0 /\ i = Len(executed[c]) + 1 /\ executed'[c][i] = i0
    <3>1. CASE executed' = executed
      BY <2>3, <3>1 DEF CalledOnce
    <3>2. CASE i0 \in Query /\ executed' = [executed EXCEPT ![c0] = Append(executed[c0], i0)]
      <4>1. CASE c # c0
        <5>1. executed'[c] = executed[c]
          BY <3>2, <4>1 DEF IInv, TypeOK
        <5>. QED
          BY <2>3, <5>1 DEF CalledOnce
      <4>2. CASE c = c0
        <5>1. executed'[c] = Append(executed[c], i0) /\ executed[c] \in Seq(Query)
          BY <3>2, <4>2 DEF IInv, TypeOK
        <5>2. CASE i \in 1..Len(executed[c])
          BY <3>2, <5>1, <5>2 DEF CalledOnce
        <5>3. CASE i = Len(executed[c]) + 1
          BY <3>2, <4>2, <5>1, <5>3
        <5>. QED
          BY <2>3, <3>2, <5>1, <5>2, <5>3
      <4>. QED
        BY <4>1, <4>2
    <3>. QED
      BY <1>1, <3>1, <3>2 DEF Calling
  <2>4. \A u \in Thread : item[u] # i0
    BY <2>2 DEF OnePlace
  <2>5. /\ \A c \in Client : \A i \in DOMAIN executed'[c] : executed'[c][i] \in called'
        /\ \A c \in Client : \A i, j \in DOMAIN executed'[c] : executed'[c][i] = executed'[c][j] => i = j
    BY <2>2, <2>3 DEF CalledOnce
  <2>6. ASSUME NEW c \in Client, NEW d \in Client, c # d, NEW i \in DOMAIN executed'[c]
        PROVE item'[d] # executed'[c][i]
    BY <2>1, <2>2, <2>3, <2>4, <2>6 DEF CalledOnce
  <2>7. (~ThreadRunning => pc[ExecuteThread] = "ended")'
    BY <1>1 DEF CalledOnce, Calling, IInv, TypeOK
  <2>8. item'[QueryThread] \notin Query
    BY <2>1 DEF CalledOnce
  <2>. QED
    BY <2>5, <2>6, <2>7, <2>8 DEF CalledOnce
<1>2. ASSUME executed' = executed, called \subseteq called',
             \A u \in Thread : item'[u] \in {item[u], NULL},
             (~ThreadRunning => pc[ExecuteThread] = "ended")'
      PROVE CalledOnce'
  <2>1. \A c \in Client : \A i \in DOMAIN executed[c] : executed[c][i] # NULL
    BY <1>0 DEF Item
  <2>2. item'[QueryThread] \notin Query
    BY <1>2 DEF CalledOnce, Item
  <2>. QED
    BY <1>2, <2>1, <2>2 DEF CalledOnce
<1>3. ASSUME NEW c \in Client, Pushing(c) PROVE CalledOnce'
  <2>1. \A u \in Thread : item'[u] \in {item[u], NULL}
    BY <1>3 DEF Pushing, IInv, TypeOK
  <2>2. (~ThreadRunning => pc[ExecuteThread] = "ended")'
    BY <1>3 DEF Pushing, IInv, TypeOK, CalledOnce
  <2>. QED
    BY <1>2, <1>3, <2>1, <2>2 DEF Pushing
<1>4. ASSUME NEW t \in Consumer, FromQueue(t), \A u \in Thread \ {t} : pc'[u] = pc[u]
      PROVE (~ThreadRunning => pc[ExecuteThread] = "ended")'
  BY <1>4 DEF FromQueue, CalledOnce
<1>5. ASSUME NEW t \in Consumer, NEW i \in Item, Taking(t, i) PROVE CalledOnce'
  <2>1. \A u \in Thread : item'[u] = IF u = t THEN i ELSE item[u]
    BY <1>5 DEF Taking, IInv, TypeOK
  <2>2. (~ThreadRunning => pc[ExecuteThread] = "ended")'
    BY <1>4, <1>5 DEF Taking, IInv, TypeOK
  <2>3. t = QueryThread => i \notin Query
    BY <1>5, HeadTailProperties DEF Taking, FromQueue, IInv, TypeOK
  <2>. QED
    BY <1>5, <2>1, <2>2, <2>3 DEF CalledOnce, Taking, FromQueue
<1>6. ASSUME NEW t \in Consumer, Dropping(t) PROVE CalledOnce'
  <2>1. (~ThreadRunning => pc[ExecuteThread] = "ended")'
    BY <1>4, <1>6 DEF Dropping, IInv, TypeOK
  <2>. QED
    BY <1>2, <1>6, <2>1 DEF Dropping, FromQueue
<1>7. ASSUME NEW t \in Client \cup Consumer, NEW s, NEW r, Sending(t, s, r) PROVE CalledOnce'
  <2>1. \A u \in Thread : item'[u] \in {item[u], NULL}
    BY <1>7 DEF Sending, IInv, TypeOK
  <2>2. (~ThreadRunning => pc[ExecuteThread] = "ended")'
    BY <1>7 DEF Sending, IInv, TypeOK, CalledOnce, flags
  <2>. QED
    BY <1>2, <1>7, <2>1, <2>2 DEF Sending
<1>8. ASSUME Staying PROVE CalledOnce'
  BY <1>2, <1>8 DEF Staying, CalledOnce
<1>. QED
  BY <1>1, <1>3, <1>5, <1>6, <1>7, <1>8 DEF Move

(* Without a failed buffer a query's row reaches the table only when its     *)
(* thread sends it.                                                          *)
LEMMA NewRow == ASSUME IInv, Working, Unsent, Buffered, NEW t \in Client \cup Consumer, NEW s, NEW r, Sending(t, s, r),
                       touched' \cap Buffer = {}, NEW x \in DOMAIN table', table'[x][1] \in Query
                PROVE \/ x \in DOMAIN table /\ table'[x] = table[x]
                      \/ x \notin DOMAIN table /\ table'[x][1] = item[t]
<1>. USE DistinctItems DEF Consumer, Thread
<1>1. PICK k \in Connection : k = con[t] /\ busy[k] = t
  BY DEF Sending
<1>2. Grown(s, session[k], table, r) /\ table' = r.table
  BY <1>1, SendGrown DEF Sending
<1>3. s \in Row => s[1] = item[t]
  <2>1. 1 \in DOMAIN work[t] /\ s = work[t][1]
    BY DEF Sending
  <2>. QED
    BY <2>1 DEF Unsent
<1>4. ASSUME session[k] # NULL, NEW y \in DOMAIN session[k] PROVE session[k][y][1] \notin Query
  <2>1. touched \cap Buffer = {}
    BY DEF Sending
  <2>2. PICK b \in Buffer : HeldBy(k, b)
    BY <1>4, <2>1 DEF Buffered
  <2>3. item[t] = b /\ Begun(t)
    BY <1>1, <2>2 DEF HeldBy
  <2>4. PICK n \in 0..BufferSize : Len(session[k]) = n /\ \A m \in 1..n : session[k][m] = <<b, m>>
    BY <1>1, <2>3 DEF Begun
  <2>5. y \in 1..n
    BY <1>4, <2>4 DEF IInv, TypeOK
  <2>. QED
    BY <2>4, <2>5
<1>. QED
  BY <1>2, <1>3, <1>4 DEF Grown

LEMMA InTurnStep == ASSUME IInv, Working, OnePlace, Unsent, Buffered, CalledOnce, InTurn, Move PROVE InTurn'
<1>. USE DistinctThreads, DistinctItems, NullIsNothing DEF Consumer, Thread
<1>. DEFINE E == ExecuteThread
<1>0. ASSUME NEW c \in Client, NEW i \in DOMAIN executed[c], NEW j \in DOMAIN executed[c], i < j
      PROVE /\ executed[c][i] \in Query /\ executed[c][j] \in Query
            /\ executed[c][i] # executed[c][j] /\ executed[c][i] # NULL /\ executed[c][j] # NULL
            /\ executed[c][i] \in called /\ executed[c][j] \in called
            /\ Ahead(c, executed[c][i], executed[c][j])
  <2>1. executed[c] \in Seq(Query)
    BY DEF IInv, TypeOK
  <2>2. i # j
    BY <1>0, <2>1
  <2>. QED
    BY <1>0, <2>1, <2>2 DEF InTurn, CalledOnce, Item
<1>1. ASSUME NEW c0 \in Client, NEW i0 \in Item, Calling(c0, i0) PROVE InTurn'
  <2>1. /\ \A u \in Thread : item'[u] = IF u = c0 THEN i0 ELSE item[u]
        /\ \A u \in Thread \ {c0} : pc'[u] = pc[u]
    BY <1>1 DEF IInv, TypeOK, Calling
  <2>2. i0 \notin called /\ i0 # NULL /\ queue' = queue /\ table' = table /\ touched' = touched
    BY <1>1 DEF Calling, Item
  <2>3. ASSUME NEW c \in Client, NEW i \in DOMAIN executed[c], NEW j \in DOMAIN executed[c], i < j,
               NEW p, NEW q, p = executed[c][i], q = executed[c][j]
        PROVE Ahead(c, p, q)'
    <3>1. Ahead(c, p, q) /\ p # i0 /\ q # i0
      BY <1>0, <2>2, <2>3
    <3>. QED
      BY <2>1, <2>2, <3>1 DEF Ahead, Queued, HasRow
  <2>4. ASSUME NEW p \in called PROVE (pc'[c0] = "connect" /\ ~ThreadRunning) \/ pc'[c0] = "push" => Ahead(c0, p, i0)'
    <3>1. \A x \in DOMAIN queue[E] : queue[E][x] # i0
      BY <2>2 DEF OnePlace
    <3>2. ~HasRow(i0)
      <4>1. ASSUME NEW x \in DOMAIN table PROVE table[x][1] \in called
        <5>1. table[x] \in Row /\ OnServer(table[x])
          BY DEF IInv, TypeOK, OnServer, InTable
        <5>. QED
          BY <5>1 DEF OnePlace
      <4>. QED
        BY <2>2, <4>1 DEF HasRow
    <3>3. item[E] # i0
      BY <2>2 DEF OnePlace
    <3>4. ~ThreadRunning => pc[E] = "ended"
      BY DEF CalledOnce
    <3>5. p # i0
      BY <2>2, <2>4
    <3>. QED
      BY <2>1, <2>2, <3>1, <3>2, <3>3, <3>4, <3>5 DEF Ahead, Queued, HasRow
  <2>5. CASE executed' = executed
    BY <2>3, <2>5 DEF InTurn
  <2>6. CASE executed' # executed
    <3>1. /\ i0 \in Query /\ executed' = [executed EXCEPT ![c0] = Append(executed[c0], i0)]
          /\ (pc'[c0] = "connect" /\ ~ThreadRunning) \/ pc'[c0] = "push"
      BY <1>1, <2>6 DEF Calling, IInv, TypeOK
    <3>2. ASSUME NEW c \in Client, NEW i \in DOMAIN executed'[c], NEW j \in DOMAIN executed'[c], i < j,
                 NEW p, NEW q, p = executed'[c][i], q = executed'[c][j]
          PROVE Ahead(c, p, q)'
      <4>1. CASE c # c0
        <5>1. executed'[c] = executed[c]
          BY <3>1, <4>1 DEF IInv, TypeOK
        <5>. QED
          BY <2>3, <3>2, <5>1
      <4>2. CASE c = c0
        <5>1. executed[c] \in Seq(Query) /\ executed'[c] = Append(executed[c], i0)
          BY <3>1, <4>2 DEF IInv, TypeOK
        <5>2. /\ DOMAIN executed[c] = 1..Len(executed[c]) /\ DOMAIN executed'[c] = 1..(Len(executed[c]) + 1)
              /\ Len(executed[c]) \in Nat
              /\ \A x \in 1..Len(executed[c]) : executed'[c][x] = executed[c][x]
              /\ executed'[c][Len(executed[c]) + 1] = i0
          BY <3>1, <5>1
        <5>3. i \in DOMAIN executed[c] /\ p = executed[c][i] /\ p \in called
          <6>1. i \in 1..Len(executed[c])
            BY <3>2, <5>2
          <6>. QED
            BY <3>2, <5>2, <6>1 DEF CalledOnce
        <5>4. CASE j = Len(executed[c]) + 1
          BY <2>4, <3>1, <3>2, <4>2, <5>2, <5>3, <5>4
        <5>5. CASE j # Len(executed[c]) + 1
          <6>1. j \in 1..Len(executed[c])
            BY <3>2, <5>2, <5>5
          <6>2. j \in DOMAIN executed[c] /\ q = executed[c][j]
            BY <3>2, <5>2, <6>1
          <6>. QED
            BY <2>3, <3>2, <5>3, <6>2
        <5>. QED
          BY <5>4, <5>5
      <4>. QED
        BY <4>1, <4>2
    <3>. QED
      BY <3>2 DEF InTurn
  <2>. QED
    BY <2>5, <2>6
<1>2. ASSUME executed' = executed,
             \A c \in Client : \A i, j \in DOMAIN executed[c] : i < j => Ahead(c, executed[c][i], executed[c][j])'
      PROVE InTurn'
  BY <1>2 DEF InTurn
<1>3. ASSUME NEW c0 \in Client, Pushing(c0), NEW c \in Client, NEW i \in DOMAIN executed[c], NEW j \in DOMAIN executed[c],
             i < j, NEW p, NEW q, p = executed[c][i], q = executed[c][j]
      PROVE Ahead(c, p, q)'
  <2>1. PICK i0 \in Item : i0 = item[c0]
    BY <1>3 DEF Pushing
  <2>2. /\ \A u \in Thread : item'[u] = IF u = c0 THEN NULL ELSE item[u]
        /\ \A u \in Thread \ {c0} : pc'[u] = pc[u]
        /\ table' = table /\ touched' = touched
    BY <1>3 DEF IInv, TypeOK, Pushing
  <2>3. p # i0 /\ p # NULL /\ q # NULL /\ p # q /\ Ahead(c, p, q)
    BY <1>0, <1>3, <2>1 DEF CalledOnce, Ahead
  <2>4. queue'[E] = queue[E] \/ queue'[E] = Append(queue[E], i0)
    BY <1>3, <2>1 DEF Pushing, IInv, TypeOK
  <2>5. /\ \A x \in DOMAIN queue'[E] : \/ x \in DOMAIN queue[E] /\ queue'[E][x] = queue[E][x]
                                       \/ x = Len(queue[E]) + 1 /\ queue'[E][x] = i0
        /\ \A x \in DOMAIN queue[E] : x < Len(queue[E]) + 1
    <3>1. queue[E] \in Seq(Item) /\ Len(queue[E]) \in Nat /\ DOMAIN queue[E] = 1..Len(queue[E])
      BY DEF IInv, TypeOK
    <3>2. CASE queue'[E] = queue[E]
      BY <3>1, <3>2
    <3>3. CASE queue'[E] = Append(queue[E], i0)
      <4>. DEFINE w == queue[E]
      <4>1. /\ w \in Seq(Item) /\ i0 \in Item
        BY <3>1
      <4>2. /\ DOMAIN Append(w, i0) = 1..(Len(w) + 1) /\ Append(w, i0)[Len(w) + 1] = i0
            /\ \A x \in 1..Len(w) : Append(w, i0)[x] = w[x]
        BY <4>1
      <4>. HIDE DEF w
      <4>3. \A x \in 1..(Len(w) + 1) : x \in 1..Len(w) \/ x = Len(w) + 1
        BY <3>1 DEF w
      <4>. QED
        BY <3>1, <3>3, <4>2, <4>3 DEF w
    <3>. QED
      BY <2>4, <3>2, <3>3
  <2>6. Queued(p)' => Queued(p)
    BY <2>3, <2>5 DEF Queued
  <2>. QED
    BY <2>2, <2>3, <2>5, <2>6 DEF Ahead, HasRow
<1>4. ASSUME NEW c \in Client, NEW i \in DOMAIN executed[c], NEW j \in DOMAIN executed[c], i < j,
             NEW p, NEW q, p = executed[c][i], q = executed[c][j],
             queue'[E] = queue[E], item'[E] = item[E], pc[E] = "ended" => pc'[E] = "ended",
             item'[c] = item[c], pc'[c] # "push" /\ item[c] # NULL => pc[c] # "push", table' = table, touched' = touched
      PROVE Ahead(c, p, q)'
  <2>1. Ahead(c, p, q) /\ q # NULL
    BY <1>0, <1>4
  <2>. QED
    BY <1>4, <2>1 DEF Ahead, Queued, HasRow
<1>5. ASSUME NEW t \in Consumer, NEW i0 \in Item, Taking(t, i0), NEW c \in Client, NEW i \in DOMAIN executed[c],
             NEW j \in DOMAIN executed[c], i < j, NEW p, NEW q, p = executed[c][i], q = executed[c][j]
      PROVE Ahead(c, p, q)'
  <2>1. /\ \A u \in Thread : item'[u] = IF u = t THEN i0 ELSE item[u]
        /\ \A u \in Thread \ {t} : pc'[u] = pc[u]
        /\ table' = table /\ touched' = touched /\ c # t
        /\ \A u \in Consumer \ {t} : queue'[u] = queue[u]
    BY <1>5 DEF IInv, TypeOK, Taking, FromQueue
  <2>2. CASE t # E
    BY <1>4, <1>5, <2>1, <2>2
  <2>3. CASE t = E
    <3>. DEFINE w == queue[E]
    <3>1. /\ w \in Seq(Item) /\ w # <<>> /\ queue'[E] = Tail(w) /\ i0 = w[1] /\ 1 \in DOMAIN w
          /\ pc[E] # "ended" /\ Len(Tail(w)) = Len(w) - 1 /\ Tail(w) \in Seq(Item)
          /\ \A x \in 1..Len(Tail(w)) : Tail(w)[x] = w[x + 1]
      BY <1>5, <2>3, HeadTailProperties DEF IInv, TypeOK, Taking, FromQueue
    <3>2. \A x \in DOMAIN Tail(w) : x + 1 \in DOMAIN w /\ Tail(w)[x] = w[x + 1] /\ x \in Nat /\ ~(x + 1 < 1)
      BY <3>1
    <3>3. Ahead(c, p, q)
      BY <1>0, <1>5
    <3>. HIDE DEF w
    <3>4. Queued(p)' => Queued(p)
      BY <3>1, <3>2 DEF Queued, w
    <3>5. i0 = q => ~Queued(p)'
      BY <3>1, <3>2, <3>3 DEF Ahead, Queued, w
    <3>6. i0 = p => Queued(p)
      BY <3>1 DEF Queued, w
    <3>7. ASSUME NEW x \in DOMAIN queue'[E], NEW y \in DOMAIN queue'[E], queue'[E][x] = p, queue'[E][y] = q PROVE x < y
      <4>1. w[x + 1] = p /\ w[y + 1] = q /\ x + 1 \in DOMAIN w /\ y + 1 \in DOMAIN w /\ x \in Nat /\ y \in Nat
        BY <3>1, <3>2, <3>7
      <4>2. x + 1 < y + 1
        BY <3>3, <4>1 DEF Ahead, w
      <4>. QED
        BY <4>1, <4>2
    <3>. QED
      BY <2>1, <2>3, <3>1, <3>3, <3>4, <3>5, <3>6, <3>7 DEF Ahead, HasRow
  <2>. QED
    BY <2>2, <2>3
<1>6. ASSUME NEW t \in Consumer, Dropping(t), NEW c \in Client, NEW i \in DOMAIN executed[c],
             NEW j \in DOMAIN executed[c], i < j, NEW p, NEW q, p = executed[c][i], q = executed[c][j]
      PROVE Ahead(c, p, q)'
  BY <1>4, <1>6 DEF IInv, TypeOK, Dropping, FromQueue
<1>7. ASSUME NEW t \in Client \cup Consumer, NEW s, NEW r, Sending(t, s, r), NEW c \in Client,
             NEW i \in DOMAIN executed[c], NEW j \in DOMAIN executed[c], i < j,
             NEW p, NEW q, p = executed[c][i], q = executed[c][j]
      PROVE Ahead(c, p, q)'
  <2>1. /\ \A u \in Thread : item'[u] \in {item[u], NULL}
        /\ \A u \in Thread \ {t} : pc'[u] = pc[u]
        /\ pc[t] = "send" /\ queue' = queue /\ touched \subseteq touched'
    BY <1>7 DEF IInv, TypeOK, Sending, queues
  <2>2. /\ Ahead(c, p, q) /\ p \in Query /\ q \in Query /\ p # NULL /\ q # NULL /\ p # q
    BY <1>0, <1>7
  <2>3. ASSUME touched' \cap Buffer = {}, HasRow(q)'
        PROVE item'[E] # p /\ (pc'[E] = "ended" \/ ~Queued(p)')
    <3>1. CASE HasRow(q)
      BY <2>1, <2>2, <2>3, <3>1 DEF Ahead, Queued
    <3>2. CASE q = item[t]
      <4>1. CASE t = E
        BY <2>1, <2>2, <3>2, <4>1 DEF Ahead, Queued
      <4>2. CASE t = c
        <5>1. pc[E] = "ended" /\ t # E
          BY <2>1, <2>2, <3>2, <4>2 DEF Ahead
        <5>2. item[E] = NULL
          BY <5>1 DEF Working
        <5>. QED
          BY <2>1, <2>2, <5>1, <5>2
      <4>3. CASE t \in Client \ {c}
        BY <1>7, <3>2, <4>3 DEF CalledOnce
      <4>4. CASE t = QueryThread
        BY <2>2, <3>2, <4>4 DEF CalledOnce
      <4>. QED
        BY <4>1, <4>2, <4>3, <4>4
    <3>3. HasRow(q) \/ q = item[t]
      <4>1. PICK x \in DOMAIN table' : table'[x][1] = q
        BY <2>3 DEF HasRow
      <4>. QED
        BY <1>7, <2>2, <2>3, <4>1, NewRow DEF HasRow
    <3>. QED
      BY <3>1, <3>2, <3>3
  <2>4. item'[c] # p /\ (item'[E] = q => ~Queued(p)')
    BY <2>1, <2>2 DEF Ahead, Queued
  <2>5. item'[c] = q /\ pc'[c] # "push" => pc'[E] = "ended"
    BY <2>1, <2>2 DEF Ahead
  <2>. QED
    BY <2>1, <2>2, <2>3, <2>4, <2>5 DEF Ahead
<1>8. ASSUME Staying PROVE InTurn'
  BY <1>4, <1>8 DEF Staying, InTurn
<1>9. ASSUME NEW c0 \in Client, Pushing(c0) PROVE InTurn'
  <2>1. executed' = executed
    BY <1>9 DEF Pushing
  <2>. QED
    BY <1>3, <1>9, <2>1 DEF InTurn
<1>10. ASSUME NEW t \in Consumer, NEW i0 \in Item, Taking(t, i0) PROVE InTurn'
  <2>1. executed' = executed
    BY <1>10 DEF Taking, FromQueue
  <2>. QED
    BY <1>5, <1>10, <2>1 DEF InTurn
<1>11. ASSUME NEW t \in Consumer, Dropping(t) PROVE InTurn'
  <2>1. executed' = executed
    BY <1>11 DEF Dropping, FromQueue
  <2>. QED
    BY <1>6, <1>11, <2>1 DEF InTurn
<1>12. ASSUME NEW t \in Client \cup Consumer, NEW s, NEW r, Sending(t, s, r) PROVE InTurn'
  <2>1. executed' = executed
    BY <1>12 DEF Sending
  <2>. QED
    BY <1>7, <1>12, <2>1 DEF InTurn
<1>. QED
  BY <1>1, <1>8, <1>9, <1>10, <1>11, <1>12 DEF Move

LEMMA InOrderStep == ASSUME IInv, Working, OnePlace, Unsent, Buffered, CalledOnce, InTurn, InOrder, Move,
                           IInv'
                    PROVE InOrder'
<1>. USE DistinctThreads, DistinctItems, NullIsNothing DEF Consumer, Thread
<1>0. \A c \in Client : executed[c] \in Seq(Query) /\ DOMAIN executed[c] \subseteq Nat
  BY DEF IInv, TypeOK
<1>1. ASSUME executed' = executed, table' = table, touched' = touched PROVE InOrder'
  BY <1>1 DEF InOrder
<1>2. ASSUME NEW c0 \in Client, NEW i0 \in Item, Calling(c0, i0), touched' \cap Buffer = {},
             NEW c \in Client, NEW i \in DOMAIN executed'[c], NEW j \in DOMAIN executed'[c], i < j,
             NEW x \in DOMAIN table', NEW y \in DOMAIN table',
             table'[x][1] = executed'[c][i], table'[y][1] = executed'[c][j]
      PROVE x < y
  <2>1. table' = table /\ touched' = touched
    BY <1>2 DEF Calling
  <2>2. \A z \in DOMAIN table : table[z][1] # i0
    <3>1. ASSUME NEW z \in DOMAIN table PROVE table[z][1] \in called
      <4>1. table[z] \in Row
        BY <3>1 DEF IInv, TypeOK
      <4>2. OnServer(table[z])
        BY <3>1 DEF OnServer, InTable
      <4>. QED
        BY <4>1, <4>2 DEF OnePlace
    <3>. QED
      BY <1>2, <3>1 DEF Calling
  <2>3. ASSUME NEW m \in DOMAIN executed'[c], executed'[c][m] # i0
        PROVE m \in DOMAIN executed[c] /\ executed'[c][m] = executed[c][m]
    <3>1. CASE executed'[c] = executed[c]
      BY <2>3, <3>1
    <3>2. CASE executed'[c] = Append(executed[c], i0) /\ i0 \in Query
      <4>1. m \in 1..Len(executed[c]) \/ m = Len(executed[c]) + 1
        BY <1>0, <2>3, <3>2
      <4>2. Append(executed[c], i0)[Len(executed[c]) + 1] = i0
        BY <1>0, <3>2
      <4>3. m \in 1..Len(executed[c])
        BY <2>3, <3>2, <4>1, <4>2
      <4>. QED
        BY <1>0, <3>2, <4>3
    <3>3. executed'[c] = executed[c] \/ (executed'[c] = Append(executed[c], i0) /\ i0 \in Query)
      <4>1. executed \in [Client -> Seq(Query)]
        BY DEF IInv, TypeOK
      <4>2. CASE executed' = executed
        BY <4>2
      <4>3. CASE i0 \in Query /\ executed' = [executed EXCEPT ![c0] = Append(executed[c0], i0)]
        BY <1>2, <4>1, <4>3
      <4>. QED
        BY <1>2, <4>2, <4>3 DEF Calling
    <3>. QED
      BY <3>1, <3>2, <3>3
  <2>. QED
    BY <1>2, <2>1, <2>2, <2>3 DEF InOrder
<1>3. ASSUME NEW t \in Client \cup Consumer, NEW s, NEW r, Sending(t, s, r), touched' \cap Buffer = {},
             NEW c \in Client, NEW i \in DOMAIN executed[c], NEW j \in DOMAIN executed[c], i < j,
             NEW p \in Query, NEW q \in Query, p = executed[c][i], q = executed[c][j],
             NEW x \in DOMAIN table', NEW y \in DOMAIN table', table'[x][1] = p, table'[y][1] = q
      PROVE x < y
  <2>1. touched \cap Buffer = {}
    BY <1>3 DEF Sending
  <2>2. Ahead(c, p, q) /\ p # q
    <3>1. i # j
      BY <1>0, <1>3
    <3>. QED
      BY <1>3, <3>1 DEF InTurn, CalledOnce
  <2>3. /\ x \in DOMAIN table => table'[x] = table[x]
        /\ x \notin DOMAIN table => p = item[t]
        /\ y \in DOMAIN table => table'[y] = table[y]
        /\ y \notin DOMAIN table => q = item[t]
    BY <1>3, NewRow
  <2>4. CASE x \in DOMAIN table /\ y \in DOMAIN table
    BY <1>3, <2>1, <2>3, <2>4 DEF InOrder
  <2>5. CASE x \in DOMAIN table /\ y \notin DOMAIN table
    <3>1. table \in Seq(Row) /\ table' \in Seq(Row)
      BY DEF IInv, TypeOK
    <3>2. \A z \in DOMAIN table : z \in DOMAIN table'
      BY <1>3, SendGrown DEF Sending, Grown
    <3>. QED
      BY <2>5, <3>1, <3>2
  <2>6. CASE x \notin DOMAIN table /\ y \in DOMAIN table
    <3>1. p = item[t] /\ HasRow(q)
      BY <1>3, <2>3, <2>6 DEF HasRow
    <3>. QED
      BY <1>3, <2>1, <2>2, <3>1 DEF Ahead, CalledOnce
  <2>7. CASE x \notin DOMAIN table /\ y \notin DOMAIN table
    BY <2>2, <2>3, <2>7
  <2>. QED
    BY <2>4, <2>5, <2>6, <2>7
<1>4. ASSUME NEW t \in Client \cup Consumer, NEW s, NEW r, Sending(t, s, r) PROVE InOrder'
  <2>1. executed' = executed
    BY <1>4 DEF Sending
  <2>2. \A c \in Client : \A i \in DOMAIN executed[c] : executed[c][i] \in Query
    BY <1>0
  <2>3. ASSUME touched' \cap Buffer = {}, NEW c \in Client, NEW i \in DOMAIN executed[c], NEW j \in DOMAIN executed[c],
               i < j, NEW x \in DOMAIN table', NEW y \in DOMAIN table',
               table'[x][1] = executed[c][i], table'[y][1] = executed[c][j]
        PROVE x < y
    BY <1>3, <1>4, <2>2, <2>3
  <2>. QED
    BY <2>1, <2>3 DEF InOrder
<1>5. ASSUME NEW c0 \in Client, NEW i0 \in Item, Calling(c0, i0) PROVE InOrder'
  BY <1>2, <1>5 DEF InOrder
<1>. QED
  BY <1>1, <1>4, <1>5 DEF Move, Pushing, Taking, Dropping, FromQueue, Staying

OrderInv == BlockInv /\ CalledOnce /\ InTurn /\ InOrder

(* The queries a client gives to Execute are committed in the order of its   *)
(* calls as long as no buffer failed: the earlier one is at every moment     *)
(* further along client, queue, execute thread and table, and ThreadRunning  *)
(* is cleared only after the drain (Execute, run, EndThreads).               *)
THEOREM OrderKept == Spec => []InOrder
<1>1. ASSUME Init PROVE CalledOnce /\ InTurn /\ InOrder
  <2>1. /\ \A c \in Client : executed[c] = <<>>
        /\ item[QueryThread] = NULL /\ ThreadRunning = TRUE
    BY <1>1 DEF Init, Thread, Consumer
  <2>. QED
    BY <2>1, DistinctItems DEF CalledOnce, InTurn, InOrder, Item
<1>2. OrderInv /\ [Next]_vars => OrderInv'
  <2>. SUFFICES ASSUME OrderInv, [Next]_vars PROVE OrderInv'
    OBVIOUS
  <2>1. IInv /\ Working /\ OnePlace /\ Unsent /\ Once /\ Buffered /\ Blocks /\ CalledOnce /\ InTurn /\ InOrder
    BY DEF OrderInv, BlockInv, OnceInv
  <2>2. Move
    BY <2>1, NextMoves
  <2>3. IInv'
    BY <2>1, Inductive
  <2>4. Working' /\ OnePlace' /\ Unsent' /\ Once'
    BY <2>1, <2>2, WorkingStep, OnePlaceStep, UnsentStep, OnceStep
  <2>5. Buffered' /\ Blocks'
    BY <2>1, <2>2, BufferedStep
  <2>6. CalledOnce' /\ InTurn' /\ InOrder'
    BY <2>1, <2>2, <2>3, CalledOnceStep, InTurnStep, InOrderStep
  <2>. QED
    BY <2>3, <2>4, <2>5, <2>6 DEF OrderInv, BlockInv, OnceInv
<1>. QED
  BY <1>1, <1>2, BlockInvariant, PTL DEF Spec, OrderInv
=============================================================================
