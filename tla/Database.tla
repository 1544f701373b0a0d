------------------------------ MODULE Database ------------------------------
(***************************************************************************)
(* Database (src/ascent-shared/Database): clients send queries over a few  *)
(* connections, at once or through two queues (FQueue on a Condition), each*)
(* with a thread that empties it, and EndThreads stops these threads.      *)
(*                                                                         *)
(* A row <<i, k>> is query k of item i, an item being what is performed    *)
(* together: one query, or a QueryBuffer inside a transaction.  The server *)
(* is external: its table is the rows it committed, in order.              *)
(***************************************************************************)
EXTENDS Naturals, Sequences, FiniteSets

CONSTANTS Client,             \* threads of the application
          Query,              \* what they give to Execute and Query
          Buffer,             \* the QueryBuffers they give to AddQueryBuffer
          BufferSize,         \* the queries in a QueryBuffer
          Connection,
          ExecuteThread,      \* Database::run
          QueryThread,        \* Database::thread_proc_query
          Main,               \* who calls EndThreads
          NULL,
          BEGIN, COMMIT,      \* the statements around a transaction
          SpuriousWakeups,    \* pthread_cond_wait may return unsignalled
          MaxCalls,           \* bound on the calls of all clients
          MaxFaults           \* bound on statements that fail

Consumer == {ExecuteThread, QueryThread}
Thread   == Client \cup Consumer \cup {Main}
Item     == Query \cup Buffer
Row       == Item \X (Nat \ {0})
Statement == Row \cup {BEGIN, COMMIT}

ASSUME DistinctThreads == /\ ExecuteThread # QueryThread
                          /\ Main \notin Client \cup Consumer
                          /\ Client \cap Consumer = {}
ASSUME DistinctItems   == Query \cap Buffer = {} /\ NULL \notin Item
ASSUME NullIsNothing   == NULL \notin Thread \cup Connection /\ NULL \notin Seq(Row)
ASSUME DistinctWords   == BEGIN # COMMIT /\ BEGIN \notin Row /\ COMMIT \notin Row
ASSUME Sizes           == BufferSize \in Nat /\ MaxCalls \in Nat /\ MaxFaults \in Nat /\ SpuriousWakeups \in BOOLEAN

VARIABLES pc,               \* where each thread is
          item,             \* what it performs or is about to push
          work,             \* the statements of it still to send
          con,              \* the connection it uses
          busy,             \* Busy: who holds each connection
          queue,            \* queries_queue and query_buffer, by their consumer
          waiting,          \* the wait sets of their conditions
          draining,         \* the consumers that have left their loop
          ThreadRunning,    \* the execute thread has not ended
          m_threadRunning,  \* nobody called Terminate
          qt,               \* the query thread has not been deleted
          session,          \* the open transaction of each connection, or NULL
          table,            \* the rows committed
          faults,           \* statements that failed
          called,           \* the items given to the database
          \* history
          executed,         \* each client's calls of Execute, in order
          touched           \* items that a failed statement belonged to

thread  == <<pc, item, work, con>>
queues  == <<queue, waiting>>
flags   == <<ThreadRunning, m_threadRunning, qt>>
server  == <<session, table, faults, touched>>
vars    == <<thread, busy, queues, draining, flags, server, called, executed>>

Rows(i) == [k \in 1..(IF i \in Buffer THEN BufferSize ELSE 1) |-> <<i, k>>]

(* Mutant: the rows are sent without a transaction. *)
BareRows(b) == Rows(b)

(* _BeginTransaction and _EndTransaction around a buffer that is not empty. *)
Transaction(b) == IF BufferSize = 0 THEN <<>> ELSE <<BEGIN>> \o Rows(b) \o <<COMMIT>>
Statements(i)  == IF i \in Buffer THEN Transaction(i) ELSE Rows(i)

Init == /\ pc = [t \in Thread |-> CASE t \in Client       -> "idle"
                                    [] t = ExecuteThread  -> "start"
                                    [] t = QueryThread    -> "connect"
                                    [] t = Main           -> "idle"]
        /\ item = [t \in Thread |-> NULL]
        /\ work = [t \in Thread |-> <<>>]
        /\ con = [t \in Thread |-> NULL]
        /\ busy = [c \in Connection |-> NULL]
        /\ queue = [t \in Consumer |-> <<>>]
        /\ waiting = {}
        /\ draining = {}
        /\ ThreadRunning = TRUE /\ m_threadRunning = TRUE /\ qt = TRUE
        /\ session = [c \in Connection |-> NULL]
        /\ table = <<>>
        /\ faults = 0
        /\ called = {}
        /\ executed = [c \in Client |-> <<>>]
        /\ touched = {}

Goto(t, l) == pc' = [pc EXCEPT ![t] = l]

(* t has item i, its statements s, and goes to l. *)
Take(t, i, s, l) == /\ item' = [item EXCEPT ![t] = i]
                    /\ work' = [work EXCEPT ![t] = s]
                    /\ Goto(t, l)

-----------------------------------------------------------------------------
(* Connections. *)

(* GetFreeConnection tries the connections in turn until one is free. *)
AfterConnect(t) == IF work[t] # <<>> THEN "send"
                   ELSE IF t = QueryThread THEN "pop" ELSE "release"
GetFreeConnection(t) ==
  /\ pc[t] = "connect"
  /\ \E c \in Connection : /\ busy[c] = NULL
                           /\ busy' = [busy EXCEPT ![c] = t]
                           /\ con' = [con EXCEPT ![t] = c]
  /\ Goto(t, AfterConnect(t))
  /\ UNCHANGED <<item, work, queues, draining, flags, server, called, executed>>

(* Mutant: no drain after the loop. *)
StopAtOnce(t) == IF t \in Consumer THEN "stop" ELSE "idle"

AfterRelease(t) == IF t \in Consumer THEN "drain" ELSE "idle"
(* Mutant: ThreadRunning is cleared before the drain. *)
ReleaseAsEnded(t) ==
  /\ pc[t] = "release"
  /\ busy' = [busy EXCEPT ![con[t]] = NULL]
  /\ con' = [con EXCEPT ![t] = NULL]
  /\ draining' = draining \cup ({t} \cap Consumer)
  /\ ThreadRunning' = (ThreadRunning /\ t # ExecuteThread)
  /\ Goto(t, AfterRelease(t))
  /\ UNCHANGED <<item, work, queues, m_threadRunning, qt, server, called, executed>>

Release(t) ==
  /\ pc[t] = "release"
  /\ busy' = [busy EXCEPT ![con[t]] = NULL]
  /\ con' = [con EXCEPT ![t] = NULL]
  /\ draining' = draining \cup ({t} \cap Consumer)
  /\ Goto(t, AfterRelease(t))
  /\ UNCHANGED <<item, work, queues, flags, server, called, executed>>

(* What statement s does in the session p over the table b: START TRANSACTION *)
(* commits the transaction it finds open.                                    *)
Committed(p, b) == IF p = NULL THEN b ELSE b \o p
Effect(s, p, b) ==
  CASE s = BEGIN  -> [session |-> <<>>, table |-> Committed(p, b)]
    [] s = COMMIT -> [session |-> NULL, table |-> Committed(p, b)]
    [] OTHER        -> IF p = NULL THEN [session |-> NULL, table |-> Append(b, s)]
                       ELSE [session |-> Append(p, s), table |-> b]

(* A query that fails is forgotten; a connection that is lost takes its     *)
(* transaction with it, before or after the server executed the statement,  *)
(* and the statement is sent once more if _Reconnect succeeds.              *)
Sent(s, p, b)     == {Effect(s, p, b)}
Refused(s, p, b)  == {[session |-> p, table |-> b]}
Lost(s, p, b)     == {[session |-> NULL, table |-> b],
                      [session |-> NULL, table |-> Effect(s, p, b).table]}
_Reconnect(s, a)  == {a, Effect(s, a.session, a.table)}
Failed(s, p, b)   == Refused(s, p, b) \cup UNION {_Reconnect(s, a) : a \in Lost(s, p, b)}

(* Where a thread goes when it has sent its last statement: the execute     *)
(* thread leaves its loop while m_threadRunning is TRUE, the other one when *)
(* it is FALSE.                                                             *)
LeavesLoop(t) == IF t = ExecuteThread THEN m_threadRunning ELSE ~m_threadRunning
(* Mutant: who has sent its statements forgets to release its connection. *)
NoRelease(t)  == IF t \in Consumer THEN "drain" ELSE "idle"

AfterSend(t)  == IF t \in Consumer /\ t \notin draining /\ ~LeavesLoop(t) THEN "pop"
                 ELSE "release"

_SendQuery(t) ==
  /\ pc[t] = "send"
  /\ LET s == Head(work[t])
         c == con[t]
         last == Len(work[t]) = 1
     IN /\ \/ \E r \in Sent(s, session[c], table) :
                /\ session' = [session EXCEPT ![c] = r.session]
                /\ table' = r.table
                /\ UNCHANGED <<faults, touched>>
           \/ /\ faults < MaxFaults
              /\ faults' = faults + 1
              /\ touched' = touched \cup {item[t]}
              /\ \E r \in Failed(s, session[c], table) :
                   /\ session' = [session EXCEPT ![c] = r.session]
                   /\ table' = r.table
        /\ work' = [work EXCEPT ![t] = Tail(@)]
        /\ item' = [item EXCEPT ![t] = IF last THEN NULL ELSE @]
        /\ Goto(t, IF last THEN AfterSend(t) ELSE "send")
  /\ UNCHANGED <<con, busy, queues, draining, flags, called, executed>>

-----------------------------------------------------------------------------
(* The calls of a client. *)

NewCall(c, i) == /\ pc[c] = "idle" /\ Cardinality(called) < MaxCalls
                 /\ i \notin called /\ called' = called \cup {i}
Others == <<con, busy, queues, draining, flags, server>>

(* Execute tests ThreadRunning without a lock: queued, or sent at once. *)
Execute(c, q) ==
  /\ NewCall(c, q)
  /\ IF ThreadRunning THEN Take(c, q, <<>>, "push")
     ELSE Take(c, q, Statements(q), "connect")
  /\ executed' = [executed EXCEPT ![c] = Append(@, q)]
  /\ UNCHANGED Others

(* Query, QueryNA, WaitExecute, EscapeString, and QueueAsyncQuery, which      *)
(* performs its queries itself: on a connection of their own.                *)
WaitExecute(c, q) ==
  /\ NewCall(c, q)
  /\ Take(c, q, Statements(q), "connect")
  /\ UNCHANGED <<Others, executed>>

(* AddQueryBuffer queues the buffer while there is a query thread. *)
AddQueryBuffer(c, b) ==
  /\ NewCall(c, b)
  /\ IF qt THEN Take(c, b, <<>>, "push")
     ELSE IF BufferSize = 0 THEN UNCHANGED <<pc, item, work>>
     ELSE Take(c, b, Statements(b), "connect")
  /\ UNCHANGED <<Others, executed>>

(* FQueue::push: the condition is signalled when the queue was empty. *)
(* Mutant: push does not signal. *)
Unsignalled(t) == waiting

Signalled(t) == IF queue[t] = <<>> THEN waiting \ {t} ELSE waiting
ConsumerOf(i) == IF i \in Buffer THEN QueryThread ELSE ExecuteThread
Push(c) ==
  /\ pc[c] = "push"
  /\ LET t == ConsumerOf(item[c])
     IN /\ queue' = [queue EXCEPT ![t] = Append(@, item[c])]
        /\ waiting' = Signalled(t)
  /\ Take(c, NULL, <<>>, "idle")
  /\ UNCHANGED <<con, busy, draining, flags, server, called, executed>>

-----------------------------------------------------------------------------
(* The two threads that empty the queues. *)

(* run sets ThreadRunning once more before its first pop. *)
Run == /\ pc[ExecuteThread] = "start"
       /\ ThreadRunning' = TRUE
       /\ Goto(ExecuteThread, "pop")
       /\ UNCHANGED <<item, work, con, busy, queues, draining, m_threadRunning, qt, server,
                      called, executed>>

(* After a pop that returned nothing; the execute thread takes a connection *)
(* after its first pop whatever it returned.                                *)
NothingPopped(t) == Goto(t, IF con[t] = NULL THEN "connect" ELSE "release")

(* An empty QueryBuffer is deleted without a statement. *)
(* Mutant: what is popped stays in the queue. *)
Peeked(t) == LET i == Head(queue[t])
             IN /\ Take(t, i, Statements(i), IF con[t] = NULL THEN "connect" ELSE "send")
                /\ UNCHANGED queue

Popped(t) ==
  LET i == Head(queue[t])
  IN /\ queue' = [queue EXCEPT ![t] = Tail(@)]
     /\ IF Statements(i) = <<>>
          THEN /\ Goto(t, IF t \in draining THEN "drain"
                          ELSE IF LeavesLoop(t) THEN "release" ELSE "pop")
               /\ UNCHANGED <<item, work>>
          ELSE Take(t, i, Statements(i), IF con[t] = NULL THEN "connect" ELSE "send")

(* FQueue::pop: waits once if the queue is empty, and looks only once more. *)
Pop(t) ==
  /\ pc[t] = "pop"
  /\ IF queue[t] = <<>> THEN /\ waiting' = waiting \cup {t}
                             /\ Goto(t, "wait")
                             /\ UNCHANGED <<item, work, queue>>
     ELSE Popped(t) /\ UNCHANGED waiting
  /\ UNCHANGED <<con, busy, draining, flags, server, called, executed>>

Woken(t) ==
  /\ pc[t] = "wait" /\ t \notin waiting
  /\ IF queue[t] = <<>> THEN NothingPopped(t) /\ UNCHANGED <<item, work, queue>>
     ELSE Popped(t)
  /\ UNCHANGED <<con, busy, waiting, draining, flags, server, called, executed>>

SpuriousWakeup(t) ==
  /\ SpuriousWakeups
  /\ t \in waiting
  /\ waiting' = waiting \ {t}
  /\ UNCHANGED <<thread, busy, queue, draining, flags, server, called, executed>>

(* FQueue::pop_nowait, until the queue is found empty. *)
PopNoWait(t) ==
  /\ pc[t] = "drain"
  /\ IF queue[t] = <<>> THEN Goto(t, "stop") /\ UNCHANGED <<item, work, queue>>
     ELSE Popped(t)
  /\ UNCHANGED <<con, busy, waiting, draining, flags, server, called, executed>>

(* The end of run, and ~QueryThread when thread_proc deletes it. *)
Stop(t) ==
  /\ pc[t] = "stop"
  /\ ThreadRunning' = (ThreadRunning /\ t # ExecuteThread)
  /\ qt' = (qt /\ t # QueryThread)
  /\ Goto(t, "ended")
  /\ UNCHANGED <<item, work, con, busy, queues, draining, m_threadRunning, server,
                 called, executed>>

-----------------------------------------------------------------------------
(* EndThreads. *)

EndThreadsOnly == UNCHANGED <<item, work, con, busy, queue, draining, ThreadRunning, qt,
                              server, called, executed>>

EndThreads == /\ pc[Main] = "idle"
              /\ m_threadRunning' = FALSE
              /\ Goto(Main, "test")
              /\ EndThreadsOnly /\ UNCHANGED waiting

TestRunning == /\ pc[Main] = "test"
               /\ Goto(Main, IF ThreadRunning \/ qt THEN "wakeQuery" ELSE "ended")
               /\ EndThreadsOnly /\ UNCHANGED <<waiting, m_threadRunning>>

(* Both threads are woken in turn if their queue is empty. *)
Broadcast(t, l) == /\ waiting' = IF queue[t] = <<>> THEN waiting \ {t} ELSE waiting
                   /\ Goto(Main, l)
                   /\ EndThreadsOnly /\ UNCHANGED m_threadRunning
BroadcastQueryBuffer  == pc[Main] = "wakeQuery"   /\ Broadcast(QueryThread, "wakeExecute")
(* Mutant: the other queue is woken again. *)
BroadcastTwice == pc[Main] = "wakeExecute" /\ Broadcast(QueryThread, "sleep")
BroadcastQueriesQueue == pc[Main] = "wakeExecute" /\ Broadcast(ExecuteThread, "sleep")

TestAgain == /\ pc[Main] = "sleep"
             /\ Goto(Main, IF ThreadRunning THEN "test" ELSE "ended")
             /\ EndThreadsOnly /\ UNCHANGED <<waiting, m_threadRunning>>

-----------------------------------------------------------------------------
Call(c) == \/ \E q \in Query : Execute(c, q) \/ WaitExecute(c, q)
           \/ \E b \in Buffer : AddQueryBuffer(c, b)
UseConnection(t) == GetFreeConnection(t) \/ _SendQuery(t) \/ Release(t)
Consume(t) == Pop(t) \/ Woken(t) \/ PopNoWait(t) \/ Stop(t)
EndThreadsStep == TestRunning \/ BroadcastQueryBuffer \/ BroadcastQueriesQueue \/ TestAgain

Next == \/ \E c \in Client : Call(c) \/ Push(c)
        \/ \E t \in Client \cup Consumer : UseConnection(t)
        \/ \E t \in Consumer : Consume(t) \/ SpuriousWakeup(t)
        \/ Run \/ EndThreads \/ EndThreadsStep

Spec == Init /\ [][Next]_vars

(* Every thread goes on running.  Nobody has to call, and no wakeup is owed. *)
FairSpec == /\ Spec
            /\ \A c \in Client : WF_vars(Push(c))
            /\ \A t \in Client \cup Consumer : WF_vars(UseConnection(t))
            /\ \A t \in Consumer : WF_vars(Consume(t))
            /\ WF_vars(Run) /\ WF_vars(EndThreadsStep)
-----------------------------------------------------------------------------
(* The type invariant. *)
TypeOK ==
  /\ pc \in [Thread -> {"idle", "start", "connect", "send", "release", "push", "pop", "wait",
                        "drain", "stop", "ended", "test", "wakeQuery", "wakeExecute", "sleep"}]
  /\ item \in [Thread -> Item \cup {NULL}]
  /\ work \in [Thread -> Seq(Statement)]
  /\ con \in [Thread -> Connection \cup {NULL}]
  /\ busy \in [Connection -> Thread \cup {NULL}]
  /\ queue \in [Consumer -> Seq(Item)]
  /\ queue[ExecuteThread] \in Seq(Query) /\ queue[QueryThread] \in Seq(Buffer)
  /\ waiting \subseteq Consumer /\ draining \subseteq Consumer
  /\ ThreadRunning \in BOOLEAN /\ m_threadRunning \in BOOLEAN /\ qt \in BOOLEAN
  /\ session \in [Connection -> Seq(Row) \cup {NULL}]
  /\ table \in Seq(Row)
  /\ faults \in 0..MaxFaults
  /\ called \subseteq Item /\ touched \subseteq Item
  /\ executed \in [Client -> Seq(Query)]

(* A thread that waits on the condition of its queue has nothing to do: push *)
(* signals only when the queue was empty, and that is enough for one consumer *)
(* (FQueue::push and FQueue::pop).                                           *)
WaitsForWork == \A t \in waiting : pc[t] = "wait" /\ queue[t] = <<>>

(* A thread uses only a connection it holds, alone, it takes no second one,  *)
(* and it holds none when it has ended or returned to its caller (Busy in    *)
(* every use of a connection).                                               *)
OwnConnection ==
  /\ \A t \in Thread : con[t] # NULL => busy[con[t]] = t
  /\ \A c \in Connection : busy[c] # NULL => con[busy[c]] = c
  /\ \A t \in Thread : pc[t] \in {"send", "release"} => con[t] # NULL
  /\ \A t \in Thread : pc[t] \in {"idle", "push", "connect", "drain", "stop", "ended"} =>
                        con[t] = NULL

(* No row is committed twice, by a queue and by its client or by two threads, *)
(* unless one of its statements failed and was sent again (_SendQuery).      *)
CommittedOnce == \A x, y \in DOMAIN table :
                   table[x] = table[y] => x = y \/ table[x][1] \in touched

(* What one client gives to Execute is committed in the order of its calls,  *)
(* although some go through the queue and later ones are sent at once        *)
(* (Execute and the end of run).  A buffer whose COMMIT failed ends that: its *)
(* transaction stays open on a connection that is given to the next thread,  *)
(* whose queries then wait in it for somebody to commit.                     *)
InOrder == touched \cap Buffer = {} =>
             \A c \in Client : \A i, j \in DOMAIN executed[c] : i < j =>
               \A x, y \in DOMAIN table :
                 table[x][1] = executed[c][i] /\ table[y][1] = executed[c][j] => x < y

(* The rows of a buffer whose statements did not fail are committed together *)
(* and in order, or not at all, whatever else uses the database              *)
(* (PerformQueryBuffer).                                                     *)
Together == \A x \in DOMAIN table : table[x][1] \in Buffer \ touched =>
              LET first == x - table[x][2] + 1
                  last  == first + BufferSize - 1
              IN first \in DOMAIN table /\ last \in DOMAIN table
                 /\ SubSeq(table, first, last) = Rows(table[x][1])

(* What is in a queue before its thread has found it empty for the last time *)
(* is performed (push, pop, the loop and the drain of both threads).         *)
QueuedIsPerformed ==
  \A t \in Consumer :
    queue[t] # <<>> /\ pc[t] \notin {"stop", "ended"} ~> queue[t] = <<>> /\ item[t] = NULL

(* Every call of a client returns: nobody keeps it from a connection for ever *)
(* (GetFreeConnection; the query thread keeps one of them all the time).     *)
CallsReturn == \A c \in Client : pc[c] # "idle" ~> pc[c] = "idle"

(* EndThreads returns, whatever the two threads are doing when it is called. *)
EndThreadsReturns == pc[Main] = "test" ~> pc[Main] = "ended"
=============================================================================
