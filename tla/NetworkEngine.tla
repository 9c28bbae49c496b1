--------------------------- MODULE NetworkEngine ----------------------------
(***************************************************************************)
(* The connections of a network engine, between three kinds of thread: the  *)
(* application, the event dispatcher and the I/O dispatchers.  The threads   *)
(* hand a connection on by posting tasks that hold a bare pointer to it;     *)
(* Close() travels from its caller to the event dispatcher, from there to    *)
(* the first I/O dispatcher, and ends in OnDisconnected().                   *)
(*                                                                         *)
(* CIODispatcher::ProcessTask() is declared and not defined in the sources:  *)
(* it is taken to do what the tasks posted to it ask, or to fail.            *)
(***************************************************************************)
EXTENDS Integers, Sequences, FiniteSets

CONSTANTS
  Connection,       \* the connections that may be created; no address is reused
  IoThreadCounts,   \* the values of io_thread_count (1 unless configured)
  kBatchTaskSize,   \* tasks of one turn of a dispatcher (16)
  MaxClose,         \* bound on the Close() calls of one connection
  MaxStop           \* bound on the Stop() calls of the engine

ASSUME EngineAssumption ==
  /\ IoThreadCounts \subseteq Nat \ {0}
  /\ kBatchTaskSize \in Nat \ {0}
  /\ MaxClose \in Nat
  /\ MaxStop \in Nat
  /\ "none" \notin Connection

VARIABLES
  ioThreads,       \* m_vecIODispatchers.size()
  life,            \* life of a connection: "none", "made" or "destroyed"
  fd,              \* its socket: "none", "open" or "closed"
  m_bIsSyncConnect,
  connecting,      \* whether Connect() has been called
  told,            \* the last of OnConnected() and OnDisconnected() it was told
  closes,          \* Close() calls that found the socket open
  detached,        \* tasks posted by DetachConnection2()
  answered,        \* calls of their callbacks
  eventQueue,      \* m_TaskQueue of the event dispatcher
  ioQueue,         \* m_TaskQueue of each I/O dispatcher
  m_setConnection, \* connections whose connect() the event dispatcher awaits
  eventEpoll,      \* sockets registered with the epoll of the event dispatcher
  ioEpoll,         \* and with that of each I/O dispatcher
  nextIo,          \* m_uNextIODispatcherIndex, modulo the number of dispatchers
  alive,           \* dispatchers whose thread runs
  stops,           \* Stop() calls so far
  pc,              \* where the turn of each dispatcher is
  batch,           \* events of epoll_wait() it has not processed
  budget,          \* tasks its turn may still take
  attaching,       \* the connection told of its connect() and not yet attached
  dangling         \* connections a dispatcher used after they were destroyed

lifeVars == <<life, fd, m_bIsSyncConnect, connecting, told>>
countVars == <<closes, detached, answered>>
queueVars == <<eventQueue, ioQueue, nextIo>>
epollVars == <<m_setConnection, eventEpoll, ioEpoll>>
threadVars == <<pc, batch, budget, attaching>>
engineVars == <<ioThreads, lifeVars, countVars, queueVars, epollVars, threadVars,
                alive, stops, dangling>>

None == "none"   \* no connection
Event == -1      \* the event dispatcher; the I/O dispatchers count from 0
Io == 0 .. ioThreads - 1
Dispatcher == Io \cup {Event}

Task(type, c) == [type |-> type, pCtx |-> c]

\* Connections that have come and gone before have moved nextIo.
EngineInit ==
  /\ ioThreads \in IoThreadCounts
  /\ life = [c \in Connection |-> "none"]
  /\ fd = [c \in Connection |-> "none"]
  /\ m_bIsSyncConnect = [c \in Connection |-> FALSE]
  /\ connecting = [c \in Connection |-> FALSE]
  /\ told = [c \in Connection |-> "nothing"]
  /\ closes = [c \in Connection |-> 0]
  /\ detached = [c \in Connection |-> 0]
  /\ answered = [c \in Connection |-> 0]
  /\ eventQueue = << >>
  /\ ioQueue = [i \in Io |-> << >>]
  /\ nextIo \in Io
  /\ m_setConnection = {}
  /\ eventEpoll = {}
  /\ ioEpoll = [i \in Io |-> {}]
  /\ alive = {}
  /\ stops = 0
  /\ pc = [d \in Dispatcher |-> "wait"]
  /\ batch = [d \in Dispatcher |-> {}]
  /\ budget = [d \in Dispatcher |-> 0]
  /\ attaching = None
  /\ dangling = {}

-----------------------------------------------------------------------------
(* What the threads do to a connection. *)

\* Using a destroyed connection is undefined; the model stops there.
Sound == dangling = {}

UseDestroyed(c) ==
  /\ dangling' = {c}
  /\ UNCHANGED <<ioThreads, lifeVars, countVars, queueVars, epollVars, threadVars,
                 alive, stops>>

\* Close() of an asynchronous connection: a task for the event dispatcher, unless
\* the socket is closed already.  q is the queue as the caller leaves it.
CanClose(c) == fd[c] = "open" => closes[c] < MaxClose

ClosedInto(q, c) == IF fd[c] = "open" THEN Append(q, Task("kDoDisconnect", c)) ELSE q

CountClose(c) ==
  closes' = IF fd[c] = "open" THEN [closes EXCEPT ![c] = @ + 1] ELSE closes

\* DetachConnection2(): GetIOThreadIndex() is 0 for every connection, as nothing
\* calls SetIOThreadIndex().
Detach(c) ==
  /\ ioQueue' = [ioQueue EXCEPT ![0] = Append(@, Task("kDoDisconnect", c))]
  /\ detached' = [detached EXCEPT ![c] = @ + 1]

-----------------------------------------------------------------------------
(* The application. *)

CreateConnection(c) ==
  /\ Sound
  /\ life[c] = "none"
  /\ life' = [life EXCEPT ![c] = "made"]
  /\ fd' = [fd EXCEPT ![c] = "open"]
  /\ \E sync \in BOOLEAN : m_bIsSyncConnect' = [m_bIsSyncConnect EXCEPT ![c] = sync]
  /\ UNCHANGED <<ioThreads, connecting, told, countVars, queueVars, epollVars,
                 threadVars, alive, stops, dangling>>

\* The application calls Connect() of a connection once, and not after Close().
MayConnect(c) == life[c] = "made" /\ fd[c] = "open" /\ ~connecting[c] /\ closes[c] = 0

\* connect() that has succeeded at once, or is under way.
ConnectAsync(c) ==
  /\ Sound
  /\ MayConnect(c)
  /\ ~m_bIsSyncConnect[c]
  /\ connecting' = [connecting EXCEPT ![c] = TRUE]
  /\ \E type \in {"kConnected", "kAddConnection"} :
       eventQueue' = Append(eventQueue, Task(type, c))
  /\ UNCHANGED <<ioThreads, life, fd, m_bIsSyncConnect, told, countVars, ioQueue,
                 nextIo, epollVars, threadVars, alive, stops, dangling>>

\* poll() finds the socket connected; if it does not, Connect() calls Close().
ConnectSync(c) ==
  /\ Sound
  /\ MayConnect(c)
  /\ m_bIsSyncConnect[c]
  /\ connecting' = [connecting EXCEPT ![c] = TRUE]
  /\ \/ UNCHANGED <<closes, detached, ioQueue>>
     \/ CanClose(c) /\ CountClose(c) /\ Detach(c)
  /\ UNCHANGED <<ioThreads, life, fd, m_bIsSyncConnect, told, answered, eventQueue,
                 nextIo, epollVars, threadVars, alive, stops, dangling>>

\* Close(): posted to the event dispatcher, or, for a synchronous connection,
\* DoTask() of the event dispatcher on the thread of the caller.
Close(c) ==
  /\ Sound
  /\ life[c] = "made"
  /\ fd[c] = "open"
  /\ closes[c] < MaxClose
  /\ CountClose(c)
  /\ IF m_bIsSyncConnect[c]
     THEN Detach(c) /\ UNCHANGED eventQueue
     ELSE eventQueue' = ClosedInto(eventQueue, c) /\ UNCHANGED <<ioQueue, detached>>
  /\ UNCHANGED <<ioThreads, lifeVars, answered, nextIo, epollVars, threadVars,
                 alive, stops, dangling>>

\* DestroyConnection(), by an application that waits for OnDisconnected().
DestroyConnection(c) ==
  /\ Sound
  /\ life[c] = "made"
  /\ told[c] = "disconnected"
  /\ life' = [life EXCEPT ![c] = "destroyed"]
  /\ UNCHANGED <<ioThreads, fd, m_bIsSyncConnect, connecting, told, countVars,
                 queueVars, epollVars, threadVars, alive, stops, dangling>>

StartEngine ==
  /\ Sound
  /\ alive = {}
  /\ alive' = Dispatcher
  /\ UNCHANGED <<ioThreads, lifeVars, countVars, queueVars, epollVars, threadVars,
                 stops, dangling>>

\* Stop() ends the thread of one dispatcher after the other, the event dispatcher
\* first, each between two turns, and clears its queue: callbacks are told of
\* failure, for which the one of DetachConnection2() logs the connection's name.
Waiting(d) == d \in alive /\ pc[d] = "wait"

StopEventDispatcher ==
  /\ Sound
  /\ alive = Dispatcher
  /\ Waiting(Event)
  /\ stops < MaxStop
  /\ stops' = stops + 1
  /\ alive' = alive \ {Event}
  /\ eventQueue' = << >>
  /\ UNCHANGED <<ioThreads, lifeVars, countVars, ioQueue, nextIo, epollVars,
                 threadVars, dangling>>

Queued(q, type, c) == Cardinality({k \in 1 .. Len(q) : q[k] = Task(type, c)})

StopIoWithoutClear(i) ==
  /\ Sound
  /\ alive = i .. ioThreads - 1
  /\ Waiting(i)
  /\ alive' = alive \ {i}
  /\ ioQueue' = [ioQueue EXCEPT ![i] = << >>]
  /\ UNCHANGED <<ioThreads, lifeVars, countVars, eventQueue, nextIo, epollVars,
                 threadVars, stops, dangling>>

StopIoDispatcher(i) ==
  /\ Sound
  /\ alive = i .. ioThreads - 1
  /\ Waiting(i)
  /\ LET cleared == {c \in Connection : Queued(ioQueue[i], "kDoDisconnect", c) > 0}
     IN \/ /\ \A c \in cleared : life[c] = "made"
           /\ alive' = alive \ {i}
           /\ ioQueue' = [ioQueue EXCEPT ![i] = << >>]
           /\ answered' = [c \in Connection |->
                             answered[c] + Queued(ioQueue[i], "kDoDisconnect", c)]
           /\ UNCHANGED <<ioThreads, lifeVars, closes, detached, eventQueue, nextIo,
                          epollVars, threadVars, stops, dangling>>
        \/ \E c \in cleared : life[c] = "destroyed" /\ UseDestroyed(c)

-----------------------------------------------------------------------------
(* A turn of any dispatcher: epoll_wait(), the events, then a batch of tasks. *)

Registered(d) == IF d = Event THEN eventEpoll ELSE ioEpoll[d]
QueueOf(d) == IF d = Event THEN eventQueue ELSE ioQueue[d]

EpollWaitForEvents(d) ==
  /\ Sound
  /\ Waiting(d)
  /\ \E ready \in (SUBSET Registered(d)) \ {{}} : batch' = [batch EXCEPT ![d] = ready]
  /\ pc' = [pc EXCEPT ![d] = "turn"]
  /\ budget' = [budget EXCEPT ![d] = kBatchTaskSize]
  /\ UNCHANGED <<ioThreads, lifeVars, countVars, queueVars, epollVars, attaching,
                 alive, stops, dangling>>

EpollWait(d) ==
  /\ Sound
  /\ Waiting(d)
  /\ \E ready \in SUBSET Registered(d) : batch' = [batch EXCEPT ![d] = ready]
  /\ pc' = [pc EXCEPT ![d] = "turn"]
  /\ budget' = [budget EXCEPT ![d] = kBatchTaskSize]
  /\ UNCHANGED <<ioThreads, lifeVars, countVars, queueVars, epollVars, attaching,
                 alive, stops, dangling>>

InEvents(d) == Sound /\ pc[d] = "turn" /\ batch[d] # {}
InTasks(d) == /\ Sound
              /\ pc[d] = "turn"
              /\ batch[d] = {}
              /\ budget[d] > 0
              /\ QueueOf(d) # << >>

EndTurn(d) ==
  /\ Sound
  /\ pc[d] = "turn"
  /\ batch[d] = {}
  /\ budget[d] = 0 \/ QueueOf(d) = << >>
  /\ pc' = [pc EXCEPT ![d] = "wait"]
  /\ UNCHANGED <<ioThreads, lifeVars, countVars, queueVars, epollVars, batch, budget,
                 attaching, alive, stops, dangling>>

-----------------------------------------------------------------------------
(* The event dispatcher. *)

\* ProcessConnectionEvent() asks for the state of data.fd, which shares its memory
\* with data.ptr and is no socket: getsockopt() fails and the connection is closed.
\* An event that is neither EPOLLIN nor EPOLLERR is only logged.  Del() is given
\* the same number, so that the socket stays registered.
ProcessConnectionEvent(c) ==
  /\ InEvents(Event)
  /\ c \in batch[Event]
  /\ c \in m_setConnection
  /\ life[c] = "made"
  /\ \/ CanClose(c) /\ CountClose(c) /\ eventQueue' = ClosedInto(eventQueue, c)
     \/ UNCHANGED <<closes, eventQueue>>
  /\ m_setConnection' = m_setConnection \ {c}
  /\ batch' = [batch EXCEPT ![Event] = @ \ {c}]
  /\ UNCHANGED <<ioThreads, lifeVars, detached, answered, ioQueue, nextIo, eventEpoll,
                 ioEpoll, pc, budget, attaching, alive, stops, dangling>>

\* The connection is in neither set.
ProcessUnknownEvent(c) ==
  /\ InEvents(Event)
  /\ c \in batch[Event]
  /\ c \notin m_setConnection
  /\ batch' = [batch EXCEPT ![Event] = @ \ {c}]
  /\ UNCHANGED <<ioThreads, lifeVars, countVars, queueVars, epollVars, pc, budget,
                 attaching, alive, stops, dangling>>

Take(type, c) ==
  /\ InTasks(Event)
  /\ attaching = None
  /\ Head(eventQueue) = Task(type, c)
  /\ life[c] = "made"
  /\ budget' = [budget EXCEPT ![Event] = @ - 1]

\* ProcessTask<kAddConnection>: both the set and epoll know the connection, or
\* neither; epoll refuses a socket that is closed.
AddConnection(c) ==
  /\ Take("kAddConnection", c)
  /\ eventQueue' = Tail(eventQueue)
  /\ IF c \notin m_setConnection /\ fd[c] = "open"
     THEN /\ m_setConnection' = m_setConnection \cup {c}
          /\ eventEpoll' = eventEpoll \cup {c}
     ELSE UNCHANGED <<m_setConnection, eventEpoll>>
  /\ UNCHANGED <<ioThreads, lifeVars, countVars, ioQueue, nextIo, ioEpoll, pc, batch,
                 attaching, alive, stops, dangling>>

\* ProcessTask<kConnected>: OnConnected(), then AttachConnection() or Close().
Connected(c) ==
  /\ Take("kConnected", c)
  /\ told' = [told EXCEPT ![c] = "connected"]
  /\ \/ /\ attaching' = c
        /\ eventQueue' = Tail(eventQueue)
        /\ UNCHANGED closes
     \/ /\ CanClose(c)
        /\ CountClose(c)
        /\ eventQueue' = ClosedInto(Tail(eventQueue), c)
        /\ UNCHANGED attaching
  /\ UNCHANGED <<ioThreads, life, fd, m_bIsSyncConnect, connecting, detached, answered,
                 ioQueue, nextIo, epollVars, pc, batch, alive, stops, dangling>>

NextIoUnwrapped == nextIo + 1
NextIo == (nextIo + 1) % ioThreads

AttachConnection ==
  /\ Sound
  /\ attaching # None
  /\ ioQueue' = [ioQueue EXCEPT ![nextIo] = Append(@, Task("kAddConnection", attaching))]
  /\ nextIo' = NextIo
  /\ attaching' = None
  /\ UNCHANGED <<ioThreads, lifeVars, countVars, eventQueue, epollVars, pc, batch,
                 budget, alive, stops, dangling>>

\* ProcessTask<kDoDisconnect>
DoDisconnectAtOnce(c) ==
  /\ Take("kDoDisconnect", c)
  /\ eventQueue' = Tail(eventQueue)
  /\ Detach(c)
  /\ told' = [told EXCEPT ![c] = "disconnected"]
  /\ UNCHANGED <<ioThreads, life, fd, m_bIsSyncConnect, connecting, closes, answered,
                 nextIo, epollVars, pc, batch, attaching, alive, stops, dangling>>

DoDisconnect(c) ==
  /\ Take("kDoDisconnect", c)
  /\ eventQueue' = Tail(eventQueue)
  /\ Detach(c)
  /\ UNCHANGED <<ioThreads, lifeVars, closes, answered, nextIo, epollVars, pc, batch,
                 attaching, alive, stops, dangling>>

EventUsesDestroyed(c) ==
  /\ life[c] = "destroyed"
  /\ \/ InEvents(Event) /\ c \in batch[Event] /\ c \in m_setConnection
     \/ InTasks(Event) /\ attaching = None /\ Head(eventQueue).pCtx = c
  /\ UseDestroyed(c)

-----------------------------------------------------------------------------
(* An I/O dispatcher. *)

\* A failed Recv() or the end of the stream closes the connection, and EPOLLERR does
\* so once more.
ProcessIoEvent(i, c) ==
  /\ InEvents(i)
  /\ c \in batch[i]
  /\ life[c] = "made"
  /\ \E n \in 0 .. IF fd[c] = "open" THEN 2 ELSE 0 :
       /\ closes[c] + n <= MaxClose
       /\ closes' = [closes EXCEPT ![c] = @ + n]
       /\ eventQueue' = eventQueue \o [k \in 1 .. n |-> Task("kDoDisconnect", c)]
  /\ batch' = [batch EXCEPT ![i] = @ \ {c}]
  /\ UNCHANGED <<ioThreads, lifeVars, detached, answered, ioQueue, nextIo, epollVars,
                 pc, budget, attaching, alive, stops, dangling>>

TakeIoNewest(i, type, c) ==
  /\ InTasks(i)
  /\ ioQueue[i][Len(ioQueue[i])] = Task(type, c)
  /\ life[c] = "made"
  /\ budget' = [budget EXCEPT ![i] = @ - 1]
  /\ ioQueue' = [ioQueue EXCEPT ![i] = SubSeq(@, 1, Len(@) - 1)]

TakeIo(i, type, c) ==
  /\ InTasks(i)
  /\ Head(ioQueue[i]) = Task(type, c)
  /\ life[c] = "made"
  /\ budget' = [budget EXCEPT ![i] = @ - 1]
  /\ ioQueue' = [ioQueue EXCEPT ![i] = Tail(@)]

AddToIo(i, c) ==
  /\ TakeIo(i, "kAddConnection", c)
  /\ \/ fd[c] = "open" /\ ioEpoll' = [ioEpoll EXCEPT ![i] = @ \cup {c}]
     \/ UNCHANGED ioEpoll
  /\ UNCHANGED <<ioThreads, lifeVars, countVars, eventQueue, nextIo, m_setConnection,
                 eventEpoll, pc, batch, attaching, alive, stops, dangling>>

\* Success runs DetachCallback(), and ProcessTask<kDisconnected> of the event
\* dispatcher on this thread: OnDisconnected() closes the socket, which leaves
\* every epoll.  Failure is only logged.
Disconnected(i, c) ==
  /\ TakeIo(i, "kDoDisconnect", c)
  /\ answered' = [answered EXCEPT ![c] = @ + 1]
  /\ \/ /\ fd' = [fd EXCEPT ![c] = "closed"]
        /\ told' = [told EXCEPT ![c] = "disconnected"]
        /\ eventEpoll' = eventEpoll \ {c}
        /\ ioEpoll' = [j \in Io |-> ioEpoll[j] \ {c}]
     \/ UNCHANGED <<fd, told, eventEpoll, ioEpoll>>
  /\ UNCHANGED <<ioThreads, life, m_bIsSyncConnect, connecting, closes, detached,
                 eventQueue, nextIo, m_setConnection, pc, batch, attaching, alive,
                 stops, dangling>>

IoUsesDestroyed(i, c) ==
  /\ life[c] = "destroyed"
  /\ \/ InEvents(i) /\ c \in batch[i]
     \/ InTasks(i) /\ Head(ioQueue[i]).pCtx = c
  /\ UseDestroyed(c)

-----------------------------------------------------------------------------
EventTurn ==
  \/ EpollWait(Event)
  \/ EndTurn(Event) /\ attaching = None
  \/ AttachConnection
  \/ \E c \in Connection :
       \/ ProcessConnectionEvent(c)
       \/ ProcessUnknownEvent(c)
       \/ AddConnection(c)
       \/ Connected(c)
       \/ DoDisconnect(c)
       \/ EventUsesDestroyed(c)

IoTurn(i) ==
  \/ EpollWait(i)
  \/ EndTurn(i)
  \/ \E c \in Connection :
       \/ ProcessIoEvent(i, c)
       \/ AddToIo(i, c)
       \/ Disconnected(i, c)
       \/ IoUsesDestroyed(i, c)

Application ==
  \/ StartEngine
  \/ StopEventDispatcher
  \/ \E i \in Io : StopIoDispatcher(i)
  \/ \E c \in Connection :
       \/ CreateConnection(c)
       \/ ConnectAsync(c)
       \/ ConnectSync(c)
       \/ Close(c)
       \/ DestroyConnection(c)

EngineNext == Application \/ EventTurn \/ \E i \in Io : IoTurn(i)

\* A dispatcher that runs keeps taking its turns, as epoll_wait() is given 1 ms.
EngineFairness ==
  /\ WF_engineVars(EventTurn)
  /\ \A i \in 0 .. 1 : WF_engineVars(i \in Io /\ IoTurn(i))

EngineSpec == EngineInit /\ [][EngineNext]_engineVars /\ EngineFairness

-----------------------------------------------------------------------------
EngineTasks ==
  [type : {"kAddConnection", "kConnected", "kDoDisconnect"}, pCtx : Connection]

EngineTypeOK ==
  /\ ioThreads \in IoThreadCounts
  /\ life \in [Connection -> {"none", "made", "destroyed"}]
  /\ fd \in [Connection -> {"none", "open", "closed"}]
  /\ m_bIsSyncConnect \in [Connection -> BOOLEAN]
  /\ connecting \in [Connection -> BOOLEAN]
  /\ told \in [Connection -> {"nothing", "connected", "disconnected"}]
  /\ closes \in [Connection -> 0 .. MaxClose]
  /\ detached \in [Connection -> 0 .. MaxClose]
  /\ answered \in [Connection -> 0 .. MaxClose]
  /\ eventQueue \in Seq(EngineTasks)
  /\ ioQueue \in [Io -> Seq(EngineTasks)]
  /\ nextIo \in Io
  /\ m_setConnection \subseteq Connection
  /\ eventEpoll \subseteq Connection
  /\ ioEpoll \in [Io -> SUBSET Connection]
  /\ alive \subseteq Dispatcher
  /\ stops \in 0 .. MaxStop
  /\ pc \in [Dispatcher -> {"wait", "turn"}]
  /\ batch \in [Dispatcher -> SUBSET Connection]
  /\ budget \in [Dispatcher -> 0 .. kBatchTaskSize]
  /\ attaching \in Connection \cup {None}
  /\ dangling \subseteq Connection

\* Every request to detach a connection is answered once, by the I/O dispatcher
\* that takes it or by the Clear() of Stop(): none is lost or answered twice.
DetachAnsweredOnce ==
  Sound => \A c \in Connection :
    detached[c] = answered[c] + Queued(ioQueue[0], "kDoDisconnect", c)

\* OnDisconnected() is told of no connection that nobody closed, and no socket is
\* closed under an application that has not been told.
DisconnectWasAsked ==
  \A c \in Connection :
    /\ told[c] = "disconnected" => closes[c] > 0
    /\ fd[c] = "closed" <=> told[c] = "disconnected"

\* With the default single I/O thread, the queues keep the order of the calls: no
\* socket is registered, and no connection reported connected, once it has been
\* reported disconnected.
DisconnectedIsLast ==
  [][ioThreads = 1 =>
       \A c \in Connection : told[c] = "disconnected" =>
         /\ told'[c] = "disconnected"
         /\ \A i \in Io : Queued(ioQueue'[i], "kAddConnection", c) = 0 /\ c \notin ioEpoll'[i]]_engineVars

\* An application that closes a connection once may destroy it as soon as it has
\* been told OnDisconnected(), if the engine has one I/O thread and the event
\* dispatcher was not waiting for the connect().  (Close() does not remember that
\* it has been called, and a dispatcher may hold an event of the connection.)
DestroyIsSafe ==
  \A c \in dangling : ioThreads > 1 \/ closes[c] > 1 \/ c \in m_setConnection

\* A Close() that has found the socket open is answered, with OnDisconnected() or a
\* failure, unless the engine is stopped.
Requested(c) ==
  Queued(eventQueue, "kDoDisconnect", c) + Queued(ioQueue[0], "kDoDisconnect", c) > 0

EveryCloseAnswered ==
  \A c \in Connection :
    (Requested(c) /\ alive = Dispatcher) ~>
      (~Requested(c) \/ alive # Dispatcher \/ ~Sound)
=============================================================================
