--------------------------- MODULE ThreadManager ----------------------------
(***************************************************************************)
(* CThreadManagerImpl: one thread, the application, creates and destroys      *)
(* threads and goes through thread-local blocks; the threads it has started   *)
(* ask for theirs.  One lock that is not recursive guards it all, and is held *)
(* while a thread is joined and while a callback runs.  Blocks are kept by    *)
(* the number the system gives a thread, which is used again after it ends.   *)
(***************************************************************************)
EXTENDS Integers

CONSTANTS
  Worker,    \* the IThread objects that may be created
  ThreadName, \* the names that threads may be given
  Tid,       \* the numbers the system gives threads
  MaxIds,    \* bound on NewThreadLocalId()
  MaxBlocks  \* bound on the blocks allocated

ASSUME ManagerAssumption ==
  /\ MaxIds \in Nat
  /\ MaxBlocks \in Nat
  /\ Tid # {}
  /\ "nobody" \notin Worker

VARIABLES
  m_lock,       \* who holds it
  m_setThreads, \* threads handed out as pointers
  m_mapThreads, \* threads by name
  gone,         \* threads destroyed
  thread,       \* where each thread is: see ThreadStates
  toldToStop,   \* threads that were told to stop
  tlsTid,       \* the number of each thread that runs
  m_iThreadLocalId,
  m_mapThreadLocals, \* by thread number and id: a block, Null or Absent
  blocks,       \* blocks allocated so far
  wants,        \* the id that each thread waits to be given its block for
  has,          \* the blocks each thread has been given, by id
  app,          \* what the application is doing
  shown         \* the entries that the callback has been shown, one call long

tableVars == <<m_setThreads, m_mapThreads, gone>>
threadVars == <<thread, toldToStop, tlsTid, wants, has>>
localVars == <<m_iThreadLocalId, m_mapThreadLocals, blocks>>
managerVars == <<m_lock, tableVars, threadVars, localVars, app, shown>>

Nobody == "nobody"
Absent == -1
Null == 0
Id == 0 .. MaxIds - 1
Entry == {Absent, Null} \cup 1 .. MaxBlocks
ThreadStates == {"made", "running", "waits for lock", "ended"}
AppIdle == <<"idle">>

Known == m_setThreads \cup {m_mapThreads[n] : n \in {n \in ThreadName : m_mapThreads[n] # Nobody}}
NotYetMade(w) == w \notin Known \cup gone
Runs(w) == thread[w] \in {"running", "waits for lock"}

ManagerInit ==
  /\ m_lock = Nobody
  /\ m_setThreads = {}
  /\ m_mapThreads = [n \in ThreadName |-> Nobody]
  /\ gone = {}
  /\ thread = [w \in Worker |-> "made"]
  /\ toldToStop = {}
  /\ tlsTid = [w \in Worker |-> CHOOSE t \in Tid : TRUE]
  /\ m_iThreadLocalId = 0
  /\ m_mapThreadLocals = [t \in Tid |-> [i \in Id |-> Absent]]
  /\ blocks = 0
  /\ wants = [w \in Worker |-> 0]
  /\ has = [w \in Worker |-> [i \in Id |-> Absent]]
  /\ app = AppIdle
  /\ shown = {}

-----------------------------------------------------------------------------
(* The application. *)

\* A call that takes the lock, and gives it back before it returns.
Locked == app = AppIdle /\ m_lock = Nobody

CreateThread(w) ==
  /\ Locked
  /\ NotYetMade(w)
  /\ m_setThreads' = m_setThreads \cup {w}
  /\ UNCHANGED <<m_lock, m_mapThreads, gone, threadVars, localVars, app, shown>>

\* CreateThread(name, ...) starts no thread, whatever its comment says.
CreateNamed(w, name) ==
  /\ Locked
  /\ NotYetMade(w)
  /\ m_mapThreads[name] = Nobody
  /\ m_mapThreads' = [m_mapThreads EXCEPT ![name] = w]
  /\ UNCHANGED <<m_lock, m_setThreads, gone, threadVars, localVars, app, shown>>

\* IThread::Start(), of a thread that the application has the pointer of.
StartThread(w) ==
  /\ app = AppIdle
  /\ w \in m_setThreads
  /\ thread[w] = "made"
  /\ thread' = [thread EXCEPT ![w] = "running"]
  /\ \E t \in Tid \ {tlsTid[v] : v \in {v \in Worker : Runs(v)}} :
       tlsTid' = [tlsTid EXCEPT ![w] = t]
  /\ UNCHANGED <<m_lock, tableVars, toldToStop, wants, has, localVars, app, shown>>

DestroyWithoutStop(w) ==
  /\ Locked
  /\ w \in m_setThreads
  /\ m_setThreads' = m_setThreads \ {w}
  /\ m_lock' = "application"
  /\ app' = <<"join", w>>
  /\ UNCHANGED <<m_mapThreads, gone, threadVars, localVars, shown>>

\* DestroyThread(pThread) joins under the lock.
DestroyThread(w) ==
  /\ Locked
  /\ w \in m_setThreads
  /\ m_setThreads' = m_setThreads \ {w}
  /\ m_lock' = "application"
  /\ toldToStop' = toldToStop \cup {w}
  /\ app' = <<"join", w>>
  /\ UNCHANGED <<m_mapThreads, gone, thread, tlsTid, wants, has, localVars, shown>>

Joined(w) ==
  /\ app = <<"join", w>>
  /\ ~Runs(w)
  /\ app' = AppIdle
  /\ m_lock' = Nobody
  /\ gone' = gone \cup {w}
  /\ UNCHANGED <<m_setThreads, m_mapThreads, threadVars, localVars, shown>>

\* DestroyThread(name): the thread never ran.
DestroyNamed(name) ==
  /\ Locked
  /\ m_mapThreads[name] # Nobody
  /\ gone' = gone \cup {m_mapThreads[name]}
  /\ m_mapThreads' = [m_mapThreads EXCEPT ![name] = Nobody]
  /\ UNCHANGED <<m_lock, m_setThreads, threadVars, localVars, app, shown>>

NewThreadLocalId ==
  /\ app = AppIdle
  /\ m_iThreadLocalId < MaxIds
  /\ m_iThreadLocalId' = m_iThreadLocalId + 1
  /\ UNCHANGED <<m_lock, tableVars, threadVars, m_mapThreadLocals, blocks, app, shown>>

\* ForEachAllThreadLocal(): the callback is called with the lock held, for one
\* entry after the other, until it returns false.
ForEach(id) ==
  /\ Locked
  /\ id < m_iThreadLocalId
  /\ m_lock' = "application"
  /\ app' = <<"for each", id>>
  /\ shown' = {}
  /\ UNCHANGED <<tableVars, threadVars, localVars>>

Entries(id) == {t \in Tid : m_mapThreadLocals[t][id] # Absent}

Callback(id, t) ==
  /\ app = <<"for each", id>>
  /\ t \in Entries(id) \ shown
  /\ shown' = shown \cup {t}
  /\ UNCHANGED <<m_lock, tableVars, threadVars, localVars, app>>

ForEachReturns(id) ==
  /\ app = <<"for each", id>>
  /\ Entries(id) = shown \/ shown # {}
  /\ app' = AppIdle
  /\ m_lock' = Nobody
  /\ shown' = {}
  /\ UNCHANGED <<tableVars, threadVars, localVars>>

-----------------------------------------------------------------------------
(* The threads. *)

CallGetThreadLocal(w, id) ==
  /\ thread[w] = "running"
  /\ id < m_iThreadLocalId
  /\ thread' = [thread EXCEPT ![w] = "waits for lock"]
  /\ wants' = [wants EXCEPT ![w] = id]
  /\ UNCHANGED <<m_lock, tableVars, toldToStop, tlsTid, has, localVars, app, shown>>

AnyTid(w) == CHOOSE t \in Tid : TRUE
TidOf(w) == tlsTid[w]

\* An entry is made before its block is allocated, and stays when that fails.
GetThreadLocal(w) ==
  /\ thread[w] = "waits for lock"
  /\ m_lock = Nobody
  /\ thread' = [thread EXCEPT ![w] = "running"]
  /\ LET id == wants[w]
         entry == m_mapThreadLocals[TidOf(w)][id]
     IN \/ /\ entry \notin {Absent, Null}
           /\ has' = [has EXCEPT ![w][id] = entry]
           /\ UNCHANGED <<m_mapThreadLocals, blocks>>
        \/ /\ entry \in {Absent, Null}
           /\ blocks < MaxBlocks
           /\ blocks' = blocks + 1
           /\ m_mapThreadLocals' = [m_mapThreadLocals EXCEPT ![TidOf(w)][id] = blocks + 1]
           /\ has' = [has EXCEPT ![w][id] = blocks + 1]
        \/ /\ entry \in {Absent, Null}
           /\ m_mapThreadLocals' = [m_mapThreadLocals EXCEPT ![TidOf(w)][id] = Null]
           /\ UNCHANGED <<has, blocks>>
  /\ UNCHANGED <<m_lock, tableVars, toldToStop, tlsTid, wants, m_iThreadLocalId, app, shown>>

\* The thread function returns false, or is not called again after Stop().
ThreadEnds(w) ==
  /\ thread[w] = "running"
  /\ thread' = [thread EXCEPT ![w] = "ended"]
  /\ has' = [has EXCEPT ![w] = [i \in Id |-> Absent]]
  /\ UNCHANGED <<m_lock, tableVars, toldToStop, tlsTid, wants, localVars, app, shown>>

WorkerStep(w) ==
  \/ \E id \in Id : CallGetThreadLocal(w, id)
  \/ GetThreadLocal(w)
  \/ ThreadEnds(w)

ManagerNext ==
  \/ NewThreadLocalId
  \/ \E id \in Id :
       \/ ForEach(id)
       \/ ForEachReturns(id)
       \/ \E t \in Tid : Callback(id, t)
  \/ \E name \in ThreadName : DestroyNamed(name)
  \/ \E w \in Worker :
       \/ CreateThread(w)
       \/ \E name \in ThreadName : CreateNamed(w, name)
       \/ StartThread(w)
       \/ DestroyThread(w)
       \/ Joined(w)
       \/ WorkerStep(w)

\* A call that waits for nobody goes on, a lock that is free is given to a thread
\* that waits for it, and a thread that was told to stop ends.
ManagerFairness ==
  \A w \in Worker :
    /\ WF_managerVars(Joined(w))
    /\ WF_managerVars(GetThreadLocal(w))
    /\ WF_managerVars(w \in toldToStop /\ ThreadEnds(w))

ManagerSpec == ManagerInit /\ [][ManagerNext]_managerVars /\ ManagerFairness

-----------------------------------------------------------------------------
ManagerTypeOK ==
  /\ m_lock \in {Nobody, "application"}
  /\ m_setThreads \subseteq Worker
  /\ m_mapThreads \in [ThreadName -> Worker \cup {Nobody}]
  /\ gone \subseteq Worker
  /\ thread \in [Worker -> ThreadStates]
  /\ toldToStop \subseteq Worker
  /\ tlsTid \in [Worker -> Tid]
  /\ m_iThreadLocalId \in 0 .. MaxIds
  /\ m_mapThreadLocals \in [Tid -> [Id -> Entry]]
  /\ blocks \in 0 .. MaxBlocks
  /\ wants \in [Worker -> 0 .. MaxIds]
  /\ has \in [Worker -> [Id -> Entry]]
  /\ shown \subseteq Tid

\* No two threads have the same block, a thread has one block for each id, as long
\* as it runs, and a thread is destroyed only when it is known to nobody and done.
BlocksArePrivate ==
  /\ \A v, w \in Worker : \A i, j \in Id :
       has[v][i] = has[w][j] /\ has[v][i] # Absent => v = w /\ i = j
  /\ \A w \in Worker : \A i \in Id :
       Runs(w) /\ has[w][i] # Absent => has[w][i] = m_mapThreadLocals[tlsTid[w]][i]

GoneIsUnknown == gone \cap Known = {} /\ \A w \in gone : ~Runs(w)

ManagerIsSound == BlocksArePrivate /\ GoneIsUnknown

\* DestroyThread() returns, unless the thread that it joins waits for the lock it
\* holds.
DestroyReturns ==
  \A w \in Worker :
    app = <<"join", w>> ~> app # <<"join", w>> \/ thread[w] = "waits for lock"
=============================================================================
