--------------------------- MODULE TaskScheduler ----------------------------
(***************************************************************************)
(* CTaskSchedulerImpl: callers post and cancel timed tasks under a mutex;   *)
(* one thread picks the due ones in batches under the same mutex, runs them *)
(* without it, and then reschedules or erases them one by one under it.     *)
(* Between those sections callers come and go, and the batch holds pointers *)
(* into the map.                                                            *)
(*                                                                          *)
(* The map is keyed by due time, so two tasks due together would collide:   *)
(* a new entry goes to the next free nanosecond.  Each critical section and *)
(* each call of a task's function is one action; a task's function posting  *)
(* or cancelling tasks is a caller like any other.                          *)
(***************************************************************************)
EXTENDS Integers, FiniteSets

CONSTANTS
  TaskKinds,   \* the tasks posted: [periodic, times, delay, interval]
  Stoppers,    \* the threads that call Stop()
  uBatchTask,  \* the most tasks one batch holds
  MaxTasks,    \* bound: how many tasks are posted
  MaxTime,     \* bound: the last instant of the clock
  MaxLag       \* bound: how long PostTask() waits for the mutex

\* PostTask() takes any count, 0 as well.
ASSUME SchedulerAssumption ==
  /\ TaskKinds \subseteq
       [periodic : BOOLEAN, times : Nat, delay : Nat, interval : Nat]
  /\ uBatchTask \in Nat \ {0}
  /\ MaxTasks \in Nat
  /\ MaxTime \in Nat
  /\ MaxLag \in Nat

VARIABLES
  now,            \* the clock
  m_mapTasks,     \* due time -> task
  m_iNextTaskID,  \* the id of the next task
  m_bRunning,     \* the thread may go on (CThreadImpl::m_bRunning)
  stop,           \* per caller of Stop(): "out", "joining" or "returned"
  thread,         \* where the thread stands in Run(), "off" if there is none
  uCurrNano,      \* the clock as the thread read it
  toRun,          \* batch entries (their keys) not run yet
  toFinish,       \* batch entries not rescheduled or erased yet
  kind,           \* history: the task posted under each id
  runs,           \* history: how often each task ran
  allowed,        \* history: how often it may run, once cancelled
  earliest,       \* history: the instant before which it may not run (again)
  lost            \* history: tasks there was no memory to put back

threadVars == <<thread, uCurrNano, toRun, toFinish>>
controlVars == <<m_bRunning, stop>>
histVars == <<kind, runs, allowed, earliest, lost>>
vars == <<now, m_mapTasks, m_iNextTaskID, controlVars, threadVars, histVars>>

TaskID == 0 .. MaxTasks - 1
Unlimited == -1

\* Every key ever used is the clock plus a delay, bumped past other tasks.
Keys == DOMAIN m_mapTasks
Live(key) == ~m_mapTasks[key].cancel
KeyOf(id) == {key \in Keys : m_mapTasks[key].id = id}
Posted == 0 .. m_iNextTaskID - 1

Init ==
  /\ now = 0
  /\ m_mapTasks = << >>
  /\ m_iNextTaskID = 0
  /\ m_bRunning = FALSE
  /\ stop = [caller \in Stoppers |-> "out"]
  /\ thread = "off"
  /\ uCurrNano = 0
  /\ toRun = {}
  /\ toFinish = {}
  /\ kind = << >>
  /\ runs = [id \in TaskID |-> 0]
  /\ allowed = [id \in TaskID |-> Unlimited]
  /\ earliest = [id \in TaskID |-> 0]
  /\ lost = {}

Tick ==
  /\ now < MaxTime
  /\ now' = now + 1
  /\ UNCHANGED <<m_mapTasks, m_iNextTaskID, controlVars, threadVars, histVars>>

-----------------------------------------------------------------------------
\* The map.

AnyKey(time, key) == key = time

\* The first key at or after time that no task has.
FreeKey(time, key) ==
  /\ key >= time
  /\ key \notin Keys
  /\ time .. key - 1 \subseteq Keys

With(map, key, task) ==
  [k \in DOMAIN map \cup {key} |-> IF k = key THEN task ELSE map[k]]

Without(map, keys) == [k \in DOMAIN map \ keys |-> map[k]]

-----------------------------------------------------------------------------
\* Callers, any thread.

PostWithoutNewID(task) ==
  /\ m_iNextTaskID < MaxTasks
  /\ m_mapTasks' = With(m_mapTasks, now + task.delay,
                        [id |-> m_iNextTaskID, task |-> task, uTaskExecCount |-> 0,
                         cancel |-> FALSE, running |-> FALSE])
  /\ kind' = [id \in Posted \cup {m_iNextTaskID} |->
                IF id = m_iNextTaskID THEN task ELSE kind[id]]
  /\ UNCHANGED <<now, m_iNextTaskID, controlVars, threadVars, runs, allowed, earliest, lost>>

\* PostTask(): the clock is read before the mutex is taken, so the base of the
\* due time may be in the past by the time the task is in the map.
PostTask(task) ==
  /\ m_iNextTaskID < MaxTasks
  /\ \E lag \in 0 .. MaxLag :
       LET due == now - lag + task.delay IN
       /\ lag <= now
       /\ \E key \in due .. due + MaxTasks :
            /\ FreeKey(due, key)
            /\ m_mapTasks' =
                 With(m_mapTasks, key,
                      [id |-> m_iNextTaskID, task |-> task, uTaskExecCount |-> 0,
                       cancel |-> FALSE, running |-> FALSE])
       /\ earliest' = [earliest EXCEPT ![m_iNextTaskID] = due]
  /\ kind' = [id \in Posted \cup {m_iNextTaskID} |->
                IF id = m_iNextTaskID THEN task ELSE kind[id]]
  /\ m_iNextTaskID' = m_iNextTaskID + 1
  /\ UNCHANGED <<now, controlVars, threadVars, runs, allowed, lost>>

CancelErases(id) ==
  /\ KeyOf(id) # {}
  /\ m_mapTasks' = Without(m_mapTasks, KeyOf(id))
  /\ allowed' = [allowed EXCEPT ![id] = runs[id]]
  /\ UNCHANGED <<now, m_iNextTaskID, controlVars, threadVars, kind, runs, earliest, lost>>

CancelIgnoresRunning(id) ==
  \E key \in KeyOf(id) :
    /\ m_mapTasks' = [m_mapTasks EXCEPT ![key].cancel = @ \/ ~m_mapTasks[key].running]
    /\ allowed' = IF Live(key)
                  THEN [allowed EXCEPT ![id] = runs[id] + (IF key \in toRun THEN 1 ELSE 0)]
                  ELSE allowed
    /\ UNCHANGED <<now, m_iNextTaskID, controlVars, threadVars, kind, runs, earliest, lost>>

\* CancleTask(): only flags the task, the thread erases it.  A task already
\* picked for the current batch still runs this once.
CancleTask(id) ==
  \E key \in KeyOf(id) :
    /\ m_mapTasks' = [m_mapTasks EXCEPT ![key].cancel = TRUE]
    /\ allowed' = IF Live(key)
                  THEN [allowed EXCEPT ![id] = runs[id] + (IF key \in toRun THEN 1 ELSE 0)]
                  ELSE allowed
    /\ UNCHANGED <<now, m_iNextTaskID, controlVars, threadVars, kind, runs, earliest, lost>>

-----------------------------------------------------------------------------
\* Start() and Stop().

Joining == \E caller \in Stoppers : stop[caller] = "joining"

Start ==
  /\ ~Joining
  /\ ~m_bRunning
  /\ m_bRunning' = TRUE
  /\ stop' = [caller \in Stoppers |-> "out"]
  /\ thread' = "idle"
  /\ UNCHANGED <<now, m_mapTasks, m_iNextTaskID, uCurrNano, toRun, toFinish, histVars>>

\* The first caller clears m_bRunning and joins the thread; one that finds it
\* cleared returns at once.
Stop(caller) ==
  /\ stop[caller] = "out"
  /\ m_bRunning' = FALSE
  /\ stop' = [stop EXCEPT ![caller] = IF m_bRunning THEN "joining" ELSE "returned"]
  /\ UNCHANGED <<now, m_mapTasks, m_iNextTaskID, threadVars, histVars>>

StopReturnsAtOnce(caller) ==
  /\ stop[caller] = "joining"
  /\ stop' = [stop EXCEPT ![caller] = "returned"]
  /\ UNCHANGED <<now, m_mapTasks, m_iNextTaskID, m_bRunning, threadVars, histVars>>

\* The thread has ended and is joined.
StopReturns(caller) ==
  /\ stop[caller] = "joining"
  /\ thread = "off"
  /\ stop' = [stop EXCEPT ![caller] = "returned"]
  /\ UNCHANGED <<now, m_mapTasks, m_iNextTaskID, m_bRunning, threadVars, histVars>>

-----------------------------------------------------------------------------
\* The thread.

LeaveWhenDrained ==
  /\ thread = "idle"
  /\ ~m_bRunning
  /\ Keys = {}
  /\ thread' = "off"
  /\ UNCHANGED <<now, m_mapTasks, m_iNextTaskID, controlVars, uCurrNano, toRun, toFinish, histVars>>

\* Between two calls of Run() the thread looks whether it is to go on.
Leave ==
  /\ thread = "idle"
  /\ ~m_bRunning
  /\ thread' = "off"
  /\ UNCHANGED <<now, m_mapTasks, m_iNextTaskID, controlVars, uCurrNano, toRun, toFinish, histVars>>

WaitWithoutClock ==
  /\ thread = "idle"
  /\ m_bRunning
  /\ thread' = "scan"
  /\ UNCHANGED <<now, m_mapTasks, m_iNextTaskID, controlVars, uCurrNano, toRun, toFinish, histVars>>

\* The wait ends, at the latest when its timeout runs out; the clock is read.
Wait ==
  /\ thread = "idle"
  /\ m_bRunning
  /\ thread' = "scan"
  /\ uCurrNano' = now
  /\ UNCHANGED <<now, m_mapTasks, m_iNextTaskID, controlVars, toRun, toFinish, histVars>>

\* The scan goes up the keys until a live task that is not due or a full batch.
Reached(key) ==
  LET before == {k \in Keys : k < key /\ Live(k)} IN
  /\ \A k \in before : k <= uCurrNano
  /\ Cardinality(before) < uBatchTask

DueWhateverTime(key) == Live(key) /\ Reached(key)
Due(key) == Live(key) /\ Reached(key) /\ key <= uCurrNano

\* First critical section: erase the cancelled tasks the scan meets, mark the due
\* ones and put them in the batch.  (The reading of the clock is not used again.)
Scan ==
  LET batch == {key \in Keys : Due(key)}
      erased == {key \in Keys : ~Live(key) /\ Reached(key)}
  IN
  /\ thread = "scan"
  /\ m_mapTasks' =
       [key \in Keys \ erased |->
          IF key \in batch THEN [m_mapTasks[key] EXCEPT !.running = TRUE]
          ELSE m_mapTasks[key]]
  /\ toRun' = batch
  /\ toFinish' = batch
  /\ thread' = IF batch = {} THEN "idle" ELSE "run"
  /\ uCurrNano' = 0
  /\ UNCHANGED <<now, m_iNextTaskID, controlVars, histVars>>

First(key, keys) == key \in keys /\ \A k \in keys : key <= k

\* No lock: run the next task of the batch and count it.
RunTask ==
  /\ thread = "run"
  /\ \E key \in toRun :
       /\ First(key, toRun)
       /\ m_mapTasks' = [m_mapTasks EXCEPT ![key].uTaskExecCount = @ + 1]
       /\ toRun' = toRun \ {key}
       /\ runs' = [runs EXCEPT ![m_mapTasks[key].id] = @ + 1]
  /\ thread' = IF toRun' = {} THEN "finish" ELSE "run"
  /\ UNCHANGED <<now, m_iNextTaskID, controlVars, uCurrNano, toFinish, kind, allowed, earliest, lost>>

OnceMore(task) == task.task.periodic \/ task.uTaskExecCount <= task.task.times
Again(task) == task.task.periodic \/ task.uTaskExecCount < task.task.times

\* Last critical section, once per task: put a copy back under its next due time
\* if it is to run again, then erase the old entry, even if there was no memory for
\* the copy.
FinishTask ==
  /\ thread = "finish"
  /\ \E key \in toFinish :
       LET task == [m_mapTasks[key] EXCEPT !.running = FALSE]
           due == now + task.task.interval
       IN
       /\ First(key, toFinish)
       /\ toFinish' = toFinish \ {key}
       /\ \/ /\ Again(task)
             /\ \E next \in due .. due + MaxTasks :
                  /\ FreeKey(due, next)
                  /\ m_mapTasks' = Without(With(m_mapTasks, next, task), {key})
             /\ earliest' = [earliest EXCEPT ![task.id] = due]
             /\ UNCHANGED lost
          \/ /\ m_mapTasks' = Without(m_mapTasks, {key})
             /\ lost' = IF Again(task) THEN lost \cup {task.id} ELSE lost
             /\ UNCHANGED earliest
  /\ thread' = IF toFinish' = {} THEN "idle" ELSE "finish"
  /\ UNCHANGED <<now, m_iNextTaskID, controlVars, uCurrNano, toRun, kind, runs, allowed>>

-----------------------------------------------------------------------------
ThreadNext == Leave \/ Wait \/ Scan \/ RunTask \/ FinishTask

Next ==
  \/ Tick
  \/ \E task \in TaskKinds : PostTask(task)
  \/ \E id \in TaskID : CancleTask(id)
  \/ Start
  \/ \E caller \in Stoppers : Stop(caller) \/ StopReturns(caller)
  \/ ThreadNext

Spec == Init /\ [][Next]_vars

\* Time passes, the thread is scheduled and the functions of tasks return.
FairSpec ==
  /\ Spec
  /\ WF_vars(Tick)
  /\ WF_vars(ThreadNext)
  /\ \A caller \in Stoppers : WF_vars(StopReturns(caller))

-----------------------------------------------------------------------------
Task ==
  [id : TaskID, task : TaskKinds, uTaskExecCount : Nat, cancel : BOOLEAN, running : BOOLEAN]

\* Every variable keeps its type; ids stay in step with the tasks posted.
TypeOK ==
  /\ now \in 0 .. MaxTime
  /\ Keys \subseteq Nat
  /\ \A key \in Keys : m_mapTasks[key] \in Task
  /\ m_iNextTaskID \in 0 .. MaxTasks
  /\ m_bRunning \in BOOLEAN
  /\ stop \in [Stoppers -> {"out", "joining", "returned"}]
  /\ thread \in {"off", "idle", "scan", "run", "finish"}
  /\ uCurrNano \in 0 .. MaxTime
  /\ toRun \subseteq Nat
  /\ toFinish \subseteq Nat
  /\ kind \in [Posted -> TaskKinds]
  /\ runs \in [TaskID -> Nat]
  /\ allowed \in [TaskID -> Nat \cup {Unlimited}]
  /\ earliest \in [TaskID -> Nat]
  /\ lost \subseteq TaskID

\* The entries the batch points to stay in the map, marked, until the thread is
\* done with them, whatever callers post and cancel meanwhile; and no other entry
\* is marked as running.
BatchIsValid ==
  /\ toRun \subseteq toFinish
  /\ toFinish = {key \in Keys : m_mapTasks[key].running}
  /\ thread \in {"off", "idle", "scan"} => toFinish = {}

\* How often a task with a count is to run.  One of 0 is taken like any other, and
\* its count is looked at only when it has run: it runs once.
TimesRun(task) == IF task.times = 0 THEN 1 ELSE task.times

\* A task posted and neither cancelled nor run to its end is in the map, exactly
\* once: no collision of due times, reschedule, Stop or restart loses or doubles it;
\* only a lack of memory at the reschedule does.
NoTaskLost ==
  \A id \in Posted :
    /\ Cardinality(KeyOf(id)) <= 1
    /\ allowed[id] = Unlimited /\ (kind[id].periodic \/ runs[id] < TimesRun(kind[id]))
         => (KeyOf(id) # {} <=> id \notin lost)

\* A task with a run count does not exceed it, except that a count of 0 is one run.
RunsAtMostItsTimes ==
  \A id \in Posted : ~kind[id].periodic => runs[id] <= TimesRun(kind[id])

\* Once CancleTask() has returned 0 the task does not run again, unless the batch
\* under way had already picked it: then once at most.
CancelledStaysQuiet ==
  \A id \in Posted : allowed[id] # Unlimited => runs[id] <= allowed[id]

\* No run before the due time, and periodic runs stay an interval apart: neither
\* the clock the thread read early nor a bumped key makes a task run too soon.
NeverEarly ==
  [][\A id \in TaskID : runs'[id] # runs[id] => now >= earliest[id]]_vars

\* "Synchronously stop the scheduler's thread": when Stop() has returned the
\* thread is gone and nothing is half done, the batch under way was finished.
StopIsSynchronous ==
  \A caller \in Stoppers : stop[caller] = "returned" =>
    /\ thread = "off"
    /\ toFinish = {}
    /\ \A key \in Keys : ~m_mapTasks[key].running

\* Stop() returns although tasks are due or rescheduled for ever.
StopTerminates ==
  \A caller \in Stoppers : stop[caller] = "joining" ~> stop[caller] = "returned"

\* A task that is due runs while the scheduler does, even though batches are
\* bounded and callers keep posting tasks with earlier due times.
EveryDueTaskRuns ==
  \A id \in TaskID :
    (\E key \in KeyOf(id) : key <= now /\ runs[id] = 0)
      ~> (runs[id] > 0 \/ allowed[id] # Unlimited \/ ~m_bRunning)

\* The tasks the scheduler has taken on are safe with it: its batch refers to them,
\* and each is kept until it has run as often as it should, and no oftener; one with
\* a count of 0 runs once.
TasksAreKept == BatchIsValid /\ NoTaskLost /\ RunsAtMostItsTimes

\* Stop() returns, and until then what is due is run.
SchedulerGoesOn == StopTerminates /\ EveryDueTaskRuns
=============================================================================
