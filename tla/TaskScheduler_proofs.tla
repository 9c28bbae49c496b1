------------------------ MODULE TaskScheduler_proofs ------------------------
(***************************************************************************)
(* Safety of the task scheduler, for any tasks, any number of threads that   *)
(* post, cancel and stop, and any size of a batch.                           *)
(***************************************************************************)
EXTENDS TaskScheduler, FiniteSetTheorems, TLAPS

IdOf(key) == m_mapTasks[key].id

\* An entry of the map is that of a task posted, counts the runs of the task, is
\* cancelled when the task is, and is not due before the task may run.
EntryIsTrue(key) ==
  /\ IdOf(key) \in Posted
  /\ m_mapTasks[key].task = kind[IdOf(key)]
  /\ m_mapTasks[key].uTaskExecCount = runs[IdOf(key)]
  /\ Live(key) <=> allowed[IdOf(key)] = Unlimited
  /\ IdOf(key) \notin lost
  /\ earliest[IdOf(key)] <= key
EntriesAreTrue == \A key \in Keys : EntryIsTrue(key)

\* A task has one entry at most.
OneEntryEach == \A k, l \in Keys : IdOf(k) = IdOf(l) => k = l

UnpostedAreNew ==
  \A id \in TaskID \ Posted : runs[id] = 0 /\ allowed[id] = Unlimited /\ id \notin lost

\* What is to run was due when the clock was read.
BatchIsDue ==
  /\ thread # "run" => toRun = {}
  /\ uCurrNano <= now
  /\ \A key \in toRun : key <= now

\* Only an entry that has run in this batch may have no run left, and a cancelled
\* one that is still to run has been allowed this run.
RunsAreLeft ==
  /\ \A key \in Keys :
       ~m_mapTasks[key].task.periodic /\ key \notin toFinish \ toRun
         => m_mapTasks[key].uTaskExecCount < TimesRun(m_mapTasks[key].task)
  /\ \A key \in toFinish \ toRun : m_mapTasks[key].uTaskExecCount > 0
CancelledHaveOneLeft ==
  \A key \in toRun : ~Live(key) => runs[IdOf(key)] < allowed[IdOf(key)]

UnfinishedAreKept ==
  \A id \in Posted \ lost :
    allowed[id] = Unlimited /\ (kind[id].periodic \/ runs[id] < TimesRun(kind[id]))
      => \E key \in Keys : IdOf(key) = id

\* A thread that was told to stop is joined by somebody for as long as it goes on.
SomebodyJoins ==
  /\ ~m_bRunning /\ thread # "off" => Joining
  /\ m_bRunning => \A caller \in Stoppers : stop[caller] = "out"

SchedulerInv ==
  /\ TypeOK
  /\ EntriesAreTrue
  /\ OneEntryEach
  /\ UnpostedAreNew
  /\ BatchIsValid
  /\ BatchIsDue
  /\ RunsAreLeft
  /\ RunsAtMostItsTimes
  /\ CancelledHaveOneLeft
  /\ CancelledStaysQuiet
  /\ UnfinishedAreKept
  /\ SomebodyJoins

\* A task whose count is 0 runs once; the others as often as their count says.
LEMMA TimesRunIs ==
  ASSUME NEW task \in TaskKinds
  PROVE  /\ task.times \in Nat
         /\ TimesRun(task) \in Nat \ {0}
         /\ task.times <= TimesRun(task)
         /\ \A n \in Nat \ {0} : n < TimesRun(task) => n < task.times
<1>1. task.times \in Nat
  BY SchedulerAssumption
<1> QED BY <1>1 DEF TimesRun

LEMMA InitSchedulerInv == Init => SchedulerInv
<1> SUFFICES ASSUME Init
             PROVE  SchedulerInv
  OBVIOUS
<1>1. Keys = {} /\ Posted = {}
  BY DEF Init, Keys, Posted
<1>2. kind \in [Posted -> TaskKinds]
  BY <1>1 DEF Init
<1>3. TypeOK
  <2>1. /\ now \in 0 .. MaxTime /\ m_iNextTaskID \in 0 .. MaxTasks
        /\ uCurrNano \in 0 .. MaxTime
    BY SchedulerAssumption DEF Init
  <2>2. /\ runs \in [TaskID -> Nat] /\ earliest \in [TaskID -> Nat]
        /\ allowed \in [TaskID -> Nat \cup {Unlimited}]
        /\ stop \in [Stoppers -> {"out", "joining", "returned"}]
    BY DEF Init
  <2>3. /\ m_bRunning \in BOOLEAN /\ thread = "off"
        /\ toRun = {} /\ toFinish = {} /\ lost = {}
    BY DEF Init
  <2> QED BY <1>1, <1>2, <2>1, <2>2, <2>3 DEF TypeOK
<1>4. EntriesAreTrue /\ OneEntryEach /\ RunsAreLeft
  BY <1>1 DEF Init, EntriesAreTrue, OneEntryEach, RunsAreLeft
<1>5. UnpostedAreNew /\ RunsAtMostItsTimes /\ CancelledStaysQuiet /\ UnfinishedAreKept
  BY <1>1 DEF Init, UnpostedAreNew, RunsAtMostItsTimes, CancelledStaysQuiet, UnfinishedAreKept
<1>6. BatchIsValid /\ BatchIsDue /\ CancelledHaveOneLeft /\ SomebodyJoins
  BY <1>1 DEF Init, BatchIsValid, BatchIsDue, CancelledHaveOneLeft, SomebodyJoins
<1> QED BY <1>3, <1>4, <1>5, <1>6 DEF SchedulerInv

-----------------------------------------------------------------------------
\* Steps that leave the map and the batch alone keep what is known of the tasks.
LEMMA TasksAlone ==
  ASSUME SchedulerInv,
         UNCHANGED <<m_mapTasks, m_iNextTaskID, toRun, toFinish, histVars>>
  PROVE  /\ EntriesAreTrue' /\ OneEntryEach' /\ UnpostedAreNew' /\ RunsAreLeft'
         /\ RunsAtMostItsTimes' /\ CancelledHaveOneLeft' /\ CancelledStaysQuiet'
         /\ UnfinishedAreKept'
<1>1. /\ m_mapTasks' = m_mapTasks /\ m_iNextTaskID' = m_iNextTaskID
      /\ toRun' = toRun /\ toFinish' = toFinish
      /\ kind' = kind /\ runs' = runs /\ allowed' = allowed /\ earliest' = earliest
      /\ lost' = lost
  BY DEF histVars
<1>2. Keys' = Keys /\ Posted' = Posted
  BY <1>1 DEF Keys, Posted
<1>3. \A k : IdOf(k)' = IdOf(k) /\ (Live(k)' <=> Live(k))
  BY <1>1 DEF IdOf, Live
<1>4. EntriesAreTrue' /\ OneEntryEach'
  BY <1>1, <1>2, <1>3 DEF SchedulerInv, EntriesAreTrue, EntryIsTrue, OneEntryEach
<1>5. UnpostedAreNew' /\ UnfinishedAreKept'
  BY <1>1, <1>2, <1>3 DEF SchedulerInv, UnpostedAreNew, UnfinishedAreKept
<1>6. RunsAreLeft' /\ RunsAtMostItsTimes'
  BY <1>1, <1>2 DEF SchedulerInv, RunsAreLeft, RunsAtMostItsTimes
<1>7. CancelledHaveOneLeft' /\ CancelledStaysQuiet'
  BY <1>1, <1>2, <1>3 DEF SchedulerInv, CancelledHaveOneLeft, CancelledStaysQuiet
<1> QED BY <1>4, <1>5, <1>6, <1>7

\* The clock, Start(), Stop() and the thread between two batches.
LEMMA ControlStep ==
  ASSUME SchedulerInv,
         Tick \/ Start \/ (\E c \in Stoppers : Stop(c) \/ StopReturns(c)) \/ Leave \/ Wait
  PROVE  SchedulerInv'
<1>0. TypeOK /\ BatchIsValid /\ BatchIsDue /\ SomebodyJoins
  BY DEF SchedulerInv
<1>1. UNCHANGED <<m_mapTasks, m_iNextTaskID, toRun, toFinish, histVars>>
  BY DEF Tick, Start, Stop, StopReturns, Leave, Wait, threadVars
<1>2. /\ EntriesAreTrue' /\ OneEntryEach' /\ UnpostedAreNew' /\ RunsAreLeft'
      /\ RunsAtMostItsTimes' /\ CancelledHaveOneLeft' /\ CancelledStaysQuiet'
      /\ UnfinishedAreKept'
  BY <1>1, TasksAlone
<1>3. Keys' = Keys /\ Posted' = Posted
  BY <1>1 DEF Keys, Posted
<1>4. SomebodyJoins'
  <2>1. CASE Tick
    <3>1. m_bRunning' = m_bRunning /\ stop' = stop /\ thread' = thread
      BY <2>1 DEF Tick, controlVars, threadVars
    <3> QED BY <1>0, <3>1 DEF SomebodyJoins, Joining
  <2>2. CASE Start
    BY <1>0, <2>2 DEF Start, SomebodyJoins, Joining
  <2>3. ASSUME NEW c \in Stoppers, Stop(c)
        PROVE  SomebodyJoins'
    <3>1. stop' = [stop EXCEPT ![c] = IF m_bRunning THEN "joining" ELSE "returned"]
          /\ stop[c] = "out" /\ m_bRunning' = FALSE /\ thread' = thread
      BY <2>3 DEF Stop, threadVars
    <3>2. /\ \A d \in Stoppers : d # c => stop'[d] = stop[d]
          /\ m_bRunning => stop'[c] = "joining"
      BY <1>0, <3>1 DEF TypeOK
    <3> QED BY <1>0, <3>1, <3>2 DEF SomebodyJoins, Joining
  <2>4. ASSUME NEW c \in Stoppers, StopReturns(c)
        PROVE  SomebodyJoins'
    BY <1>0, <2>4 DEF StopReturns, SomebodyJoins, threadVars
  <2>5. CASE Leave \/ Wait
    <3>1. /\ m_bRunning' = m_bRunning /\ stop' = stop
          /\ m_bRunning \/ thread' = "off"
      BY <2>5 DEF Leave, Wait, controlVars
    <3> QED BY <1>0, <3>1 DEF SomebodyJoins, Joining
  <2> QED BY <2>1, <2>2, <2>3, <2>4, <2>5
<1>5. /\ thread' \in {thread, "off", "idle", "scan"}
      /\ thread' # thread => thread \in {"off", "idle"} /\ thread' \in {"off", "idle", "scan"}
  <2>1. Start => thread = "off" /\ thread' = "idle"
    BY <1>0 DEF Start, SomebodyJoins
  <2> QED BY <2>1 DEF Tick, Stop, StopReturns, Leave, Wait, threadVars
<1>6. BatchIsValid'
  <2>1. \A key : m_mapTasks'[key].running = m_mapTasks[key].running
    BY <1>1
  <2>2. toRun' = toRun /\ toFinish' = toFinish
    BY <1>1
  <2> QED BY <1>0, <1>3, <1>5, <2>1, <2>2 DEF BatchIsValid
<1>7. /\ now \in 0 .. MaxTime /\ uCurrNano \in 0 .. MaxTime
      /\ now' \in 0 .. MaxTime /\ now <= now'
      /\ uCurrNano' \in {uCurrNano, now}
  <2>1. now \in 0 .. MaxTime /\ uCurrNano \in 0 .. MaxTime
    BY <1>0 DEF TypeOK
  <2>2. \/ now < MaxTime /\ now' = now + 1
        \/ now' = now
    BY DEF Tick, Start, Stop, StopReturns, Leave, Wait
  <2>3. uCurrNano' \in {uCurrNano, now}
    BY DEF Tick, Start, Stop, StopReturns, Leave, Wait, threadVars
  <2> QED BY <2>1, <2>2, <2>3, SchedulerAssumption
<1>8. BatchIsDue'
  <2>1. \A key \in toRun : key \in Nat
    BY <1>0 DEF TypeOK
  <2>2. uCurrNano' <= now'
    BY <1>0, <1>7 DEF BatchIsDue
  <2>3. \A key \in toRun : key <= now'
    BY <1>0, <1>7, <2>1 DEF BatchIsDue
  <2> QED BY <1>0, <1>1, <1>5, <2>2, <2>3 DEF BatchIsDue
<1>9. TypeOK'
  <2>1. m_bRunning' \in BOOLEAN /\ stop' \in [Stoppers -> {"out", "joining", "returned"}]
    <3>1. m_bRunning \in BOOLEAN /\ stop \in [Stoppers -> {"out", "joining", "returned"}]
      BY <1>0 DEF TypeOK
    <3>2. m_bRunning' \in {m_bRunning, TRUE, FALSE}
      BY DEF Tick, Start, Stop, StopReturns, Leave, Wait, controlVars
    <3>3. \/ stop' = stop \/ stop' = [caller \in Stoppers |-> "out"]
          \/ \E c \in Stoppers, s \in {"joining", "returned"} : stop' = [stop EXCEPT ![c] = s]
      BY DEF Tick, Start, Stop, StopReturns, Leave, Wait, controlVars
    <3>4. stop' \in [Stoppers -> {"out", "joining", "returned"}]
      BY <3>1, <3>3
    <3> QED BY <3>1, <3>2, <3>4
  <2>2. thread' \in {"off", "idle", "scan", "run", "finish"}
    BY <1>0, <1>5 DEF TypeOK
  <2>3. uCurrNano' \in 0 .. MaxTime
    BY <1>7
  <2> QED BY <1>0, <1>1, <1>3, <1>7, <2>1, <2>2, <2>3 DEF TypeOK, histVars
<1> QED BY <1>2, <1>4, <1>6, <1>8, <1>9 DEF SchedulerInv

-----------------------------------------------------------------------------
\* A new task gets an entry of its own, which is not in the batch.
LEMMA PostStep ==
  ASSUME SchedulerInv, NEW task \in TaskKinds, PostTask(task)
  PROVE  SchedulerInv'
<1> DEFINE new == m_iNextTaskID
           entry == [id |-> new, task |-> task, uTaskExecCount |-> 0,
                     cancel |-> FALSE, running |-> FALSE]
<1>0. /\ TypeOK /\ EntriesAreTrue /\ OneEntryEach /\ UnpostedAreNew /\ BatchIsValid
      /\ BatchIsDue /\ RunsAreLeft /\ RunsAtMostItsTimes /\ CancelledHaveOneLeft
      /\ CancelledStaysQuiet /\ UnfinishedAreKept /\ SomebodyJoins
  BY DEF SchedulerInv
<1>25. PICK lag \in 0 .. MaxLag :
        LET due == now - lag + task.delay IN
        /\ lag <= now
        /\ \E key \in due .. due + MaxTasks :
             /\ FreeKey(due, key)
             /\ m_mapTasks' = With(m_mapTasks, key, entry)
        /\ earliest' = [earliest EXCEPT ![new] = due]
  BY DEF PostTask
<1> DEFINE due == now - lag + task.delay
<1>1. PICK key \in due .. due + MaxTasks :
        /\ lag <= now
        /\ FreeKey(due, key)
        /\ m_mapTasks' = With(m_mapTasks, key, entry)
        /\ earliest' = [earliest EXCEPT ![new] = due]
  BY <1>25
<1>2. /\ due \in Nat /\ key \in Nat /\ due <= key
      /\ key \notin Keys
  <2>1. task.delay \in Nat
    BY SchedulerAssumption
  <2>2. now \in Nat
    BY <1>0 DEF TypeOK
  <2>3. lag \in Nat /\ MaxTasks \in Nat
    BY SchedulerAssumption
  <2> QED BY <1>1, <2>1, <2>2, <2>3 DEF FreeKey
<1>3. /\ new \in TaskID /\ new \notin Posted
      /\ Posted' = Posted \cup {new}
      /\ m_iNextTaskID' \in 0 .. MaxTasks
      /\ Posted \subseteq TaskID
  <2>1. m_iNextTaskID \in 0 .. MaxTasks /\ m_iNextTaskID < MaxTasks
        /\ m_iNextTaskID' = m_iNextTaskID + 1
    BY <1>0 DEF TypeOK, PostTask
  <2> QED BY <2>1, SchedulerAssumption DEF Posted, TaskID
<1>4. /\ Keys' = Keys \cup {key}
      /\ m_mapTasks'[key] = entry
      /\ \A k \in Keys : m_mapTasks'[k] = m_mapTasks[k] /\ k # key
  <2> HIDE DEF entry, due
  <2>1. m_mapTasks' = With(m_mapTasks, key, entry)
    BY <1>1
  <2>2. /\ DOMAIN With(m_mapTasks, key, entry) = DOMAIN m_mapTasks \cup {key}
        /\ With(m_mapTasks, key, entry)[key] = entry
        /\ \A k \in DOMAIN m_mapTasks : k # key =>
             With(m_mapTasks, key, entry)[k] = m_mapTasks[k]
    BY DEF With
  <2>3. key \notin DOMAIN m_mapTasks
    BY <1>2 DEF Keys
  <2> QED BY <2>1, <2>2, <2>3 DEF Keys
<1>5. /\ kind' \in [Posted' -> TaskKinds]
      /\ kind'[new] = task
      /\ \A id \in Posted : kind'[id] = kind[id]
  <2>1. kind' = [id \in Posted' |-> IF id = new THEN task ELSE kind[id]]
    BY <1>3 DEF PostTask
  <2>2. kind \in [Posted -> TaskKinds]
    BY <1>0 DEF TypeOK
  <2> QED BY <1>3, <2>1, <2>2
<1>6. /\ earliest' \in [TaskID -> Nat]
      /\ earliest'[new] = due
      /\ \A id \in TaskID : id # new => earliest'[id] = earliest[id]
  BY <1>0, <1>1, <1>2, <1>3 DEF TypeOK
<1>7. UNCHANGED <<now, controlVars, threadVars, runs, allowed, lost>>
  BY DEF PostTask
<1>8. /\ now' = now /\ m_bRunning' = m_bRunning /\ stop' = stop /\ thread' = thread
      /\ uCurrNano' = uCurrNano /\ toRun' = toRun /\ toFinish' = toFinish
      /\ runs' = runs /\ allowed' = allowed /\ lost' = lost
  BY <1>7 DEF controlVars, threadVars
<1>9. /\ entry \in Task
      /\ entry.id = new /\ entry.task = task /\ entry.uTaskExecCount = 0
      /\ entry.cancel = FALSE /\ entry.running = FALSE
  BY <1>3 DEF Task
<1> HIDE DEF new, entry, due
<1>10. /\ IdOf(key)' = new
       /\ \A k \in Keys : IdOf(k)' = IdOf(k) /\ IdOf(k) \in Posted /\ (Live(k)' <=> Live(k))
  BY <1>0, <1>4, <1>9 DEF IdOf, Live, EntriesAreTrue, EntryIsTrue
<1>11. /\ toFinish \subseteq Keys /\ toRun \subseteq Keys /\ key \notin toFinish
  BY <1>0, <1>2 DEF BatchIsValid
<1>12. runs[new] = 0 /\ allowed[new] = Unlimited /\ new \notin lost
  BY <1>0, <1>3 DEF UnpostedAreNew
<1>13. TypeOK'
  <2>1. Keys' \subseteq Nat /\ \A k \in Keys' : m_mapTasks'[k] \in Task
    BY <1>0, <1>2, <1>4, <1>9 DEF TypeOK
  <2> QED BY <1>0, <1>3, <1>5, <1>6, <1>8, <2>1 DEF TypeOK
<1>14. EntriesAreTrue'
  <2>1. EntryIsTrue(key)'
    <3>1. Live(key)'
      BY <1>4, <1>9 DEF Live
    <3> QED BY <1>2, <1>3, <1>4, <1>5, <1>6, <1>8, <1>9, <1>10, <1>12, <3>1 DEF EntryIsTrue
  <2>2. ASSUME NEW k \in Keys
        PROVE  EntryIsTrue(k)'
    <3>1. EntryIsTrue(k)
      BY <1>0 DEF EntriesAreTrue
    <3>2. /\ IdOf(k) \in Posted' /\ IdOf(k) \in TaskID /\ IdOf(k) # new
          /\ kind'[IdOf(k)] = kind[IdOf(k)] /\ earliest'[IdOf(k)] = earliest[IdOf(k)]
      BY <1>3, <1>5, <1>6, <1>10
    <3> QED BY <1>4, <1>8, <1>10, <3>1, <3>2 DEF EntryIsTrue
  <2> QED BY <1>4, <2>1, <2>2 DEF EntriesAreTrue
<1>15. OneEntryEach'
  BY <1>0, <1>3, <1>4, <1>10 DEF OneEntryEach
<1>16. UnpostedAreNew'
  BY <1>0, <1>3, <1>8 DEF UnpostedAreNew, TaskID
<1>17. BatchIsValid'
  <2>1. toFinish = {k \in Keys' : m_mapTasks'[k].running}
    BY <1>0, <1>4, <1>9 DEF BatchIsValid
  <2> QED BY <1>0, <1>8, <2>1 DEF BatchIsValid
<1>18. BatchIsDue'
  BY <1>0, <1>8 DEF BatchIsDue
<1>19. RunsAreLeft'
  <2>1. 0 < TimesRun(task)
    BY TimesRunIs
  <2>2. \A k \in Keys : ~m_mapTasks'[k].task.periodic /\ k \notin toFinish \ toRun
          => m_mapTasks'[k].uTaskExecCount < TimesRun(m_mapTasks'[k].task)
    BY <1>0, <1>4 DEF RunsAreLeft
  <2>3. \A k \in toFinish : k \in Keys
    BY <1>0 DEF BatchIsValid
  <2>4. \A k \in toFinish \ toRun : m_mapTasks'[k].uTaskExecCount > 0
    BY <1>0, <1>4, <2>3 DEF RunsAreLeft
  <2> QED BY <1>4, <1>8, <1>9, <2>1, <2>2, <2>4 DEF RunsAreLeft
<1>20. RunsAtMostItsTimes'
  <2>1. 0 <= TimesRun(task)
    BY TimesRunIs
  <2> QED BY <1>0, <1>3, <1>5, <1>8, <1>12, <2>1 DEF RunsAtMostItsTimes
<1>21. CancelledHaveOneLeft'
  BY <1>0, <1>8, <1>10, <1>11 DEF CancelledHaveOneLeft
<1>22. CancelledStaysQuiet'
  BY <1>0, <1>3, <1>8, <1>12 DEF CancelledStaysQuiet
<1>23. UnfinishedAreKept'
  <2>1. ASSUME NEW id \in Posted' \ lost', allowed'[id] = Unlimited,
               kind'[id].periodic \/ runs'[id] < TimesRun(kind'[id])
        PROVE  \E k \in Keys' : IdOf(k)' = id
    <3>1. CASE id = new
      BY <1>4, <1>10, <3>1
    <3>2. CASE id # new
      <4>1. id \in Posted \ lost /\ kind'[id] = kind[id]
        BY <1>3, <1>5, <1>8, <2>1, <3>2
      <4>2. PICK k \in Keys : IdOf(k) = id
        BY <1>0, <1>8, <2>1, <4>1 DEF UnfinishedAreKept
      <4> QED BY <1>4, <1>10, <4>2
    <3> QED BY <3>1, <3>2
  <2> QED BY <2>1 DEF UnfinishedAreKept
<1>24. SomebodyJoins'
  BY <1>0, <1>8 DEF SomebodyJoins, Joining
<1> QED BY <1>13, <1>14, <1>15, <1>16, <1>17, <1>18, <1>19, <1>20, <1>21, <1>22, <1>23, <1>24
        DEF SchedulerInv

\* A cancelled entry stays where it is; the task may run once more if the batch
\* has it.
LEMMA CancelStep ==
  ASSUME SchedulerInv, NEW id \in TaskID, CancleTask(id)
  PROVE  SchedulerInv'
<1>0. /\ TypeOK /\ EntriesAreTrue /\ OneEntryEach /\ UnpostedAreNew /\ BatchIsValid
      /\ BatchIsDue /\ RunsAreLeft /\ RunsAtMostItsTimes /\ CancelledHaveOneLeft
      /\ CancelledStaysQuiet /\ UnfinishedAreKept /\ SomebodyJoins
  BY DEF SchedulerInv
<1>1. PICK key \in KeyOf(id) :
        /\ m_mapTasks' = [m_mapTasks EXCEPT ![key].cancel = TRUE]
        /\ allowed' = IF Live(key)
                      THEN [allowed EXCEPT ![id] = runs[id] + (IF key \in toRun THEN 1 ELSE 0)]
                      ELSE allowed
  BY DEF CancleTask
<1>2. /\ now' = now /\ m_bRunning' = m_bRunning /\ stop' = stop /\ thread' = thread
      /\ uCurrNano' = uCurrNano /\ toRun' = toRun /\ toFinish' = toFinish
      /\ m_iNextTaskID' = m_iNextTaskID /\ kind' = kind /\ earliest' = earliest
      /\ runs' = runs /\ lost' = lost
  BY DEF CancleTask, controlVars, threadVars
<1>3. key \in Keys /\ IdOf(key) = id /\ m_mapTasks[key] \in Task
  BY <1>0 DEF KeyOf, IdOf, TypeOK
<1>4. /\ Keys' = Keys /\ Posted' = Posted
      /\ m_mapTasks'[key] = [m_mapTasks[key] EXCEPT !.cancel = TRUE]
      /\ \A k \in Keys : k # key => m_mapTasks'[k] = m_mapTasks[k]
  BY <1>1, <1>2, <1>3 DEF Keys, Posted
<1>5. /\ m_mapTasks'[key] \in Task
      /\ m_mapTasks'[key].cancel = TRUE
      /\ m_mapTasks'[key].id = m_mapTasks[key].id
      /\ m_mapTasks'[key].task = m_mapTasks[key].task
      /\ m_mapTasks'[key].uTaskExecCount = m_mapTasks[key].uTaskExecCount
      /\ m_mapTasks'[key].running = m_mapTasks[key].running
  BY <1>3, <1>4 DEF Task
<1>6. /\ \A k \in Keys : IdOf(k)' = IdOf(k)
      /\ \A k \in Keys : k # key => (Live(k)' <=> Live(k))
      /\ ~Live(key)'
  BY <1>4, <1>5 DEF IdOf, Live
<1>7. runs \in [TaskID -> Nat] /\ allowed \in [TaskID -> Nat \cup {Unlimited}]
  BY <1>0 DEF TypeOK
<1>8. /\ allowed' \in [TaskID -> Nat \cup {Unlimited}]
      /\ \A i \in TaskID : i # id => allowed'[i] = allowed[i]
      /\ Live(key) => allowed'[id] = runs[id] + (IF key \in toRun THEN 1 ELSE 0)
      /\ ~Live(key) => allowed'[id] = allowed[id]
  <2>1. CASE Live(key)
    <3>1. runs[id] + (IF key \in toRun THEN 1 ELSE 0) \in Nat
      BY <1>7
    <3>2. allowed' = [allowed EXCEPT ![id] = runs[id] + (IF key \in toRun THEN 1 ELSE 0)]
      BY <1>1, <2>1
    <3> QED BY <1>7, <2>1, <3>1, <3>2
  <2>2. CASE ~Live(key)
    BY <1>1, <1>7, <2>2
  <2> QED BY <2>1, <2>2
<1>9. allowed'[id] # Unlimited /\ allowed'[id] \in Nat
  <2>1. ~Live(key) => allowed[id] # Unlimited
    BY <1>0, <1>3 DEF EntriesAreTrue, EntryIsTrue
  <2>2. Live(key) => allowed'[id] # Unlimited /\ allowed'[id] \in Nat
    BY <1>7, <1>8 DEF Unlimited
  <2> QED BY <1>7, <1>8, <2>1, <2>2
<1>10. id \in Posted
  BY <1>0, <1>3 DEF EntriesAreTrue, EntryIsTrue
<1>11. Posted \subseteq TaskID
  <2>1. m_iNextTaskID \in 0 .. MaxTasks
    BY <1>0 DEF TypeOK
  <2> QED BY <2>1, SchedulerAssumption DEF Posted, TaskID
<1>12. TypeOK'
  <2>1. \A k \in Keys' : m_mapTasks'[k] \in Task
    BY <1>0, <1>4, <1>5 DEF TypeOK
  <2> QED BY <1>0, <1>2, <1>4, <1>8, <2>1 DEF TypeOK
<1>13. EntriesAreTrue'
  <2>1. EntryIsTrue(key)'
    <3>1. EntryIsTrue(key)
      BY <1>0, <1>3 DEF EntriesAreTrue
    <3> QED BY <1>2, <1>3, <1>4, <1>5, <1>6, <1>9, <3>1 DEF EntryIsTrue
  <2>2. ASSUME NEW k \in Keys, k # key
        PROVE  EntryIsTrue(k)'
    <3>1. EntryIsTrue(k)
      BY <1>0 DEF EntriesAreTrue
    <3>2. IdOf(k) # id /\ IdOf(k) \in TaskID
      BY <1>0, <1>3, <1>11, <2>2, <3>1 DEF OneEntryEach, EntryIsTrue
    <3> QED BY <1>2, <1>4, <1>6, <1>8, <2>2, <3>1, <3>2 DEF EntryIsTrue
  <2> QED BY <1>4, <2>1, <2>2 DEF EntriesAreTrue
<1>14. OneEntryEach'
  BY <1>0, <1>4, <1>6 DEF OneEntryEach
<1>15. UnpostedAreNew'
  BY <1>0, <1>2, <1>4, <1>8, <1>10 DEF UnpostedAreNew
<1>16. BatchIsValid'
  <2>1. \A k \in Keys : m_mapTasks'[k].running = m_mapTasks[k].running
    BY <1>4, <1>5
  <2> QED BY <1>0, <1>2, <1>4, <2>1 DEF BatchIsValid
<1>17. BatchIsDue' /\ SomebodyJoins'
  BY <1>0, <1>2 DEF BatchIsDue, SomebodyJoins, Joining
<1>18. RunsAreLeft' /\ RunsAtMostItsTimes'
  <2>1. \A k \in Keys : /\ m_mapTasks'[k].task = m_mapTasks[k].task
                        /\ m_mapTasks'[k].uTaskExecCount = m_mapTasks[k].uTaskExecCount
    BY <1>4, <1>5
  <2>2. \A k \in toFinish \ toRun : m_mapTasks'[k].uTaskExecCount > 0
    <3>1. \A k \in toFinish : k \in Keys
      BY <1>0 DEF BatchIsValid
    <3> QED BY <1>0, <2>1, <3>1 DEF RunsAreLeft
  <2>3. RunsAreLeft'
    BY <1>0, <1>2, <1>4, <2>1, <2>2 DEF RunsAreLeft
  <2>4. RunsAtMostItsTimes'
    BY <1>0, <1>2, <1>4 DEF RunsAtMostItsTimes
  <2> QED BY <2>3, <2>4
<1>19. CancelledHaveOneLeft'
  <2>1. ASSUME NEW k \in toRun, ~Live(k)'
        PROVE  runs[IdOf(k)] < allowed'[IdOf(k)]
    <3>1. k \in Keys
      BY <1>0, <2>1 DEF BatchIsValid
    <3>2. CASE k = key
      <4>1. ~Live(key) => runs[id] < allowed[id]
        BY <1>0, <1>3, <2>1, <3>2 DEF CancelledHaveOneLeft
      <4>2. Live(key) => runs[id] < allowed'[id]
        BY <1>7, <1>8, <2>1, <3>2
      <4> QED BY <1>3, <1>8, <3>2, <4>1, <4>2
    <3>3. CASE k # key
      <4>1. IdOf(k) \in Posted /\ IdOf(k) # id
        BY <1>0, <1>3, <3>1, <3>3 DEF OneEntryEach, EntriesAreTrue, EntryIsTrue
      <4>2. allowed'[IdOf(k)] = allowed[IdOf(k)]
        BY <1>8, <1>11, <4>1
      <4>3. ~Live(k)
        BY <1>6, <2>1, <3>1, <3>3
      <4> QED BY <1>0, <4>2, <4>3 DEF CancelledHaveOneLeft
    <3> QED BY <3>2, <3>3
  <2>2. \A k \in toRun : k \in Keys
    BY <1>0 DEF BatchIsValid
  <2> QED BY <1>2, <1>6, <2>1, <2>2 DEF CancelledHaveOneLeft
<1>20. CancelledStaysQuiet'
  <2>1. runs[id] <= allowed'[id]
    <3>1. Live(key) => runs[id] <= allowed'[id]
      BY <1>7, <1>8
    <3>2. ~Live(key) => allowed[id] # Unlimited
      BY <1>0, <1>3 DEF EntriesAreTrue, EntryIsTrue
    <3>3. ~Live(key) => runs[id] <= allowed[id]
      BY <1>0, <1>10, <3>2 DEF CancelledStaysQuiet
    <3> QED BY <1>8, <3>1, <3>3
  <2>2. \A i \in Posted : i # id => allowed'[i] = allowed[i]
    BY <1>8, <1>11
  <2> QED BY <1>0, <1>2, <1>4, <2>1, <2>2 DEF CancelledStaysQuiet
<1>21. UnfinishedAreKept'
  <2>1. \A i \in Posted : allowed'[i] = Unlimited => allowed[i] = Unlimited
    BY <1>8, <1>9, <1>11
  <2> QED BY <1>0, <1>2, <1>4, <1>6, <2>1 DEF UnfinishedAreKept
<1> QED BY <1>12, <1>13, <1>14, <1>15, <1>16, <1>17, <1>18, <1>19, <1>20, <1>21
        DEF SchedulerInv

\* The scan lets go of cancelled entries, and of no other; what it marks is live,
\* due and in the batch.
LEMMA ScanStep ==
  ASSUME SchedulerInv, Scan
  PROVE  SchedulerInv'
<1> DEFINE batch == {key \in Keys : Due(key)}
           erased == {key \in Keys : ~Live(key) /\ Reached(key)}
<1>0. /\ TypeOK /\ EntriesAreTrue /\ OneEntryEach /\ UnpostedAreNew /\ BatchIsValid
      /\ BatchIsDue /\ RunsAreLeft /\ RunsAtMostItsTimes /\ CancelledHaveOneLeft
      /\ CancelledStaysQuiet /\ UnfinishedAreKept /\ SomebodyJoins
  BY DEF SchedulerInv
<1>1. /\ thread = "scan"
      /\ m_mapTasks' = [key \in Keys \ erased |->
                          IF key \in batch THEN [m_mapTasks[key] EXCEPT !.running = TRUE]
                          ELSE m_mapTasks[key]]
      /\ toRun' = batch /\ toFinish' = batch
      /\ thread' = IF batch = {} THEN "idle" ELSE "run"
      /\ uCurrNano' = 0
      /\ UNCHANGED <<now, m_iNextTaskID, controlVars, histVars>>
  BY DEF Scan
<1>2. /\ now' = now /\ m_iNextTaskID' = m_iNextTaskID
      /\ m_bRunning' = m_bRunning /\ stop' = stop
      /\ kind' = kind /\ runs' = runs /\ allowed' = allowed /\ earliest' = earliest
      /\ lost' = lost
  BY <1>1 DEF controlVars, histVars
<1>3. /\ batch \subseteq Keys \ erased
      /\ \A key \in batch : Live(key) /\ key <= uCurrNano
      /\ \A key \in erased : ~Live(key)
  BY DEF Due
<1> HIDE DEF batch, erased
<1>4. /\ Keys' = Keys \ erased /\ Posted' = Posted
      /\ \A key \in Keys' :
           m_mapTasks'[key] = IF key \in batch THEN [m_mapTasks[key] EXCEPT !.running = TRUE]
                              ELSE m_mapTasks[key]
  BY <1>1, <1>2 DEF Keys, Posted
<1>5. ASSUME NEW key \in Keys'
      PROVE  /\ key \in Keys
             /\ m_mapTasks'[key] \in Task
             /\ m_mapTasks'[key].cancel = m_mapTasks[key].cancel
             /\ m_mapTasks'[key].id = m_mapTasks[key].id
             /\ m_mapTasks'[key].task = m_mapTasks[key].task
             /\ m_mapTasks'[key].uTaskExecCount = m_mapTasks[key].uTaskExecCount
             /\ m_mapTasks'[key].running <=> m_mapTasks[key].running \/ key \in batch
  <2>1. key \in Keys /\ m_mapTasks[key] \in Task
    BY <1>0, <1>4 DEF TypeOK
  <2> QED BY <1>4, <2>1 DEF Task
<1>6. \A key \in Keys' : key \in Keys /\ IdOf(key)' = IdOf(key) /\ (Live(key)' <=> Live(key))
  BY <1>5 DEF IdOf, Live
<1>7. toRun = {} /\ toFinish = {} /\ \A key \in Keys : ~m_mapTasks[key].running
  BY <1>0, <1>1 DEF BatchIsValid
<1>8. TypeOK'
  <2>1. Keys' \subseteq Nat /\ \A key \in Keys' : m_mapTasks'[key] \in Task
    BY <1>0, <1>5 DEF TypeOK
  <2>2. toRun' \subseteq Nat /\ toFinish' \subseteq Nat
    BY <1>0, <1>1, <1>3 DEF TypeOK
  <2>3. thread' \in {"off", "idle", "scan", "run", "finish"} /\ uCurrNano' \in 0 .. MaxTime
    BY <1>1, SchedulerAssumption
  <2> QED BY <1>0, <1>2, <1>4, <2>1, <2>2, <2>3 DEF TypeOK
<1>9. EntriesAreTrue'
  <2>1. ASSUME NEW key \in Keys'
        PROVE  EntryIsTrue(key)'
    <3>1. EntryIsTrue(key)
      BY <1>0, <1>6 DEF EntriesAreTrue
    <3> QED BY <1>2, <1>4, <1>5, <1>6, <3>1 DEF EntryIsTrue
  <2> QED BY <2>1 DEF EntriesAreTrue
<1>10. OneEntryEach'
  BY <1>0, <1>6 DEF OneEntryEach
<1>11. UnpostedAreNew' /\ RunsAtMostItsTimes' /\ CancelledStaysQuiet'
  BY <1>0, <1>2, <1>4 DEF UnpostedAreNew, RunsAtMostItsTimes, CancelledStaysQuiet
<1>12. BatchIsValid'
  <2>1. batch = {key \in Keys' : m_mapTasks'[key].running}
    BY <1>3, <1>4, <1>5, <1>7
  <2>2. thread' \in {"off", "idle", "scan"} => batch = {}
    BY <1>1
  <2> QED BY <1>1, <2>1, <2>2 DEF BatchIsValid
<1>13. BatchIsDue'
  <2>1. now \in Nat /\ uCurrNano \in Nat /\ uCurrNano <= now
    BY <1>0 DEF TypeOK, BatchIsDue
  <2>2. \A key \in batch : key \in Nat /\ key <= uCurrNano
    BY <1>0, <1>3 DEF TypeOK
  <2>3. \A key \in batch : key <= now
    BY <2>1, <2>2
  <2>4. thread' # "run" => batch = {}
    BY <1>1
  <2> QED BY <1>1, <1>2, <2>1, <2>3, <2>4 DEF BatchIsDue
<1>14. RunsAreLeft'
  <2>1. \A key \in Keys : ~m_mapTasks[key].task.periodic
          => m_mapTasks[key].uTaskExecCount < TimesRun(m_mapTasks[key].task)
    BY <1>0, <1>7 DEF RunsAreLeft
  <2> QED BY <1>1, <1>5, <2>1 DEF RunsAreLeft
<1>15. CancelledHaveOneLeft'
  BY <1>1, <1>3, <1>4, <1>6 DEF CancelledHaveOneLeft
<1>16. UnfinishedAreKept'
  <2>1. ASSUME NEW id \in Posted \ lost, allowed[id] = Unlimited,
               kind[id].periodic \/ runs[id] < TimesRun(kind[id])
        PROVE  \E key \in Keys' : IdOf(key)' = id
    <3>1. PICK key \in Keys : IdOf(key) = id
      BY <1>0, <2>1 DEF UnfinishedAreKept
    <3>2. Live(key)
      BY <1>0, <2>1, <3>1 DEF EntriesAreTrue, EntryIsTrue
    <3>3. key \in Keys'
      BY <1>3, <1>4, <3>1, <3>2
    <3> QED BY <1>6, <3>1, <3>3
  <2> QED BY <1>2, <1>4, <2>1 DEF UnfinishedAreKept
<1>17. SomebodyJoins'
  BY <1>0, <1>1, <1>2 DEF SomebodyJoins, Joining
<1> QED BY <1>8, <1>9, <1>10, <1>11, <1>12, <1>13, <1>14, <1>15, <1>16, <1>17 DEF SchedulerInv

\* A task of the batch runs and is counted, in its entry and for the record.
LEMMA RunStep ==
  ASSUME SchedulerInv, RunTask
  PROVE  SchedulerInv'
<1>0. /\ TypeOK /\ EntriesAreTrue /\ OneEntryEach /\ UnpostedAreNew /\ BatchIsValid
      /\ BatchIsDue /\ RunsAreLeft /\ RunsAtMostItsTimes /\ CancelledHaveOneLeft
      /\ CancelledStaysQuiet /\ UnfinishedAreKept /\ SomebodyJoins
  BY DEF SchedulerInv
<1>1. PICK key \in toRun :
        /\ m_mapTasks' = [m_mapTasks EXCEPT ![key].uTaskExecCount = @ + 1]
        /\ toRun' = toRun \ {key}
        /\ runs' = [runs EXCEPT ![m_mapTasks[key].id] = @ + 1]
  BY DEF RunTask
<1>2. /\ now' = now /\ m_bRunning' = m_bRunning /\ stop' = stop
      /\ uCurrNano' = uCurrNano /\ toFinish' = toFinish
      /\ m_iNextTaskID' = m_iNextTaskID /\ kind' = kind /\ earliest' = earliest
      /\ allowed' = allowed /\ lost' = lost
      /\ thread = "run" /\ thread' = IF toRun' = {} THEN "finish" ELSE "run"
  BY DEF RunTask, controlVars
<1> DEFINE id == IdOf(key)
<1>3. /\ key \in Keys /\ key \in toFinish /\ toRun \subseteq toFinish /\ toFinish \subseteq Keys
      /\ m_mapTasks[key] \in Task /\ EntryIsTrue(key)
  BY <1>0 DEF TypeOK, BatchIsValid, EntriesAreTrue
<1>4. /\ Keys' = Keys /\ Posted' = Posted
      /\ m_mapTasks'[key] = [m_mapTasks[key] EXCEPT !.uTaskExecCount = @ + 1]
      /\ \A k \in Keys : k # key => m_mapTasks'[k] = m_mapTasks[k]
  BY <1>1, <1>2, <1>3 DEF Keys, Posted
<1>5. /\ m_mapTasks'[key] \in Task
      /\ m_mapTasks'[key].cancel = m_mapTasks[key].cancel
      /\ m_mapTasks'[key].id = m_mapTasks[key].id
      /\ m_mapTasks'[key].task = m_mapTasks[key].task
      /\ m_mapTasks'[key].uTaskExecCount = m_mapTasks[key].uTaskExecCount + 1
      /\ m_mapTasks'[key].running = m_mapTasks[key].running
      /\ m_mapTasks[key].uTaskExecCount \in Nat
  BY <1>3, <1>4 DEF Task
<1>6. \A k \in Keys : IdOf(k)' = IdOf(k) /\ (Live(k)' <=> Live(k))
  BY <1>4, <1>5 DEF IdOf, Live
<1>7. /\ Posted \subseteq TaskID /\ id \in Posted /\ id \in TaskID
  <2>1. m_iNextTaskID \in 0 .. MaxTasks
    BY <1>0 DEF TypeOK
  <2> QED BY <1>3, <2>1, SchedulerAssumption DEF Posted, TaskID, EntryIsTrue
<1>8. /\ runs \in [TaskID -> Nat] /\ runs' \in [TaskID -> Nat]
      /\ runs'[id] = runs[id] + 1
      /\ \A i \in TaskID : i # id => runs'[i] = runs[i]
  <2>1. runs \in [TaskID -> Nat]
    BY <1>0 DEF TypeOK
  <2>2. runs' = [runs EXCEPT ![id] = @ + 1]
    BY <1>1 DEF IdOf
  <2> QED BY <1>7, <2>1, <2>2
<1> HIDE DEF id
<1>9. \A k \in Keys : k # key => IdOf(k) # id /\ IdOf(k) \in TaskID
  BY <1>0, <1>3, <1>7 DEF id, OneEntryEach, EntriesAreTrue, EntryIsTrue
<1>10. /\ ~kind[id].periodic => runs[id] < TimesRun(kind[id])
       /\ kind[id] \in TaskKinds
  <2>1. kind[id] \in TaskKinds
    BY <1>0, <1>7 DEF TypeOK
  <2> QED BY <1>0, <1>3, <2>1 DEF RunsAreLeft, EntryIsTrue, id
<1>11. TypeOK'
  <2>1. \A k \in Keys' : m_mapTasks'[k] \in Task
    BY <1>0, <1>4, <1>5 DEF TypeOK
  <2> QED BY <1>0, <1>1, <1>2, <1>4, <1>8, <2>1 DEF TypeOK
<1>12. EntriesAreTrue'
  <2>1. EntryIsTrue(key)'
    <3>1. runs'[IdOf(key)] = runs[IdOf(key)] + 1
      BY <1>8 DEF id
    <3> QED BY <1>2, <1>3, <1>4, <1>5, <1>6, <3>1 DEF EntryIsTrue
  <2>2. ASSUME NEW k \in Keys, k # key
        PROVE  EntryIsTrue(k)'
    <3>1. EntryIsTrue(k)
      BY <1>0 DEF EntriesAreTrue
    <3>2. runs'[IdOf(k)] = runs[IdOf(k)]
      BY <1>8, <1>9, <2>2
    <3> QED BY <1>2, <1>4, <1>6, <2>2, <3>1, <3>2 DEF EntryIsTrue
  <2> QED BY <1>4, <2>1, <2>2 DEF EntriesAreTrue
<1>13. OneEntryEach'
  BY <1>0, <1>4, <1>6 DEF OneEntryEach
<1>14. UnpostedAreNew'
  BY <1>0, <1>2, <1>4, <1>7, <1>8 DEF UnpostedAreNew
<1>15. BatchIsValid'
  <2>1. \A k \in Keys : m_mapTasks'[k].running = m_mapTasks[k].running
    BY <1>4, <1>5
  <2> QED BY <1>0, <1>1, <1>2, <1>4, <2>1 DEF BatchIsValid
<1>16. BatchIsDue' /\ SomebodyJoins'
  BY <1>0, <1>1, <1>2 DEF BatchIsDue, SomebodyJoins, Joining
<1>17. RunsAreLeft'
  <2>1. ASSUME NEW k \in Keys, ~m_mapTasks'[k].task.periodic, k \notin toFinish' \ toRun'
        PROVE  m_mapTasks'[k].uTaskExecCount < TimesRun(m_mapTasks'[k].task)
    <3>1. k # key
      BY <1>1, <1>2, <1>3, <2>1
    <3>2. k \notin toFinish \ toRun
      BY <1>1, <1>2, <2>1, <3>1
    <3> QED BY <1>0, <1>4, <2>1, <3>1, <3>2 DEF RunsAreLeft
  <2>2. ASSUME NEW k \in toFinish' \ toRun'
        PROVE  m_mapTasks'[k].uTaskExecCount > 0
    <3>1. CASE k = key
      BY <1>5, <3>1
    <3>2. CASE k # key
      <4>1. k \in toFinish \ toRun /\ k \in Keys
        BY <1>1, <1>2, <1>3, <2>2, <3>2
      <4> QED BY <1>0, <1>4, <3>2, <4>1 DEF RunsAreLeft
    <3> QED BY <3>1, <3>2
  <2> QED BY <1>4, <2>1, <2>2 DEF RunsAreLeft
<1>18. RunsAtMostItsTimes'
  <2>1. ~kind[id].periodic => runs'[id] <= TimesRun(kind[id])
    <3>1. TimesRun(kind[id]) \in Nat /\ runs[id] \in Nat
      BY <1>7, <1>8, <1>10, TimesRunIs
    <3> QED BY <1>8, <1>10, <3>1
  <2> QED BY <1>0, <1>2, <1>4, <1>7, <1>8, <2>1 DEF RunsAtMostItsTimes
<1>19. CancelledHaveOneLeft'
  <2>1. ASSUME NEW k \in toRun', ~Live(k)'
        PROVE  runs'[IdOf(k)'] < allowed[IdOf(k)']
    <3>1. k \in toRun /\ k # key /\ k \in Keys
      BY <1>1, <1>3, <2>1
    <3>2. ~Live(k) /\ runs'[IdOf(k)] = runs[IdOf(k)] /\ IdOf(k)' = IdOf(k)
      BY <1>6, <1>8, <1>9, <2>1, <3>1
    <3> QED BY <1>0, <3>1, <3>2 DEF CancelledHaveOneLeft
  <2> QED BY <1>2, <2>1 DEF CancelledHaveOneLeft
<1>20. CancelledStaysQuiet'
  <2>1. allowed[id] # Unlimited => runs'[id] <= allowed[id]
    <3>1. allowed[id] # Unlimited => ~Live(key)
      BY <1>3 DEF EntryIsTrue, id
    <3>2. allowed[id] # Unlimited => runs[id] < allowed[id] /\ allowed[id] \in Nat
      BY <1>0, <1>7, <3>1 DEF CancelledHaveOneLeft, id, TypeOK
    <3>3. runs[id] \in Nat
      BY <1>7, <1>8
    <3> QED BY <1>8, <3>2, <3>3
  <2> QED BY <1>0, <1>2, <1>4, <1>7, <1>8, <2>1 DEF CancelledStaysQuiet
<1>21. UnfinishedAreKept'
  <2>1. ASSUME NEW i \in Posted, runs'[i] < TimesRun(kind[i]), ~kind[i].periodic
        PROVE  runs[i] < TimesRun(kind[i])
    <3>1. CASE i = id
      BY <1>10, <2>1, <3>1
    <3>2. CASE i # id
      BY <1>7, <1>8, <2>1, <3>2
    <3> QED BY <3>1, <3>2
  <2> QED BY <1>0, <1>2, <1>4, <1>6, <2>1 DEF UnfinishedAreKept
<1> QED BY <1>11, <1>12, <1>13, <1>14, <1>15, <1>16, <1>17, <1>18, <1>19, <1>20, <1>21
        DEF SchedulerInv

\* What a step that takes an entry out of the batch and the map leaves as it was.
LEMMA FinishLeaves ==
  ASSUME SchedulerInv, NEW key \in toFinish, thread = "finish",
         toFinish' = toFinish \ {key},
         thread' = IF toFinish' = {} THEN "idle" ELSE "finish",
         UNCHANGED <<now, m_iNextTaskID, controlVars, uCurrNano, toRun, kind, runs, allowed>>
  PROVE  /\ toRun = {} /\ Posted' = Posted
         /\ key \in Keys /\ EntryIsTrue(key) /\ m_mapTasks[key] \in Task
         /\ IdOf(key) \in TaskID /\ IdOf(key) \in Posted
         /\ kind[IdOf(key)] \in TaskKinds
         /\ \A k \in Keys : k # key => IdOf(k) # IdOf(key) /\ EntryIsTrue(k)
         /\ BatchIsDue' /\ SomebodyJoins' /\ CancelledHaveOneLeft'
         /\ RunsAtMostItsTimes' /\ CancelledStaysQuiet'
<1>0. /\ TypeOK /\ EntriesAreTrue /\ OneEntryEach /\ BatchIsValid /\ BatchIsDue
      /\ RunsAtMostItsTimes /\ CancelledStaysQuiet /\ SomebodyJoins
  BY DEF SchedulerInv
<1>1. /\ now' = now /\ m_bRunning' = m_bRunning /\ stop' = stop /\ uCurrNano' = uCurrNano
      /\ toRun' = toRun /\ kind' = kind /\ runs' = runs /\ allowed' = allowed
      /\ m_iNextTaskID' = m_iNextTaskID
  BY DEF controlVars
<1>2. toRun = {} /\ Posted' = Posted
  BY <1>0, <1>1 DEF BatchIsDue, Posted
<1>3. key \in Keys /\ EntryIsTrue(key) /\ m_mapTasks[key] \in Task
  BY <1>0 DEF BatchIsValid, EntriesAreTrue, TypeOK
<1>4. IdOf(key) \in TaskID /\ IdOf(key) \in Posted /\ kind[IdOf(key)] \in TaskKinds
  <2>1. IdOf(key) \in Posted /\ kind \in [Posted -> TaskKinds]
    BY <1>0, <1>3 DEF EntryIsTrue, TypeOK
  <2>2. IdOf(key) \in TaskID
    BY <1>3 DEF IdOf, Task
  <2> QED BY <2>1, <2>2
<1>5. \A k \in Keys : k # key => IdOf(k) # IdOf(key) /\ EntryIsTrue(k)
  BY <1>0, <1>3 DEF OneEntryEach, EntriesAreTrue
<1>6. BatchIsDue' /\ CancelledHaveOneLeft'
  BY <1>0, <1>1, <1>2 DEF BatchIsDue, CancelledHaveOneLeft
<1>7. SomebodyJoins'
  BY <1>0, <1>1 DEF SomebodyJoins, Joining
<1>8. RunsAtMostItsTimes' /\ CancelledStaysQuiet'
  BY <1>0, <1>1, <1>2 DEF RunsAtMostItsTimes, CancelledStaysQuiet
<1> QED BY <1>2, <1>3, <1>4, <1>5, <1>6, <1>7, <1>8

\* The entry is put back under its next due time, and then erased.
LEMMA PutBackStep ==
  ASSUME SchedulerInv, NEW key \in toFinish, thread = "finish",
         toFinish' = toFinish \ {key},
         thread' = IF toFinish' = {} THEN "idle" ELSE "finish",
         UNCHANGED <<now, m_iNextTaskID, controlVars, uCurrNano, toRun, kind, runs, allowed>>,
         NEW task, task = [m_mapTasks[key] EXCEPT !.running = FALSE], Again(task),
         NEW due, due = now + task.task.interval,
         NEW next \in due .. due + MaxTasks, FreeKey(due, next),
         m_mapTasks' = Without(With(m_mapTasks, next, task), {key}),
         earliest' = [earliest EXCEPT ![task.id] = due],
         lost' = lost
  PROVE  SchedulerInv'
<1> DEFINE id == IdOf(key)
<1>0. /\ TypeOK /\ OneEntryEach /\ UnpostedAreNew /\ BatchIsValid
      /\ RunsAreLeft /\ UnfinishedAreKept
  BY DEF SchedulerInv
<1>1. /\ now' = now /\ m_bRunning' = m_bRunning /\ stop' = stop /\ uCurrNano' = uCurrNano
      /\ toRun' = toRun /\ kind' = kind /\ runs' = runs /\ allowed' = allowed
      /\ m_iNextTaskID' = m_iNextTaskID
  BY DEF controlVars
<1>2. /\ toRun = {} /\ Posted' = Posted
      /\ key \in Keys /\ EntryIsTrue(key) /\ m_mapTasks[key] \in Task
      /\ id \in TaskID /\ id \in Posted /\ kind[id] \in TaskKinds
      /\ \A k \in Keys : k # key => IdOf(k) # id /\ EntryIsTrue(k)
      /\ BatchIsDue' /\ SomebodyJoins' /\ CancelledHaveOneLeft'
      /\ RunsAtMostItsTimes' /\ CancelledStaysQuiet'
  BY FinishLeaves
<1>3. /\ task \in Task /\ task.id = id /\ task.task = kind[id]
      /\ task.uTaskExecCount = runs[id]
      /\ task.cancel = m_mapTasks[key].cancel /\ task.running = FALSE
  BY <1>2 DEF Task, EntryIsTrue, IdOf
<1> HIDE DEF id
<1>4. /\ due \in Nat /\ next \in Nat /\ due <= next
      /\ next \notin Keys /\ next # key
  <2>1. task.task.interval \in Nat
    BY <1>2, <1>3, SchedulerAssumption
  <2>2. now \in Nat /\ MaxTasks \in Nat
    BY <1>0, SchedulerAssumption DEF TypeOK
  <2> QED BY <1>2, <2>1, <2>2 DEF FreeKey
<1>5. /\ Keys' = (Keys \ {key}) \cup {next}
      /\ m_mapTasks'[next] = task
      /\ \A k \in Keys \ {key} : m_mapTasks'[k] = m_mapTasks[k]
  <2>1. /\ DOMAIN With(m_mapTasks, next, task) = Keys \cup {next}
        /\ With(m_mapTasks, next, task)[next] = task
        /\ \A k \in Keys : k # next => With(m_mapTasks, next, task)[k] = m_mapTasks[k]
    BY DEF With, Keys
  <2>2. /\ Keys' = (Keys \cup {next}) \ {key}
        /\ \A k \in (Keys \cup {next}) \ {key} : m_mapTasks'[k] = With(m_mapTasks, next, task)[k]
    BY <2>1 DEF Without, Keys
  <2> QED BY <1>4, <2>1, <2>2
<1>6. /\ IdOf(next)' = id /\ (Live(next)' <=> Live(key))
      /\ \A k \in Keys \ {key} : IdOf(k)' = IdOf(k) /\ (Live(k)' <=> Live(k))
  BY <1>3, <1>5 DEF IdOf, Live
<1>7. /\ earliest' \in [TaskID -> Nat]
      /\ earliest'[id] = due
      /\ \A i \in TaskID : i # id => earliest'[i] = earliest[i]
  BY <1>0, <1>2, <1>3, <1>4 DEF TypeOK
<1>8. TypeOK'
  <2>1. Keys' \subseteq Nat /\ \A k \in Keys' : m_mapTasks'[k] \in Task
    BY <1>0, <1>3, <1>4, <1>5 DEF TypeOK
  <2>2. toFinish' \subseteq Nat /\ thread' \in {"off", "idle", "scan", "run", "finish"}
    BY <1>0 DEF TypeOK
  <2> QED BY <1>0, <1>1, <1>2, <1>7, <2>1, <2>2 DEF TypeOK
<1>9. EntriesAreTrue'
  <2>1. EntryIsTrue(next)'
    <3>1. id \notin lost /\ (Live(key) <=> allowed[id] = Unlimited)
      BY <1>2 DEF EntryIsTrue, id
    <3> QED BY <1>1, <1>2, <1>3, <1>4, <1>5, <1>6, <1>7, <3>1 DEF EntryIsTrue
  <2>2. ASSUME NEW k \in Keys \ {key}
        PROVE  EntryIsTrue(k)'
    <3>1. EntryIsTrue(k) /\ IdOf(k) # id /\ IdOf(k) \in TaskID
      BY <1>0, <1>2 DEF TypeOK, Task, IdOf
    <3>2. earliest'[IdOf(k)] = earliest[IdOf(k)]
      BY <1>7, <3>1
    <3> QED BY <1>1, <1>2, <1>5, <1>6, <3>1, <3>2 DEF EntryIsTrue
  <2> QED BY <1>5, <2>1, <2>2 DEF EntriesAreTrue
<1>10. OneEntryEach'
  BY <1>0, <1>2, <1>5, <1>6 DEF OneEntryEach
<1>11. UnpostedAreNew'
  BY <1>0, <1>1, <1>2 DEF UnpostedAreNew
<1>12. BatchIsValid'
  <2>1. toFinish' = {k \in Keys' : m_mapTasks'[k].running}
    <3>1. next \notin toFinish
      BY <1>0, <1>4 DEF BatchIsValid
    <3>2. ~m_mapTasks'[next].running
      BY <1>3, <1>5
    <3>3. \A k \in Keys \ {key} : m_mapTasks'[k].running <=> k \in toFinish
      BY <1>0, <1>5 DEF BatchIsValid
    <3>4. toFinish \subseteq Keys
      BY <1>0 DEF BatchIsValid
    <3> QED BY <1>5, <3>1, <3>2, <3>3, <3>4
  <2> QED BY <1>1, <1>2, <2>1 DEF BatchIsValid
<1>13. RunsAreLeft'
  <2>1. ~task.task.periodic => task.uTaskExecCount < TimesRun(task.task)
    <3>1. task.task \in TaskKinds /\ task.uTaskExecCount \in Nat
      BY <1>2, <1>3 DEF Task
    <3>2. ~task.task.periodic => task.uTaskExecCount < task.task.times
      BY DEF Again
    <3> QED BY <3>1, <3>2, TimesRunIs
  <2>2. ASSUME NEW k \in Keys \ {key}, ~m_mapTasks'[k].task.periodic, k \notin toFinish' \ toRun'
        PROVE  m_mapTasks'[k].uTaskExecCount < TimesRun(m_mapTasks'[k].task)
    BY <1>0, <1>1, <1>2, <1>5, <2>2 DEF RunsAreLeft
  <2>3. ASSUME NEW k \in toFinish' \ toRun'
        PROVE  m_mapTasks'[k].uTaskExecCount > 0
    <3>1. k \in toFinish \ toRun /\ k \in Keys \ {key}
      BY <1>0, <1>1, <1>2, <2>3 DEF BatchIsValid
    <3> QED BY <1>0, <1>5, <3>1 DEF RunsAreLeft
  <2>4. next \notin toFinish'
    BY <1>0, <1>4 DEF BatchIsValid
  <2> QED BY <1>5, <2>1, <2>2, <2>3, <2>4 DEF RunsAreLeft
<1>14. UnfinishedAreKept'
  <2>1. ASSUME NEW i \in Posted \ lost, allowed[i] = Unlimited,
               kind[i].periodic \/ runs[i] < TimesRun(kind[i])
        PROVE  \E k \in Keys' : IdOf(k)' = i
    <3>1. PICK k \in Keys : IdOf(k) = i
      BY <1>0, <2>1 DEF UnfinishedAreKept
    <3>2. CASE k = key
      BY <1>5, <1>6, <3>1, <3>2 DEF id
    <3>3. CASE k # key
      BY <1>5, <1>6, <3>1, <3>3
    <3> QED BY <3>2, <3>3
  <2> QED BY <1>1, <1>2, <2>1 DEF UnfinishedAreKept
<1> QED BY <1>2, <1>8, <1>9, <1>10, <1>11, <1>12, <1>13, <1>14 DEF SchedulerInv

\* The entry is erased: its task has run to its end, or is lost for want of memory.
LEMMA EraseStep ==
  ASSUME SchedulerInv, NEW key \in toFinish, thread = "finish",
         toFinish' = toFinish \ {key},
         thread' = IF toFinish' = {} THEN "idle" ELSE "finish",
         UNCHANGED <<now, m_iNextTaskID, controlVars, uCurrNano, toRun, kind, runs, allowed>>,
         NEW task, task = [m_mapTasks[key] EXCEPT !.running = FALSE],
         m_mapTasks' = Without(m_mapTasks, {key}),
         lost' = IF Again(task) THEN lost \cup {task.id} ELSE lost,
         earliest' = earliest
  PROVE  SchedulerInv'
<1> DEFINE id == IdOf(key)
<1>0. /\ TypeOK /\ OneEntryEach /\ UnpostedAreNew /\ BatchIsValid
      /\ RunsAreLeft /\ UnfinishedAreKept
  BY DEF SchedulerInv
<1>1. /\ now' = now /\ m_bRunning' = m_bRunning /\ stop' = stop /\ uCurrNano' = uCurrNano
      /\ toRun' = toRun /\ kind' = kind /\ runs' = runs /\ allowed' = allowed
      /\ m_iNextTaskID' = m_iNextTaskID
  BY DEF controlVars
<1>2. /\ toRun = {} /\ Posted' = Posted
      /\ key \in Keys /\ EntryIsTrue(key) /\ m_mapTasks[key] \in Task
      /\ id \in TaskID /\ id \in Posted /\ kind[id] \in TaskKinds
      /\ \A k \in Keys : k # key => IdOf(k) # id /\ EntryIsTrue(k)
      /\ BatchIsDue' /\ SomebodyJoins' /\ CancelledHaveOneLeft'
      /\ RunsAtMostItsTimes' /\ CancelledStaysQuiet'
  BY FinishLeaves
<1>3. /\ task.id = id /\ task.task = kind[id] /\ task.uTaskExecCount = runs[id]
  BY <1>2 DEF Task, EntryIsTrue, IdOf
<1> HIDE DEF id
<1>4. /\ Keys' = Keys \ {key}
      /\ \A k \in Keys \ {key} : m_mapTasks'[k] = m_mapTasks[k]
  BY DEF Without, Keys
<1>5. \A k \in Keys \ {key} : IdOf(k)' = IdOf(k) /\ (Live(k)' <=> Live(k))
  BY <1>4 DEF IdOf, Live
<1>6. /\ lost' \in {lost, lost \cup {id}}
      /\ id \in lost' \/ ~Again(task)
  BY <1>3
<1>7. TypeOK'
  <2>1. Keys' \subseteq Nat /\ \A k \in Keys' : m_mapTasks'[k] \in Task
    BY <1>0, <1>4 DEF TypeOK
  <2>2. toFinish' \subseteq Nat /\ thread' \in {"off", "idle", "scan", "run", "finish"}
    BY <1>0 DEF TypeOK
  <2>3. lost' \subseteq TaskID
    BY <1>0, <1>2, <1>6 DEF TypeOK
  <2> QED BY <1>0, <1>1, <1>2, <2>1, <2>2, <2>3 DEF TypeOK
<1>8. EntriesAreTrue'
  <2>1. ASSUME NEW k \in Keys \ {key}
        PROVE  EntryIsTrue(k)'
    <3>1. EntryIsTrue(k) /\ IdOf(k) # id
      BY <1>2
    <3>2. IdOf(k) \notin lost'
      BY <1>6, <3>1 DEF EntryIsTrue
    <3> QED BY <1>1, <1>2, <1>4, <1>5, <3>1, <3>2 DEF EntryIsTrue
  <2> QED BY <1>4, <2>1 DEF EntriesAreTrue
<1>9. OneEntryEach'
  BY <1>0, <1>4, <1>5 DEF OneEntryEach
<1>10. UnpostedAreNew'
  BY <1>0, <1>1, <1>2, <1>6 DEF UnpostedAreNew
<1>11. BatchIsValid'
  <2>1. toFinish' = {k \in Keys' : m_mapTasks'[k].running}
    BY <1>0, <1>4 DEF BatchIsValid
  <2> QED BY <1>1, <1>2, <2>1 DEF BatchIsValid
<1>12. RunsAreLeft'
  <2>1. \A k \in toFinish' \ toRun' : k \in toFinish \ toRun /\ k \in Keys \ {key}
    BY <1>0, <1>1, <1>2 DEF BatchIsValid
  <2> QED BY <1>0, <1>1, <1>2, <1>4, <2>1 DEF RunsAreLeft
<1>13. UnfinishedAreKept'
  <2>1. ASSUME NEW i \in Posted \ lost', allowed[i] = Unlimited,
               kind[i].periodic \/ runs[i] < TimesRun(kind[i])
        PROVE  \E k \in Keys' : IdOf(k)' = i
    <3>1. PICK k \in Keys : IdOf(k) = i
      BY <1>0, <1>6, <2>1 DEF UnfinishedAreKept
    <3>2. i # id
      <4>1. SUFFICES ASSUME i = id
                     PROVE  Again(task)
        BY <1>6, <2>1
      <4>2. task.uTaskExecCount \in Nat \ {0}
        <5>1. key \in toFinish \ toRun /\ m_mapTasks[key].uTaskExecCount \in Nat
          BY <1>2 DEF Task
        <5>2. m_mapTasks[key].uTaskExecCount > 0
          BY <1>0, <5>1 DEF RunsAreLeft
        <5>3. task.uTaskExecCount = m_mapTasks[key].uTaskExecCount
          BY <1>2 DEF Task
        <5> QED BY <5>1, <5>2, <5>3
      <4>3. task.task.periodic \/ task.uTaskExecCount < TimesRun(task.task)
        BY <1>3, <2>1, <4>1
      <4>4. task.task \in TaskKinds
        BY <1>2, <1>3
      <4> QED BY <4>2, <4>3, <4>4, TimesRunIs DEF Again
    <3> QED BY <1>4, <1>5, <3>1, <3>2 DEF id
  <2> QED BY <1>1, <1>2, <2>1 DEF UnfinishedAreKept
<1> QED BY <1>2, <1>7, <1>8, <1>9, <1>10, <1>11, <1>12, <1>13 DEF SchedulerInv

LEMMA FinishStep ==
  ASSUME SchedulerInv, FinishTask
  PROVE  SchedulerInv'
<1>1. /\ thread = "finish"
      /\ thread' = IF toFinish' = {} THEN "idle" ELSE "finish"
      /\ UNCHANGED <<now, m_iNextTaskID, controlVars, uCurrNano, toRun, kind, runs, allowed>>
  BY DEF FinishTask
<1>2. PICK key \in toFinish :
       LET task == [m_mapTasks[key] EXCEPT !.running = FALSE]
           due == now + task.task.interval
       IN
       /\ toFinish' = toFinish \ {key}
       /\ \/ /\ Again(task)
             /\ \E next \in due .. due + MaxTasks :
                  /\ FreeKey(due, next)
                  /\ m_mapTasks' = Without(With(m_mapTasks, next, task), {key})
             /\ earliest' = [earliest EXCEPT ![task.id] = due]
             /\ UNCHANGED lost
          \/ /\ m_mapTasks' = Without(m_mapTasks, {key})
             /\ lost' = IF Again(task) THEN lost \cup {task.id} ELSE lost
             /\ UNCHANGED earliest
  BY DEF FinishTask
<1> DEFINE task == [m_mapTasks[key] EXCEPT !.running = FALSE]
           due == now + task.task.interval
<1>3. toFinish' = toFinish \ {key}
  BY <1>2
<1>4. ASSUME NEW next \in due .. due + MaxTasks,
             Again(task), FreeKey(due, next),
             m_mapTasks' = Without(With(m_mapTasks, next, task), {key}),
             earliest' = [earliest EXCEPT ![task.id] = due],
             lost' = lost
      PROVE  SchedulerInv'
  BY <1>1, <1>3, <1>4, PutBackStep
<1>5. ASSUME m_mapTasks' = Without(m_mapTasks, {key}),
             lost' = IF Again(task) THEN lost \cup {task.id} ELSE lost,
             earliest' = earliest
      PROVE  SchedulerInv'
  BY <1>1, <1>3, <1>5, EraseStep
<1> QED BY <1>2, <1>4, <1>5

LEMMA SchedulerInvStep == SchedulerInv /\ [Next]_vars => SchedulerInv'
<1> SUFFICES ASSUME SchedulerInv, [Next]_vars
             PROVE  SchedulerInv'
  OBVIOUS
<1>1. CASE UNCHANGED vars
  <2>1. /\ UNCHANGED <<m_mapTasks, m_iNextTaskID, toRun, toFinish, histVars>>
        /\ UNCHANGED <<now, m_bRunning, stop, thread, uCurrNano>>
    BY <1>1 DEF vars, controlVars, threadVars
  <2>2. /\ EntriesAreTrue' /\ OneEntryEach' /\ UnpostedAreNew' /\ RunsAreLeft'
        /\ RunsAtMostItsTimes' /\ CancelledHaveOneLeft' /\ CancelledStaysQuiet'
        /\ UnfinishedAreKept'
    BY <2>1, TasksAlone
  <2>3. TypeOK' /\ BatchIsValid'
    BY <2>1 DEF SchedulerInv, TypeOK, BatchIsValid, Keys, Posted, histVars
  <2>4. BatchIsDue' /\ SomebodyJoins'
    BY <2>1 DEF SchedulerInv, BatchIsDue, SomebodyJoins, Joining
  <2> QED BY <2>2, <2>3, <2>4 DEF SchedulerInv
<1>2. CASE Tick \/ Start \/ (\E c \in Stoppers : Stop(c) \/ StopReturns(c)) \/ Leave \/ Wait
  BY <1>2, ControlStep
<1>3. CASE \E task \in TaskKinds : PostTask(task)
  BY <1>3, PostStep
<1>4. CASE \E id \in TaskID : CancleTask(id)
  BY <1>4, CancelStep
<1>5. CASE Scan
  BY <1>5, ScanStep
<1>6. CASE RunTask
  BY <1>6, RunStep
<1>7. CASE FinishTask
  BY <1>7, FinishStep
<1> QED BY <1>1, <1>2, <1>3, <1>4, <1>5, <1>6, <1>7 DEF Next, ThreadNext

-----------------------------------------------------------------------------
\* Every variable keeps its type, whatever tasks are posted by however many threads.
THEOREM SchedulerTypeCorrect == Spec => []TypeOK
<1>1. SchedulerInv => TypeOK
  BY DEF SchedulerInv
<1> QED
  BY <1>1, InitSchedulerInv, SchedulerInvStep, PTL DEF Spec

\* The batch refers to entries that are there, no task is lost or doubled, and none
\* runs oftener than its count, but once for a count of 0: however posting,
\* cancelling, stopping and starting again interleave with the batches of the
\* thread, for any size of them and any counts.
THEOREM TasksAreKeptAlways == Spec => []TasksAreKept
<1>1. ASSUME SchedulerInv
      PROVE  TasksAreKept
  <2>1. /\ EntriesAreTrue /\ OneEntryEach /\ UnfinishedAreKept /\ BatchIsValid
        /\ RunsAtMostItsTimes
    BY <1>1 DEF SchedulerInv
  <2>2. ASSUME NEW id \in Posted
        PROVE  Cardinality(KeyOf(id)) <= 1
    <3>1. CASE KeyOf(id) = {}
      BY <3>1, FS_EmptySet
    <3>2. ASSUME NEW key \in KeyOf(id)
          PROVE  Cardinality(KeyOf(id)) = 1
      <4>1. KeyOf(id) = {key}
        BY <2>1, <3>2 DEF KeyOf, IdOf, OneEntryEach
      <4> QED BY <4>1, FS_Singleton
    <3> QED BY <3>1, <3>2
  <2>3. ASSUME NEW id \in Posted, allowed[id] = Unlimited,
               kind[id].periodic \/ runs[id] < TimesRun(kind[id])
        PROVE  KeyOf(id) # {} <=> id \notin lost
    <3>1. id \notin lost => KeyOf(id) # {}
      BY <2>1, <2>3 DEF UnfinishedAreKept, KeyOf, IdOf
    <3>2. KeyOf(id) # {} => id \notin lost
      BY <2>1 DEF EntriesAreTrue, EntryIsTrue, KeyOf, IdOf
    <3> QED BY <3>1, <3>2
  <2>4. NoTaskLost
    BY <2>2, <2>3 DEF NoTaskLost
  <2> QED BY <2>1, <2>4 DEF TasksAreKept
<1> QED
  BY <1>1, InitSchedulerInv, SchedulerInvStep, PTL DEF Spec

\* A task that was cancelled runs once more at most, if the batch has it already.
THEOREM CancelledStaysQuietAlways == Spec => []CancelledStaysQuiet
<1>1. SchedulerInv => CancelledStaysQuiet
  BY DEF SchedulerInv
<1> QED
  BY <1>1, InitSchedulerInv, SchedulerInvStep, PTL DEF Spec

\* No task runs before it is due, nor again before its interval is over: the clock
\* that the thread read before it took the mutex, and keys that were moved because
\* two tasks were due together, only make it later.
THEOREM NeverEarlyAlways == Spec => NeverEarly
<1>1. ASSUME SchedulerInv, [Next]_vars
      PROVE  [\A id \in TaskID : runs'[id] # runs[id] => now >= earliest[id]]_vars
  <2>1. CASE RunTask
    <3>1. PICK key \in toRun : runs' = [runs EXCEPT ![m_mapTasks[key].id] = @ + 1]
      BY <2>1 DEF RunTask
    <3>2. key \in Keys /\ EntryIsTrue(key) /\ key <= now /\ key \in Nat
      BY <1>1 DEF SchedulerInv, BatchIsValid, BatchIsDue, EntriesAreTrue, TypeOK
    <3>3. /\ runs \in [TaskID -> Nat] /\ earliest \in [TaskID -> Nat] /\ now \in Nat
          /\ m_mapTasks[key].id \in TaskID
      BY <1>1, <3>2 DEF SchedulerInv, TypeOK, Task
    <3>4. now >= earliest[m_mapTasks[key].id]
      BY <3>2, <3>3 DEF EntryIsTrue, IdOf
    <3>5. \A id \in TaskID : id # m_mapTasks[key].id => runs'[id] = runs[id]
      BY <3>1, <3>3
    <3> QED BY <3>4, <3>5
  <2>2. CASE ~RunTask
    <3>1. runs' = runs
      <4>1. Tick \/ (\E task \in TaskKinds : PostTask(task)) \/ Start => runs' = runs
        BY DEF Tick, PostTask, Start, histVars
      <4>2. (\E id \in TaskID : CancleTask(id)) => runs' = runs
        BY DEF CancleTask
      <4>3. (\E c \in Stoppers : Stop(c) \/ StopReturns(c)) => runs' = runs
        BY DEF Stop, StopReturns, histVars
      <4>4. Leave \/ Wait \/ Scan \/ FinishTask => runs' = runs
        BY DEF Leave, Wait, Scan, FinishTask, histVars
      <4>5. UNCHANGED vars => runs' = runs
        BY DEF vars, histVars
      <4> QED BY <1>1, <2>2, <4>1, <4>2, <4>3, <4>4, <4>5 DEF Next, ThreadNext
    <3> QED BY <3>1
  <2> QED BY <2>1, <2>2
<1> QED
  BY <1>1, InitSchedulerInv, SchedulerInvStep, PTL DEF Spec, NeverEarly

\* When only one thread stops the scheduler, Stop() is as synchronous as it says:
\* the thread is gone and its batch is finished.  (A second one that finds it being
\* stopped returns at once.)
THEOREM StopIsSynchronousForOne ==
  ASSUME \A c, d \in Stoppers : c = d
  PROVE  Spec => []StopIsSynchronous
<1>1. ASSUME SchedulerInv
      PROVE  StopIsSynchronous
  <2>1. TypeOK /\ BatchIsValid /\ SomebodyJoins
    BY <1>1 DEF SchedulerInv
  <2>2. ASSUME NEW caller \in Stoppers, stop[caller] = "returned"
        PROVE  thread = "off"
    BY <2>1, <2>2 DEF SomebodyJoins, Joining
  <2>3. thread = "off" => toFinish = {} /\ \A key \in Keys : ~m_mapTasks[key].running
    BY <2>1 DEF BatchIsValid
  <2> QED BY <2>2, <2>3 DEF StopIsSynchronous
<1> QED
  BY <1>1, InitSchedulerInv, SchedulerInvStep, PTL DEF Spec
=============================================================================
