-------------------------- MODULE ThreadLifecycle ---------------------------
(***************************************************************************)
(* CThreadImpl: one controlling thread binds, starts, pauses, resumes,      *)
(* stops and destroys a worker thread that calls m_pThreadFunc in a loop.   *)
(* The two share three unlocked flags: m_bRunning (the controller's order   *)
(* to go on), m_eSetState (the state it asks for) and m_eCurrState (the     *)
(* state the worker reports).  The calls are documented as unsafe from      *)
(* several threads, so there is one controller.                             *)
(*                                                                          *)
(* Every action makes at most one access to a flag the other side writes.   *)
(* A call the code refuses changes nothing and is no action.                *)
(***************************************************************************)

VARIABLES
  controller,   \* "idle", the call it is in, or "destroyed"
  bound,        \* a thread function is bound: m_pThreadFunc is not nullptr
  affinity,     \* what Run() binds the thread to: m_iCpuNo, m_iNodeNo, neither
  joinable,     \* m_thThread holds a thread that is not joined yet
  m_bRunning,
  m_eSetState,
  m_eCurrState,
  thread,       \* where the worker stands in Run()
  state         \* the worker's own copy of m_eSetState

controlVars == <<controller, bound, affinity, joinable>>
workerVars == <<thread, state>>
flags == <<m_bRunning, m_eSetState, m_eCurrState>>
vars == <<controlVars, workerVars, flags>>

Gone == thread \in {"none", "exited"}

Init ==
  /\ controller = "idle"
  /\ bound \in BOOLEAN
  /\ affinity = "none"
  /\ joinable = FALSE
  /\ m_bRunning = FALSE
  /\ m_eSetState = "created"
  /\ m_eCurrState = "created"
  /\ thread = "none"
  /\ state = "running"

-----------------------------------------------------------------------------
\* The controlling thread.

Bind ==
  /\ controller = "idle"
  /\ ~m_bRunning
  /\ bound' = TRUE
  /\ UNCHANGED <<controller, affinity, joinable, workerVars, flags>>

\* BindCpu() and BindNode(): either, never both.
BindTo(resource) ==
  /\ controller = "idle"
  /\ ~m_bRunning
  /\ affinity \in {"none", resource}
  /\ affinity' = resource
  /\ UNCHANGED <<controller, bound, joinable, workerVars, flags>>

Start ==
  /\ controller = "idle"
  /\ ~m_bRunning
  /\ bound
  /\ m_bRunning' = TRUE
  /\ joinable' = TRUE
  /\ thread' = "entering"
  /\ UNCHANGED <<controller, bound, affinity, m_eSetState, m_eCurrState, state>>

\* The constructor of std::thread throws: Start() fails, m_bRunning stays set.
StartThrows ==
  /\ controller = "idle"
  /\ ~m_bRunning
  /\ bound
  /\ m_bRunning' = TRUE
  /\ UNCHANGED <<controlVars, workerVars, m_eSetState, m_eCurrState>>

PauseUnchecked ==
  /\ controller = "idle"
  /\ m_bRunning
  /\ controller' = "to pause"
  /\ UNCHANGED <<bound, affinity, joinable, workerVars, flags>>

\* Pause(): look at the reported state, ask for another, wait until it is reported.
PauseChecks ==
  /\ controller = "idle"
  /\ m_eCurrState = "running"
  /\ controller' = "to pause"
  /\ UNCHANGED <<bound, affinity, joinable, workerVars, flags>>

PauseAsks ==
  /\ controller = "to pause"
  /\ m_eSetState' = "paused"
  /\ controller' = "pausing"
  /\ UNCHANGED <<bound, affinity, joinable, workerVars, m_bRunning, m_eCurrState>>

PauseReturnsAtOnce ==
  /\ controller = "pausing"
  /\ controller' = "idle"
  /\ UNCHANGED <<bound, affinity, joinable, workerVars, flags>>

PauseReturns ==
  /\ controller = "pausing"
  /\ m_eCurrState = "paused"
  /\ controller' = "idle"
  /\ UNCHANGED <<bound, affinity, joinable, workerVars, flags>>

\* Resume(): the same check, and no wait.
ResumeChecks ==
  /\ controller = "idle"
  /\ m_eCurrState = "paused"
  /\ controller' = "resuming"
  /\ UNCHANGED <<bound, affinity, joinable, workerVars, flags>>

ResumeAsks ==
  /\ controller = "resuming"
  /\ m_eSetState' = "running"
  /\ controller' = "idle"
  /\ UNCHANGED <<bound, affinity, joinable, workerVars, m_bRunning, m_eCurrState>>

\* Stop(), also called by the destructor, which then frees the object.
After(call) == IF call = "destroying" THEN "destroyed" ELSE "idle"

StopBegins(call) ==
  /\ controller = "idle"
  /\ m_bRunning \/ call = "destroying"
  /\ m_bRunning' = FALSE
  /\ controller' = IF m_bRunning /\ joinable THEN call ELSE After(call)
  /\ UNCHANGED <<bound, affinity, joinable, workerVars, m_eSetState, m_eCurrState>>

StopWithoutJoin ==
  /\ controller \in {"stopping", "destroying"}
  /\ joinable' = FALSE
  /\ controller' = After(controller)
  /\ UNCHANGED <<bound, affinity, workerVars, flags>>

StopJoins ==
  /\ controller \in {"stopping", "destroying"}
  /\ thread = "exited"
  /\ joinable' = FALSE
  /\ controller' = After(controller)
  /\ UNCHANGED <<bound, affinity, workerVars, flags>>

-----------------------------------------------------------------------------
\* The worker: Run().

EnterWithoutState ==
  /\ thread = "entering"
  /\ thread' = "entered"
  /\ UNCHANGED <<controlVars, state, flags>>

Enter ==
  /\ thread = "entering"
  /\ m_eSetState' = "running"
  /\ thread' = "entered"
  /\ UNCHANGED <<controlVars, state, m_bRunning, m_eCurrState>>

ReportRunning ==
  /\ thread = "entered"
  /\ m_eCurrState' = "running"
  /\ thread' = "loop"
  /\ UNCHANGED <<controlVars, state, m_bRunning, m_eSetState>>

LoopWhilePaused ==
  /\ thread = "loop"
  /\ thread' = IF m_bRunning \/ m_eSetState = "paused" THEN "look" ELSE "leaving"
  /\ UNCHANGED <<controlVars, state, flags>>

\* The loop goes on while m_bRunning is set.
Loop ==
  /\ thread = "loop"
  /\ thread' = IF m_bRunning THEN "look" ELSE "leaving"
  /\ UNCHANGED <<controlVars, state, flags>>

LookUntilPaused ==
  /\ thread = "look"
  /\ state' = IF state = "paused" THEN state ELSE m_eSetState
  /\ thread' = IF state' = "running" THEN "calling" ELSE "reporting"
  /\ UNCHANGED <<controlVars, flags>>

\* One reading of the state asked for decides the whole pass.
Look ==
  /\ thread = "look"
  /\ state' = m_eSetState
  /\ thread' = IF m_eSetState = "running" THEN "calling" ELSE "reporting"
  /\ UNCHANGED <<controlVars, flags>>

\* The thread function returns: true to be called again, false to end the thread.
FunctionReturns(again) ==
  /\ thread = "calling"
  /\ thread' = IF again THEN "loop" ELSE "leaving"
  /\ UNCHANGED <<controlVars, state, flags>>

ReportState ==
  /\ thread = "reporting"
  /\ m_eCurrState' = state
  /\ thread' = "loop"
  /\ UNCHANGED <<controlVars, state, m_bRunning, m_eSetState>>

Leave ==
  /\ thread = "leaving"
  /\ m_eCurrState' = "stopped"
  /\ thread' = "exited"
  /\ UNCHANGED <<controlVars, state, m_bRunning, m_eSetState>>

-----------------------------------------------------------------------------
\* A call that has begun goes on by itself.
CallGoesOn == PauseAsks \/ PauseReturns \/ ResumeAsks \/ StopJoins

ControllerNext ==
  \/ Bind
  \/ \E resource \in {"cpu", "node"} : BindTo(resource)
  \/ Start
  \/ StartThrows
  \/ PauseChecks
  \/ ResumeChecks
  \/ \E call \in {"stopping", "destroying"} : StopBegins(call)
  \/ CallGoesOn

WorkerNext ==
  \/ Enter
  \/ ReportRunning
  \/ Loop
  \/ Look
  \/ \E again \in BOOLEAN : FunctionReturns(again)
  \/ ReportState
  \/ Leave

Next == ControllerNext \/ WorkerNext

Spec == Init /\ [][Next]_vars

\* Both threads are scheduled and the thread function returns.  Nothing obliges
\* the controller to begin a call.
FairSpec == Spec /\ WF_vars(WorkerNext) /\ WF_vars(CallGoesOn)

-----------------------------------------------------------------------------
\* Every variable keeps its type: past its first two stores the worker sees no
\* state but those it knows how to act on.
TypeOK ==
  /\ controller \in {"idle", "to pause", "pausing", "resuming", "stopping",
                     "destroying", "destroyed"}
  /\ bound \in BOOLEAN
  /\ affinity \in {"none", "cpu", "node"}
  /\ joinable \in BOOLEAN
  /\ m_bRunning \in BOOLEAN
  /\ m_eSetState \in {"created", "running", "paused"}
  /\ m_eCurrState \in {"created", "running", "paused", "stopped"}
  /\ thread \in {"none", "entering", "entered", "loop", "look", "calling",
                 "reporting", "leaving", "exited"}
  /\ state \in {"running", "paused"}

\* "Pause the thread and wait until it is paused": once Pause() has returned, and
\* until Resume(), the thread function is not running and is not entered.  The
\* worker's stale copy of the state and its first stores cannot undo the pause.
PausedIsQuiet ==
  controller = "idle" /\ m_eSetState = "paused" => thread # "calling"

\* Outside its calls the controller may restart or free the object whenever
\* m_bRunning is clear: no worker is left, none is unjoined (assigning to or
\* destroying a joinable std::thread ends the program), and one that ran is
\* reported as stopped.
StoppedMeansGone ==
  ~m_bRunning /\ controller \in {"idle", "destroyed"} =>
    /\ Gone
    /\ ~joinable
    /\ thread = "exited" => m_eCurrState = "stopped"

\* A freed object is not touched again.
DestroyedIsFinal == [][controller # "destroyed"]_vars

\* Stop() and the destructor return, whether the worker runs, is paused, is being
\* paused, has ended by itself or was never created.
StopTerminates ==
  (controller \in {"stopping", "destroying"}) ~> (controller \in {"idle", "destroyed"})

\* Pause() waits for a worker that goes on.
PauseTerminates ==
  (controller = "pausing") ~> (controller = "idle" \/ thread = "exited")

\* "Pause the thread and synchronously wait until the pause is complete": Pause()
\* returns, whatever the thread function returns meanwhile.
PauseIsSynchronous == (controller = "pausing") ~> (controller = "idle")

\* After Resume() the thread function is called again, unless the thread is stopped.
ResumeRestarts ==
  (controller = "resuming") ~> (thread = "calling" \/ Gone \/ ~m_bRunning)

\* "Resume the thread": a thread that is resumed gets back to the running state
\* that GetThreadState() returns and Pause() asks for.
ResumeRestoresState ==
  (controller = "resuming") ~> (m_eCurrState = "running" \/ Gone \/ ~m_bRunning)

\* Every call that waits for the thread returns, and a thread that is resumed runs.
CallsReturn == StopTerminates /\ PauseTerminates /\ ResumeRestarts
=============================================================================
