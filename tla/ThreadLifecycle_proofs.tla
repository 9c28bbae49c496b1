----------------------- MODULE ThreadLifecycle_proofs -----------------------
(***************************************************************************)
(* The safety properties of ThreadLifecycle, for every behaviour of the     *)
(* specification.  None of them is inductive alone: that a paused worker is *)
(* quiet rests on how the three flags can disagree (PausedIsReported,       *)
(* RunningIsAsked), and that a stopped one is gone on who holds the thread  *)
(* (Joined).                                                                *)
(***************************************************************************)
EXTENDS ThreadLifecycle, TLAPS

InStop == controller \in {"stopping", "destroying"}
InPause == controller \in {"to pause", "pausing"}
Looping == thread \in {"loop", "look", "calling", "reporting", "leaving"}

\* A worker that is not gone is in m_thThread; outside Stop() a clear m_bRunning
\* means that nobody is.
Joined ==
  /\ ~Gone => joinable
  /\ joinable => thread # "none"
  /\ ~m_bRunning /\ ~InStop => ~joinable
  /\ InStop => ~m_bRunning /\ joinable
  /\ controller = "destroyed" => ~m_bRunning

\* Where the worker must stand for each state it reports.
Reported ==
  /\ m_eCurrState \in {"running", "paused"} <=> Looping
  /\ thread = "exited" => m_eCurrState = "stopped"
  /\ thread = "entered" => m_eSetState = "running"
  /\ Looping => m_eSetState # "created"
  /\ thread = "reporting" => state = "paused"

\* No call asks for a pause before the worker has made its first two stores.
PauseIsTimely ==
  /\ InPause => Looping \/ thread = "exited"
  /\ controller = "resuming" => Looping \/ thread = "exited"
  /\ controller = "to pause" => m_eCurrState # "paused"

\* While running is reported, only a Pause() under way asks for anything else.
RunningIsAsked ==
  m_eCurrState = "running" /\ controller # "pausing" =>
    m_eSetState = "running" /\ thread # "reporting"

\* Asked for and reported, the pause holds.
PausedIsReported ==
  m_eSetState = "paused" /\ m_eCurrState = "paused" => thread # "calling"

IInv ==
  /\ TypeOK
  /\ Joined
  /\ Reported
  /\ PauseIsTimely
  /\ RunningIsAsked
  /\ PausedIsReported

-----------------------------------------------------------------------------
LEMMA InitIInv == Init => IInv
  BY DEF Init, IInv, TypeOK, Joined, Reported, PauseIsTimely, RunningIsAsked,
         PausedIsReported, Gone, InStop, InPause, Looping

\* The calls of the controlling thread keep the invariant.
LEMMA ControllerIInv == IInv /\ ControllerNext => IInv'
<1> SUFFICES ASSUME IInv, ControllerNext PROVE IInv'
  OBVIOUS
<1> USE DEF IInv, Gone, InStop, InPause, Looping, controlVars, workerVars, flags
<1>1. CASE Bind
  BY <1>1 DEF Bind, TypeOK, Joined, Reported, PauseIsTimely, RunningIsAsked, PausedIsReported
<1>2. ASSUME NEW resource \in {"cpu", "node"}, BindTo(resource)
      PROVE  IInv'
  BY <1>2 DEF BindTo, TypeOK, Joined, Reported, PauseIsTimely, RunningIsAsked, PausedIsReported
<1>3. CASE Start
  <2>1. Gone /\ m_eCurrState \notin {"running", "paused"}
    BY <1>3 DEF Start, Joined, Reported
  <2>2. TypeOK'
    BY <1>3 DEF Start, TypeOK
  <2>3. Joined'
    BY <1>3 DEF Start, Joined
  <2>4. Reported' /\ PauseIsTimely' /\ RunningIsAsked' /\ PausedIsReported'
    BY <1>3, <2>1 DEF Start, Reported, PauseIsTimely, RunningIsAsked, PausedIsReported
  <2> QED
    BY <2>2, <2>3, <2>4
<1>4. CASE StartThrows
  BY <1>4 DEF StartThrows, TypeOK, Joined, Reported, PauseIsTimely, RunningIsAsked, PausedIsReported
<1>5. CASE PauseChecks
  BY <1>5 DEF PauseChecks, TypeOK, Joined, Reported, PauseIsTimely, RunningIsAsked, PausedIsReported
<1>6. CASE ResumeChecks
  BY <1>6 DEF ResumeChecks, TypeOK, Joined, Reported, PauseIsTimely, RunningIsAsked, PausedIsReported
<1>7. ASSUME NEW call \in {"stopping", "destroying"}, StopBegins(call)
      PROVE  IInv'
  <2>1. CASE m_bRunning /\ joinable
    <3>1. /\ controller = "idle" /\ controller' = call /\ m_bRunning' = FALSE
          /\ UNCHANGED <<bound, affinity, joinable, thread, state, m_eSetState, m_eCurrState>>
      BY <1>7, <2>1 DEF StopBegins
    <3>2. TypeOK'
      <4>1. bound' \in BOOLEAN /\ joinable' \in BOOLEAN /\ m_bRunning' \in BOOLEAN
        BY <3>1, Zenon DEF TypeOK
      <4> QED BY <3>1, <4>1 DEF TypeOK
    <3>4. Joined'
      BY <2>1, <3>1 DEF TypeOK, Joined
    <3>3. Reported' /\ PauseIsTimely' /\ RunningIsAsked' /\ PausedIsReported'
      BY <3>1 DEF Reported, PauseIsTimely, RunningIsAsked, PausedIsReported
    <3> QED BY <3>2, <3>3, <3>4
  <2>2. CASE ~(m_bRunning /\ joinable)
    <3>1. /\ controller = "idle" /\ controller' \in {"idle", "destroyed"}
          /\ m_bRunning' = FALSE
          /\ UNCHANGED <<bound, affinity, joinable, thread, state, m_eSetState, m_eCurrState>>
      BY <1>7, <2>2 DEF StopBegins, After
    <3>2. TypeOK'
      <4>1. bound' \in BOOLEAN /\ joinable' \in BOOLEAN /\ m_bRunning' \in BOOLEAN
        BY <3>1, Zenon DEF TypeOK
      <4> QED BY <3>1, <4>1 DEF TypeOK
    <3>3. Joined'
      BY <2>2, <3>1 DEF TypeOK, Joined
    <3>4. Reported' /\ PauseIsTimely' /\ RunningIsAsked' /\ PausedIsReported'
      BY <3>1 DEF Reported, PauseIsTimely, RunningIsAsked, PausedIsReported
    <3> QED BY <3>2, <3>3, <3>4
  <2> QED
    BY <2>1, <2>2
<1>8. CASE PauseAsks
  BY <1>8 DEF PauseAsks, TypeOK, Joined, Reported, PauseIsTimely, RunningIsAsked, PausedIsReported
<1>9. CASE PauseReturns
  BY <1>9 DEF PauseReturns, TypeOK, Joined, Reported, PauseIsTimely, RunningIsAsked, PausedIsReported
<1>10. CASE ResumeAsks
  BY <1>10 DEF ResumeAsks, TypeOK, Joined, Reported, PauseIsTimely, RunningIsAsked, PausedIsReported
<1>11. CASE StopJoins
  BY <1>11 DEF StopJoins, After, TypeOK, Joined, Reported, PauseIsTimely, RunningIsAsked, PausedIsReported
<1> QED
  BY <1>1, <1>2, <1>3, <1>4, <1>5, <1>6, <1>7, <1>8, <1>9, <1>10, <1>11
     DEF ControllerNext, CallGoesOn

\* So do the steps of the worker.
LEMMA WorkerIInv == IInv /\ WorkerNext => IInv'
<1> SUFFICES ASSUME IInv, WorkerNext PROVE IInv'
  OBVIOUS
<1> USE DEF IInv, Gone, InStop, InPause, Looping, controlVars, workerVars, flags
<1>1. CASE Enter
  BY <1>1 DEF Enter, TypeOK, Joined, Reported, PauseIsTimely, RunningIsAsked, PausedIsReported
<1>2. CASE ReportRunning
  BY <1>2 DEF ReportRunning, TypeOK, Joined, Reported, PauseIsTimely, RunningIsAsked, PausedIsReported
<1>3. CASE Loop
  BY <1>3 DEF Loop, TypeOK, Joined, Reported, PauseIsTimely, RunningIsAsked, PausedIsReported
<1>4. CASE Look
  <2>1. m_eSetState \in {"running", "paused"}
    BY <1>4 DEF Look, TypeOK, Reported
  <2>2. TypeOK'
    <3>1. state' \in {"running", "paused"} /\ thread' \in {"calling", "reporting"}
      BY <1>4, <2>1 DEF Look
    <3>2. UNCHANGED <<controller, bound, affinity, joinable, m_bRunning, m_eSetState, m_eCurrState>>
      BY <1>4, Zenon DEF Look
    <3>3. bound' \in BOOLEAN /\ joinable' \in BOOLEAN /\ m_bRunning' \in BOOLEAN
      BY <3>2, Zenon DEF TypeOK
    <3> QED BY <3>1, <3>2, <3>3 DEF TypeOK
  <2>3. Joined' /\ Reported' /\ PauseIsTimely'
    BY <1>4, <2>1 DEF Look, Joined, Reported, PauseIsTimely
  <2>4. RunningIsAsked' /\ PausedIsReported'
    BY <1>4, <2>1 DEF Look, RunningIsAsked, PausedIsReported
  <2> QED
    BY <2>2, <2>3, <2>4
<1>5. ASSUME NEW again \in BOOLEAN, FunctionReturns(again)
      PROVE  IInv'
  BY <1>5 DEF FunctionReturns, TypeOK, Joined, Reported, PauseIsTimely, RunningIsAsked, PausedIsReported
<1>6. CASE ReportState
  <2>1. controller # "to pause"
    BY <1>6 DEF ReportState, Reported, PauseIsTimely, RunningIsAsked, TypeOK
  <2>2. m_eCurrState' = "paused"
    BY <1>6 DEF ReportState, Reported
  <2>3. TypeOK' /\ Joined'
    BY <1>6, <2>2 DEF ReportState, TypeOK, Joined
  <2>4. Reported' /\ PauseIsTimely' /\ RunningIsAsked' /\ PausedIsReported'
    BY <1>6, <2>1, <2>2 DEF ReportState, Reported, PauseIsTimely, RunningIsAsked, PausedIsReported
  <2> QED
    BY <2>3, <2>4
<1>7. CASE Leave
  <2>1. /\ thread = "leaving" /\ thread' = "exited" /\ m_eCurrState' = "stopped"
        /\ UNCHANGED <<controlVars, state, m_bRunning, m_eSetState>>
    BY <1>7 DEF Leave
  <2>3. TypeOK'
    <3>1. bound' \in BOOLEAN /\ joinable' \in BOOLEAN /\ m_bRunning' \in BOOLEAN
      BY <2>1, Zenon DEF TypeOK
    <3> QED BY <2>1, <3>1 DEF TypeOK
  <2>4. Joined'
    BY <2>1 DEF TypeOK, Joined
  <2>2. Reported' /\ PauseIsTimely' /\ RunningIsAsked' /\ PausedIsReported'
    BY <2>1 DEF Reported, PauseIsTimely, RunningIsAsked, PausedIsReported
  <2> QED
    BY <2>2, <2>3, <2>4
<1> QED
  BY <1>1, <1>2, <1>3, <1>4, <1>5, <1>6, <1>7 DEF WorkerNext

\* The inductive invariant holds.
THEOREM InvariantHolds == Spec => []IInv
<1>1. IInv /\ [Next]_vars => IInv'
  <2>1. ASSUME IInv, UNCHANGED vars PROVE IInv'
    <3>1. /\ TypeOK /\ Joined /\ Reported
          /\ PauseIsTimely /\ RunningIsAsked /\ PausedIsReported
      BY <2>1 DEF IInv
    <3>2. UNCHANGED <<controller, bound, affinity, joinable>>
      BY <2>1 DEF vars, controlVars
    <3>3. UNCHANGED <<thread, state, m_bRunning, m_eSetState, m_eCurrState>>
      BY <2>1 DEF vars, workerVars, flags
    <3>4. TypeOK'
      <4>1. bound' \in BOOLEAN /\ joinable' \in BOOLEAN /\ m_bRunning' \in BOOLEAN
        BY <3>1, <3>2, <3>3, Zenon DEF TypeOK
      <4>2. controller' \in {"idle", "to pause", "pausing", "resuming", "stopping",
                             "destroying", "destroyed"}
        BY <3>1, <3>2 DEF TypeOK
      <4>3. thread' \in {"none", "entering", "entered", "loop", "look", "calling",
                         "reporting", "leaving", "exited"}
        BY <3>1, <3>3 DEF TypeOK
      <4>4. /\ affinity' \in {"none", "cpu", "node"}
            /\ m_eSetState' \in {"created", "running", "paused"}
            /\ m_eCurrState' \in {"created", "running", "paused", "stopped"}
            /\ state' \in {"running", "paused"}
        BY <3>1, <3>2, <3>3 DEF TypeOK
      <4> QED
        BY <4>1, <4>2, <4>3, <4>4 DEF TypeOK
    <3>5. Joined'
      BY <3>1, <3>2, <3>3 DEF Joined, Gone, InStop
    <3>6. Reported'
      BY <3>1, <3>3 DEF Reported, Looping
    <3>7. PauseIsTimely'
      BY <3>1, <3>2, <3>3 DEF PauseIsTimely, InPause, Looping
    <3>8. RunningIsAsked' /\ PausedIsReported'
      BY <3>1, <3>2, <3>3 DEF RunningIsAsked, PausedIsReported
    <3> QED
      BY <3>4, <3>5, <3>6, <3>7, <3>8 DEF IInv
  <2> QED
    BY <2>1, ControllerIInv, WorkerIInv DEF Next
<1> QED
  BY <1>1, InitIInv, PTL DEF Spec

\* The worker never sees a state it cannot act on (Run() acts on two of four).
THEOREM TypeCorrect == Spec => []TypeOK
<1>1. IInv => TypeOK
  BY DEF IInv
<1> QED
  BY <1>1, InvariantHolds, PTL

\* After Pause() has returned and until Resume(), the thread function is not
\* running and is not entered.
THEOREM PauseHolds == Spec => []PausedIsQuiet
<1>1. IInv => PausedIsQuiet
  BY DEF IInv, PausedIsQuiet, PausedIsReported, RunningIsAsked, Reported, Looping
<1> QED
  BY <1>1, InvariantHolds, PTL

\* Whenever Start() or the end of the destructor can be reached, no worker is left.
THEOREM StopIsComplete == Spec => []StoppedMeansGone
<1>1. IInv => StoppedMeansGone
  BY DEF IInv, StoppedMeansGone, Joined, Reported, InStop, Gone
<1> QED
  BY <1>1, InvariantHolds, PTL

\* Neither a call nor a step of the worker touches a freed object.
THEOREM NoUseAfterDestroy == Spec => DestroyedIsFinal
<1>1. IInv /\ [Next]_vars => [controller # "destroyed"]_vars
  <2> SUFFICES ASSUME IInv, Next, controller = "destroyed"
               PROVE  FALSE
    OBVIOUS
  <2>1. Gone
    BY DEF IInv, Joined, InStop, Gone
  <2>2. ~WorkerNext
    BY <2>1 DEF Gone, WorkerNext, Enter, ReportRunning, Loop, Look, FunctionReturns,
                ReportState, Leave
  <2>3. ~ControllerNext
    BY DEF ControllerNext, CallGoesOn, Bind, BindTo, Start, StartThrows, PauseChecks,
           ResumeChecks, StopBegins, PauseAsks, PauseReturns, ResumeAsks, StopJoins
  <2> QED
    BY <2>2, <2>3 DEF Next
<1> QED
  BY <1>1, InvariantHolds, PTL DEF Spec, DestroyedIsFinal
=============================================================================
