------------------------ MODULE BaseServices_proofs -------------------------
(***************************************************************************)
(* Safety of the services of the base library: the allocator of the process, *)
(* the thread manager and the logger, for any number of threads, and the      *)
(* arithmetic and order of times.                                           *)
(***************************************************************************)
EXTENDS MCBaseServices, JsonDocuments_proofs, FiniteSetTheorems, TLAPS

-----------------------------------------------------------------------------
(* The allocator. *)

\* A thread past its second look holds the lock, and is alone there.
MakerHoldsLock == \A c \in Caller : getPc[c] \in {"make", "init"} <=> s_mutex = c

\* While the lock is held to make an allocator there is none; the pointer is
\* published for good.
PublishedIsLast ==
  /\ s_pAllocator = allocators
  /\ \A c \in Caller : getPc[c] = "make" => s_pAllocator = 0

AllocatorInv ==
  /\ AllocatorTypeOK
  /\ MakerHoldsLock
  /\ PublishedIsLast
  /\ OneAllocator

LEMMA InitAllocatorInv == AllocatorInit => AllocatorInv
  BY AllocatorAssumption
  DEF AllocatorInit, AllocatorInv, AllocatorTypeOK, MakerHoldsLock, PublishedIsLast,
      OneAllocator, Unowned

LEMMA AllocatorInvStep == AllocatorInv /\ [AllocatorNext]_allocatorVars => AllocatorInv'
<1> SUFFICES ASSUME AllocatorInv, [AllocatorNext]_allocatorVars
             PROVE  AllocatorInv'
  OBVIOUS
<1> USE AllocatorAssumption
    DEF AllocatorInv, AllocatorTypeOK, MakerHoldsLock, PublishedIsLast, OneAllocator,
        Unowned, At
<1>1. ASSUME NEW c \in Caller, FirstLook(c)
      PROVE  AllocatorInv'
  BY <1>1 DEF FirstLook
<1>2. ASSUME NEW c \in Caller, SecondLook(c)
      PROVE  AllocatorInv'
  BY <1>2 DEF SecondLook
<1>3. ASSUME NEW c \in Caller, MakeAllocator(c)
      PROVE  AllocatorInv'
  BY <1>3 DEF MakeAllocator
<1>4. ASSUME NEW c \in Caller, InitAllocator(c)
      PROVE  AllocatorInv'
  BY <1>4 DEF InitAllocator
<1>5. CASE UNCHANGED allocatorVars
  BY <1>5 DEF allocatorVars
<1> QED
  BY <1>1, <1>2, <1>3, <1>4, <1>5 DEF AllocatorNext

\* However the first calls of GetInstance() race, whichever of them run out of
\* memory, and however many threads there are: one allocator, given to all.
THEOREM OneAllocatorAlways == AllocatorSpec => []OneAllocator
<1>1. AllocatorInv => OneAllocator
  BY DEF AllocatorInv
<1> QED
  BY <1>1, InitAllocatorInv, AllocatorInvStep, PTL DEF AllocatorSpec

-----------------------------------------------------------------------------
(* The thread manager. *)

AppStates == {AppIdle} \cup {<<"join", w>> : w \in Worker} \cup {<<"for each", i>> : i \in Id}

\* A thread is known by at most one pointer or name, and to nobody while it is
\* joined and after; one that runs is still known, or being joined.
Named(w) == \E n \in ThreadName : m_mapThreads[n] = w
NamesDiffer ==
  \A n, m \in ThreadName :
    m_mapThreads[n] = m_mapThreads[m] /\ m_mapThreads[n] # Nobody => n = m
ThreadsAreAccounted ==
  /\ \A w \in Worker : ~(w \in m_setThreads /\ Named(w))
  /\ \A w \in gone : w \notin m_setThreads /\ ~Named(w) /\ app # <<"join", w>>
  /\ \A w \in Worker : app = <<"join", w>> => w \notin m_setThreads /\ ~Named(w)
  /\ \A w \in Worker : Runs(w) => w \in m_setThreads \/ app = <<"join", w>>

\* Numbers are unique among the threads that run; a block is entered once, and
\* a thread only has what is entered under its number.
TidsDiffer == \A v, w \in Worker : Runs(v) /\ Runs(w) /\ tlsTid[v] = tlsTid[w] => v = w
EntriesAreMade == \A t \in Tid, i \in Id : m_mapThreadLocals[t][i] <= blocks
EntriesDiffer ==
  \A t, u \in Tid : \A i, j \in Id :
    m_mapThreadLocals[t][i] = m_mapThreadLocals[u][j] /\ m_mapThreadLocals[t][i] > Null
      => t = u /\ i = j
HeldIsEntered ==
  \A w \in Worker : \A i \in Id :
    has[w][i] # Absent =>
      Runs(w) /\ has[w][i] > Null /\ has[w][i] = m_mapThreadLocals[tlsTid[w]][i]

ManagerInv ==
  /\ ManagerTypeOK
  /\ app \in AppStates
  /\ \A w \in Worker : thread[w] = "waits for lock" => wants[w] \in Id
  /\ NamesDiffer
  /\ ThreadsAreAccounted
  /\ TidsDiffer
  /\ EntriesAreMade
  /\ EntriesDiffer
  /\ HeldIsEntered

\* What the application is doing tells one call from another.
LEMMA CallsDiffer ==
  /\ \A w \in Worker : AppIdle # <<"join", w>>
  /\ \A i \in Id : AppIdle # <<"for each", i>>
  /\ \A w \in Worker, i \in Id : <<"join", w>> # <<"for each", i>>
  /\ \A v, w \in Worker : <<"join", v>> = <<"join", w>> => v = w
<1>1. \A w \in Worker, i \in Id : <<"join", w>> # <<"for each", i>>
  OBVIOUS
<1>2. /\ \A w \in Worker : AppIdle # <<"join", w>>
      /\ \A i \in Id : AppIdle # <<"for each", i>>
  BY DEF AppIdle
<1>3. \A v, w \in Worker : <<"join", v>> = <<"join", w>> => v = w
  OBVIOUS
<1> QED BY <1>1, <1>2, <1>3

LEMMA InitManagerInv == ManagerInit => ManagerInv
<1> SUFFICES ASSUME ManagerInit
             PROVE  ManagerInv
  OBVIOUS
<1> USE ManagerAssumption DEF ManagerInit, Id, Entry, Absent, Null, ThreadStates, Nobody
<1>1. ManagerTypeOK
  <2>1. (CHOOSE t \in Tid : TRUE) \in Tid
    OBVIOUS
  <2> QED BY <2>1 DEF ManagerTypeOK
<1>2. app \in AppStates /\ \A w \in Worker : ~Runs(w)
  BY DEF AppStates, Runs
<1>3. NamesDiffer /\ ThreadsAreAccounted
  BY <1>2, CallsDiffer DEF NamesDiffer, ThreadsAreAccounted, Named
<1>4. TidsDiffer /\ EntriesAreMade /\ EntriesDiffer /\ HeldIsEntered
  BY <1>2 DEF TidsDiffer, EntriesAreMade, EntriesDiffer, HeldIsEntered
<1> QED BY <1>1, <1>2, <1>3, <1>4 DEF ManagerInv

\* A step that touches neither the map nor the blocks leaves its entries as they are.
LEMMA EntriesAlone ==
  ASSUME EntriesAreMade, EntriesDiffer,
         m_mapThreadLocals' = m_mapThreadLocals, blocks' = blocks
  PROVE  EntriesAreMade' /\ EntriesDiffer'
<1>1. EntriesAreMade'
  BY DEF EntriesAreMade
<1>2. EntriesDiffer'
  BY DEF EntriesDiffer
<1> QED BY <1>1, <1>2

\* Entries are numbers: 0 for Null, -1 for Absent.
LEMMA EntriesAreNumbers ==
  ASSUME ManagerTypeOK
  PROVE  /\ blocks \in Nat
         /\ \A e \in Entry : e \in Int /\ (e \notin {Absent, Null} <=> e > Null)
         /\ \A t \in Tid, i \in Id : m_mapThreadLocals[t][i] \in Entry
         /\ \A w \in Worker, i \in Id : has[w][i] \in Entry
<1>1. blocks \in Nat
  BY ManagerAssumption DEF ManagerTypeOK
<1>2. \A e \in Entry : e \in Int /\ (e \notin {Absent, Null} <=> e > Null)
  BY ManagerAssumption DEF Entry, Absent, Null
<1>3. \A t \in Tid, i \in Id : m_mapThreadLocals[t][i] \in Entry
  BY DEF ManagerTypeOK
<1>4. \A w \in Worker, i \in Id : has[w][i] \in Entry
  BY DEF ManagerTypeOK
<1> QED BY <1>1, <1>2, <1>3, <1>4

\* A step that leaves threads and blocks alone keeps what is said of them.
LEMMA BlocksAlone ==
  ASSUME ManagerInv,
         UNCHANGED <<thread, tlsTid, wants, has, m_mapThreadLocals, blocks>>
  PROVE  /\ \A w \in Worker : thread'[w] = "waits for lock" => wants'[w] \in Id
         /\ TidsDiffer' /\ EntriesAreMade' /\ EntriesDiffer' /\ HeldIsEntered'
<1>1. /\ \A w \in Worker : thread[w] = "waits for lock" => wants[w] \in Id
      /\ TidsDiffer /\ EntriesAreMade /\ EntriesDiffer /\ HeldIsEntered
  BY DEF ManagerInv
<1>2. TidsDiffer'
  BY <1>1 DEF TidsDiffer, Runs
<1>3. EntriesAreMade' /\ EntriesDiffer'
  BY <1>1, EntriesAlone
<1>4. HeldIsEntered'
  BY <1>1 DEF HeldIsEntered, Runs
<1> QED BY <1>1, <1>2, <1>3, <1>4

\* The calls of the application that change the tables.
LEMMA TableStep ==
  ASSUME ManagerInv,
         \/ \E w \in Worker : CreateThread(w) \/ DestroyThread(w) \/ Joined(w)
         \/ \E w \in Worker, name \in ThreadName : CreateNamed(w, name)
         \/ \E name \in ThreadName : DestroyNamed(name)
  PROVE  ManagerInv'
<1>1. UNCHANGED <<thread, tlsTid, wants, has, localVars, shown>>
  BY DEF CreateThread, DestroyThread, Joined, CreateNamed, DestroyNamed, threadVars
<1>2. /\ \A w \in Worker : thread'[w] = "waits for lock" => wants'[w] \in Id
      /\ TidsDiffer' /\ EntriesAreMade' /\ EntriesDiffer' /\ HeldIsEntered'
  BY <1>1, BlocksAlone DEF localVars
<1>3. ManagerTypeOK /\ NamesDiffer /\ ThreadsAreAccounted /\ app \in AppStates
  BY DEF ManagerInv
<1> SUFFICES /\ m_lock' \in {Nobody, "application"}
             /\ m_setThreads' \subseteq Worker
             /\ m_mapThreads' \in [ThreadName -> Worker \cup {Nobody}]
             /\ gone' \subseteq Worker
             /\ toldToStop' \subseteq Worker
             /\ app' \in AppStates
             /\ NamesDiffer'
             /\ ThreadsAreAccounted'
  BY <1>1, <1>2, <1>3 DEF ManagerInv, ManagerTypeOK, localVars
<1>4. \A w \in Worker : NotYetMade(w) <=> w \notin m_setThreads /\ ~Named(w) /\ w \notin gone
  BY ManagerAssumption DEF NotYetMade, Known, Named, Nobody
<1>5. \A w \in Worker : Runs(w)' <=> Runs(w)
  BY <1>1 DEF Runs
<1>6. m_mapThreads' = m_mapThreads => NamesDiffer' /\ \A w \in Worker : Named(w)' <=> Named(w)
  BY <1>3 DEF Named, NamesDiffer
<1>7. gone \subseteq Worker
  BY <1>3 DEF ManagerTypeOK
<1>8. ASSUME NEW w \in Worker, CreateThread(w)
      PROVE  m_setThreads' \subseteq Worker /\ NamesDiffer' /\ ThreadsAreAccounted'
  <2>1. /\ m_setThreads' = m_setThreads \cup {w}
        /\ UNCHANGED <<m_mapThreads, gone, app>>
        /\ app = AppIdle
        /\ w \notin m_setThreads /\ ~Named(w) /\ w \notin gone
    BY <1>4, <1>8 DEF CreateThread, Locked
  <2>2. m_setThreads' \subseteq Worker
    BY <1>3, <2>1 DEF ManagerTypeOK
  <2>3. ThreadsAreAccounted'
    BY <1>3, <1>5, <1>6, <1>7, <2>1, CallsDiffer DEF ThreadsAreAccounted
  <2> QED BY <1>6, <2>1, <2>2, <2>3
<1>9. ASSUME NEW w \in Worker, NEW name \in ThreadName, CreateNamed(w, name)
      PROVE  /\ m_mapThreads' \in [ThreadName -> Worker \cup {Nobody}]
             /\ NamesDiffer' /\ ThreadsAreAccounted'
  <2>1. /\ m_mapThreads' = [m_mapThreads EXCEPT ![name] = w]
        /\ m_mapThreads[name] = Nobody
        /\ UNCHANGED <<m_setThreads, gone, app>>
        /\ app = AppIdle
        /\ w \notin m_setThreads /\ ~Named(w) /\ w \notin gone
    BY <1>4, <1>9 DEF CreateNamed, Locked
  <2>2. \A n \in ThreadName : m_mapThreads'[n] = IF n = name THEN w ELSE m_mapThreads[n]
    BY <1>3, <2>1 DEF ManagerTypeOK
  <2>3. \A v \in Worker : Named(v)' <=> Named(v) \/ v = w
    BY ManagerAssumption, <2>1, <2>2 DEF Named, Nobody
  <2>4. NamesDiffer'
    BY <1>3, <2>1, <2>2 DEF NamesDiffer, Named
  <2>5. ThreadsAreAccounted'
    BY <1>3, <1>5, <1>7, <2>1, <2>3, CallsDiffer DEF ThreadsAreAccounted
  <2> QED BY <1>3, <2>1, <2>4, <2>5 DEF ManagerTypeOK
<1>10. ASSUME NEW w \in Worker, DestroyThread(w)
       PROVE  /\ m_setThreads' \subseteq Worker /\ app' \in AppStates
              /\ NamesDiffer' /\ ThreadsAreAccounted'
  <2>1. /\ m_setThreads' = m_setThreads \ {w}
        /\ UNCHANGED <<m_mapThreads, gone>>
        /\ app = AppIdle
        /\ app' = <<"join", w>>
        /\ w \in m_setThreads
    BY <1>10 DEF DestroyThread, Locked
  <2>2. \A v \in Worker : app' = <<"join", v>> <=> v = w
    BY <2>1, CallsDiffer
  <2>3. \A v \in Worker : app # <<"join", v>>
    BY <2>1, CallsDiffer
  <2>4. w \notin gone /\ ~Named(w)
    BY <1>3, <2>1 DEF ThreadsAreAccounted
  <2>5. ThreadsAreAccounted'
    BY <1>3, <1>5, <1>6, <1>7, <2>1, <2>2, <2>3, <2>4 DEF ThreadsAreAccounted
  <2> QED BY <1>3, <1>6, <2>1, <2>5 DEF ManagerTypeOK, AppStates
<1>11. ASSUME NEW w \in Worker, Joined(w)
       PROVE  /\ gone' \subseteq Worker /\ app' \in AppStates
              /\ NamesDiffer' /\ ThreadsAreAccounted'
  <2>1. /\ gone' = gone \cup {w}
        /\ UNCHANGED <<m_mapThreads, m_setThreads>>
        /\ app = <<"join", w>>
        /\ app' = AppIdle
        /\ ~Runs(w)
    BY <1>11 DEF Joined
  <2>2. \A v \in Worker : app' # <<"join", v>> /\ (app = <<"join", v>> => v = w)
    BY <2>1, CallsDiffer
  <2>3. ThreadsAreAccounted'
    BY <1>3, <1>5, <1>6, <1>7, <2>1, <2>2 DEF ThreadsAreAccounted
  <2> QED BY <1>3, <1>6, <2>1, <2>3 DEF ManagerTypeOK, AppStates
<1>12. ASSUME NEW name \in ThreadName, DestroyNamed(name)
       PROVE  /\ m_mapThreads' \in [ThreadName -> Worker \cup {Nobody}]
              /\ gone' \subseteq Worker
              /\ NamesDiffer' /\ ThreadsAreAccounted'
  <2>1. PICK w \in Worker : w = m_mapThreads[name]
    BY <1>3, <1>12 DEF DestroyNamed, ManagerTypeOK
  <2>2. /\ m_mapThreads' = [m_mapThreads EXCEPT ![name] = Nobody]
        /\ gone' = gone \cup {w}
        /\ app = AppIdle
        /\ UNCHANGED <<app, m_setThreads>>
    BY <1>12, <2>1 DEF DestroyNamed, Locked
  <2>3. \A n \in ThreadName : m_mapThreads'[n] = IF n = name THEN Nobody ELSE m_mapThreads[n]
    BY <1>3, <2>2 DEF ManagerTypeOK
  <2>4. Named(w) /\ w \notin m_setThreads
    BY <1>3, <2>1 DEF Named, ThreadsAreAccounted
  <2>5. \A v \in Worker : Named(v)' <=> Named(v) /\ v # w
    <3>1. w # Nobody /\ \A v \in Worker : v # Nobody
      BY ManagerAssumption DEF Nobody
    <3> QED BY <1>3, <2>1, <2>3, <3>1 DEF NamesDiffer, Named
  <2>6. NamesDiffer'
    BY <1>3, <2>3 DEF NamesDiffer
  <2>7. ThreadsAreAccounted'
    BY <1>3, <1>5, <1>7, <2>2, <2>4, <2>5, CallsDiffer DEF ThreadsAreAccounted
  <2> QED BY <1>3, <1>7, <2>2, <2>6, <2>7 DEF ManagerTypeOK
<1>13. /\ m_lock' \in {Nobody, "application"}
       /\ toldToStop' \subseteq Worker
  BY <1>3 DEF ManagerTypeOK, CreateThread, CreateNamed, DestroyThread, Joined, DestroyNamed, threadVars
<1>14. CASE \E w \in Worker : CreateThread(w)
  BY <1>3, <1>8, <1>13, <1>14 DEF CreateThread, ManagerTypeOK
<1>15. CASE \E w \in Worker, name \in ThreadName : CreateNamed(w, name)
  BY <1>3, <1>9, <1>13, <1>15 DEF CreateNamed, ManagerTypeOK
<1>16. CASE \E w \in Worker : DestroyThread(w)
  BY <1>3, <1>10, <1>13, <1>16 DEF DestroyThread, ManagerTypeOK
<1>17. CASE \E w \in Worker : Joined(w)
  BY <1>3, <1>11, <1>13, <1>17 DEF Joined, ManagerTypeOK
<1>18. CASE \E name \in ThreadName : DestroyNamed(name)
  BY <1>3, <1>12, <1>13, <1>18 DEF DestroyNamed, ManagerTypeOK
<1> QED BY <1>14, <1>15, <1>16, <1>17, <1>18

\* The callback and new ids: no table, thread or block changes.
LEMMA CallbackStep ==
  ASSUME ManagerInv,
         \/ NewThreadLocalId
         \/ \E id \in Id : ForEach(id) \/ ForEachReturns(id) \/ \E t \in Tid : Callback(id, t)
  PROVE  ManagerInv'
<1>0. ManagerTypeOK /\ NamesDiffer /\ ThreadsAreAccounted /\ app \in AppStates
  BY DEF ManagerInv
<1>1. UNCHANGED <<tableVars, threadVars, m_mapThreadLocals, blocks>>
  BY DEF NewThreadLocalId, ForEach, ForEachReturns, Callback, localVars
<1>2. /\ m_iThreadLocalId' \in 0 .. MaxIds
      /\ m_lock' \in {Nobody, "application"}
      /\ shown' \subseteq Tid
  <2>1. \/ m_iThreadLocalId' = m_iThreadLocalId
        \/ m_iThreadLocalId < MaxIds /\ m_iThreadLocalId' = m_iThreadLocalId + 1
    BY DEF NewThreadLocalId, ForEach, ForEachReturns, Callback, localVars
  <2>2. m_lock' \in {m_lock, Nobody, "application"}
    BY DEF NewThreadLocalId, ForEach, ForEachReturns, Callback
  <2>3. shown' = shown \/ shown' = {} \/ \E t \in Tid : shown' = shown \cup {t}
    BY DEF NewThreadLocalId, ForEach, ForEachReturns, Callback
  <2> QED BY <1>0, <2>1, <2>2, <2>3, ManagerAssumption DEF ManagerTypeOK
<1>3. /\ app' \in AppStates
      /\ \A w \in Worker : app # <<"join", w>> /\ app' # <<"join", w>>
  BY <1>0, CallsDiffer DEF NewThreadLocalId, ForEach, ForEachReturns, Callback, Locked, AppStates
<1>4. ManagerTypeOK'
  BY <1>0, <1>1, <1>2 DEF ManagerTypeOK, tableVars, threadVars
<1>5. NamesDiffer'
  BY <1>0, <1>1 DEF NamesDiffer, tableVars
<1>6. ThreadsAreAccounted'
  <2>1. \A w \in Worker : (Runs(w)' <=> Runs(w)) /\ (Named(w)' <=> Named(w))
    BY <1>1 DEF Runs, Named, tableVars, threadVars
  <2>2. UNCHANGED <<m_setThreads, gone>> /\ gone \subseteq Worker
    BY <1>0, <1>1 DEF tableVars, ManagerTypeOK
  <2> QED BY <1>0, <1>3, <2>1, <2>2 DEF ThreadsAreAccounted
<1>7. /\ \A w \in Worker : thread'[w] = "waits for lock" => wants'[w] \in Id
      /\ TidsDiffer' /\ EntriesAreMade' /\ EntriesDiffer' /\ HeldIsEntered'
  BY <1>1, BlocksAlone DEF threadVars
<1> QED BY <1>3, <1>4, <1>5, <1>6, <1>7 DEF ManagerInv

\* StartThread() gives a number that no running thread has.
LEMMA StartStep ==
  ASSUME ManagerInv, NEW w \in Worker, StartThread(w)
  PROVE  ManagerInv'
<1>0. /\ ManagerTypeOK /\ NamesDiffer /\ ThreadsAreAccounted /\ app \in AppStates
      /\ TidsDiffer /\ EntriesAreMade /\ EntriesDiffer /\ HeldIsEntered
      /\ \A v \in Worker : thread[v] = "waits for lock" => wants[v] \in Id
  BY DEF ManagerInv
<1>1. PICK tid \in Tid : /\ \A v \in Worker : Runs(v) => tlsTid[v] # tid
                         /\ tlsTid' = [tlsTid EXCEPT ![w] = tid]
  BY DEF StartThread
<1>2. /\ w \in m_setThreads
      /\ thread[w] = "made"
      /\ thread' = [thread EXCEPT ![w] = "running"]
      /\ UNCHANGED <<m_lock, tableVars, toldToStop, wants, has, localVars, app, shown>>
  BY DEF StartThread
<1>3. /\ \A v \in Worker : thread'[v] = IF v = w THEN "running" ELSE thread[v]
      /\ \A v \in Worker : tlsTid'[v] = IF v = w THEN tid ELSE tlsTid[v]
      /\ thread' \in [Worker -> ThreadStates]
      /\ tlsTid' \in [Worker -> Tid]
  BY <1>0, <1>1, <1>2 DEF ManagerTypeOK, ThreadStates
<1>4. \A v \in Worker : Runs(v)' <=> Runs(v) \/ v = w
  BY <1>3 DEF Runs
<1>5. ManagerTypeOK'
  BY <1>0, <1>2, <1>3 DEF ManagerTypeOK, tableVars, localVars
<1>6. NamesDiffer'
  BY <1>0, <1>2 DEF NamesDiffer, tableVars
<1>7. ThreadsAreAccounted'
  <2>1. \A v \in Worker : Named(v)' <=> Named(v)
    BY <1>2 DEF Named, tableVars
  <2>2. gone \subseteq Worker
    BY <1>0 DEF ManagerTypeOK
  <2> QED BY <1>0, <1>2, <1>4, <2>1, <2>2 DEF ThreadsAreAccounted, tableVars
<1>8. TidsDiffer'
  BY <1>0, <1>1, <1>3, <1>4 DEF TidsDiffer
<1>9. EntriesAreMade' /\ EntriesDiffer'
  <2>1. UNCHANGED <<m_mapThreadLocals, blocks>>
    BY <1>2 DEF localVars
  <2> QED BY <1>0, <2>1, EntriesAlone
<1>10. HeldIsEntered'
  <2>1. ~Runs(w)
    BY <1>2 DEF Runs
  <2>2. UNCHANGED <<has, m_mapThreadLocals>>
    BY <1>2 DEF localVars
  <2>3. ASSUME NEW v \in Worker, NEW i \in Id, has'[v][i] # Absent
        PROVE  /\ Runs(v)' /\ has'[v][i] > Null
               /\ has'[v][i] = m_mapThreadLocals'[tlsTid'[v]][i]
    <3>1. has' = has /\ m_mapThreadLocals' = m_mapThreadLocals
      BY <2>2
    <3>2. Runs(v) /\ has[v][i] > Null /\ has[v][i] = m_mapThreadLocals[tlsTid[v]][i]
      BY <1>0, <2>3, <3>1 DEF HeldIsEntered
    <3>3. v # w
      BY <2>1, <3>2
    <3> QED BY <1>3, <1>4, <3>1, <3>2, <3>3
  <2> QED BY <2>3 DEF HeldIsEntered
<1>11. \A v \in Worker : thread'[v] = "waits for lock" => wants'[v] \in Id
  BY <1>0, <1>2, <1>3
<1> QED BY <1>0, <1>2, <1>5, <1>6, <1>7, <1>8, <1>9, <1>10, <1>11 DEF ManagerInv

\* A running thread asks for its block, is given it or not, or ends.
LEMMA WorkerInvStep ==
  ASSUME ManagerInv, NEW w \in Worker, WorkerStep(w)
  PROVE  ManagerInv'
<1>0. /\ ManagerTypeOK /\ NamesDiffer /\ ThreadsAreAccounted /\ app \in AppStates
      /\ TidsDiffer /\ EntriesAreMade /\ EntriesDiffer /\ HeldIsEntered
      /\ \A v \in Worker : thread[v] = "waits for lock" => wants[v] \in Id
  BY DEF ManagerInv
<1>1. /\ UNCHANGED <<m_lock, tableVars, toldToStop, tlsTid, m_iThreadLocalId, app, shown>>
      /\ Runs(w)
      /\ \E to \in {"running", "waits for lock", "ended"} : thread' = [thread EXCEPT ![w] = to]
  BY DEF WorkerStep, CallGetThreadLocal, GetThreadLocal, ThreadEnds, localVars, Runs
<1>2. /\ thread' \in [Worker -> ThreadStates]
      /\ \A v \in Worker : v # w => thread'[v] = thread[v] /\ (Runs(v)' <=> Runs(v))
  BY <1>0, <1>1 DEF ManagerTypeOK, ThreadStates, Runs
<1>3. NamesDiffer'
  BY <1>0, <1>1 DEF NamesDiffer, tableVars
<1>4. ThreadsAreAccounted'
  <2>1. \A v \in Worker : Named(v)' <=> Named(v)
    BY <1>1 DEF Named, tableVars
  <2>2. gone \subseteq Worker
    BY <1>0 DEF ManagerTypeOK
  <2> QED BY <1>0, <1>1, <1>2, <2>1, <2>2 DEF ThreadsAreAccounted, tableVars
<1>5. TidsDiffer'
  BY <1>0, <1>1, <1>2 DEF TidsDiffer
<1> SUFFICES /\ m_mapThreadLocals' \in [Tid -> [Id -> Entry]]
             /\ blocks' \in 0 .. MaxBlocks
             /\ wants' \in [Worker -> 0 .. MaxIds]
             /\ has' \in [Worker -> [Id -> Entry]]
             /\ \A v \in Worker : thread'[v] = "waits for lock" => wants'[v] \in Id
             /\ EntriesAreMade' /\ EntriesDiffer' /\ HeldIsEntered'
  BY <1>0, <1>1, <1>2, <1>3, <1>4, <1>5 DEF ManagerInv, ManagerTypeOK, tableVars
<1>6. ASSUME NEW id \in Id, CallGetThreadLocal(w, id)
      PROVE  /\ m_mapThreadLocals' \in [Tid -> [Id -> Entry]]
             /\ blocks' \in 0 .. MaxBlocks
             /\ wants' \in [Worker -> 0 .. MaxIds]
             /\ has' \in [Worker -> [Id -> Entry]]
             /\ \A v \in Worker : thread'[v] = "waits for lock" => wants'[v] \in Id
             /\ EntriesAreMade' /\ EntriesDiffer' /\ HeldIsEntered'
  <2>1. /\ wants' = [wants EXCEPT ![w] = id]
        /\ UNCHANGED <<has, m_mapThreadLocals, blocks>>
        /\ thread' = [thread EXCEPT ![w] = "waits for lock"]
    BY <1>6 DEF CallGetThreadLocal, localVars
  <2>2. wants' \in [Worker -> 0 .. MaxIds] /\ wants'[w] = id
        /\ \A v \in Worker : v # w => wants'[v] = wants[v]
    <3>1. id \in 0 .. MaxIds
      BY ManagerAssumption DEF Id
    <3>2. wants \in [Worker -> 0 .. MaxIds]
      BY <1>0 DEF ManagerTypeOK
    <3> QED BY <2>1, <3>1, <3>2
  <2>3. Runs(w)'
    BY <1>0, <2>1 DEF ManagerTypeOK, Runs
  <2>4. EntriesAreMade' /\ EntriesDiffer'
    BY <1>0, <2>1, EntriesAlone
  <2>6. HeldIsEntered'
    <3>1. SUFFICES ASSUME NEW v \in Worker, NEW i \in Id, has'[v][i] # Absent
                   PROVE  /\ Runs(v)' /\ has'[v][i] > Null
                          /\ has'[v][i] = m_mapThreadLocals'[tlsTid'[v]][i]
      BY DEF HeldIsEntered
    <3>2. has'[v] = has[v] /\ tlsTid'[v] = tlsTid[v]
      BY <1>1, <2>1, <3>1
    <3>3. Runs(v) /\ has[v][i] > Null /\ has[v][i] = m_mapThreadLocals[tlsTid[v]][i]
      BY <1>0, <3>1, <3>2 DEF HeldIsEntered
    <3>4. Runs(v)'
      BY <1>2, <2>3, <3>3
    <3> QED BY <2>1, <3>2, <3>3, <3>4
  <2> QED BY <1>0, <1>2, <2>1, <2>2, <2>4, <2>6 DEF ManagerTypeOK
<1>7. CASE ThreadEnds(w)
  <2>1. /\ has' = [has EXCEPT ![w] = [i \in Id |-> Absent]]
        /\ UNCHANGED <<wants, m_mapThreadLocals, blocks>>
        /\ thread' = [thread EXCEPT ![w] = "ended"]
    BY <1>7 DEF ThreadEnds, localVars
  <2>2. /\ has' \in [Worker -> [Id -> Entry]]
        /\ \A i \in Id : has'[w][i] = Absent
        /\ \A v \in Worker : v # w => has'[v] = has[v]
    BY <1>0, <2>1 DEF ManagerTypeOK, Entry
  <2>4. EntriesAreMade' /\ EntriesDiffer'
    BY <1>0, <2>1, EntriesAlone
  <2>6. HeldIsEntered'
    <3>1. SUFFICES ASSUME NEW v \in Worker, NEW i \in Id, has'[v][i] # Absent
                   PROVE  /\ Runs(v)' /\ has'[v][i] > Null
                          /\ has'[v][i] = m_mapThreadLocals'[tlsTid'[v]][i]
      BY DEF HeldIsEntered
    <3>2. has'[v] = has[v] /\ tlsTid'[v] = tlsTid[v]
      BY <1>1, <2>1, <2>2, <3>1
    <3>3. Runs(v) /\ has[v][i] > Null /\ has[v][i] = m_mapThreadLocals[tlsTid[v]][i]
      BY <1>0, <3>1, <3>2 DEF HeldIsEntered
    <3>4. Runs(v)'
      BY <1>2, <2>2, <3>1, <3>3
    <3> QED BY <2>1, <3>2, <3>3, <3>4
  <2>7. \A v \in Worker : thread'[v] = "waits for lock" => wants'[v] \in Id
    BY <1>0, <2>1 DEF ManagerTypeOK
  <2> QED BY <1>0, <2>1, <2>2, <2>4, <2>6, <2>7 DEF ManagerTypeOK
<1>8. CASE GetThreadLocal(w)
  <2> DEFINE id == wants[w]
             tid == tlsTid[w]
             entry == m_mapThreadLocals[tid][id]
  <2>0. /\ thread[w] = "waits for lock"
        /\ thread' = [thread EXCEPT ![w] = "running"]
        /\ wants' = wants
    BY <1>8 DEF GetThreadLocal
  <2>1. /\ thread[w] = "waits for lock"
        /\ thread' = [thread EXCEPT ![w] = "running"]
        /\ wants' = wants
        /\ id \in Id
        /\ tid \in Tid
        /\ entry \in Entry
        /\ Runs(w)'
    <3>1. id \in Id /\ tid \in Tid
      BY <1>0, <2>0 DEF ManagerTypeOK
    <3>2. entry \in Entry
      BY <1>0, <3>1, EntriesAreNumbers
    <3>3. Runs(w)'
      BY <1>0, <2>0 DEF Runs, ManagerTypeOK
    <3> QED BY <2>0, <3>1, <3>2, <3>3
  <2>2. \A v \in Worker : thread'[v] = "waits for lock" => wants'[v] \in Id
    BY <1>0, <2>1 DEF ManagerTypeOK
  <2>3. CASE /\ entry \notin {Absent, Null}
             /\ has' = [has EXCEPT ![w][id] = entry]
             /\ UNCHANGED <<m_mapThreadLocals, blocks>>
    <3>1. /\ has' \in [Worker -> [Id -> Entry]]
          /\ \A v \in Worker, i \in Id : has'[v][i] = IF v = w /\ i = id THEN entry ELSE has[v][i]
      BY <1>0, <2>1, <2>3 DEF ManagerTypeOK
    <3>2. EntriesAreMade' /\ EntriesDiffer'
      BY <1>0, <2>3, EntriesAlone
    <3>3. entry > Null
      BY <1>0, <2>1, <2>3, EntriesAreNumbers
    <3>4. m_mapThreadLocals' = m_mapThreadLocals
      BY <2>3
    <3>5. HeldIsEntered'
      <4> SUFFICES ASSUME NEW v \in Worker, NEW i \in Id, has'[v][i] # Absent
                   PROVE  /\ Runs(v)' /\ has'[v][i] > Null
                          /\ has'[v][i] = m_mapThreadLocals'[tlsTid'[v]][i]
        BY DEF HeldIsEntered
      <4>1. tlsTid' = tlsTid
        BY <1>1
      <4>2. CASE v = w /\ i = id
        <5>1. has'[v][i] = entry
          BY <3>1, <4>2
        <5> QED BY <2>1, <3>3, <3>4, <4>1, <4>2, <5>1
      <4>3. CASE ~(v = w /\ i = id)
        <5>1. has'[v][i] = has[v][i]
          BY <3>1, <4>3
        <5>2. Runs(v) /\ has[v][i] > Null /\ has[v][i] = m_mapThreadLocals[tlsTid[v]][i]
          BY <1>0, <5>1 DEF HeldIsEntered
        <5>3. Runs(v)'
          BY <1>2, <2>1, <5>2
        <5> QED BY <3>4, <4>1, <5>1, <5>2, <5>3
      <4> QED BY <4>2, <4>3
    <3> QED BY <1>0, <2>1, <2>2, <2>3, <3>1, <3>2, <3>5 DEF ManagerTypeOK
  <2>4. CASE /\ entry \in {Absent, Null}
             /\ blocks < MaxBlocks
             /\ blocks' = blocks + 1
             /\ m_mapThreadLocals' = [m_mapThreadLocals EXCEPT ![tid][id] = blocks + 1]
             /\ has' = [has EXCEPT ![w][id] = blocks + 1]
    <3>0. /\ blocks' \in 0 .. MaxBlocks /\ blocks \in Nat /\ blocks + 1 \in Entry
      <4>1. blocks \in 0 .. MaxBlocks
        BY <1>0 DEF ManagerTypeOK
      <4>2. blocks < MaxBlocks /\ blocks' = blocks + 1
        BY <2>4
      <4> QED BY <4>1, <4>2, ManagerAssumption DEF Entry
    <3>1. /\ has' \in [Worker -> [Id -> Entry]]
          /\ \A v \in Worker, i \in Id : has'[v][i] = IF v = w /\ i = id THEN blocks + 1 ELSE has[v][i]
      BY <1>0, <2>1, <2>4, <3>0 DEF ManagerTypeOK
    <3>2. /\ m_mapThreadLocals' \in [Tid -> [Id -> Entry]]
          /\ \A t \in Tid, i \in Id : m_mapThreadLocals'[t][i] =
               IF t = tid /\ i = id THEN blocks + 1 ELSE m_mapThreadLocals[t][i]
      BY <1>0, <2>1, <2>4, <3>0 DEF ManagerTypeOK
    <3>3. \A t \in Tid, i \in Id :
            m_mapThreadLocals[t][i] \in Int /\ m_mapThreadLocals[t][i] <= blocks
      BY <1>0, EntriesAreNumbers DEF EntriesAreMade
    <3>4. EntriesAreMade'
      <4>1. blocks' = blocks + 1
        BY <2>4
      <4> QED BY <3>0, <3>2, <3>3, <4>1 DEF EntriesAreMade
    <3>5. EntriesDiffer'
      <4> SUFFICES ASSUME NEW t \in Tid, NEW u \in Tid, NEW i \in Id, NEW j \in Id,
                          m_mapThreadLocals'[t][i] = m_mapThreadLocals'[u][j],
                          m_mapThreadLocals'[t][i] > Null
                   PROVE  t = u /\ i = j
        BY DEF EntriesDiffer
      <4>1. /\ m_mapThreadLocals[t][i] # blocks + 1
            /\ m_mapThreadLocals[u][j] # blocks + 1
        <5>1. m_mapThreadLocals[t][i] <= blocks /\ m_mapThreadLocals[t][i] \in Int
          BY <3>3
        <5>2. m_mapThreadLocals[u][j] <= blocks /\ m_mapThreadLocals[u][j] \in Int
          BY <3>3
        <5> QED BY <3>0, <5>1, <5>2
      <4>2. /\ m_mapThreadLocals'[t][i] =
                 IF t = tid /\ i = id THEN blocks + 1 ELSE m_mapThreadLocals[t][i]
            /\ m_mapThreadLocals'[u][j] =
                 IF u = tid /\ j = id THEN blocks + 1 ELSE m_mapThreadLocals[u][j]
        BY <3>2
      <4>3. CASE t = tid /\ i = id
        BY <4>1, <4>2, <4>3
      <4>4. CASE u = tid /\ j = id
        BY <4>1, <4>2, <4>4
      <4>5. CASE ~(t = tid /\ i = id) /\ ~(u = tid /\ j = id)
        BY <1>0, <4>2, <4>5 DEF EntriesDiffer
      <4> QED BY <4>3, <4>4, <4>5
    <3>6. HeldIsEntered'
      <4> SUFFICES ASSUME NEW v \in Worker, NEW i \in Id, has'[v][i] # Absent
                   PROVE  /\ Runs(v)' /\ has'[v][i] > Null
                          /\ has'[v][i] = m_mapThreadLocals'[tlsTid'[v]][i]
        BY DEF HeldIsEntered
      <4>1. CASE v = w /\ i = id
        <5>1. has'[v][i] = blocks + 1 /\ blocks + 1 > Null
          BY <3>0, <3>1, <4>1 DEF Null
        <5>2. m_mapThreadLocals'[tid][id] = blocks + 1
          BY <2>1, <3>2
        <5>3. tlsTid'[v] = tid
          BY <1>1, <4>1
        <5> QED BY <2>1, <4>1, <5>1, <5>2, <5>3
      <4>2. CASE ~(v = w /\ i = id)
        <5>1. /\ Runs(v) /\ has[v][i] > Null /\ has[v][i] = m_mapThreadLocals[tlsTid[v]][i]
              /\ has'[v][i] = has[v][i]
          BY <1>0, <3>1, <4>2 DEF HeldIsEntered
        <5>2. Runs(v)'
          BY <1>2, <2>1, <5>1
        <5>3. ~(tlsTid[v] = tid /\ i = id)
          BY <1>0, <1>1, <4>2, <5>1 DEF TidsDiffer
        <5>4. tlsTid'[v] = tlsTid[v] /\ tlsTid[v] \in Tid
          BY <1>0, <1>1 DEF ManagerTypeOK
        <5> QED BY <3>2, <5>1, <5>2, <5>3, <5>4
      <4> QED BY <4>1, <4>2
    <3> QED BY <1>0, <2>1, <2>2, <3>0, <3>1, <3>2, <3>4, <3>5, <3>6 DEF ManagerTypeOK
  <2>5. CASE /\ entry \in {Absent, Null}
             /\ m_mapThreadLocals' = [m_mapThreadLocals EXCEPT ![tid][id] = Null]
             /\ UNCHANGED <<has, blocks>>
    <3>1. /\ m_mapThreadLocals' \in [Tid -> [Id -> Entry]]
          /\ \A t \in Tid, i \in Id : m_mapThreadLocals'[t][i] =
               IF t = tid /\ i = id THEN Null ELSE m_mapThreadLocals[t][i]
      BY <1>0, <2>1, <2>5 DEF ManagerTypeOK, Entry
    <3>2. EntriesAreMade'
      <4>1. blocks' = blocks /\ blocks \in Nat
        BY <1>0, <2>5, EntriesAreNumbers
      <4>2. Null <= blocks
        BY <4>1 DEF Null
      <4> QED BY <1>0, <3>1, <4>1, <4>2 DEF EntriesAreMade
    <3>3. EntriesDiffer'
      <4> SUFFICES ASSUME NEW t \in Tid, NEW u \in Tid, NEW i \in Id, NEW j \in Id,
                          m_mapThreadLocals'[t][i] = m_mapThreadLocals'[u][j],
                          m_mapThreadLocals'[t][i] > Null
                   PROVE  t = u /\ i = j
        BY DEF EntriesDiffer
      <4>1. ~(Null > Null)
        BY DEF Null
      <4>2. ~(t = tid /\ i = id)
        BY <3>1, <4>1
      <4>3. ~(u = tid /\ j = id)
        BY <3>1, <4>1
      <4>4. /\ m_mapThreadLocals'[t][i] = m_mapThreadLocals[t][i]
            /\ m_mapThreadLocals'[u][j] = m_mapThreadLocals[u][j]
        BY <3>1, <4>2, <4>3
      <4>5. /\ m_mapThreadLocals[t][i] = m_mapThreadLocals[u][j]
            /\ m_mapThreadLocals[t][i] > Null
        <5>1. m_mapThreadLocals'[t][i] = m_mapThreadLocals'[u][j]
          OBVIOUS
        <5>2. m_mapThreadLocals'[t][i] > Null
          OBVIOUS
        <5>3. m_mapThreadLocals[t][i] = m_mapThreadLocals[u][j]
          BY <4>4, <5>1, Zenon
        <5>4. m_mapThreadLocals[t][i] > Null
          BY <4>4, <5>2, Zenon
        <5> QED BY <5>3, <5>4
      <4>6. \A k, l \in Tid : \A m, n \in Id :
              m_mapThreadLocals[k][m] = m_mapThreadLocals[l][n] /\ m_mapThreadLocals[k][m] > Null
                => k = l /\ m = n
        BY <1>0 DEF EntriesDiffer
      <4> QED BY <4>5, <4>6
    <3>4. HeldIsEntered'
      <4> SUFFICES ASSUME NEW v \in Worker, NEW i \in Id, has[v][i] # Absent
                   PROVE  /\ Runs(v)' /\ has[v][i] > Null
                          /\ has[v][i] = m_mapThreadLocals'[tlsTid'[v]][i]
        BY <2>5 DEF HeldIsEntered
      <4>1. /\ Runs(v) /\ has[v][i] > Null /\ has[v][i] = m_mapThreadLocals[tlsTid[v]][i]
        BY <1>0 DEF HeldIsEntered
      <4>2. Runs(v)'
        BY <1>2, <2>1, <4>1
      <4>3. ~(tlsTid[v] = tid /\ i = id)
        BY <2>5, <4>1 DEF Absent, Null
      <4>4. tlsTid'[v] = tlsTid[v] /\ tlsTid[v] \in Tid
        BY <1>0, <1>1 DEF ManagerTypeOK
      <4> QED BY <3>1, <4>1, <4>2, <4>3, <4>4
    <3> QED BY <1>0, <2>1, <2>2, <2>5, <3>1, <3>2, <3>3, <3>4 DEF ManagerTypeOK
  <2> QED BY <1>8, <2>3, <2>4, <2>5 DEF GetThreadLocal, TidOf
<1> QED BY <1>6, <1>7, <1>8 DEF WorkerStep

LEMMA ManagerInvStep == ManagerInv /\ [ManagerNext]_managerVars => ManagerInv'
<1> SUFFICES ASSUME ManagerInv, [ManagerNext]_managerVars
             PROVE  ManagerInv'
  OBVIOUS
<1>1. CASE UNCHANGED managerVars
  <2>1. /\ \A w \in Worker : thread'[w] = "waits for lock" => wants'[w] \in Id
        /\ TidsDiffer' /\ EntriesAreMade' /\ EntriesDiffer' /\ HeldIsEntered'
    BY <1>1, BlocksAlone DEF managerVars, threadVars, localVars
  <2>2. ManagerTypeOK' /\ app' \in AppStates
    BY <1>1 DEF ManagerInv, ManagerTypeOK, managerVars, threadVars, localVars, tableVars
  <2>3. NamesDiffer' /\ ThreadsAreAccounted'
    BY <1>1 DEF ManagerInv, NamesDiffer, ThreadsAreAccounted, Named, Runs, managerVars,
                threadVars, tableVars
  <2> QED BY <2>1, <2>2, <2>3 DEF ManagerInv
<1> QED
  BY <1>1, TableStep, CallbackStep, StartStep, WorkerInvStep DEF ManagerNext

\* Whatever numbers are used again and whenever a thread ends: no two threads have
\* the same block, and a thread is destroyed only when nobody can reach it.
THEOREM ManagerIsSoundAlways == ManagerSpec => []ManagerIsSound
<1>1. ManagerInv => ManagerIsSound
  <2> SUFFICES ASSUME ManagerInv
               PROVE  BlocksArePrivate /\ GoneIsUnknown
    BY DEF ManagerIsSound
  <2>1. /\ ManagerTypeOK /\ ThreadsAreAccounted /\ TidsDiffer /\ EntriesDiffer /\ HeldIsEntered
    BY DEF ManagerInv
  <2>2. BlocksArePrivate
    <3>1. ASSUME NEW v \in Worker, NEW w \in Worker, NEW i \in Id, NEW j \in Id,
                 has[v][i] = has[w][j], has[v][i] # Absent
          PROVE  v = w /\ i = j
      <4>1. /\ Runs(v) /\ Runs(w)
            /\ m_mapThreadLocals[tlsTid[v]][i] = m_mapThreadLocals[tlsTid[w]][j]
            /\ m_mapThreadLocals[tlsTid[v]][i] > Null
        BY <2>1, <3>1 DEF HeldIsEntered
      <4>2. tlsTid[v] = tlsTid[w] /\ i = j
        BY <2>1, <4>1 DEF EntriesDiffer, ManagerTypeOK
      <4> QED BY <2>1, <4>1, <4>2 DEF TidsDiffer
    <3> QED BY <2>1, <3>1 DEF BlocksArePrivate, HeldIsEntered
  <2>3. GoneIsUnknown
    <3>1. \A w \in gone : w \in Worker /\ w \notin m_setThreads /\ ~Named(w) /\ ~Runs(w)
      BY <2>1 DEF ThreadsAreAccounted, ManagerTypeOK
    <3> QED BY <3>1 DEF GoneIsUnknown, Known, Named
  <2> QED BY <2>2, <2>3
<1> QED
  BY <1>1, InitManagerInv, ManagerInvStep, PTL DEF ManagerSpec

-----------------------------------------------------------------------------
(* The logger. *)

LogStates == {"idle", "format", "check", "open log file", "forget", "rename", "open",
              "write", "count", "lock", "new", "post", "unlock"}

\* What the rest of the invariant needs of the types.
LoggerTyped ==
  /\ m_bAsync \in BOOLEAN
  /\ contended \in BOOLEAN
  /\ logPc \in [LogThread -> LogStates]
  /\ calls \in Nat
  /\ record \in [LogThread -> Nat]
  /\ now \in 0 .. MaxSecond
  /\ files \in Seq(SUBSET Nat)
  /\ streams \in Seq(Nat)
  /\ \A s \in 1 .. Len(streams) : streams[s] \in 1 .. Len(files)
  /\ directory \in [Name -> 0 .. Len(files)]
  /\ m_pLogFile \in 0 .. Len(streams)
  /\ closed \subseteq 0 .. Len(streams)

\* The spin lock is held from the end of Lock() to Unlock().
LockIsHeld == \A t \in LogThread : logPc[t] \in {"new", "post", "unlock"} <=> m_pSpinLock = t

\* Only an asynchronous logger has a thread.
OnlyAsyncRuns == m_bRunning => m_bAsync

\* No file goes but by a replacement or for the total size.
FilesAreKept ==
  \A f \in 1 .. Len(files) : f \in replaced \cup cleaned \/ \E n \in Name : directory[n] = f

\* A record that was written is in a file, and one that is about to be counted was
\* written, but for writes that failed unnoticed.
Kept(r) == r \in unnoticed \/ \E f \in 1 .. Len(files) : r \in files[f]
RecordsAreKept ==
  /\ accepted \subseteq Nat
  /\ \A r \in accepted : Kept(r)
  /\ Defined => \A t \in LogThread : logPc[t] = "count" => Kept(record[t])

\* Until a thread opens the file while another is in Log(), one that opens it is
\* alone in Log(); and then nobody writes to a closed stream, and the member points
\* to one only from fclose() to the reset.
OpensAlone ==
  ~contended => \A u, v \in LogThread : u # v /\ logPc[u] \in Opening => logPc[v] = "idle"
StreamIsOpen ==
  Defined /\ ~contended =>
    /\ \A t \in LogThread : logPc[t] \in {"write", "count"} => ~Misuse(m_pLogFile)
    /\ m_pLogFile \in closed \ {None} => \E t \in LogThread : logPc[t] = "forget"

LoggerInv ==
  /\ LoggerTyped
  /\ LockIsHeld
  /\ OnlyAsyncRuns
  /\ FilesAreKept
  /\ RecordsAreKept
  /\ OpensAlone
  /\ StreamIsOpen
  /\ SafeUnlessContended

LEMMA InitLoggerInv == LoggerInit => LoggerInv
<1> SUFFICES ASSUME LoggerInit
             PROVE  LoggerInv
  OBVIOUS
<1> USE LoggerAssumption DEF LoggerInit, LogStates, None, Free
<1>1. LoggerTyped
  <2>1. streams \in Seq(Nat) /\ files \in Seq(SUBSET Nat) /\ Len(streams) = 0 /\ Len(files) = 0
    OBVIOUS
  <2>2. \A s \in 1 .. Len(streams) : streams[s] \in 1 .. Len(files)
    BY <2>1
  <2>3. 0 \in 0 .. Len(files) /\ 0 \in 0 .. Len(streams) /\ 0 \in 0 .. MaxSecond
    BY <2>1
  <2> QED BY <2>1, <2>2, <2>3 DEF LoggerTyped
<1>2. LockIsHeld /\ OnlyAsyncRuns
  BY DEF LockIsHeld, OnlyAsyncRuns
<1>3. FilesAreKept /\ RecordsAreKept
  BY DEF FilesAreKept, RecordsAreKept
<1>4. OpensAlone /\ StreamIsOpen /\ SafeUnlessContended
  BY DEF OpensAlone, StreamIsOpen, SafeUnlessContended, Opening
<1> QED BY <1>1, <1>2, <1>3, <1>4 DEF LoggerInv

\* A step of a thread is a Go() from one place to another.
LEMMA LogStepGoes ==
  ASSUME LoggerTyped, NEW t \in LogThread, LogStep(t)
  PROVE  \/ misused' # "no" /\ UNCHANGED <<logPc, contended>>
         \/ \E from, to \in LogStates : Go(t, from, to)
<1> USE DEF LogStates
<1>1. CASE Log(t)  BY <1>1 DEF Log
<1>2. CASE LogFormat(t)  BY <1>2 DEF LogFormat, callVars
<1>3. CASE FormatRecord(t)  BY <1>3 DEF FormatRecord
<1>4. CASE CheckFile(t)  BY <1>4 DEF CheckFile
<1>5. CASE CloseFile(t)  BY <1>5 DEF CloseFile
<1>6. CASE ForgetFile(t)  BY <1>6 DEF ForgetFile
<1>7. CASE RenameFile(t)  BY <1>7 DEF RenameFile
<1>8. CASE OpenFile(t)  BY <1>8 DEF OpenFile
<1>9. CASE WriteRecord(t)  BY <1>9 DEF WriteRecord
<1>10. CASE CountRecord(t)  BY <1>10 DEF CountRecord
<1>11. CASE Lock(t)  BY <1>11 DEF Lock
<1>12. CASE NewSlot(t)  BY <1>12 DEF NewSlot
<1>13. CASE Post(t)  BY <1>13 DEF Post
<1>14. CASE Unlock(t)  BY <1>14 DEF Unlock
<1> QED
  BY <1>1, <1>2, <1>3, <1>4, <1>5, <1>6, <1>7, <1>8, <1>9, <1>10, <1>11, <1>12, <1>13,
     <1>14 DEF LogStep

\* What the steps that are not a thread's in Log() leave alone.
LEMMA OthersLeaveLogAlone ==
  ASSUME [LoggerNext]_loggerVars, ~ \E t \in LogThread : LogStep(t)
  PROVE  /\ UNCHANGED <<callVars, files, streams, m_pSpinLock, contended>>
         /\ Defined' => Defined
  BY DEF LoggerNext, loggerVars, modeVars, outputVars, diskVars, callVars, channelVars,
         Tick, RunTakesSlot, SwitchFile, CleanUp, StartLogger, StopLogger, Restart, Quiet,
         Defined

\* Go() moves one thread to a state of the logger.
LEMMA GoTyped ==
  ASSUME LoggerTyped, NEW t \in LogThread, NEW from, NEW to \in LogStates, Go(t, from, to)
  PROVE  logPc' \in [LogThread -> LogStates] /\ contended' \in BOOLEAN
<1>1. logPc' \in [LogThread -> LogStates]
  BY DEF Go, LoggerTyped
<1>2. contended' \in BOOLEAN
  BY Zenon DEF Go, LoggerTyped
<1> QED BY <1>1, <1>2

\* A file that one more record is written to is one of as many files as before.
LEMMA FileGrows ==
  ASSUME NEW q \in Seq(SUBSET Nat), NEW f \in 1 .. Len(q), NEW r \in Nat
  PROVE  /\ [q EXCEPT ![f] = @ \cup {r}] \in Seq(SUBSET Nat)
         /\ Len([q EXCEPT ![f] = @ \cup {r}]) = Len(q)
<1>1. q[f] \cup {r} \in SUBSET Nat
  OBVIOUS
<1> QED BY <1>1, ExceptSeq

\* A stream opened on one of the files is one more stream of a file.
LEMMA StreamsGrow ==
  ASSUME NEW q \in Seq(Nat), NEW m \in Nat, NEW n \in Nat, m <= n, NEW f \in 1 .. n,
         \A s \in 1 .. Len(q) : q[s] \in 1 .. m
  PROVE  /\ Append(q, f) \in Seq(Nat) /\ Len(Append(q, f)) = Len(q) + 1
         /\ \A s \in 1 .. Len(Append(q, f)) : Append(q, f)[s] \in 1 .. n
<1>1. /\ Append(q, f) \in Seq(Nat) /\ Len(Append(q, f)) = Len(q) + 1
      /\ \A s \in 1 .. Len(q) : Append(q, f)[s] = q[s]
      /\ Append(q, f)[Len(q) + 1] = f
  BY AppendProperties
<1>2. Len(q) \in Nat
  OBVIOUS
<1>3. ASSUME NEW s \in 1 .. Len(q) + 1
      PROVE  Append(q, f)[s] \in 1 .. n
  <2>1. CASE s = Len(q) + 1
    BY <1>1, <2>1
  <2>2. CASE s \in 1 .. Len(q)
    BY <1>1, <2>2
  <2> QED BY <1>2, <2>1, <2>2
<1> QED BY <1>1, <1>3

LEMMA LoggerTypedStep ==
  ASSUME LoggerTyped, [LoggerNext]_loggerVars
  PROVE  LoggerTyped'
<1> USE LoggerAssumption
    DEF LoggerTyped, Name, Current, None, modeVars, outputVars, diskVars, callVars,
        channelVars
<1>1. ASSUME NEW t \in LogThread, LogStep(t)
      PROVE  logPc' \in [LogThread -> LogStates] /\ contended' \in BOOLEAN
  <2>1. CASE misused' # "no" /\ UNCHANGED <<logPc, contended>>
    BY <2>1
  <2>2. ASSUME NEW from \in LogStates, NEW to \in LogStates, Go(t, from, to)
        PROVE  logPc' \in [LogThread -> LogStates] /\ contended' \in BOOLEAN
    BY <2>2, GoTyped
  <2> QED BY <1>1, <2>1, <2>2, LogStepGoes
<1>2. ASSUME NEW t \in LogThread, OpenFile(t)
      PROVE  LoggerTyped'
  <2>1. logPc' \in [LogThread -> LogStates] /\ contended' \in BOOLEAN
    BY <1>1, <1>2 DEF LogStep
  <2>2. UNCHANGED <<m_bAsync, calls, record, now, closed>>
    BY <1>2 DEF OpenFile
  <2>3. CASE UNCHANGED <<directory, files, streams>> /\ m_pLogFile' = None
    BY <2>1, <2>2, <2>3
  <2>4. ASSUME NEW file, file = IF directory[Current] = None THEN Len(files) + 1
                                ELSE directory[Current],
               directory' = [directory EXCEPT ![Current] = file],
               files' = IF file > Len(files) THEN Append(files, {}) ELSE files,
               streams' = Append(streams, file),
               m_pLogFile' = Len(streams) + 1
        PROVE  LoggerTyped'
    <3>1. Current \in Name /\ directory[Current] \in 0 .. Len(files)
      OBVIOUS
    <3>2. CASE directory[Current] = None
      <4>1. file = Len(files) + 1 /\ files' = Append(files, {})
        BY <2>4, <3>2
      <4>2. files' \in Seq(SUBSET Nat) /\ Len(files') = Len(files) + 1
        BY <4>1
      <4> HIDE DEF Name, Current
      <4>3. directory' \in [Name -> 0 .. Len(files')]
        BY <2>4, <4>1, <4>2, <3>1
      <4>4. /\ streams' \in Seq(Nat) /\ Len(streams') = Len(streams) + 1
            /\ \A s \in 1 .. Len(streams') : streams'[s] \in 1 .. Len(files')
        <5>1. Len(files) \in Nat /\ Len(files) + 1 \in Nat /\ file \in 1 .. Len(files')
          BY <4>1, <4>2
        <5> QED BY <2>4, <4>2, <5>1, StreamsGrow
      <4>5. m_pLogFile' \in 0 .. Len(streams') /\ closed' \subseteq 0 .. Len(streams')
        BY <2>2, <2>4, <4>4
      <4> QED BY <2>1, <2>2, <4>2, <4>3, <4>4, <4>5
    <3>3. CASE directory[Current] # None
      <4>1. file = directory[Current] /\ file \in 1 .. Len(files) /\ files' = files
        BY <2>4, <3>1, <3>3
      <4> HIDE DEF Name, Current
      <4>2. directory' \in [Name -> 0 .. Len(files')]
        BY <2>4, <4>1, <3>1
      <4>3. Len(files) \in Nat /\ Len(files) <= Len(files)
        OBVIOUS
      <4>4. /\ streams' \in Seq(Nat) /\ Len(streams') = Len(streams) + 1
            /\ \A s \in 1 .. Len(streams') : streams'[s] \in 1 .. Len(files')
        BY <2>4, <4>1, <4>3, StreamsGrow
      <4>5. m_pLogFile' \in 0 .. Len(streams') /\ closed' \subseteq 0 .. Len(streams')
        BY <2>2, <2>4, <4>4
      <4>6. files' \in Seq(SUBSET Nat)
        BY <4>1
      <4> QED BY <2>1, <2>2, <4>2, <4>4, <4>5, <4>6
    <3> QED BY <3>2, <3>3
  <2> QED BY <1>2, <2>3, <2>4 DEF OpenFile
<1>3. ASSUME NEW t \in LogThread, WriteRecord(t)
      PROVE  LoggerTyped'
  <2>1. logPc' \in [LogThread -> LogStates] /\ contended' \in BOOLEAN
    BY <1>1, <1>3 DEF LogStep
  <2>2. files' \in Seq(SUBSET Nat) /\ Len(files') = Len(files)
    <3>1. CASE files' = files
      BY <3>1
    <3>2. CASE /\ ~Misuse(m_pLogFile)
               /\ files' = [files EXCEPT ![streams[m_pLogFile]] = @ \cup {record[t]}]
      <4>1. streams[m_pLogFile] \in 1 .. Len(files) /\ record[t] \in Nat
        BY <3>2 DEF Misuse
      <4> QED BY <3>2, <4>1, FileGrows
    <3> QED BY <1>3, <3>1, <3>2 DEF WriteRecord
  <2>3. UNCHANGED <<m_bAsync, calls, record, now, streams, directory, m_pLogFile, closed>>
    BY <1>3 DEF WriteRecord
  <2> QED BY <2>1, <2>2, <2>3
<1>4. ASSUME NEW t \in LogThread, RenameFile(t)
      PROVE  LoggerTyped'
  <2>1. now \in Name /\ Current \in Name
    OBVIOUS
  <2>2. directory' \in [Name -> 0 .. Len(files)]
    <3> HIDE DEF Name, Current
    <3>1. CASE UNCHANGED directory
      BY <3>1
    <3>2. CASE directory' = [directory EXCEPT ![now] = directory[Current], ![Current] = None]
      <4>1. directory[Current] \in 0 .. Len(files) /\ 0 \in 0 .. Len(files)
        BY <2>1
      <4> QED BY <3>2, <4>1
    <3> QED BY <1>4, <3>1, <3>2 DEF RenameFile
  <2>3. UNCHANGED <<m_bAsync, calls, record, now, files, streams, m_pLogFile, closed>>
    BY <1>4 DEF RenameFile
  <2> QED BY <1>1, <1>4, <2>2, <2>3 DEF LogStep
<1>5. ASSUME NEW t \in LogThread, Log(t)
      PROVE  LoggerTyped'
  <2>1. calls' \in Nat /\ record' \in [LogThread -> Nat]
    BY <1>5 DEF Log
  <2>2. UNCHANGED <<m_bAsync, now, files, streams, directory, m_pLogFile, closed>>
    BY <1>5 DEF Log
  <2> QED BY <1>1, <1>5, <2>1, <2>2 DEF LogStep
<1>6. ASSUME NEW t \in LogThread, CloseFile(t) \/ ForgetFile(t)
      PROVE  LoggerTyped'
  <2>1. m_pLogFile' \in 0 .. Len(streams) /\ closed' \subseteq 0 .. Len(streams)
    <3>1. CASE CloseFile(t)
      BY <3>1 DEF CloseFile
    <3>2. CASE ForgetFile(t)
      BY <3>2 DEF ForgetFile
    <3> QED BY <1>6, <3>1, <3>2
  <2>2. UNCHANGED <<m_bAsync, calls, record, now, files, streams, directory>>
    BY <1>6 DEF CloseFile, ForgetFile
  <2> QED BY <1>1, <1>6, <2>1, <2>2 DEF LogStep
<1>7. ASSUME NEW t \in LogThread, LogStep(t), ~OpenFile(t), ~WriteRecord(t),
             ~RenameFile(t), ~Log(t), ~CloseFile(t), ~ForgetFile(t)
      PROVE  LoggerTyped'
  <2>1. UNCHANGED <<m_bAsync, calls, record, now, files, streams, directory, m_pLogFile,
                    closed>>
    BY <1>7 DEF LogStep, LogFormat, FormatRecord, CheckFile, CountRecord, Lock, NewSlot,
                Post, Unlock
  <2> QED BY <1>1, <1>7, <2>1
<1>8. CASE Tick
  BY <1>8 DEF Tick
<1>9. CASE CleanUp
  BY <1>9 DEF CleanUp
<1>10. CASE Restart
  BY <1>10 DEF Restart
<1>11. CASE RunTakesSlot \/ SwitchFile \/ StartLogger \/ StopLogger \/ UNCHANGED loggerVars
  <2>1. UNCHANGED <<m_bAsync, contended, logPc, calls, record, now, files, streams, directory,
                    m_pLogFile, closed>>
    BY <1>11 DEF RunTakesSlot, SwitchFile, StartLogger, StopLogger, loggerVars
  <2> QED BY <2>1
<1> QED
  BY <1>2, <1>3, <1>4, <1>5, <1>6, <1>7, <1>8, <1>9, <1>10, <1>11 DEF LoggerNext

\* One thread at a time is between Lock() and Unlock() of the channel's spin lock.
LEMMA LockIsHeldStep ==
  ASSUME LoggerTyped, LockIsHeld, [LoggerNext]_loggerVars
  PROVE  LockIsHeld'
<1> USE LoggerAssumption
    DEF LoggerTyped, LogStates, LockIsHeld, Free, Go, callVars, channelVars
<1>1. ASSUME NEW t \in LogThread, Lock(t) \/ Unlock(t)
      PROVE  LockIsHeld'
  <2>1. CASE Lock(t)  BY <2>1 DEF Lock
  <2>2. CASE Unlock(t)  BY <2>2 DEF Unlock
  <2> QED BY <1>1, <2>1, <2>2
<1>2. ASSUME NEW t \in LogThread, NewSlot(t) \/ Post(t)
      PROVE  LockIsHeld'
  <2>1. CASE NewSlot(t)  BY <2>1 DEF NewSlot
  <2>2. CASE Post(t)  BY <2>2 DEF Post
  <2> QED BY <1>2, <2>1, <2>2
<1>3. ASSUME NEW t \in LogThread, LogStep(t), ~(Lock(t) \/ Unlock(t) \/ NewSlot(t) \/ Post(t))
      PROVE  LockIsHeld'
  <2>1. CASE Log(t)  BY <2>1 DEF Log
  <2>2. CASE LogFormat(t)  BY <2>2 DEF LogFormat
  <2>3. CASE FormatRecord(t)  BY <2>3 DEF FormatRecord
  <2>4. CASE CheckFile(t)  BY <2>4 DEF CheckFile
  <2>5. CASE CloseFile(t)  BY <2>5 DEF CloseFile
  <2>6. CASE ForgetFile(t)  BY <2>6 DEF ForgetFile
  <2>7. CASE RenameFile(t)  BY <2>7 DEF RenameFile
  <2>8. CASE OpenFile(t)  BY <2>8 DEF OpenFile
  <2>9. CASE WriteRecord(t)  BY <2>9 DEF WriteRecord
  <2>10. CASE CountRecord(t)  BY <2>10 DEF CountRecord
  <2> QED
    BY <1>3, <2>1, <2>2, <2>3, <2>4, <2>5, <2>6, <2>7, <2>8, <2>9, <2>10 DEF LogStep
<1>4. CASE ~ \E t \in LogThread : LogStep(t)
  BY <1>4, OthersLeaveLogAlone
<1> QED BY <1>1, <1>2, <1>3, <1>4

\* A thread in Log() leaves the mode alone, and only an asynchronous logger is started.
LEMMA OnlyAsyncRunsStep ==
  ASSUME LoggerTyped, OnlyAsyncRuns, [LoggerNext]_loggerVars
  PROVE  OnlyAsyncRuns'
<1> USE DEF OnlyAsyncRuns, modeVars
<1>1. ASSUME NEW t \in LogThread, LogStep(t)
      PROVE  UNCHANGED modeVars
  BY <1>1 DEF LogStep, Log, LogFormat, FormatRecord, CheckFile, CloseFile, ForgetFile,
              RenameFile, OpenFile, WriteRecord, CountRecord, Lock, NewSlot, Post, Unlock
<1>2. CASE StartLogger \/ StopLogger \/ Restart
  BY <1>2 DEF StartLogger, StopLogger, Restart
<1>3. CASE Tick \/ RunTakesSlot \/ SwitchFile \/ CleanUp \/ UNCHANGED loggerVars
  BY <1>3 DEF Tick, RunTakesSlot, SwitchFile, CleanUp, loggerVars
<1> QED BY <1>1, <1>2, <1>3 DEF LoggerNext

\* Renaming a file over another, opening one and cleaning up are all that changes
\* the directory.
LEMMA FilesAreKeptStep ==
  ASSUME LoggerTyped, FilesAreKept, [LoggerNext]_loggerVars
  PROVE  FilesAreKept'
<1> USE LoggerAssumption DEF LoggerTyped, FilesAreKept, Name, Current, None, diskVars
<1>1. ASSUME NEW t \in LogThread, RenameFile(t)
      PROVE  FilesAreKept'
  <2>1. CASE UNCHANGED <<directory, replaced>>
    BY <1>1, <2>1 DEF RenameFile
  <2>2. CASE /\ directory' = [directory EXCEPT ![now] = directory[Current], ![Current] = None]
             /\ replaced' = replaced \cup ({directory[now]} \ {None})
             /\ UNCHANGED <<files, cleaned>>
    <3> SUFFICES ASSUME NEW f \in 1 .. Len(files), f \notin replaced' \cup cleaned
                 PROVE  \E n \in Name : directory'[n] = f
      BY <2>2
    <3>1. PICK n \in Name : directory[n] = f
      BY <2>2
    <3>2. CASE n = Current
      <4>1. directory'[now] = f
        BY <2>2, <3>1, <3>2
      <4> QED BY <4>1
    <3>3. CASE n # Current
      <4>1. n # now
        BY <2>2, <3>1
      <4> QED BY <2>2, <3>1, <3>3, <4>1
    <3> QED BY <3>2, <3>3
  <2> QED BY <1>1, <2>1, <2>2 DEF RenameFile
<1>2. ASSUME NEW t \in LogThread, OpenFile(t)
      PROVE  FilesAreKept'
  <2>1. CASE UNCHANGED <<directory, files>>
    BY <1>2, <2>1 DEF OpenFile
  <2>2. ASSUME NEW file, file = IF directory[Current] = None THEN Len(files) + 1
                                ELSE directory[Current],
               directory' = [directory EXCEPT ![Current] = file],
               files' = IF file > Len(files) THEN Append(files, {}) ELSE files,
               UNCHANGED <<replaced, cleaned>>
        PROVE  FilesAreKept'
    <3>1. CASE directory[Current] = None
      <4>1. Len(files') = Len(files) + 1 /\ file = Len(files) + 1
        BY <2>2, <3>1
      <4>2. directory'[Current] = Len(files) + 1
        BY <2>2, <4>1
      <4>3. ASSUME NEW f \in 1 .. Len(files), f \notin replaced \cup cleaned
            PROVE  \E n \in Name : directory'[n] = f
        <5>1. PICK n \in Name : directory[n] = f
          BY <4>3
        <5>2. n # Current
          BY <3>1, <5>1
        <5> QED BY <2>2, <5>1, <5>2
      <4> QED BY <2>2, <4>1, <4>2, <4>3
    <3>2. CASE directory[Current] # None
      <4>1. directory' = directory /\ files' = files
        BY <2>2, <3>2
      <4> QED BY <2>2, <4>1
    <3> QED BY <3>1, <3>2
  <2> QED BY <1>2, <2>1, <2>2 DEF OpenFile
<1>3. CASE CleanUp
  BY <1>3 DEF CleanUp, TooOld
<1>4. ASSUME NEW t \in LogThread, WriteRecord(t)
      PROVE  FilesAreKept'
  <2>1. Len(files') = Len(files)
    BY <1>4 DEF WriteRecord
  <2> QED BY <1>4, <2>1 DEF WriteRecord
<1>5. ASSUME NEW t \in LogThread, LogStep(t), ~RenameFile(t), ~OpenFile(t), ~WriteRecord(t)
      PROVE  UNCHANGED <<directory, files, replaced, cleaned>>
  BY <1>5 DEF LogStep, Log, LogFormat, FormatRecord, CheckFile, CloseFile, ForgetFile,
              CountRecord, Lock, NewSlot, Post, Unlock
<1>6. CASE ~CleanUp /\ ~ \E t \in LogThread : LogStep(t)
  <2>1. UNCHANGED <<directory, files, replaced, cleaned>>
    BY <1>6 DEF LoggerNext, loggerVars, Tick, RunTakesSlot, SwitchFile, StartLogger,
                StopLogger, Restart
  <2> QED BY <2>1
<1> QED BY <1>1, <1>2, <1>3, <1>4, <1>5, <1>6

\* What was written stays: records are added to files, and files to the list.
LEMMA KeptStaysKept ==
  ASSUME LoggerTyped, [LoggerNext]_loggerVars, NEW r \in Nat, Kept(r)
  PROVE  Kept(r)'
<1> USE DEF LoggerTyped
<1>1. ASSUME NEW t \in LogThread, WriteRecord(t)
      PROVE  Kept(r)'
  <2>1. unnoticed \subseteq unnoticed'
    BY <1>1 DEF WriteRecord
  <2>2. Len(files') = Len(files) /\ \A f \in 1 .. Len(files) : files[f] \subseteq files'[f]
    <3>1. CASE files' = files
      BY <3>1
    <3>2. CASE files' = [files EXCEPT ![streams[m_pLogFile]] = @ \cup {record[t]}]
      BY <3>2
    <3> QED BY <1>1, <3>1, <3>2 DEF WriteRecord
  <2> QED BY <2>1, <2>2 DEF Kept
<1>2. ASSUME NEW t \in LogThread, OpenFile(t)
      PROVE  Kept(r)'
  <2>1. files' = files \/ files' = Append(files, {})
    BY <1>2 DEF OpenFile
  <2>2. \A f \in 1 .. Len(files) : f \in 1 .. Len(files') /\ files'[f] = files[f]
    <3>1. CASE files' = files
      BY <3>1
    <3>2. CASE files' = Append(files, {})
      <4>1. Len(files) \in Nat /\ Len(files') = Len(files) + 1
        BY <3>2
      <4>2. \A f \in 1 .. Len(files) : files'[f] = files[f]
        BY <3>2
      <4>3. \A f \in 1 .. Len(files) : f \in 1 .. Len(files')
        BY <4>1
      <4> QED BY <4>2, <4>3
    <3> QED BY <2>1, <3>1, <3>2
  <2>3. unnoticed' = unnoticed
    BY <1>2 DEF OpenFile
  <2> QED BY <2>2, <2>3 DEF Kept
<1>3. ASSUME NEW t \in LogThread, LogStep(t), ~OpenFile(t), ~WriteRecord(t)
      PROVE  Kept(r)'
  <2>1. UNCHANGED <<files, unnoticed>>
    BY <1>3 DEF LogStep, Log, LogFormat, FormatRecord, CheckFile, CloseFile, ForgetFile,
                RenameFile, CountRecord, Lock, NewSlot, Post, Unlock, diskVars, callVars
  <2> QED BY <2>1 DEF Kept
<1>4. CASE ~ \E t \in LogThread : LogStep(t)
  BY <1>4, OthersLeaveLogAlone DEF callVars, Kept
<1> QED BY <1>1, <1>2, <1>3, <1>4

\* What is counted was written, or fwrite() has failed for it, or the stream was
\* none and nothing more is said.
LEMMA RecordsAreKeptStep ==
  ASSUME LoggerTyped, RecordsAreKept, [LoggerNext]_loggerVars
  PROVE  RecordsAreKept'
<1> USE DEF LoggerTyped
<1>1. ASSUME NEW t \in LogThread, CountRecord(t)
      PROVE  RecordsAreKept'
  <2>1. /\ accepted' = accepted \cup {record[t]}
        /\ record' = record
        /\ Defined /\ logPc[t] = "count"
        /\ \A u \in LogThread : logPc'[u] = "count" => logPc[u] = "count"
    BY <1>1 DEF CountRecord, Go
  <2>2. Kept(record[t])
    BY <2>1 DEF RecordsAreKept
  <2> QED BY <2>1, <2>2, KeptStaysKept DEF RecordsAreKept
<1>2. ASSUME NEW t \in LogThread, WriteRecord(t)
      PROVE  RecordsAreKept'
  <2>1. /\ accepted' = accepted
        /\ record' = record
        /\ Defined
        /\ \A u \in LogThread : u # t => logPc'[u] = logPc[u]
    BY <1>2 DEF WriteRecord, Go
  <2>2. Defined' => Kept(record[t])'
    <3>1. CASE misused' = "stream"
      BY <3>1 DEF Defined
    <3>2. CASE unnoticed' = unnoticed \cup {record[t]}
      BY <2>1, <3>2 DEF Kept
    <3>3. CASE /\ ~Misuse(m_pLogFile)
               /\ files' = [files EXCEPT ![streams[m_pLogFile]] = @ \cup {record[t]}]
      <4>1. streams[m_pLogFile] \in 1 .. Len(files)
        BY <3>3 DEF Misuse, None
      <4>2. /\ streams[m_pLogFile] \in 1 .. Len(files')
            /\ record[t] \in files'[streams[m_pLogFile]]
        BY <3>3, <4>1
      <4> QED BY <2>1, <4>2 DEF Kept
    <3> QED BY <1>2, <3>1, <3>2, <3>3 DEF WriteRecord
  <2> QED BY <2>1, <2>2, KeptStaysKept DEF RecordsAreKept
<1>3. ASSUME NEW t \in LogThread, LogStep(t), ~CountRecord(t), ~WriteRecord(t)
      PROVE  RecordsAreKept'
  <2>1. accepted' = accepted
    BY <1>3 DEF LogStep, Log, LogFormat, FormatRecord, CheckFile, CloseFile, ForgetFile,
                RenameFile, OpenFile, Lock, NewSlot, Post, Unlock, callVars
  <2>2. ASSUME NEW u \in LogThread, Defined', logPc'[u] = "count"
        PROVE  Defined /\ logPc[u] = "count" /\ record'[u] = record[u]
    <3>1. CASE Log(t)
      BY <2>2, <3>1 DEF Log, Go
    <3>2. CASE ~Log(t)
      <4>1. CASE LogFormat(t)
        BY <2>2, <4>1 DEF LogFormat, Defined
      <4>2. CASE CloseFile(t) \/ ForgetFile(t) \/ RenameFile(t) \/ OpenFile(t)
        BY <2>2, <4>2 DEF CloseFile, ForgetFile, RenameFile, OpenFile, Go
      <4>3. CASE FormatRecord(t) \/ CheckFile(t)
        BY <2>2, <4>3 DEF FormatRecord, CheckFile, Go
      <4>4. CASE Lock(t) \/ NewSlot(t) \/ Post(t) \/ Unlock(t)
        BY <2>2, <4>4 DEF Lock, NewSlot, Post, Unlock, Go
      <4> QED BY <1>3, <3>2, <4>1, <4>2, <4>3, <4>4 DEF LogStep
    <3> QED BY <3>1, <3>2
  <2> QED BY <2>1, <2>2, KeptStaysKept DEF RecordsAreKept
<1>4. CASE ~ \E t \in LogThread : LogStep(t)
  <2>1. UNCHANGED <<accepted, logPc, record>> /\ (Defined' => Defined)
    BY <1>4, OthersLeaveLogAlone DEF callVars
  <2> QED BY <2>1, KeptStaysKept DEF RecordsAreKept
<1> QED BY <1>1, <1>2, <1>3, <1>4

\* Of the threads that log directly, two that open the file at once are remembered in
\* contended for good.
LEMMA OpensAloneStep ==
  ASSUME LoggerTyped, OpensAlone, [LoggerNext]_loggerVars
  PROVE  OpensAlone' /\ (contended => contended')
<1>1. ASSUME NEW t \in LogThread, LogStep(t)
      PROVE  OpensAlone' /\ (contended => contended')
  <2>1. CASE UNCHANGED <<logPc, contended>>
    BY <2>1 DEF OpensAlone
  <2>2. ASSUME NEW from, NEW to, Go(t, from, to)
        PROVE  OpensAlone' /\ (contended => contended')
    BY <2>2 DEF OpensAlone, Go, LoggerTyped
  <2> QED BY <1>1, <2>1, <2>2, LogStepGoes
<1>2. CASE ~ \E t \in LogThread : LogStep(t)
  BY <1>2, OthersLeaveLogAlone DEF OpensAlone, callVars
<1> QED BY <1>1, <1>2

\* While nobody opens the file beside another, a stream is closed and still known
\* only on the way from fclose() to the reset, and nobody else is in Log() then.
LEMMA StreamIsOpenStep ==
  ASSUME LoggerTyped, OpensAlone, StreamIsOpen, OpensAlone', contended => contended',
         [LoggerNext]_loggerVars
  PROVE  StreamIsOpen'
<1> USE DEF LoggerTyped, StreamIsOpen, Misuse, None
<1>1. ASSUME NEW t \in LogThread, LogFormat(t)
      PROVE  StreamIsOpen'
  BY <1>1 DEF LogFormat, Defined
<1>2. ASSUME NEW t \in LogThread, CheckFile(t)
      PROVE  StreamIsOpen'
  BY <1>2 DEF CheckFile, Go, OpensAlone, Opening, outputVars
<1>3. ASSUME NEW t \in LogThread, CloseFile(t)
      PROVE  StreamIsOpen'
  BY <1>3 DEF CloseFile, Go, OpensAlone, Opening
<1>4. ASSUME NEW t \in LogThread, ForgetFile(t)
      PROVE  StreamIsOpen'
  BY <1>4 DEF ForgetFile, Go, OpensAlone, Opening
<1>5. ASSUME NEW t \in LogThread, RenameFile(t)
      PROVE  StreamIsOpen'
  <2>1. UNCHANGED <<m_pLogFile, closed>> /\ Defined
    BY <1>5 DEF RenameFile, Go, outputVars
  <2>2. /\ logPc[t] = "rename" /\ logPc'[t] \in {"open", "idle"}
        /\ \A u \in LogThread : u # t => logPc'[u] = logPc[u]
    BY <1>5 DEF RenameFile, Go
  <2>3. ~contended => \A u \in LogThread : logPc[u] # "forget"
    BY <2>2 DEF OpensAlone, Opening
  <2> QED BY <2>1, <2>2, <2>3
<1>6. ASSUME NEW t \in LogThread, OpenFile(t)
      PROVE  StreamIsOpen'
  <2>1. m_pLogFile' = None \/ m_pLogFile' = Len(streams) + 1
    BY <1>6 DEF OpenFile
  <2>2. m_pLogFile' \notin closed' \ {None}
    BY <1>6, <2>1 DEF OpenFile
  <2>3. ~contended' => \A u \in LogThread : u # t => logPc'[u] = "idle"
    BY <1>6 DEF OpenFile, Go, OpensAlone, Opening
  <2>4. logPc'[t] \in {"write", "count"} => m_pLogFile' # None
    BY <1>6 DEF OpenFile, Go
  <2> QED BY <2>2, <2>3, <2>4
<1>7. ASSUME NEW t \in LogThread, WriteRecord(t) \/ CountRecord(t)
      PROVE  StreamIsOpen'
  <2>1. UNCHANGED <<m_pLogFile, closed>> /\ Defined
    BY <1>7 DEF WriteRecord, CountRecord, Go, outputVars
  <2>2. /\ logPc[t] \in {"write", "count"}
        /\ \A u \in LogThread : logPc'[u] \in {"write", "count"} => logPc[u] \in {"write", "count"}
        /\ \A u \in LogThread : logPc[u] = "forget" => logPc'[u] = "forget"
    <3>1. CASE WriteRecord(t)
      BY <3>1 DEF WriteRecord, Go
    <3>2. CASE CountRecord(t)
      BY <3>2 DEF CountRecord, Go
    <3> QED BY <1>7, <3>1, <3>2
  <2> QED BY <2>1, <2>2
<1>8. ASSUME NEW t \in LogThread,
             Log(t) \/ FormatRecord(t) \/ Lock(t) \/ NewSlot(t) \/ Post(t) \/ Unlock(t)
      PROVE  StreamIsOpen'
  <2>1. UNCHANGED <<m_pLogFile, closed>> /\ Defined
    BY <1>8 DEF Log, FormatRecord, Lock, NewSlot, Post, Unlock, Go, outputVars
  <2>2. /\ \A u \in LogThread : logPc'[u] \in {"write", "count"} => logPc[u] = logPc'[u]
        /\ \A u \in LogThread : logPc[u] = "forget" => logPc'[u] = "forget"
    <3>1. CASE Log(t)
      BY <3>1 DEF Log, Go
    <3>2. CASE FormatRecord(t)
      BY <3>2 DEF FormatRecord, Go
    <3>3. CASE Lock(t) \/ NewSlot(t)
      BY <3>3 DEF Lock, NewSlot, Go
    <3>4. CASE Post(t) \/ Unlock(t)
      BY <3>4 DEF Post, Unlock, Go
    <3> QED BY <1>8, <3>1, <3>2, <3>3, <3>4
  <2> QED BY <2>1, <2>2
<1>9. CASE Restart
  BY <1>9 DEF Restart, Quiet, callVars
<1>10. CASE ~Restart /\ ~ \E t \in LogThread : LogStep(t)
  <2>1. UNCHANGED <<m_pLogFile, closed, logPc, contended>> /\ (Defined' => Defined)
    <3>1. UNCHANGED <<m_pLogFile, closed>>
      BY <1>10 DEF LoggerNext, loggerVars, outputVars, Tick, RunTakesSlot, SwitchFile,
                   CleanUp, StartLogger, StopLogger
    <3> QED BY <1>10, <3>1, OthersLeaveLogAlone DEF callVars
  <2> QED BY <2>1
<1> QED
  BY <1>1, <1>2, <1>3, <1>4, <1>5, <1>6, <1>7, <1>8, <1>9, <1>10 DEF LogStep

\* While nobody contended, the stream that a thread of a synchronous logger uses is open.
LEMMA SafeUnlessContendedStep ==
  ASSUME LoggerTyped, OpensAlone, StreamIsOpen, OnlyAsyncRuns, SafeUnlessContended,
         contended => contended', [LoggerNext]_loggerVars
  PROVE  SafeUnlessContended'
<1> USE DEF LoggerTyped, SafeUnlessContended, StreamIsOpen, Misuse, None, modeVars
<1>1. ASSUME NEW t \in LogThread, CloseFile(t)
      PROVE  SafeUnlessContended'
  <2>1. Defined /\ logPc[t] = "open log file" /\ m_bAsync' = m_bAsync
    BY <1>1 DEF CloseFile, Go
  <2>2. ~contended => ~(m_pLogFile \in closed \ {None})
    BY <2>1 DEF OpensAlone, Opening
  <2> QED BY <1>1, <2>1, <2>2 DEF CloseFile, Defined
<1>2. ASSUME NEW t \in LogThread, WriteRecord(t) \/ CountRecord(t)
      PROVE  SafeUnlessContended'
  <2>1. Defined /\ logPc[t] \in {"write", "count"} /\ m_bAsync' = m_bAsync
    BY <1>2 DEF WriteRecord, CountRecord, Go
  <2>2. misused' = "stream" => m_pLogFile \in closed \cup {None}
    BY <1>2, <2>1 DEF WriteRecord, CountRecord, Defined
  <2> QED BY <2>1, <2>2
<1>3. ASSUME NEW t \in LogThread, LogStep(t), ~CloseFile(t), ~WriteRecord(t), ~CountRecord(t)
      PROVE  SafeUnlessContended'
  <2>1. m_bAsync' = m_bAsync /\ (misused' = misused \/ misused' = "address")
    BY <1>3 DEF LogStep, Log, LogFormat, FormatRecord, CheckFile, ForgetFile, RenameFile,
                OpenFile, Lock, NewSlot, Post, Unlock
  <2> QED BY <2>1
<1>4. CASE SwitchFile
  BY <1>4 DEF SwitchFile, OnlyAsyncRuns
<1>5. CASE Restart
  BY <1>5 DEF Restart, Quiet, Defined
<1>6. CASE ~SwitchFile /\ ~Restart /\ ~ \E t \in LogThread : LogStep(t)
  <2>1. m_bAsync' = m_bAsync /\ (misused' = misused \/ misused' = "slot")
    BY <1>6 DEF LoggerNext, loggerVars, Tick, RunTakesSlot, CleanUp, StartLogger, StopLogger
  <2> QED BY <2>1
<1> QED BY <1>1, <1>2, <1>3, <1>4, <1>5, <1>6

LEMMA LoggerInvStep == LoggerInv /\ [LoggerNext]_loggerVars => LoggerInv'
  BY LoggerTypedStep, LockIsHeldStep, OnlyAsyncRunsStep, FilesAreKeptStep, RecordsAreKeptStep,
     OpensAloneStep, StreamIsOpenStep, SafeUnlessContendedStep
  DEF LoggerInv

\* A file that neither was replaced nor cleaned has a name, so that what was
\* written to it can be found.
LEMMA LoggerInvIsSound == LoggerInv => LogIsSound
<1> SUFFICES ASSUME LoggerInv
             PROVE  LogIsSound
  OBVIOUS
<1>1. AcceptedIsStored
  <2> SUFFICES ASSUME NEW r \in accepted, r \notin unnoticed
               PROVE  r \in Stored \/ r \in UNION {files[f] : f \in replaced \cup cleaned}
    BY DEF AcceptedIsStored, Lost
  <2>1. PICK f \in 1 .. Len(files) : r \in files[f]
    BY DEF LoggerInv, RecordsAreKept, Kept
  <2>2. CASE f \in replaced \cup cleaned
    BY <2>1, <2>2
  <2>3. CASE \E n \in Name : directory[n] = f
    <3>1. PICK n \in Name : directory[n] = f
      BY <2>3
    <3>2. directory[n] # None
      BY <3>1 DEF None
    <3> QED BY <2>1, <3>1, <3>2 DEF Stored
  <2> QED BY <2>2, <2>3 DEF LoggerInv, FilesAreKept
<1>2. OneProducer
  BY DEF LoggerInv, LockIsHeld, OneProducer
<1>3. SafeUnlessContended
  BY DEF LoggerInv
<1> QED BY <1>1, <1>2, <1>3 DEF LogIsSound

\* However many threads log, and whatever is rotated, cleaned up, restarted or
\* fails: a record that was reported written is in a file of the directory, but for
\* the three losses that the property names; the channel has one producer at a time;
\* and a synchronous logger uses a closed stream only if a thread opened the file
\* while another was in Log().
THEOREM LogIsSoundAlways == LoggerSpec => []LogIsSound
  BY InitLoggerInv, LoggerInvStep, LoggerInvIsSound, PTL DEF LoggerSpec

-----------------------------------------------------------------------------
(* What the logger's model counts. *)

\* A record that was counted is one of a call that is over, and each call has its
\* own: no more was added to the size of the file than there are records.
CallsAreCounted ==
  /\ calls <= MaxRecords
  /\ accepted \subseteq 1 .. calls
  /\ \A t \in LogThread : logPc[t] # "idle" => record[t] \in (1 .. calls) \ accepted
  /\ \A t, u \in LogThread :
       t # u /\ logPc[t] # "idle" /\ logPc[u] # "idle" => record[t] # record[u]
  /\ m_uLogFileSize \in 0 .. Cardinality(accepted)
  /\ sizeSeen \in [LogThread -> 0 .. Cardinality(accepted)]

FilesHoldRecords == \A f \in 1 .. Len(files) : files[f] \subseteq 1 .. calls

\* A slot that New() has given is there when Post() publishes it.
QueueFits ==
  /\ queue \in Seq(Nat)
  /\ Len(queue) <= ChannelSize
  /\ \A t \in LogThread : logPc[t] = "post" => Len(queue) < ChannelSize

Modes ==
  /\ m_bRunning \in BOOLEAN
  /\ m_pSpinLock \in LogThread \cup {Free}
  /\ misused \in {"no", "stream", "slot", "address"}

CountsInv == LoggerInv /\ CallsAreCounted /\ FilesHoldRecords /\ QueueFits /\ Modes

\* Accepted records are finitely many, so that one more counts.
LEMMA AcceptedAreFinite ==
  ASSUME LoggerTyped, CallsAreCounted
  PROVE  /\ IsFiniteSet(accepted)
         /\ Cardinality(accepted) \in 0 .. calls
         /\ \A r : r \notin accepted => Cardinality(accepted \cup {r}) = Cardinality(accepted) + 1
<1>1. calls \in Nat /\ accepted \subseteq 1 .. calls
  BY DEF LoggerTyped, CallsAreCounted
<1>2. IsFiniteSet(1 .. calls) /\ Cardinality(1 .. calls) = calls
  BY <1>1, FS_Interval
<1>3. IsFiniteSet(accepted) /\ Cardinality(accepted) <= calls
  BY <1>1, <1>2, FS_Subset
<1>4. Cardinality(accepted) \in Nat
  BY <1>3, FS_CardinalityType
<1>5. \A r : r \notin accepted => Cardinality(accepted \cup {r}) = Cardinality(accepted) + 1
  BY <1>3, FS_AddElement
<1> QED BY <1>1, <1>3, <1>4, <1>5

\* The steps that neither begin, nor write, nor count leave the counts, and begin no call.
LEMMA CallsStayCounted ==
  ASSUME CallsAreCounted,
         UNCHANGED <<calls, record, accepted, m_uLogFileSize, sizeSeen>>,
         \A t \in LogThread : logPc'[t] # "idle" => logPc[t] # "idle"
  PROVE  CallsAreCounted'
  BY DEF CallsAreCounted

\* Threads log different records, none of which was accepted before.
LEMMA CallsAreCountedStep ==
  ASSUME LoggerTyped, CallsAreCounted, [LoggerNext]_loggerVars
  PROVE  CallsAreCounted'
<1> DEFINE size == Cardinality(accepted)
<1>0. /\ calls \in Nat /\ record \in [LogThread -> Nat] /\ logPc \in [LogThread -> LogStates]
      /\ calls <= MaxRecords /\ accepted \subseteq 1 .. calls
      /\ \A t \in LogThread : logPc[t] # "idle" => record[t] \in (1 .. calls) \ accepted
      /\ \A t, u \in LogThread :
           t # u /\ logPc[t] # "idle" /\ logPc[u] # "idle" => record[t] # record[u]
      /\ m_uLogFileSize \in 0 .. size
      /\ sizeSeen \in [LogThread -> 0 .. size]
  BY DEF LoggerTyped, CallsAreCounted
<1>1. size \in Nat
  BY AcceptedAreFinite, <1>0
<1> HIDE DEF size
<1>2. ASSUME NEW t \in LogThread, Log(t)
      PROVE  CallsAreCounted'
  <2>1. /\ calls < MaxRecords /\ calls' = calls + 1
        /\ record' = [record EXCEPT ![t] = calls + 1]
        /\ logPc[t] = "idle"
        /\ UNCHANGED <<accepted, m_uLogFileSize, sizeSeen>>
    BY <1>2 DEF Log, Go, outputVars
  <2>2. \A u \in LogThread : u # t => logPc'[u] = logPc[u] /\ record'[u] = record[u]
    BY <1>0, <1>2, <2>1 DEF Log, Go
  <2>3. record'[t] = calls + 1 /\ calls' <= MaxRecords
    BY <1>0, <2>1, LoggerAssumption
  <2>4. accepted' \subseteq 1 .. calls' /\ calls + 1 \in (1 .. calls') \ accepted'
    BY <1>0, <2>1
  <2>5. \A u \in LogThread : logPc'[u] # "idle" => record'[u] \in (1 .. calls') \ accepted'
    BY <1>0, <2>1, <2>2, <2>3, <2>4
  <2>6. \A u, v \in LogThread :
          u # v /\ logPc'[u] # "idle" /\ logPc'[v] # "idle" => record'[u] # record'[v]
    <3>1. \A u \in LogThread : u # t /\ logPc'[u] # "idle" => record'[u] # calls + 1
      BY <1>0, <2>2
    <3> QED BY <1>0, <2>2, <2>3, <3>1
  <2> QED BY <1>0, <2>1, <2>3, <2>4, <2>5, <2>6 DEF CallsAreCounted, size
<1>3. ASSUME NEW t \in LogThread, WriteRecord(t)
      PROVE  CallsAreCounted'
  <2>1. /\ logPc[t] = "write" /\ logPc' = [logPc EXCEPT ![t] = "count"]
        /\ UNCHANGED <<calls, record, accepted, m_uLogFileSize>>
    BY <1>3 DEF WriteRecord, Go, outputVars
  <2>2. sizeSeen' = sizeSeen \/ sizeSeen' = [sizeSeen EXCEPT ![t] = m_uLogFileSize]
    BY <1>3 DEF WriteRecord
  <2>3. sizeSeen' \in [LogThread -> 0 .. size]
    BY <1>0, <2>2
  <2>4. \A u \in LogThread : logPc'[u] # "idle" => logPc[u] # "idle"
    BY <1>0, <2>1
  <2> QED BY <1>0, <2>1, <2>3, <2>4 DEF CallsAreCounted, size
<1>4. ASSUME NEW t \in LogThread, CountRecord(t)
      PROVE  CallsAreCounted'
  <2>1. /\ logPc[t] = "count" /\ logPc' = [logPc EXCEPT ![t] = "idle"]
        /\ m_uLogFileSize' = sizeSeen[t] + (IF record[t] \in unnoticed THEN 0 ELSE 1)
        /\ accepted' = accepted \cup {record[t]}
        /\ UNCHANGED <<calls, record, sizeSeen>>
    BY <1>4 DEF CountRecord, Go
  <2>2. record[t] \in (1 .. calls) \ accepted
    BY <1>0, <2>1
  <2>3. Cardinality(accepted') = size + 1
    BY <2>1, <2>2, AcceptedAreFinite DEF size
  <2>4. /\ m_uLogFileSize' \in 0 .. Cardinality(accepted')
        /\ sizeSeen' \in [LogThread -> 0 .. Cardinality(accepted')]
    <3>1. /\ 0 .. size \subseteq 0 .. size + 1
          /\ \A n \in 0 .. size : n + 0 \in 0 .. size + 1 /\ n + 1 \in 0 .. size + 1
      BY <1>1
    <3>2. sizeSeen[t] \in 0 .. size
      BY <1>0
    <3>3. m_uLogFileSize' \in 0 .. size + 1
      <4>1. m_uLogFileSize' \in {sizeSeen[t] + 0, sizeSeen[t] + 1}
        BY <2>1
      <4> QED BY <3>1, <3>2, <4>1
    <3> QED BY <1>0, <2>1, <2>3, <3>1, <3>3
  <2>5. \A u \in LogThread : logPc'[u] # "idle" => u # t /\ logPc[u] # "idle"
    BY <1>0, <2>1
  <2>6. \A u \in LogThread : logPc'[u] # "idle" => record'[u] \in (1 .. calls') \ accepted'
    BY <1>0, <2>1, <2>5
  <2> QED BY <1>0, <2>1, <2>2, <2>4, <2>5, <2>6 DEF CallsAreCounted
<1>5. ASSUME NEW t \in LogThread, ForgetFile(t)
      PROVE  CallsAreCounted'
  <2>1. /\ logPc' = [logPc EXCEPT ![t] = "rename"] /\ logPc[t] = "forget"
        /\ m_uLogFileSize' = 0
        /\ UNCHANGED <<calls, record, accepted, sizeSeen>>
    BY <1>5 DEF ForgetFile, Go
  <2>2. \A u \in LogThread : logPc'[u] # "idle" => logPc[u] # "idle"
    BY <1>0, <2>1
  <2>3. m_uLogFileSize' \in 0 .. size
    BY <1>1, <2>1
  <2> QED BY <1>0, <2>1, <2>2, <2>3 DEF CallsAreCounted, size
<1>6. ASSUME NEW t \in LogThread, LogStep(t), ~Log(t), ~WriteRecord(t), ~CountRecord(t),
             ~ForgetFile(t)
      PROVE  CallsAreCounted'
  <2>1. UNCHANGED <<calls, record, accepted, m_uLogFileSize, sizeSeen>>
    BY <1>6 DEF LogStep, LogFormat, FormatRecord, CheckFile, CloseFile, RenameFile, OpenFile,
                Lock, NewSlot, Post, Unlock, outputVars, callVars
  <2>2. \/ logPc' = logPc
        \/ \E from, to \in LogStates : from # "idle" /\ Go(t, from, to)
    BY <1>6 DEF LogStep, LogFormat, FormatRecord, CheckFile, CloseFile, RenameFile, OpenFile,
                Lock, NewSlot, Post, Unlock, callVars, LogStates
  <2>3. \A u \in LogThread : logPc'[u] # "idle" => logPc[u] # "idle"
    BY <1>0, <2>2 DEF Go
  <2> QED BY <2>1, <2>3, CallsStayCounted
<1>7. CASE Restart
  <2>1. /\ m_uLogFileSize' \in {0, m_uLogFileSize}
        /\ UNCHANGED <<calls, record, accepted, sizeSeen, logPc>>
    BY <1>7 DEF Restart, callVars
  <2>2. m_uLogFileSize' \in 0 .. size
    BY <1>0, <1>1, <2>1
  <2> QED BY <1>0, <2>1, <2>2 DEF CallsAreCounted, size
<1>8. CASE ~Restart /\ ~ \E t \in LogThread : LogStep(t)
  <2>1. UNCHANGED <<calls, record, accepted, m_uLogFileSize, sizeSeen, logPc>>
    BY <1>8 DEF LoggerNext, loggerVars, outputVars, callVars, Tick, RunTakesSlot, SwitchFile,
                CleanUp, StartLogger, StopLogger
  <2> QED BY <2>1, CallsStayCounted
<1> QED BY <1>2, <1>3, <1>4, <1>5, <1>6, <1>7, <1>8

\* A file holds nothing that was not logged.
LEMMA FilesHoldRecordsStep ==
  ASSUME LoggerTyped, CallsAreCounted, FilesHoldRecords, [LoggerNext]_loggerVars
  PROVE  FilesHoldRecords'
<1>0. /\ calls \in Nat /\ files \in Seq(SUBSET Nat)
      /\ \A f \in 1 .. Len(files) : files[f] \subseteq 1 .. calls
      /\ \A s \in 1 .. Len(streams) : streams[s] \in 1 .. Len(files)
      /\ m_pLogFile \in 0 .. Len(streams) /\ Len(streams) \in Nat
  BY DEF LoggerTyped, FilesHoldRecords
<1>1. ASSUME NEW t \in LogThread, Log(t)
      PROVE  FilesHoldRecords'
  <2>1. calls' = calls + 1 /\ files' = files
    BY <1>1 DEF Log, diskVars
  <2>2. 1 .. calls \subseteq 1 .. calls + 1
    BY <1>0
  <2> QED BY <1>0, <2>1, <2>2 DEF FilesHoldRecords
<1>2. ASSUME NEW t \in LogThread, WriteRecord(t)
      PROVE  FilesHoldRecords'
  <2>1. calls' = calls /\ logPc[t] = "write"
    BY <1>2 DEF WriteRecord, Go
  <2>2. CASE files' = files
    BY <1>0, <2>1, <2>2 DEF FilesHoldRecords
  <2>3. CASE /\ ~Misuse(m_pLogFile)
             /\ files' = [files EXCEPT ![streams[m_pLogFile]] = @ \cup {record[t]}]
    <3>1. record[t] \in 1 .. calls
      BY <2>1 DEF CallsAreCounted
    <3>2. streams[m_pLogFile] \in 1 .. Len(files)
      BY <1>0, <2>3 DEF Misuse, None
    <3>3. Len(files') = Len(files)
      BY <1>0, <2>3, <3>2
    <3>4. \A f \in 1 .. Len(files) : files'[f] \subseteq files[f] \cup {record[t]}
      BY <1>0, <2>3
    <3> QED BY <1>0, <2>1, <3>1, <3>3, <3>4 DEF FilesHoldRecords
  <2> QED BY <1>2, <2>2, <2>3 DEF WriteRecord
<1>3. ASSUME NEW t \in LogThread, OpenFile(t)
      PROVE  FilesHoldRecords'
  <2>1. calls' = calls /\ (files' = files \/ files' = Append(files, {}))
    BY <1>3 DEF OpenFile
  <2>2. CASE files' = Append(files, {})
    <3>1. /\ Len(files') = Len(files) + 1 /\ Len(files) \in Nat
          /\ \A f \in 1 .. Len(files) : files'[f] = files[f]
          /\ files'[Len(files) + 1] = {}
      BY <1>0, <2>2
    <3> QED BY <1>0, <2>1, <3>1 DEF FilesHoldRecords
  <2>3. CASE files' = files
    BY <1>0, <2>1, <2>3 DEF FilesHoldRecords
  <2> QED BY <2>1, <2>2, <2>3
<1>4. ASSUME NEW t \in LogThread, LogStep(t), ~Log(t), ~WriteRecord(t), ~OpenFile(t)
      PROVE  FilesHoldRecords'
  <2>1. UNCHANGED <<calls, files>>
    BY <1>4 DEF LogStep, LogFormat, FormatRecord, CheckFile, CloseFile, ForgetFile, RenameFile,
                CountRecord, Lock, NewSlot, Post, Unlock, diskVars, callVars
  <2> QED BY <2>1 DEF FilesHoldRecords
<1>5. CASE ~ \E t \in LogThread : LogStep(t)
  BY <1>5, OthersLeaveLogAlone DEF FilesHoldRecords, callVars
<1> QED BY <1>1, <1>2, <1>3, <1>4, <1>5

\* One producer at a time: nobody else takes the slot that New() has given.
LEMMA QueueFitsStep ==
  ASSUME LoggerTyped, LockIsHeld, QueueFits, [LoggerNext]_loggerVars
  PROVE  QueueFits'
<1>0. /\ queue \in Seq(Nat) /\ Len(queue) \in Nat /\ Len(queue) <= ChannelSize
      /\ \A t \in LogThread : logPc[t] = "post" => Len(queue) < ChannelSize
      /\ logPc \in [LogThread -> LogStates] /\ record \in [LogThread -> Nat]
      /\ ChannelSize \in Nat
      /\ \A t, u \in LogThread : logPc[t] = "post" /\ logPc[u] = "post" => t = u
  BY LoggerAssumption DEF QueueFits, LoggerTyped, LockIsHeld
<1>1. ASSUME NEW t \in LogThread, NewSlot(t)
      PROVE  QueueFits'
  <2>1. queue' = queue /\ logPc' = [logPc EXCEPT ![t] = IF Len(queue) < ChannelSize THEN "post"
                                                        ELSE "unlock"]
    BY <1>1 DEF NewSlot, Go, channelVars
  <2> QED BY <1>0, <2>1 DEF QueueFits
<1>2. ASSUME NEW t \in LogThread, Post(t)
      PROVE  QueueFits'
  <2>1. /\ logPc[t] = "post" /\ logPc' = [logPc EXCEPT ![t] = "unlock"]
        /\ queue' = Append(queue, record[t])
    BY <1>2 DEF Post, Go
  <2>2. queue' \in Seq(Nat) /\ Len(queue') = Len(queue) + 1
    BY <1>0, <2>1
  <2>3. \A u \in LogThread : logPc'[u] # "post"
    BY <1>0, <2>1
  <2> QED BY <1>0, <2>1, <2>2, <2>3 DEF QueueFits
<1>3. ASSUME NEW t \in LogThread, LogStep(t), ~NewSlot(t), ~Post(t)
      PROVE  QueueFits'
  <2>1. queue' = queue
    BY <1>3 DEF LogStep, Log, LogFormat, FormatRecord, CheckFile, CloseFile, ForgetFile,
                RenameFile, OpenFile, WriteRecord, CountRecord, Lock, Unlock, channelVars
  <2>2. \/ logPc' = logPc
        \/ \E from, to \in LogStates : to # "post" /\ Go(t, from, to)
    BY <1>3 DEF LogStep, Log, LogFormat, FormatRecord, CheckFile, CloseFile, ForgetFile,
                RenameFile, OpenFile, WriteRecord, CountRecord, Lock, Unlock, callVars, LogStates
  <2>3. \A u \in LogThread : logPc'[u] = "post" => logPc[u] = "post"
    BY <1>0, <2>2 DEF Go
  <2> QED BY <1>0, <2>1, <2>3 DEF QueueFits
<1>4. CASE Restart
  <2>1. queue' = << >> /\ \A t \in LogThread : logPc'[t] = "idle"
    BY <1>4 DEF Restart, Quiet, callVars
  <2> QED BY <1>0, <2>1 DEF QueueFits
<1>5. CASE ~Restart /\ ~ \E t \in LogThread : LogStep(t)
  <2>1. UNCHANGED <<queue, logPc>>
    BY <1>5 DEF LoggerNext, loggerVars, callVars, channelVars, Tick, RunTakesSlot, SwitchFile,
                CleanUp, StartLogger, StopLogger
  <2> QED BY <1>0, <2>1 DEF QueueFits
<1> QED BY <1>1, <1>2, <1>3, <1>4, <1>5

\* The flags, the holder of the lock and the kind of misuse keep their types.
LEMMA ModesStep ==
  ASSUME Modes, [LoggerNext]_loggerVars
  PROVE  Modes'
<1> USE DEF Modes, modeVars, channelVars
<1>1. ASSUME NEW t \in LogThread, LogStep(t)
      PROVE  Modes'
  <2>1. m_bRunning' = m_bRunning /\ misused' \in {misused, "stream", "address"}
    BY <1>1 DEF LogStep, Log, LogFormat, FormatRecord, CheckFile, CloseFile, ForgetFile,
                RenameFile, OpenFile, WriteRecord, CountRecord, Lock, NewSlot, Post, Unlock
  <2>2. m_pSpinLock' \in {m_pSpinLock, t, Free}
    BY <1>1 DEF LogStep, Log, LogFormat, FormatRecord, CheckFile, CloseFile, ForgetFile,
                RenameFile, OpenFile, WriteRecord, CountRecord, Lock, NewSlot, Post, Unlock
  <2> QED BY <2>1, <2>2
<1>2. CASE ~ \E t \in LogThread : LogStep(t)
  BY <1>2 DEF LoggerNext, loggerVars, Tick, RunTakesSlot, SwitchFile, CleanUp, StartLogger,
              StopLogger, Restart
<1> QED BY <1>1, <1>2

LEMMA InitCountsInv == LoggerInit => CountsInv
<1> SUFFICES ASSUME LoggerInit
             PROVE  CountsInv
  OBVIOUS
<1> USE LoggerAssumption DEF LoggerInit
<1>1. Cardinality(accepted) = 0
  BY FS_EmptySet
<1>2. CallsAreCounted
  BY <1>1 DEF CallsAreCounted
<1>3. Len(files) = 0 /\ queue \in Seq(Nat) /\ Len(queue) = 0
  OBVIOUS
<1>4. FilesHoldRecords
  BY <1>3 DEF FilesHoldRecords
<1>5. QueueFits
  BY <1>3 DEF QueueFits
<1>6. Modes
  BY DEF Modes
<1> QED BY <1>2, <1>4, <1>5, <1>6, InitLoggerInv DEF CountsInv

LEMMA CountsInvStep == CountsInv /\ [LoggerNext]_loggerVars => CountsInv'
  BY LoggerInvStep, CallsAreCountedStep, FilesHoldRecordsStep, QueueFitsStep, ModesStep
  DEF CountsInv, LoggerInv

LEMMA CountsAreTyped == CountsInv => LoggerTypeOK
<1> SUFFICES ASSUME CountsInv
             PROVE  LoggerTypeOK
  OBVIOUS
<1>1. LoggerTyped /\ CallsAreCounted /\ FilesHoldRecords /\ QueueFits /\ Modes
  BY DEF CountsInv, LoggerInv
<1>2. calls \in Nat /\ calls <= MaxRecords /\ MaxRecords \in Nat
  BY <1>1, LoggerAssumption DEF LoggerTyped, CallsAreCounted
<1>3. m_uLogFileSize \in 0 .. MaxRecords
  BY <1>1, <1>2, AcceptedAreFinite DEF CallsAreCounted
<1>4. \A f \in 1 .. Len(files) : files[f] \subseteq 1 .. MaxRecords
  <2>1. 1 .. calls \subseteq 1 .. MaxRecords
    BY <1>2
  <2> QED BY <1>1, <2>1 DEF FilesHoldRecords
<1>5. \A n \in Name : directory[n] \in 0 .. Len(files)
  BY <1>1 DEF LoggerTyped
<1>6. /\ m_bAsync \in BOOLEAN /\ contended \in BOOLEAN
      /\ m_pLogFile \in 0 .. Len(streams)
      /\ \A s \in 1 .. Len(streams) : streams[s] \in 1 .. Len(files)
  BY <1>1, Zenon DEF LoggerTyped
<1> QED BY <1>1, <1>3, <1>4, <1>5, <1>6 DEF LoggerTypeOK, QueueFits, Modes

-----------------------------------------------------------------------------
(* Times. *)

TimeInv ==
  /\ time \in [Moment -> Fields]
  /\ \A o \in Moment : Timegm(time[o]) \in Second
  /\ clock \in 0 .. LastSecond
  /\ latest.op \in {"none", "plus", "minus"}
  /\ ArithmeticIsExact

\* A time_t is signed: its range is a word, half of it before 1970.
LEMMA HalfWord ==
  /\ Base \in Nat \ {0} /\ Epoch \in Nat \ {0} /\ Precision \in Nat \ {0}
  /\ Word \in Nat \ {0} /\ LastSecond \in Nat \ {0}
  /\ Epoch * Base \in Nat \ {0} /\ Word \div 2 \in Nat
  /\ 2 * (Word \div 2) <= Word
  /\ LastSecond < Word \div 2
  /\ Earliest \in Int /\ Earliest < 0 /\ Earliest + Word >= Word \div 2
<1>1. /\ Base \in Nat \ {0} /\ Epoch \in Nat \ {0} /\ Precision \in Nat \ {0}
      /\ Word \in Nat \ {0} /\ LastSecond \in Nat \ {0}
  BY TimeAssumption
<1>2. Epoch * Base \in Nat \ {0}
  BY <1>1
<1>3. Word \div 2 \in Nat /\ 2 * (Word \div 2) <= Word
  BY <1>1
<1>4. Epoch * Base <= Word \div 2 /\ LastSecond < Word \div 2
  BY TimeAssumption
<1> HIDE TimeAssumption
<1>5. ASSUME NEW e \in Nat \ {0}, NEW h \in Nat, NEW w \in Nat, e <= h, 2 * h <= w
      PROVE  -e \in Int /\ -e < 0 /\ -e + w >= h
  BY <1>5
<1>6. Earliest \in Int /\ Earliest < 0 /\ Earliest + Word >= Word \div 2
  BY <1>1, <1>2, <1>3, <1>4, <1>5 DEF Earliest
<1> QED BY <1>1, <1>2, <1>3, <1>4, <1>6

\* Division with remainder, of any integer; the remainder of one that is at most two
\* words off.
LEMMA IntDivision ==
  ASSUME NEW t \in Int, NEW n \in Nat \ {0}
  PROVE  t \div n \in Int /\ t % n \in 0 .. n - 1 /\ t = (n * (t \div n)) + (t % n)
  OBVIOUS

\* A number from e rounds of n before zero on is in round -e or a later one, and a
\* lesser number is not in a later round.
LEMMA Quotient ==
  ASSUME NEW q \in Int, NEW n \in Nat \ {0}, NEW e \in Nat,
         NEW r \in 0 .. n - 1, (n * q) + r >= -(e * n)
  PROVE  -e <= q
<1>1. n * (q + 1) > n * (-e)
  BY SMT
<1>2. q + 1 > -e
  BY <1>1, SMT
<1> QED BY <1>2, SMT

LEMMA QuotientGrows ==
  ASSUME NEW q \in Int, NEW p \in Int, NEW n \in Nat \ {0},
         NEW r \in 0 .. n - 1, NEW s \in 0 .. n - 1, (n * q) + r <= (n * p) + s
  PROVE  q <= p
<1>1. n * q < n * (p + 1)
  BY SMT
<1>2. q < p + 1
  BY <1>1, SMT
<1> QED BY <1>2, SMT

\* What % does to a number that leaves its word by less than a word, on either side.
LEMMA RemainderOfWord ==
  ASSUME NEW u \in Int, NEW n \in Nat \ {0}
  PROVE  /\ u >= 0 /\ u < n => u % n = u
         /\ u >= -n /\ u < 0 => u % n = u + n
         /\ u >= n /\ u < 2 * n => u % n = u - n
<1> DEFINE q == u \div n
           r == u % n
<1>1. q \in Int /\ r \in 0 .. n - 1 /\ u = (n * q) + r
  BY IntDivision
<1>2. /\ q = 0 => n * q = 0
      /\ q = 1 => n * q = n
      /\ q = -1 => n * q = -n
      /\ q >= 1 => n * q >= n
      /\ q >= 2 => n * q >= 2 * n
      /\ q <= -1 => n * q <= -n
      /\ q <= -2 => n * q <= -(2 * n)
      /\ n * q \in Int
  BY <1>1, SMT
<1> HIDE DEF q, r
<1>3. q = 0 \/ q = 1 \/ q = -1 \/ q >= 2 \/ q <= -2
  BY <1>1, SMT
<1>4. /\ u >= 0 /\ u < n => r = u
      /\ u >= -n /\ u < 0 => r = u + n
      /\ u >= n /\ u < 2 * n => r = u - n
  BY <1>1, <1>2, <1>3, SMT
<1> QED BY <1>4 DEF r

\* gmtime_r() and timegm() are inverse on the seconds that a time can have.
LEMMA ConversionsAreInverse ==
  ASSUME NEW t \in Second
  PROVE  /\ Gmtime(t) \in Fields
         /\ Timegm(Gmtime(t)) = t
<1> DEFINE q == t \div Base
           r == t % Base
<1>1. t \in Int /\ t >= -(Epoch * Base) /\ t <= LastSecond
  BY HalfWord DEF Second, Earliest
<1>2. q \in Int /\ r \in 0 .. Base - 1 /\ t = (Base * q) + r
  BY <1>1, HalfWord, IntDivision
<1> HIDE DEF q, r
<1>3. -Epoch <= q /\ q <= LastSecond \div Base /\ LastSecond \div Base \in Int
  <2>1. -Epoch <= q
    BY <1>1, <1>2, HalfWord, Quotient
  <2>2. PICK p, s : p = LastSecond \div Base /\ s = LastSecond % Base
    OBVIOUS
  <2>3. p \in Int /\ s \in 0 .. Base - 1 /\ LastSecond = (Base * p) + s
    BY <2>2, HalfWord, IntDivision
  <2>4. q <= p
    BY <1>1, <1>2, <2>3, HalfWord, QuotientGrows
  <2> QED BY <2>1, <2>2, <2>3, <2>4
<1>4. Gmtime(t) = [major |-> Epoch + q, minor |-> r, micro |-> 0]
  BY DEF Gmtime, q, r
<1>5. Epoch + q \in 0 .. Epoch + LastSecond \div Base /\ 0 \in 0 .. Precision - 1
  BY <1>2, <1>3, HalfWord
<1>6. Gmtime(t) \in Fields
  BY <1>2, <1>4, <1>5 DEF Fields
<1>7. Gmtime(t).major - Epoch = q /\ Gmtime(t).minor = r
  BY <1>2, <1>4, HalfWord
<1>8. Timegm(Gmtime(t)) = (q * Base) + r
  BY <1>7 DEF Timegm
<1>9. q * Base = Base * q
  BY <1>2, HalfWord
<1> QED BY <1>2, <1>6, <1>8, <1>9

\* The seconds of a time as the unsigned number they are converted to, and back.
LEMMA UnsignedSecond ==
  ASSUME NEW f, Timegm(f) \in Second
  PROVE  /\ TimeStampSecond(f) \in 0 .. Word - 1
         /\ TimeStampSecond(f) = IF Timegm(f) >= 0 THEN Timegm(f) ELSE Timegm(f) + Word
<1>1. /\ Timegm(f) \in Int /\ Timegm(f) >= -Word /\ Timegm(f) < Word
  BY HalfWord DEF Second
<1>2. TimeStampSecond(f) = IF Timegm(f) >= 0 THEN Timegm(f) ELSE Timegm(f) + Word
  BY <1>1, RemainderOfWord, HalfWord DEF TimeStampSecond
<1> QED BY <1>1, <1>2, HalfWord

\* The seconds kept in an unsigned word are read back with their sign.
LEMMA SignedAgain ==
  ASSUME NEW t \in Second, NEW u \in 0 .. Word - 1, u = IF t >= 0 THEN t ELSE t + Word
  PROVE  Signed(u) = t
  BY HalfWord DEF Signed, Second

\* So the fields made from the word are those of the seconds.
LEMMA FromUnsigned ==
  ASSUME NEW t \in Second, NEW u \in 0 .. Word - 1, u = IF t >= 0 THEN t ELSE t + Word
  PROVE  FromSecond(u) \in Fields /\ Timegm(FromSecond(u)) = t
  BY SignedAgain, ConversionsAreInverse DEF FromSecond

\* A sum that is in the range is exact on either side of 1970, although it is taken
\* of unsigned numbers.
LEMMA SumIsExact ==
  ASSUME NEW f, NEW g, Timegm(f) \in Second, Timegm(g) \in Second,
         Timegm(f) + Timegm(g) \in Second
  PROVE  Sum(f, g) \in Fields /\ Timegm(Sum(f, g)) = Timegm(f) + Timegm(g)
<1> DEFINE s == Timegm(f) + Timegm(g)
           total == TimeStampSecond(f) + TimeStampSecond(g)
           w == total % Word
<1>1. /\ TimeStampSecond(f) = IF Timegm(f) >= 0 THEN Timegm(f) ELSE Timegm(f) + Word
      /\ TimeStampSecond(g) = IF Timegm(g) >= 0 THEN Timegm(g) ELSE Timegm(g) + Word
      /\ TimeStampSecond(f) \in 0 .. Word - 1 /\ TimeStampSecond(g) \in 0 .. Word - 1
  BY UnsignedSecond
<1>2. /\ total \in Int /\ total >= 0 /\ total < 2 * Word
      /\ s \in Int /\ s >= -Word /\ s < Word
      /\ total \in {s, s + Word, s + 2 * Word}
  BY <1>1, HalfWord DEF Second
<1>3. /\ total < Word => w = total
      /\ total >= Word => w = total - Word
  BY <1>2, RemainderOfWord, HalfWord
<1>4. w \in 0 .. Word - 1 /\ w = IF s >= 0 THEN s ELSE s + Word
  <2> HIDE DEF s, total, w
  <2> QED BY <1>2, <1>3, HalfWord
<1>5. FromSecond(w) \in Fields /\ Timegm(FromSecond(w)) = s
  <2>1. s \in Second
    OBVIOUS
  <2> HIDE DEF s, w
  <2> QED BY <2>1, <1>4, FromUnsigned
<1> QED BY <1>5 DEF Sum

\* A difference is exact but for one of times since 1970 that would be before it.
LEMMA DifferenceIsExact ==
  ASSUME NEW f, NEW g, Timegm(f) \in Second, Timegm(g) \in Second,
         Timegm(f) - Timegm(g) \in Second
  PROVE  /\ Difference(f, g) \in Fields /\ Timegm(Difference(f, g)) \in Second
         /\ Timegm(f) >= 0 /\ Timegm(g) >= 0 =>
              Timegm(Difference(f, g)) =
                IF Timegm(f) > Timegm(g) THEN Timegm(f) - Timegm(g) ELSE 0
<1> DEFINE a == TimeStampSecond(f)
           b == TimeStampSecond(g)
           d == Timegm(f) - Timegm(g)
<1>1. /\ a = IF Timegm(f) >= 0 THEN Timegm(f) ELSE Timegm(f) + Word
      /\ b = IF Timegm(g) >= 0 THEN Timegm(g) ELSE Timegm(g) + Word
      /\ a \in 0 .. Word - 1 /\ b \in 0 .. Word - 1
  BY UnsignedSecond
<1>2. Timegm(f) \in Second /\ Timegm(g) \in Second /\ d \in Second
  OBVIOUS
<1>3. Second \subseteq Int /\ 0 \in Second
  BY HalfWord DEF Second
<1> DEFINE x == Timegm(f)
           y == Timegm(g)
<1>4. d = x - y
  OBVIOUS
<1> HIDE DEF a, b, d, x, y
<1>5. x \in Second /\ y \in Second
  BY <1>2 DEF x, y
<1>6. /\ a = IF x >= 0 THEN x ELSE x + Word
      /\ b = IF y >= 0 THEN y ELSE y + Word
  BY <1>1 DEF x, y
<1>7. CASE a > b
  <2>1. a - b \in 0 .. Word - 1 /\ a - b = IF d >= 0 THEN d ELSE d + Word
    BY <1>1, <1>2, <1>4, <1>5, <1>6, <1>7, HalfWord DEF Second
  <2>2. FromSecond(a - b) \in Fields /\ Timegm(FromSecond(a - b)) = d
    BY <2>1, <1>2, FromUnsigned
  <2>3. Difference(f, g) = FromSecond(a - b)
    BY <1>7 DEF Difference, a, b
  <2>4. x >= 0 /\ y >= 0 => d = IF x > y THEN x - y ELSE 0
    BY <1>3, <1>4, <1>5, <1>6, <1>7
  <2> QED BY <2>2, <2>3, <2>4, <1>2 DEF x, y
<1>8. CASE ~(a > b)
  <2>1. 0 \in 0 .. Word - 1
    BY HalfWord
  <2>2. FromSecond(0) \in Fields /\ Timegm(FromSecond(0)) = 0
    BY <2>1, <1>3, FromUnsigned
  <2>3. Difference(f, g) = FromSecond(0)
    BY <1>8 DEF Difference, a, b
  <2>4. x >= 0 /\ y >= 0 => ~(x > y)
    BY <1>3, <1>5, <1>6, <1>8
  <2> QED BY <2>2, <2>3, <2>4, <1>3 DEF x, y
<1> QED BY <1>7, <1>8

\* One second, as operator++ and operator-- make it.
LEMMA OneSecond == FromSecond(1) \in Fields /\ Timegm(FromSecond(1)) = 1 /\ 1 \in Second
<1>1. 1 \in Second /\ 1 \in 0 .. Word - 1
  BY HalfWord DEF Second
<1> QED BY <1>1, FromUnsigned

LEMMA InitTimeInv == TimeInit => TimeInv
<1> SUFFICES ASSUME TimeInit
             PROVE  TimeInv
  OBVIOUS
<1> DEFINE f0 == [major |-> 0, minor |-> 0, micro |-> 0]
<1>1. f0 \in Fields
  BY HalfWord DEF Fields
<1>2. Timegm(f0) = (0 - Epoch) * Base + 0
  BY DEF Timegm
<1>3. (0 - Epoch) * Base + 0 = -(Epoch * Base)
  BY HalfWord
<1>4. Timegm(f0) \in Second
  BY <1>2, <1>3, HalfWord DEF Second, Earliest
<1>5. /\ clock \in 0 .. LastSecond /\ latest.op \in {"none", "plus", "minus"}
      /\ ArithmeticIsExact
  BY HalfWord DEF TimeInit, NoResult, ArithmeticIsExact
<1> QED BY <1>1, <1>4, <1>5 DEF TimeInit, TimeInv

\* A call sets one object to fields in the range, and has a result that is exact.
LEMMA SetToKeepsTimes ==
  ASSUME TimeInv, NEW o \in Moment, NEW f \in Fields, Timegm(f) \in Second, SetTo(o, f)
  PROVE  /\ time' \in [Moment -> Fields]
         /\ \A p \in Moment : Timegm(time'[p]) \in Second
         /\ time'[o] = f
  BY DEF TimeInv, SetTo

\* No fields are of a second before the earliest.
LEMMA TimeOfFields ==
  ASSUME NEW f \in Fields
  PROVE  Timegm(f) \in Int /\ Timegm(f) >= Earliest
<1>1. /\ f.major \in Nat /\ f.minor \in Nat
  BY HalfWord DEF Fields
<1>2. (f.major - Epoch) * Base = (f.major * Base) - (Epoch * Base)
  BY <1>1, HalfWord
<1>3. f.major * Base \in Nat
  BY <1>1, HalfWord
<1> HIDE DEF Fields
<1>4. Timegm(f) = ((f.major * Base) - (Epoch * Base)) + f.minor
  BY <1>2 DEF Timegm
<1> QED BY <1>1, <1>3, <1>4, HalfWord DEF Earliest

\* A sum that Plus() accepts is again within the seconds.
LEMMA PlusKeepsInv ==
  ASSUME TimeInv, NEW o \in Moment, NEW g, Timegm(g) \in Second, Plus(o, g)
  PROVE  TimeInv'
<1>1. Timegm(time[o]) \in Second
  BY DEF TimeInv
<1>2. Timegm(time[o]) + Timegm(g) \in Second
  BY DEF Plus
<1>3. /\ Sum(time[o], g) \in Fields
      /\ Timegm(Sum(time[o], g)) = Timegm(time[o]) + Timegm(g)
  BY <1>1, <1>2, SumIsExact
<1>4. /\ time' \in [Moment -> Fields]
      /\ \A p \in Moment : Timegm(time'[p]) \in Second
      /\ time'[o] = Sum(time[o], g)
  BY <1>2, <1>3, SetToKeepsTimes DEF Plus
<1>5. latest' = [op |-> "plus", left |-> Timegm(time[o]), right |-> Timegm(g),
                 result |-> Timegm(time[o]) + Timegm(g)]
  BY <1>3, <1>4 DEF Plus
<1>6. latest'.op \in {"none", "plus", "minus"} /\ ArithmeticIsExact'
  BY <1>5 DEF ArithmeticIsExact
<1> QED BY <1>4, <1>6 DEF TimeInv, Plus

LEMMA MinusKeepsInv ==
  ASSUME TimeInv, NEW o \in Moment, NEW g, Timegm(g) \in Second, Minus(o, g)
  PROVE  TimeInv'
<1> DEFINE d == Difference(time[o], g)
<1>1. Timegm(time[o]) \in Second
  BY DEF TimeInv
<1>2. Timegm(time[o]) - Timegm(g) \in Second
  BY DEF Minus
<1>3. /\ d \in Fields /\ Timegm(d) \in Second
      /\ Timegm(time[o]) >= 0 /\ Timegm(g) >= 0 =>
           Timegm(d) = IF Timegm(time[o]) > Timegm(g) THEN Timegm(time[o]) - Timegm(g) ELSE 0
  BY <1>1, <1>2, DifferenceIsExact
<1>4. /\ time' \in [Moment -> Fields]
      /\ \A p \in Moment : Timegm(time'[p]) \in Second
      /\ time'[o] = d
  BY <1>3, SetToKeepsTimes DEF Minus
<1>5. latest' = [op |-> "minus", left |-> Timegm(time[o]), right |-> Timegm(g),
                 result |-> Timegm(d)]
  BY <1>4 DEF Minus
<1> HIDE DEF d
<1>6. latest'.op \in {"none", "plus", "minus"} /\ ArithmeticIsExact'
  BY <1>3, <1>5 DEF ArithmeticIsExact
<1> QED BY <1>4, <1>6 DEF TimeInv, Minus

LEMMA TimeInvStep == TimeInv /\ [TimeNext]_timeVars => TimeInv'
<1> SUFFICES ASSUME TimeInv, [TimeNext]_timeVars
             PROVE  TimeInv'
  OBVIOUS
<1>1. ASSUME NEW o \in Moment, NEW f \in Fields, Timegm(f) \in Second, SetTo(o, f),
             latest' = NoResult, clock' = clock
      PROVE  TimeInv'
  <2>1. /\ time' \in [Moment -> Fields]
        /\ \A p \in Moment : Timegm(time'[p]) \in Second
    BY <1>1, SetToKeepsTimes
  <2> QED BY <1>1, <2>1 DEF TimeInv, NoResult, ArithmeticIsExact
<1>2. ASSUME NEW u \in 0 .. LastSecond
      PROVE  FromSecond(u) \in Fields /\ Timegm(FromSecond(u)) \in Second
  <2>1. u \in Second /\ u \in 0 .. Word - 1 /\ u >= 0
    BY HalfWord DEF Second
  <2> QED BY <2>1, FromUnsigned
<1>3. ASSUME NEW o \in Moment, ConstructFields(o)
      PROVE  TimeInv'
  <2>1. PICK f \in Fields : Timegm(f) <= LastSecond /\ SetTo(o, f)
    BY <1>3 DEF ConstructFields
  <2>2. Timegm(f) \in Second
    BY <2>1, TimeOfFields, HalfWord DEF Second
  <2> QED BY <1>1, <1>3, <2>1, <2>2 DEF ConstructFields
<1>4. ASSUME NEW o \in Moment, ConstructSecond(o)
      PROVE  TimeInv'
  BY <1>1, <1>2, <1>4 DEF ConstructSecond
<1>5. ASSUME NEW o \in Moment, NEW p \in Moment, Plus(o, time[p])
      PROVE  TimeInv'
  BY <1>5, PlusKeepsInv DEF TimeInv
<1>6. ASSUME NEW o \in Moment, NEW p \in Moment, Minus(o, time[p])
      PROVE  TimeInv'
  BY <1>6, MinusKeepsInv DEF TimeInv
<1>7. ASSUME NEW o \in Moment, Increment(o)
      PROVE  TimeInv'
  BY <1>7, PlusKeepsInv, OneSecond DEF Increment
<1>8. ASSUME NEW o \in Moment, Decrement(o)
      PROVE  TimeInv'
  BY <1>8, MinusKeepsInv, OneSecond DEF Decrement
<1>9. ASSUME NEW o \in Moment, GetUTCTime(o)
      PROVE  TimeInv'
  BY <1>1, <1>2, <1>9 DEF GetUTCTime, TimeInv
<1>10. ASSUME NEW o \in Moment, SetUTCTime(o)
       PROVE  TimeInv'
  <2>1. clock' \in 0 .. LastSecond
    BY <1>10, HalfWord DEF SetUTCTime, TimeInv, Second
  <2> QED BY <1>10, <2>1 DEF SetUTCTime, TimeInv, NoResult, ArithmeticIsExact
<1>11. CASE UNCHANGED timeVars
  BY <1>11 DEF timeVars, TimeInv, ArithmeticIsExact
<1> QED
  BY <1>3, <1>4, <1>5, <1>6, <1>7, <1>8, <1>9, <1>10, <1>11 DEF TimeNext

\* The microseconds of a time since 1970 that fit a word are what they should be.
LEMMA MicrosAreExact ==
  ASSUME NEW f \in Fields, Timegm(f) \in Second, MicrosFit(f)
  PROVE  TimeStampMicro(f) = (Timegm(f) * Precision) + f.micro
<1> DEFINE s == Timegm(f)
           m == (s * Precision) + f.micro
<1>1. s \in Nat /\ f.micro \in Nat /\ m < Word
  BY HalfWord DEF Second, Fields, MicrosFit
<1>2. TimeStampSecond(f) = s
  BY <1>1, UnsignedSecond
<1> HIDE DEF s
<1>3. s * Precision \in Nat
  BY <1>1, HalfWord
<1>4. m \in Int /\ m >= 0 /\ m < Word
  BY <1>1, <1>3
<1> HIDE DEF m
<1>5. m % Word = m
  BY <1>4, RemainderOfWord, HalfWord
<1> QED BY <1>2, <1>5 DEF TimeStampMicro, m, s

\* From 1970 on, the order of the fields is the order of microseconds that fit.
LEMMA OrderedByFields ==
  ASSUME NEW f \in Fields, NEW g \in Fields, Timegm(f) \in Second, Timegm(g) \in Second,
         MicrosFit(f), MicrosFit(g), ~LessThan(f, g)
  PROVE  TimeStampMicro(g) <= TimeStampMicro(f)
<1>1. /\ f.major \in Nat /\ g.major \in Nat /\ f.major >= g.major
      /\ f.minor \in Nat /\ g.minor \in Nat /\ f.minor >= g.minor
      /\ f.micro \in Nat /\ g.micro \in Nat /\ f.micro >= g.micro
  BY HalfWord DEF LessThan, Fields
<1>2. (g.major - Epoch) * Base <= (f.major - Epoch) * Base
  BY <1>1, HalfWord
<1>3. /\ (g.major - Epoch) * Base \in Int /\ (f.major - Epoch) * Base \in Int
  BY <1>1, HalfWord
<1>4. Timegm(g) <= Timegm(f) /\ Timegm(f) \in Nat /\ Timegm(g) \in Nat
  BY <1>1, <1>2, <1>3 DEF Timegm, MicrosFit
<1>5. Timegm(g) * Precision <= Timegm(f) * Precision
  BY <1>4, HalfWord
<1>6. Timegm(g) * Precision \in Nat /\ Timegm(f) * Precision \in Nat
  BY <1>4, HalfWord
<1>7. /\ TimeStampMicro(f) = (Timegm(f) * Precision) + f.micro
      /\ TimeStampMicro(g) = (Timegm(g) * Precision) + g.micro
  BY MicrosAreExact
<1> QED BY <1>1, <1>5, <1>6, <1>7

LEMMA OrderFollows == TimeInv => OrderIsOneSided
<1> SUFFICES ASSUME TimeInv, NEW o \in Moment, NEW p \in Moment,
                    MicrosFit(time[o]), MicrosFit(time[p])
             PROVE  /\ TimeStampMicro(time[o]) < TimeStampMicro(time[p])
                         => LessThan(time[o], time[p])
                    /\ AtMost(time[o], time[p])
                         => TimeStampMicro(time[o]) <= TimeStampMicro(time[p])
  BY DEF OrderIsOneSided
<1> DEFINE f == time[o]
           g == time[p]
<1>1. /\ f \in Fields /\ g \in Fields /\ Timegm(f) \in Second /\ Timegm(g) \in Second
  BY DEF TimeInv
<1>2. /\ ~LessThan(f, g) => TimeStampMicro(g) <= TimeStampMicro(f)
      /\ ~LessThan(g, f) => TimeStampMicro(f) <= TimeStampMicro(g)
  BY <1>1, OrderedByFields
<1>3. TimeStampMicro(f) \in Int /\ TimeStampMicro(g) \in Int
  <2>1. /\ TimeStampMicro(f) = (Timegm(f) * Precision) + f.micro
        /\ TimeStampMicro(g) = (Timegm(g) * Precision) + g.micro
    BY <1>1, MicrosAreExact
  <2>2. /\ Timegm(f) \in Int /\ Timegm(g) \in Int /\ f.micro \in Int /\ g.micro \in Int
    BY <1>1, HalfWord DEF Second, Fields
  <2> QED BY <2>1, <2>2, HalfWord
<1> QED BY <1>2, <1>3 DEF AtMost

\* Whatever the units of the fields and the width of a word that holds their seconds:
\* sums are exact on either side of 1970, differences since 1970 but for those before
\* it, and of two times since 1970 whose microseconds a word holds the earlier is less
\* than the later.
THEOREM TimeIsSoundAlways == TimeSpec => []TimeIsSound
<1>1. TimeInv => TimeIsSound
  BY OrderFollows DEF TimeInv, TimeIsSound
<1> QED
  BY <1>1, InitTimeInv, TimeInvStep, PTL DEF TimeSpec

-----------------------------------------------------------------------------
(* The services in one model. *)

\* The service that runs takes the steps of its own specification, and the others
\* none: what is proved of a service holds of it in the model that the runs check.
THEOREM PartsAreTheirServices ==
  Spec => JsonSpec /\ LoggerSpec /\ ManagerSpec /\ TimeSpec /\ AllocatorSpec
<1>1. Init => JsonInit /\ LoggerInit /\ ManagerInit /\ TimeInit /\ AllocatorInit
  BY DEF Init
<1>2. [Next]_serviceVars => [JsonNext]_jsonVars
  BY DEF Next, serviceVars
<1>3. [Next]_serviceVars => [LoggerNext]_loggerVars
  BY DEF Next, serviceVars
<1>4. [Next]_serviceVars => [ManagerNext]_managerVars
  BY DEF Next, serviceVars
<1>5. [Next]_serviceVars => [TimeNext]_timeVars
  BY DEF Next, serviceVars
<1>6. [Next]_serviceVars => [AllocatorNext]_allocatorVars
  BY DEF Next, serviceVars
<1> QED
  BY <1>1, <1>2, <1>3, <1>4, <1>5, <1>6, PTL
  DEF Spec, JsonSpec, LoggerSpec, ManagerSpec, TimeSpec, AllocatorSpec

\* The types of everything that the services keep, and the bounds that the code puts on
\* it: no more is written to a log file than was logged, the channel of the logger is
\* not overfilled, and what the objects of the other services refer to exists.
THEOREM BaseTypesCorrect == Spec => []BaseTypeOK
<1>1. LoggerSpec => []LoggerTypeOK
  BY InitCountsInv, CountsInvStep, CountsAreTyped, PTL DEF LoggerSpec
<1>2. ManagerSpec => []ManagerTypeOK
  <2>1. ManagerInv => ManagerTypeOK
    BY DEF ManagerInv
  <2> QED BY <2>1, InitManagerInv, ManagerInvStep, PTL DEF ManagerSpec
<1>3. TimeSpec => []TimeTypeOK
  <2>1. TimeInv => TimeTypeOK
    BY DEF TimeInv, TimeTypeOK
  <2> QED BY <2>1, InitTimeInv, TimeInvStep, PTL DEF TimeSpec
<1>4. AllocatorSpec => []AllocatorTypeOK
  <2>1. AllocatorInv => AllocatorTypeOK
    BY DEF AllocatorInv
  <2> QED BY <2>1, InitAllocatorInv, AllocatorInvStep, PTL DEF AllocatorSpec
<1>5. JsonTypeOK /\ LoggerTypeOK /\ ManagerTypeOK /\ TimeTypeOK /\ AllocatorTypeOK => BaseTypeOK
  BY DEF BaseTypeOK
<1> QED BY <1>1, <1>2, <1>3, <1>4, <1>5, JsonTypeCorrect, PartsAreTheirServices, PTL

\* What the run of the model checks on a small instance, but for DestroyReturns, holds
\* of the services together for every number of threads, objects, records and seconds.
THEOREM ServicesAreSound ==
  Spec => /\ [](JsonIsSound /\ LogIsSound /\ ManagerIsSound /\ TimeIsSound /\ OneAllocator)
          /\ CallsAreContained
BY PartsAreTheirServices, JsonIsSoundAlways, LogIsSoundAlways, ManagerIsSoundAlways,
   TimeIsSoundAlways, OneAllocatorAlways, CallsAreContainedAlways, PTL
=============================================================================
