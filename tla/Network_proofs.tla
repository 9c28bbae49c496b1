-------------------------- MODULE Network_proofs ---------------------------
(***************************************************************************)
(* Safety of the network library: its acceptors, the connections of its      *)
(* engine for any number of I/O threads, connections and Close() calls, and   *)
(* the parts in one model.  (The receive path is in a module of its own.)    *)
(***************************************************************************)
EXTENDS MCNetwork, ReceivePath_proofs, FiniteSetTheorems, SequenceTheorems

-----------------------------------------------------------------------------
(* The acceptors. *)

\* Only an acceptor that exists is registered; a half-done call is about the one
\* acceptor that the set and epoll may disagree on; and while nobody meddles, what
\* the dispatcher has in hand exists.
HalfDone(a) == call = <<"register", a>> \/ call = <<"erase", a>>
AcceptorCalls ==
  \A a \in Acceptor :
    /\ call = <<"register", a>> =>
         acceptorLife[a] = "made" /\ a \notin acceptorEpoll /\ a \in m_setAcceptor
    /\ call = <<"erase", a>> => a \notin acceptorEpoll
    /\ HalfDone(a) => m_setAcceptor \ {a} \subseteq acceptorEpoll \cup abandoned
AcceptorsInHand ==
  /\ \A a \in acceptorEpoll : acceptorLife[a] = "made"
  /\ ~meddled => \A a \in Acceptor :
       a \in acceptorEvents \/ using = <<"acceptor", a>> => acceptorLife[a] = "made"
  /\ ~dispatcherRuns => acceptorEvents = {} /\ using = Idle

AcceptorInv ==
  /\ AcceptorTypeOK
  /\ SetMatchesEpoll
  /\ QuietChangesAreSafe
  /\ AcceptorCalls
  /\ AcceptorsInHand

\* What half-done calls, and what the dispatcher holds, tell from one another.
LEMMA CallsAreTold ==
  /\ \A a \in Acceptor : /\ <<"register", a>> # Idle /\ <<"erase", a>> # Idle
                         /\ <<"acceptor", a>> # Idle
  /\ \A a, b \in Acceptor :
       /\ <<"register", a>> # <<"erase", b>>
       /\ <<"register", a>> = <<"register", b>> => a = b
       /\ <<"erase", a>> = <<"erase", b>> => a = b
       /\ <<"acceptor", a>> = <<"acceptor", b>> => a = b
<1>1. \A a \in Acceptor : /\ <<"register", a>> # Idle /\ <<"erase", a>> # Idle
                          /\ <<"acceptor", a>> # Idle
  BY DEF Idle
<1>2. \A a, b \in Acceptor : <<"register", a>> # <<"erase", b>>
  OBVIOUS
<1>3. \A a, b \in Acceptor :
       /\ <<"register", a>> = <<"register", b>> => a = b
       /\ <<"erase", a>> = <<"erase", b>> => a = b
       /\ <<"acceptor", a>> = <<"acceptor", b>> => a = b
  OBVIOUS
<1> QED BY <1>1, <1>2, <1>3

LEMMA InitAcceptorInv == AcceptorInit => AcceptorInv
<1> SUFFICES ASSUME AcceptorInit PROVE AcceptorInv
  OBVIOUS
<1> USE CallsAreTold
<1>1. AcceptorTypeOK
  BY DEF AcceptorInit, AcceptorTypeOK
<1>2. SetMatchesEpoll /\ QuietChangesAreSafe
  BY DEF AcceptorInit, SetMatchesEpoll, QuietChangesAreSafe
<1>3. AcceptorCalls /\ AcceptorsInHand
  BY DEF AcceptorInit, AcceptorCalls, AcceptorsInHand, HalfDone
<1> QED BY <1>1, <1>2, <1>3 DEF AcceptorInv

LEMMA AcceptorInvStep == AcceptorInv /\ [AcceptorNext]_acceptorVars => AcceptorInv'
<1> SUFFICES ASSUME AcceptorInv, [AcceptorNext]_acceptorVars
             PROVE  AcceptorInv'
  OBVIOUS
<1>0. /\ AcceptorTypeOK /\ SetMatchesEpoll /\ QuietChangesAreSafe
      /\ AcceptorCalls /\ AcceptorsInHand
  BY DEF AcceptorInv
<1> USE CallsAreTold DEF dispatcherVars, HalfDone
<1>1. CASE StartDispatcher \/ StopDispatcher
  <2>1. /\ UNCHANGED <<acceptorLife, m_setAcceptor, acceptorEpoll, call, acceptorEvents,
                      using, abandoned>>
        /\ meddled' = meddled /\ usedFreed' = usedFreed
    BY <1>1 DEF StartDispatcher, StopDispatcher
  <2>2. acceptorEvents = {} /\ using = Idle
    BY <1>0, <1>1 DEF StartDispatcher, StopDispatcher, AcceptorsInHand
  <2>3. dispatcherRuns' \in BOOLEAN
    BY <1>1 DEF StartDispatcher, StopDispatcher
  <2>4. AcceptorTypeOK'
    BY <1>0, <2>1, <2>3 DEF AcceptorTypeOK
  <2>5. (SetMatchesEpoll /\ QuietChangesAreSafe /\ AcceptorCalls)'
    BY <1>0, <2>1 DEF SetMatchesEpoll, QuietChangesAreSafe, AcceptorCalls
  <2>6. AcceptorsInHand'
    BY <1>0, <2>1, <2>2 DEF AcceptorsInHand
  <2> QED BY <2>4, <2>5, <2>6 DEF AcceptorInv
<1>2. CASE WaitForAcceptors
  BY <1>0, <1>2 DEF WaitForAcceptors, AcceptorInv, AcceptorTypeOK, SetMatchesEpoll,
     QuietChangesAreSafe, AcceptorCalls, AcceptorsInHand
<1>3. ASSUME NEW a \in Acceptor, CreateAcceptor(a)
      PROVE  AcceptorInv'
  BY <1>0, <1>3 DEF CreateAcceptor, AcceptorInv, AcceptorTypeOK, SetMatchesEpoll,
     QuietChangesAreSafe, AcceptorCalls, AcceptorsInHand
<1>4. ASSUME NEW a \in Acceptor, StartAcceptor(a)
      PROVE  AcceptorInv'
  BY <1>0, <1>4 DEF StartAcceptor, Meddle, AcceptorInv, AcceptorTypeOK, SetMatchesEpoll,
     QuietChangesAreSafe, AcceptorCalls, AcceptorsInHand
<1>5. ASSUME NEW a \in Acceptor, RegisterAcceptor(a)
      PROVE  AcceptorInv'
  BY <1>0, <1>5 DEF RegisterAcceptor, AcceptorInv, AcceptorTypeOK, SetMatchesEpoll,
     QuietChangesAreSafe, AcceptorCalls, AcceptorsInHand
<1>6. ASSUME NEW a \in Acceptor, StopAcceptor(a)
      PROVE  AcceptorInv'
  BY <1>0, <1>6 DEF StopAcceptor, Meddle, AcceptorInv, AcceptorTypeOK, SetMatchesEpoll,
     QuietChangesAreSafe, AcceptorCalls, AcceptorsInHand
<1>7. ASSUME NEW a \in Acceptor, EraseAcceptor(a)
      PROVE  AcceptorInv'
  BY <1>0, <1>7 DEF EraseAcceptor, AcceptorInv, AcceptorTypeOK, SetMatchesEpoll,
     QuietChangesAreSafe, AcceptorCalls, AcceptorsInHand
<1>8. ASSUME NEW a \in Acceptor, DestroyAcceptor(a)
      PROVE  AcceptorInv'
  BY <1>0, <1>8 DEF DestroyAcceptor, Meddle, AcceptorInv, AcceptorTypeOK, SetMatchesEpoll,
     QuietChangesAreSafe, AcceptorCalls, AcceptorsInHand
<1>9. ASSUME NEW a \in Acceptor, LookUpAcceptor(a)
      PROVE  AcceptorInv'
  BY <1>0, <1>9 DEF LookUpAcceptor, AcceptorInv, AcceptorTypeOK, SetMatchesEpoll,
     QuietChangesAreSafe, AcceptorCalls, AcceptorsInHand
<1>10. ASSUME NEW a \in Acceptor, ProcessAcceptorEvent(a)
      PROVE  AcceptorInv'
  BY <1>0, <1>10 DEF ProcessAcceptorEvent, AcceptorInv, AcceptorTypeOK, SetMatchesEpoll,
     QuietChangesAreSafe, AcceptorCalls, AcceptorsInHand
<1>11. CASE UNCHANGED acceptorVars
  BY <1>0, <1>11 DEF acceptorVars, AcceptorInv, AcceptorTypeOK, SetMatchesEpoll,
     QuietChangesAreSafe, AcceptorCalls, AcceptorsInHand
<1> QED
  BY <1>1, <1>2, <1>3, <1>4, <1>5, <1>6, <1>7, <1>8, <1>9, <1>10, <1>11 DEF AcceptorNext

\* Whatever is started, stopped, destroyed and made anew at the same address, and
\* however registering fails: the set and epoll agree between two calls, and only
\* a call made while the dispatcher runs can leave it an acceptor that is gone.
THEOREM AcceptorsAreSoundAlways == AcceptorSpec => []AcceptorsAreSound
<1>1. AcceptorInv => AcceptorsAreSound
  BY DEF AcceptorInv, AcceptorsAreSound
<1> QED
  BY <1>1, InitAcceptorInv, AcceptorInvStep, PTL DEF AcceptorSpec

-----------------------------------------------------------------------------
(* Queues of tasks: how many disconnect a connection, whether some connect it, *)
(* and whether those come first.                                             *)

Marks(q, t) == {k \in 1 .. Len(q) : q[k] = t}
Disconnects(q, c) == Queued(q, "kDoDisconnect", c)
Connects(t, c) == t.pCtx = c /\ t.type # "kDoDisconnect"
HasConnect(q, c) == \E k \in 1 .. Len(q) : Connects(q[k], c)

\* Every task that connects c comes before every one that disconnects it.
InOrder(q, c) ==
  \A j, k \in 1 .. Len(q) : q[j] = Task("kDoDisconnect", c) /\ Connects(q[k], c) => k < j

TaskTypes == {"kAddConnection", "kConnected", "kDoDisconnect"}

\* Tasks are told apart by their type and their connection.
LEMMA TasksAreTold ==
  ASSUME NEW type \in TaskTypes, NEW d \in Connection
  PROVE  /\ Task(type, d) \in EngineTasks
         /\ Task(type, d).type = type /\ Task(type, d).pCtx = d
         /\ \A c \in Connection :
              /\ Task(type, d) = Task("kDoDisconnect", c) <=> type = "kDoDisconnect" /\ c = d
              /\ Connects(Task(type, d), c) <=> type # "kDoDisconnect" /\ c = d
  BY DEF Task, EngineTasks, TaskTypes, Connects

\* How the places of a task change with the queue.
LEMMA MarksAreFinite ==
  ASSUME NEW S, NEW q \in Seq(S), NEW t
  PROVE  /\ IsFiniteSet(Marks(q, t))
         /\ Cardinality(Marks(q, t)) \in Nat
         /\ Cardinality(Marks(q, t)) = 0 <=> \A k \in 1 .. Len(q) : q[k] # t
<1>1. Len(q) \in Nat
  BY LenProperties
<1>2. IsFiniteSet(1 .. Len(q))
  BY <1>1, FS_Interval
<1>3. Marks(q, t) \in SUBSET (1 .. Len(q))
  BY DEF Marks
<1>4. IsFiniteSet(Marks(q, t))
  BY <1>2, <1>3, FS_Subset
<1>5. Cardinality(Marks(q, t)) \in Nat
  BY <1>4, FS_CardinalityType
<1>6. Cardinality(Marks(q, t)) = 0 <=> Marks(q, t) = {}
  BY <1>4, FS_EmptySet
<1> QED BY <1>4, <1>5, <1>6 DEF Marks

\* A task put at the back counts once more, and only itself.
LEMMA MarksOfAppend ==
  ASSUME NEW S, NEW q \in Seq(S), NEW e \in S, NEW t
  PROVE  Cardinality(Marks(Append(q, e), t)) =
           IF e = t THEN Cardinality(Marks(q, t)) + 1 ELSE Cardinality(Marks(q, t))
<1>1. /\ Len(q) \in Nat /\ Len(Append(q, e)) = Len(q) + 1
      /\ \A k \in 1 .. Len(q) : Append(q, e)[k] = q[k]
      /\ Append(q, e)[Len(q) + 1] = e
  BY AppendProperties, LenProperties
<1>2. 1 .. Len(q) + 1 = (1 .. Len(q)) \cup {Len(q) + 1}
  BY <1>1
<1>3. Marks(Append(q, e), t) =
        IF e = t THEN Marks(q, t) \cup {Len(q) + 1} ELSE Marks(q, t)
  BY <1>1, <1>2 DEF Marks
<1>4. Len(q) + 1 \notin Marks(q, t)
  BY <1>1 DEF Marks
<1> QED BY <1>3, <1>4, MarksAreFinite, FS_AddElement

\* A task taken from the front counts once less, and only itself.
LEMMA MarksOfTail ==
  ASSUME NEW S, NEW q \in Seq(S), q # << >>, NEW t
  PROVE  Cardinality(Marks(q, t)) =
           IF Head(q) = t THEN Cardinality(Marks(Tail(q), t)) + 1
                          ELSE Cardinality(Marks(Tail(q), t))
<1> DEFINE rest == Marks(Tail(q), t)
           all == Marks(q, t)
           f == [k \in rest |-> k + 1]
<1>1. /\ Len(q) \in Nat \ {0} /\ Len(Tail(q)) = Len(q) - 1
      /\ Tail(q) \in Seq(S) /\ Head(q) = q[1]
      /\ \A k \in 1 .. Len(Tail(q)) : Tail(q)[k] = q[k + 1]
  BY HeadTailProperties, EmptySeq
<1>2. /\ \A k \in rest : k \in Int /\ k + 1 \in all \ {1}
      /\ \A k \in all \ {1} : k \in Int /\ k - 1 \in rest /\ k = (k - 1) + 1
  BY <1>1 DEF Marks
<1>3. f \in Bijection(rest, all \ {1})
  <2>1. f \in [rest -> all \ {1}]
    BY <1>2
  <2>2. \A j, k \in rest : f[j] = f[k] => j = k
    BY <1>2
  <2>3. \A k \in all \ {1} : \E j \in rest : f[j] = k
    <3> SUFFICES ASSUME NEW k \in all \ {1} PROVE \E j \in rest : f[j] = k
      OBVIOUS
    <3>1. k - 1 \in rest /\ f[k - 1] = k
      BY <1>2
    <3> QED BY <3>1
  <2> HIDE DEF rest, all, f
  <2> QED BY <2>1, <2>2, <2>3 DEF Bijection, Injection, Surjection, IsInjective
<1>4. IsFiniteSet(rest) /\ IsFiniteSet(all) /\ Cardinality(all) \in Nat
  BY <1>1, MarksAreFinite
<1>5. Cardinality(all \ {1}) = Cardinality(rest)
  BY <1>3, <1>4, FS_Bijection DEF ExistsBijection
<1>6. Cardinality(all \ {1}) =
        IF 1 \in all THEN Cardinality(all) - 1 ELSE Cardinality(all)
  BY <1>4, FS_RemoveElement
<1>7. 1 \in all <=> Head(q) = t
  BY <1>1 DEF Marks
<1> HIDE DEF rest, all, f
<1>8. Cardinality(all) = IF Head(q) = t THEN Cardinality(rest) + 1 ELSE Cardinality(rest)
  BY <1>4, <1>5, <1>6, <1>7
<1> QED BY <1>8 DEF rest, all

\* An empty queue holds nothing for a connection.
LEMMA EmptyQueue ==
  ASSUME NEW c
  PROVE  Disconnects(<< >>, c) = 0 /\ ~HasConnect(<< >>, c) /\ InOrder(<< >>, c)
<1>1. Marks(<< >>, Task("kDoDisconnect", c)) = {}
  BY DEF Marks
<1>2. Disconnects(<< >>, c) = 0
  BY <1>1, FS_EmptySet DEF Disconnects, Queued, Marks
<1>3. ~HasConnect(<< >>, c) /\ InOrder(<< >>, c)
  BY DEF HasConnect, InOrder
<1> QED BY <1>2, <1>3

\* The tasks that detach a connection are counted by a natural number, 0 when there is none.
LEMMA QueueCounts ==
  ASSUME NEW S, NEW q \in Seq(S), NEW c
  PROVE  /\ Disconnects(q, c) \in Nat
         /\ Disconnects(q, c) = 0 <=> \A k \in 1 .. Len(q) : q[k] # Task("kDoDisconnect", c)
  BY MarksAreFinite DEF Disconnects, Queued, Marks

\* r is q with n tasks that disconnect d at its back: nothing is out of order.
Posted(q, r, d, n) ==
  /\ r \in Seq(EngineTasks)
  /\ \A c \in Connection :
       /\ Disconnects(r, c) = IF c = d THEN Disconnects(q, c) + n ELSE Disconnects(q, c)
       /\ HasConnect(r, c) <=> HasConnect(q, c)
       /\ InOrder(q, c) => InOrder(r, c)

\* Posting one task that disconnects.
LEMMA PostDisconnect ==
  ASSUME NEW q \in Seq(EngineTasks), NEW d \in Connection
  PROVE  Posted(q, Append(q, Task("kDoDisconnect", d)), d, 1)
<1> DEFINE e == Task("kDoDisconnect", d)
           r == Append(q, e)
<1>1. "kDoDisconnect" \in TaskTypes
  BY DEF TaskTypes
<1>2. /\ e \in EngineTasks
      /\ \A c \in Connection : /\ e = Task("kDoDisconnect", c) <=> c = d
                               /\ ~Connects(e, c)
  BY <1>1, TasksAreTold
<1> HIDE DEF e
<1>3. /\ r \in Seq(EngineTasks) /\ Len(q) \in Nat /\ Len(r) = Len(q) + 1
      /\ \A k \in 1 .. Len(q) : r[k] = q[k]
      /\ r[Len(q) + 1] = e
  BY <1>2, AppendProperties, LenProperties
<1>4. ASSUME NEW c \in Connection
      PROVE  Disconnects(r, c) = IF c = d THEN Disconnects(q, c) + 1 ELSE Disconnects(q, c)
  <2> DEFINE t == Task("kDoDisconnect", c)
  <2>1. Cardinality(Marks(r, t)) =
          IF e = t THEN Cardinality(Marks(q, t)) + 1 ELSE Cardinality(Marks(q, t))
    BY <1>2, MarksOfAppend
  <2>2. Disconnects(r, c) = Cardinality(Marks(r, t)) /\ Disconnects(q, c) = Cardinality(Marks(q, t))
    BY DEF Disconnects, Queued, Marks
  <2> QED BY <1>2, <2>1, <2>2
<1> HIDE DEF r
<1>5. 1 .. Len(r) = (1 .. Len(q)) \cup {Len(q) + 1}
  BY <1>3
<1>6. \A c \in Connection : HasConnect(r, c) <=> HasConnect(q, c)
  BY <1>2, <1>3, <1>5 DEF HasConnect
<1>7. ASSUME NEW c \in Connection, InOrder(q, c) PROVE InOrder(r, c)
  BY <1>2, <1>3, <1>5, <1>7 DEF InOrder
<1> HIDE DEF e
<1>8. Posted(q, r, d, 1)
  BY <1>3, <1>4, <1>6, <1>7 DEF Posted
<1> QED BY <1>8 DEF r, e

\* A task that connects must not be posted after one that disconnects.
LEMMA PostConnect ==
  ASSUME NEW q \in Seq(EngineTasks), NEW d \in Connection,
         NEW type \in {"kAddConnection", "kConnected"}
  PROVE  LET r == Append(q, Task(type, d))
         IN  /\ r \in Seq(EngineTasks)
             /\ \A c \in Connection :
                  /\ Disconnects(r, c) = Disconnects(q, c)
                  /\ c # d => (HasConnect(r, c) <=> HasConnect(q, c))
                  /\ InOrder(q, c) /\ (c = d => Disconnects(q, c) = 0) => InOrder(r, c)
<1> DEFINE e == Task(type, d)
           r == Append(q, e)
<1>1. type \in TaskTypes /\ type # "kDoDisconnect"
  BY DEF TaskTypes
<1>2. /\ e \in EngineTasks
      /\ \A c \in Connection : /\ e # Task("kDoDisconnect", c)
                               /\ Connects(e, c) <=> c = d
  BY <1>1, TasksAreTold
<1> HIDE DEF e
<1>3. /\ r \in Seq(EngineTasks) /\ Len(q) \in Nat /\ Len(r) = Len(q) + 1
      /\ \A k \in 1 .. Len(q) : r[k] = q[k]
      /\ r[Len(q) + 1] = e
  BY <1>2, AppendProperties, LenProperties
<1>4. \A c \in Connection : Disconnects(r, c) = Disconnects(q, c)
  BY <1>2, MarksOfAppend DEF Disconnects, Queued, Marks
<1> HIDE DEF r
<1>5. 1 .. Len(r) = (1 .. Len(q)) \cup {Len(q) + 1}
  BY <1>3
<1>6. \A c \in Connection : c # d => (HasConnect(r, c) <=> HasConnect(q, c))
  BY <1>2, <1>3, <1>5 DEF HasConnect
<1>7. ASSUME NEW c \in Connection, InOrder(q, c), c = d => Disconnects(q, c) = 0
      PROVE  InOrder(r, c)
  <2>1. c = d => \A k \in 1 .. Len(q) : q[k] # Task("kDoDisconnect", c)
    BY <1>7, QueueCounts
  <2> QED BY <1>2, <1>3, <1>5, <1>7, <2>1 DEF InOrder
<1> QED BY <1>3, <1>4, <1>6, <1>7 DEF r, e

\* Taking the first task.
LEMMA TakeTask ==
  ASSUME NEW q \in Seq(EngineTasks), q # << >>
  PROVE  /\ Tail(q) \in Seq(EngineTasks)
         /\ Head(q) \in EngineTasks
         /\ \A c \in Connection :
              /\ Disconnects(q, c) = IF Head(q) = Task("kDoDisconnect", c)
                                     THEN Disconnects(Tail(q), c) + 1
                                     ELSE Disconnects(Tail(q), c)
              /\ HasConnect(Tail(q), c) \/ Connects(Head(q), c) <=> HasConnect(q, c)
              /\ InOrder(q, c) => InOrder(Tail(q), c)
              /\ InOrder(q, c) /\ Head(q) = Task("kDoDisconnect", c) => ~HasConnect(q, c)
<1> DEFINE r == Tail(q)
<1>1. /\ Len(q) \in Nat \ {0} /\ Len(r) = Len(q) - 1
      /\ r \in Seq(EngineTasks) /\ Head(q) = q[1] /\ Head(q) \in EngineTasks
      /\ \A k \in 1 .. Len(r) : r[k] = q[k + 1]
  BY HeadTailProperties, EmptySeq
<1>2. \A c \in Connection :
        Disconnects(q, c) = IF Head(q) = Task("kDoDisconnect", c)
                            THEN Disconnects(r, c) + 1 ELSE Disconnects(r, c)
  BY MarksOfTail DEF Disconnects, Queued, Marks
<1> HIDE DEF r
<1>3. ASSUME NEW c \in Connection
      PROVE  HasConnect(r, c) \/ Connects(Head(q), c) <=> HasConnect(q, c)
  <2>1. HasConnect(r, c) => HasConnect(q, c)
    BY <1>1 DEF HasConnect
  <2>2. Connects(Head(q), c) => HasConnect(q, c)
    BY <1>1 DEF HasConnect
  <2>3. ASSUME HasConnect(q, c), ~Connects(Head(q), c) PROVE HasConnect(r, c)
    <3>1. PICK k \in 1 .. Len(q) : Connects(q[k], c)
      BY <2>3 DEF HasConnect
    <3>2. k # 1
      BY <1>1, <2>3, <3>1
    <3>3. k - 1 \in 1 .. Len(r) /\ r[k - 1] = q[k]
      BY <1>1, <3>2
    <3> QED BY <3>1, <3>3 DEF HasConnect
  <2> QED BY <2>1, <2>2, <2>3
<1>4. ASSUME NEW c \in Connection, InOrder(q, c) PROVE InOrder(r, c)
  <2> SUFFICES ASSUME NEW j \in 1 .. Len(r), NEW k \in 1 .. Len(r),
                      r[j] = Task("kDoDisconnect", c), Connects(r[k], c)
               PROVE  k < j
    BY DEF InOrder
  <2>1. j + 1 \in 1 .. Len(q) /\ k + 1 \in 1 .. Len(q)
    BY <1>1
  <2>2. q[j + 1] = r[j] /\ q[k + 1] = r[k]
    BY <1>1
  <2>3. k + 1 < j + 1
    BY <1>4, <2>1, <2>2 DEF InOrder
  <2> QED BY <2>3
<1>5. ASSUME NEW c \in Connection, InOrder(q, c), Head(q) = Task("kDoDisconnect", c)
      PROVE  ~HasConnect(q, c)
  <2> SUFFICES ASSUME NEW k \in 1 .. Len(q), Connects(q[k], c) PROVE FALSE
    BY DEF HasConnect
  <2>1. 1 \in 1 .. Len(q) /\ q[1] = Task("kDoDisconnect", c)
    BY <1>1, <1>5
  <2>2. k < 1
    BY <1>5, <2>1 DEF InOrder
  <2> QED BY <2>2
<1> QED BY <1>1, <1>2, <1>3, <1>4, <1>5 DEF r

\* The event of a socket posts up to two of them.
LEMMA PostDisconnects ==
  ASSUME NEW q \in Seq(EngineTasks), NEW d \in Connection, NEW n \in 0 .. 2
  PROVE  Posted(q, q \o [k \in 1 .. n |-> Task("kDoDisconnect", d)], d, n)
<1> DEFINE e == Task("kDoDisconnect", d)
           r == q \o [k \in 1 .. n |-> e]
<1>1. e \in EngineTasks
  <2>1. "kDoDisconnect" \in TaskTypes
    BY DEF TaskTypes
  <2> QED BY <2>1, TasksAreTold
<1>2. \A c \in Connection : Disconnects(q, c) \in Nat
  BY QueueCounts
<1>3. CASE n = 0
  <2>1. [k \in 1 .. n |-> e] = << >>
    BY <1>3
  <2>2. r = q
    BY <2>1, ConcatEmptySeq
  <2>3. Posted(q, q, d, 0)
    BY <1>2 DEF Posted
  <2> QED BY <1>3, <2>2, <2>3
<1>4. CASE n = 1
  <2>1. [k \in 1 .. n |-> e] = <<e>>
    BY <1>4
  <2>2. r = Append(q, e)
    BY <1>1, <2>1, AppendIsConcat
  <2>3. Posted(q, Append(q, e), d, 1)
    BY PostDisconnect
  <2> QED BY <1>4, <2>2, <2>3
<1>5. CASE n = 2
  <2> DEFINE p == Append(q, e)
  <2>1. Posted(q, p, d, 1)
    BY PostDisconnect
  <2>2. p \in Seq(EngineTasks)
    BY <2>1 DEF Posted
  <2>3. r = Append(p, e)
    <3>1. [k \in 1 .. n |-> e] = <<e>> \o <<e>>
      BY <1>5
    <3>2. <<e>> \in Seq(EngineTasks)
      BY <1>1
    <3>3. r = (q \o <<e>>) \o <<e>>
      BY <3>1, <3>2, ConcatAssociative
    <3>4. p = q \o <<e>>
      BY <1>1, AppendIsConcat
    <3>5. Append(p, e) = p \o <<e>>
      BY <1>1, <2>2, AppendIsConcat
    <3> QED BY <3>3, <3>4, <3>5
  <2>4. Posted(p, Append(p, e), d, 1)
    BY <2>2, PostDisconnect
  <2> HIDE DEF p
  <2>5. Posted(p, r, d, 1)
    BY <2>3, <2>4
  <2> HIDE DEF r
  <2>6. Posted(q, r, d, 2)
    BY <1>2, <2>1, <2>5 DEF Posted
  <2> QED BY <1>5, <2>6 DEF r
<1> QED BY <1>3, <1>4, <1>5

-----------------------------------------------------------------------------
(* The connections of the engine. *)

\* Only the first I/O dispatcher is asked to disconnect.
IoTasksOf(i) ==
  [type : {"kAddConnection"} \cup (IF i = 0 THEN {"kDoDisconnect"} ELSE {}),
   pCtx : Connection]
IoTasks == \A i \in Io : ioQueue[i] \in Seq(IoTasksOf(i))

\* A socket lives as its connection does, and is closed when the application is told.
SocketOf(c) ==
  /\ fd[c] = "none" <=> life[c] = "none"
  /\ fd[c] = "closed" <=> told[c] = "disconnected"
  /\ life[c] = "destroyed" => told[c] = "disconnected"

\* A Close() is with the event dispatcher, with the first I/O dispatcher, answered,
\* or lost to Stop(); and the application is told by an answer.
ClosesOf(c) ==
  /\ detached[c] + Disconnects(eventQueue, c) <= closes[c]
  /\ detached[c] = answered[c] + Disconnects(ioQueue[0], c)
  /\ told[c] = "disconnected" => answered[c] > 0

\* The event dispatcher hears of the connect() before it hears of a Close(), and
\* no connection is detached before it is attached.
ConnectOf(c) ==
  /\ InOrder(eventQueue, c)
  /\ HasConnect(eventQueue, c) \/ attaching = c =>
       life[c] # "none" /\ ~m_bIsSyncConnect[c] /\ detached[c] = 0

\* A single I/O dispatcher keeps that order, and is done with a connection that the
\* application has been told is disconnected.
SingleIoOf(c) ==
  ioThreads = 1 =>
    /\ InOrder(ioQueue[0], c)
    /\ told[c] = "disconnected" =>
         ~HasConnect(ioQueue[0], c) /\ c \notin ioEpoll[0] /\ c \notin batch[0]

Known(c) == SocketOf(c) /\ ClosesOf(c) /\ ConnectOf(c) /\ SingleIoOf(c)

EngineInv ==
  /\ EngineTypeOK
  /\ IoTasks
  /\ \A c \in Connection : Known(c)
  /\ DestroyIsSafe

\* What the invariant says of the queues and of each connection, read off once.
LEMMA EngineFacts ==
  ASSUME EngineInv
  PROVE  /\ ioThreads \in Nat \ {0} /\ 0 \in Io /\ Event \notin Io
         /\ eventQueue \in Seq(EngineTasks) /\ ioQueue[0] \in Seq(EngineTasks)
         /\ \A c \in Connection :
              /\ SocketOf(c) /\ ClosesOf(c) /\ ConnectOf(c) /\ SingleIoOf(c)
              /\ closes[c] \in Nat /\ detached[c] \in Nat /\ answered[c] \in Nat
              /\ Disconnects(eventQueue, c) \in Nat
              /\ Disconnects(ioQueue[0], c) \in Nat
<1>1. EngineTypeOK /\ \A c \in Connection : Known(c)
  BY DEF EngineInv
<1>2. ioThreads \in Nat \ {0}
  BY <1>1, EngineAssumption DEF EngineTypeOK
<1>3. 0 \in Io /\ Event \notin Io
  BY <1>2 DEF Io, Event
<1>4. eventQueue \in Seq(EngineTasks) /\ ioQueue[0] \in Seq(EngineTasks)
  BY <1>1, <1>3 DEF EngineTypeOK
<1>5. \A c \in Connection :
        closes[c] \in Nat /\ detached[c] \in Nat /\ answered[c] \in Nat
  BY <1>1, EngineAssumption DEF EngineTypeOK
<1> QED BY <1>1, <1>2, <1>3, <1>4, <1>5, QueueCounts DEF Known

\* Where nothing destroyed is used, there is nothing to show of it.
LEMMA StaysSafe ==
  ASSUME Sound, dangling' = dangling
  PROVE  DestroyIsSafe'
  BY DEF Sound, DestroyIsSafe

\* What a step leaves alone of a connection.
LEMMA SocketStays ==
  ASSUME NEW c, SocketOf(c), life'[c] = life[c], fd'[c] = fd[c], told'[c] = told[c]
  PROVE  SocketOf(c)'
  BY DEF SocketOf

\* What is known of the closes of c depends on its counts and its tasks alone;
LEMMA ClosesStay ==
  ASSUME NEW c, ClosesOf(c), closes'[c] = closes[c], detached'[c] = detached[c],
         answered'[c] = answered[c], told'[c] = told[c],
         Disconnects(eventQueue', c) = Disconnects(eventQueue, c),
         Disconnects(ioQueue'[0], c) = Disconnects(ioQueue[0], c)
  PROVE  ClosesOf(c)'
  BY DEF ClosesOf

\* what is known of its connect, on its life and on the order of its tasks;
LEMMA ConnectStays ==
  ASSUME NEW c, ConnectOf(c), life'[c] = life[c],
         m_bIsSyncConnect'[c] = m_bIsSyncConnect[c], detached'[c] = detached[c],
         attaching' = attaching,
         HasConnect(eventQueue', c) => HasConnect(eventQueue, c),
         InOrder(eventQueue, c) => InOrder(eventQueue', c)
  PROVE  ConnectOf(c)'
  BY DEF ConnectOf

\* and what holds for one I/O thread, on that thread's queue, epoll and batch.
LEMMA SingleIoStays ==
  ASSUME NEW c, SingleIoOf(c), ioThreads' = ioThreads, told'[c] = told[c],
         HasConnect(ioQueue'[0], c) => HasConnect(ioQueue[0], c),
         InOrder(ioQueue[0], c) => InOrder(ioQueue'[0], c),
         c \in ioEpoll'[0] => c \in ioEpoll[0],
         c \in batch'[0] => c \in batch[0]
  PROVE  SingleIoOf(c)'
  BY DEF SingleIoOf

\* Asking the first I/O dispatcher to detach a connection.
LEMMA DetachTasks ==
  ASSUME EngineInv, NEW d \in Connection, Detach(d), ioThreads' = ioThreads
  PROVE  /\ IoTasks'
         /\ ioQueue' \in [Io -> Seq(EngineTasks)]
         /\ Posted(ioQueue[0], ioQueue'[0], d, 1)
<1> DEFINE e == Task("kDoDisconnect", d)
<1>1. ioQueue \in [Io -> Seq(EngineTasks)] /\ ioQueue' = [ioQueue EXCEPT ![0] = Append(@, e)]
  BY DEF Detach, EngineInv, EngineTypeOK
<1>2. Posted(ioQueue[0], ioQueue'[0], d, 1)
  BY <1>1, PostDisconnect, EngineFacts
<1>3. ioQueue' \in [Io -> Seq(EngineTasks)]
  BY <1>1, <1>2 DEF Posted
<1>4. e \in IoTasksOf(0)
  BY DEF Task, IoTasksOf
<1>5. ioQueue[0] \in Seq(IoTasksOf(0))
  BY EngineFacts DEF EngineInv, IoTasks
<1>6. Append(ioQueue[0], e) \in Seq(IoTasksOf(0))
  BY <1>4, <1>5, AppendProperties
<1>7. \A i \in Io : ioQueue'[i] = IF i = 0 THEN Append(ioQueue[0], e) ELSE ioQueue[i]
  BY <1>1
<1>8. IoTasks'
  BY <1>6, <1>7 DEF IoTasks, Io, EngineInv
<1> QED BY <1>2, <1>3, <1>8

LEMMA CloseStep ==
  ASSUME EngineInv, NEW d \in Connection, Close(d)
  PROVE  EngineInv'
<1> DEFINE e == Task("kDoDisconnect", d)
<1>0. /\ EngineTypeOK /\ IoTasks /\ Sound
      /\ UNCHANGED <<ioThreads, lifeVars, answered, nextIo, epollVars, threadVars,
                     alive, stops, dangling>>
      /\ life[d] = "made" /\ fd[d] = "open" /\ closes[d] < MaxClose
      /\ closes' = [closes EXCEPT ![d] = @ + 1]
  BY DEF EngineInv, Close, CountClose
<1>d. DestroyIsSafe'
  BY <1>0, StaysSafe
<1> USE DEF lifeVars, epollVars, threadVars
<1>a. closes[d] + 1 \in 0 .. MaxClose
  BY <1>0, EngineFacts, EngineAssumption
<1>b. \A c \in Connection : closes'[c] = IF c = d THEN closes[c] + 1 ELSE closes[c]
  BY <1>0 DEF EngineTypeOK
<1>1. CASE m_bIsSyncConnect[d]
  <2>1. Detach(d) /\ eventQueue' = eventQueue
    BY <1>1 DEF Close
  <2>2. /\ IoTasks'
        /\ ioQueue' \in [Io -> Seq(EngineTasks)]
        /\ Posted(ioQueue[0], ioQueue'[0], d, 1)
    BY <1>0, <2>1, DetachTasks
  <2>3. detached' = [detached EXCEPT ![d] = @ + 1]
    BY <2>1 DEF Detach
  <2>4. detached[d] + 1 \in 0 .. MaxClose
    BY <1>0, EngineFacts, EngineAssumption DEF ClosesOf
  <2>5. EngineTypeOK'
    BY <1>0, <1>a, <2>1, <2>2, <2>3, <2>4 DEF EngineTypeOK, Io, Dispatcher
  <2>6. \A c \in Connection : detached'[c] = IF c = d THEN detached[c] + 1 ELSE detached[c]
    BY <1>0, <2>3 DEF EngineTypeOK
  <2>7. ASSUME NEW c \in Connection PROVE Known(c)'
    <3>1. SocketOf(c)'
      BY <1>0, EngineFacts, SocketStays
    <3>2. ClosesOf(c)'
      <4>1. /\ closes'[c] = IF c = d THEN closes[c] + 1 ELSE closes[c]
            /\ detached'[c] = IF c = d THEN detached[c] + 1 ELSE detached[c]
            /\ Disconnects(ioQueue'[0], c) =
                 IF c = d THEN Disconnects(ioQueue[0], c) + 1 ELSE Disconnects(ioQueue[0], c)
            /\ Disconnects(eventQueue', c) = Disconnects(eventQueue, c)
            /\ answered'[c] = answered[c] /\ told'[c] = told[c]
        BY <1>0, <1>b, <2>1, <2>2, <2>6 DEF Posted
      <4>2. /\ ClosesOf(c)
            /\ closes[c] \in Nat /\ detached[c] \in Nat /\ answered[c] \in Nat
            /\ Disconnects(eventQueue, c) \in Nat /\ Disconnects(ioQueue[0], c) \in Nat
        BY EngineFacts
      <4> QED BY <4>1, <4>2 DEF ClosesOf
    <3>3. ConnectOf(c)'
      BY <1>0, <1>1, <2>1, <2>6, EngineFacts DEF ConnectOf
    <3>4. SingleIoOf(c)'
      BY <1>0, <2>2, EngineFacts, SingleIoStays DEF Posted
    <3> QED BY <3>1, <3>2, <3>3, <3>4 DEF Known
  <2> QED BY <1>d, <2>2, <2>5, <2>7 DEF EngineInv
<1>2. CASE ~m_bIsSyncConnect[d]
  <2>1. eventQueue' = Append(eventQueue, e) /\ UNCHANGED <<ioQueue, detached>>
    BY <1>0, <1>2 DEF Close, ClosedInto
  <2>2. Posted(eventQueue, eventQueue', d, 1)
    BY <2>1, PostDisconnect, EngineFacts
  <2>3. EngineTypeOK'
    BY <1>0, <1>a, <2>1, <2>2 DEF EngineTypeOK, Io, Dispatcher, Posted
  <2>4. IoTasks'
    BY <1>0, <2>1 DEF IoTasks, Io
  <2>5. ASSUME NEW c \in Connection PROVE Known(c)'
    <3>1. SocketOf(c)'
      BY <1>0, EngineFacts, SocketStays
    <3>2. ClosesOf(c)'
      <4>1. /\ closes'[c] = IF c = d THEN closes[c] + 1 ELSE closes[c]
            /\ detached'[c] = detached[c]
            /\ Disconnects(ioQueue'[0], c) = Disconnects(ioQueue[0], c)
            /\ Disconnects(eventQueue', c) =
                 IF c = d THEN Disconnects(eventQueue, c) + 1 ELSE Disconnects(eventQueue, c)
            /\ answered'[c] = answered[c] /\ told'[c] = told[c]
        BY <1>0, <1>b, <2>1, <2>2 DEF Posted
      <4>2. /\ ClosesOf(c)
            /\ closes[c] \in Nat /\ detached[c] \in Nat /\ answered[c] \in Nat
            /\ Disconnects(eventQueue, c) \in Nat /\ Disconnects(ioQueue[0], c) \in Nat
        BY EngineFacts
      <4> QED BY <4>1, <4>2 DEF ClosesOf
    <3>3. ConnectOf(c)'
      BY <1>0, <2>1, <2>2, EngineFacts, ConnectStays DEF Posted
    <3>4. SingleIoOf(c)'
      BY <1>0, <2>1, EngineFacts, SingleIoStays
    <3> QED BY <3>1, <3>2, <3>3, <3>4 DEF Known
  <2> QED BY <1>d, <2>3, <2>4, <2>5 DEF EngineInv
<1> QED BY <1>1, <1>2

\* The tasks of the I/O threads change only with their queues.
LEMMA IoTasksStay ==
  ASSUME IoTasks, ioThreads' = ioThreads, ioQueue' = ioQueue
  PROVE  IoTasks'
  BY DEF IoTasks, Io

\* A step that changes no connection and no queue.
QuietStep ==
  /\ UNCHANGED <<ioThreads, lifeVars, countVars, eventQueue, ioQueue, attaching>>
  /\ \A c \in Connection :
       /\ c \in ioEpoll'[0] => c \in ioEpoll[0]
       /\ c \in batch'[0] => c \in batch[0] \cup ioEpoll[0]

\* Such a step keeps what is known of every connection.
LEMMA QuietIsKnown ==
  ASSUME EngineInv, QuietStep
  PROVE  IoTasks' /\ \A c \in Connection : Known(c)'
<1>1. /\ UNCHANGED <<ioThreads, life, fd, m_bIsSyncConnect, told, closes, detached, answered,
                     eventQueue, ioQueue, attaching>>
  BY DEF QuietStep, lifeVars, countVars
<1>2. IoTasks'
  BY <1>1, IoTasksStay DEF EngineInv
<1>3. ASSUME NEW c \in Connection PROVE Known(c)'
  <2>1. SocketOf(c)'
    BY <1>1, EngineFacts, SocketStays
  <2>2. ClosesOf(c)'
    BY <1>1, EngineFacts, ClosesStay
  <2>3. ConnectOf(c)'
    BY <1>1, EngineFacts, ConnectStays
  <2>4. SingleIoOf(c)'
    <3>1. SingleIoOf(c)
      BY EngineFacts
    <3> QED BY <1>1, <3>1 DEF SingleIoOf, QuietStep
  <2> QED BY <2>1, <2>2, <2>3, <2>4 DEF Known
<1> QED BY <1>2, <1>3

\* Using a destroyed connection is within the invariant where it may happen: with
\* several I/O threads, after a second Close(), or while its connect() is awaited.
LEMMA UseDestroyedStep ==
  ASSUME EngineInv, NEW d \in Connection, UseDestroyed(d),
         ioThreads > 1 \/ closes[d] > 1 \/ d \in m_setConnection
  PROVE  EngineInv'
<1>1. /\ dangling' = {d}
      /\ UNCHANGED <<ioThreads, lifeVars, countVars, queueVars, epollVars, threadVars,
                     alive, stops>>
  BY DEF UseDestroyed
<1>2. QuietStep
  BY <1>1 DEF QuietStep, queueVars, epollVars, threadVars
<1>3. DestroyIsSafe'
  BY <1>1 DEF DestroyIsSafe, countVars, epollVars
<1>4. EngineTypeOK'
  BY <1>1 DEF EngineInv, EngineTypeOK, Io, Dispatcher, lifeVars, countVars, queueVars,
              epollVars, threadVars
<1> QED BY <1>2, <1>3, <1>4, QuietIsKnown DEF EngineInv

LEMMA StartEngineStep ==
  ASSUME EngineInv, StartEngine
  PROVE  EngineInv'
<1>1. QuietStep
  BY DEF StartEngine, QuietStep, queueVars, epollVars, threadVars
<1>2. DestroyIsSafe'
  BY StaysSafe DEF StartEngine
<1>3. EngineTypeOK'
  BY DEF StartEngine, EngineInv, EngineTypeOK, Io, Dispatcher, lifeVars, countVars,
         queueVars, epollVars, threadVars
<1> QED BY <1>1, <1>2, <1>3, QuietIsKnown DEF EngineInv

LEMMA TurnStep ==
  ASSUME EngineInv, NEW d \in Dispatcher, EpollWait(d) \/ EndTurn(d)
  PROVE  EngineInv'
<1> USE DEF queueVars, epollVars, threadVars
<1>0. EngineTypeOK /\ 0 \in Io /\ 0 # Event
  BY EngineFacts DEF EngineInv, Event
<1>1. CASE EpollWait(d)
  <2>1. /\ Sound /\ pc' = [pc EXCEPT ![d] = "turn"]
        /\ budget' = [budget EXCEPT ![d] = kBatchTaskSize]
        /\ UNCHANGED <<ioThreads, lifeVars, countVars, queueVars, epollVars, attaching,
                       alive, stops, dangling>>
    BY <1>1 DEF EpollWait
  <2>2. PICK ready \in SUBSET Registered(d) : batch' = [batch EXCEPT ![d] = ready]
    BY <1>1 DEF EpollWait
  <2>3. ready \subseteq Connection
    BY <1>0, <2>2 DEF Registered, EngineTypeOK, Dispatcher
  <2>4. \A c \in batch'[0] : c \in batch[0] \cup ioEpoll[0]
    BY <1>0, <2>2 DEF Registered, EngineTypeOK, Dispatcher
  <2>5. QuietStep
    BY <2>1, <2>4 DEF QuietStep
  <2>6. DestroyIsSafe'
    BY <2>1, StaysSafe
  <2>7. kBatchTaskSize \in 0 .. kBatchTaskSize
    BY EngineAssumption
  <2>8. EngineTypeOK'
    BY <1>0, <2>1, <2>2, <2>3, <2>7 DEF EngineTypeOK, Io, Dispatcher, lifeVars, countVars
  <2> QED BY <2>5, <2>6, <2>8, QuietIsKnown DEF EngineInv
<1>2. CASE EndTurn(d)
  <2>1. /\ Sound /\ pc' = [pc EXCEPT ![d] = "wait"]
        /\ UNCHANGED <<ioThreads, lifeVars, countVars, queueVars, epollVars, batch, budget,
                       attaching, alive, stops, dangling>>
    BY <1>2 DEF EndTurn
  <2>2. QuietStep
    BY <2>1 DEF QuietStep
  <2>3. DestroyIsSafe'
    BY <2>1, StaysSafe
  <2>4. EngineTypeOK'
    BY <1>0, <2>1 DEF EngineTypeOK, Io, Dispatcher, lifeVars, countVars
  <2> QED BY <2>2, <2>3, <2>4, QuietIsKnown DEF EngineInv
<1> QED BY <1>1, <1>2

LEMMA ProcessUnknownEventStep ==
  ASSUME EngineInv, NEW d \in Connection, ProcessUnknownEvent(d)
  PROVE  EngineInv'
<1> USE DEF queueVars, epollVars
<1>1. /\ Sound /\ batch' = [batch EXCEPT ![Event] = @ \ {d}]
      /\ UNCHANGED <<ioThreads, lifeVars, countVars, queueVars, epollVars, pc, budget,
                     attaching, alive, stops, dangling>>
  BY DEF ProcessUnknownEvent, InEvents
<1>2. EngineTypeOK /\ 0 # Event
  BY DEF EngineInv, Event
<1>3. batch'[0] = batch[0]
  BY <1>1, <1>2 DEF EngineTypeOK
<1>4. QuietStep
  BY <1>1, <1>3 DEF QuietStep
<1>5. DestroyIsSafe'
  BY <1>1, StaysSafe
<1>6. EngineTypeOK'
  BY <1>1, <1>2 DEF EngineTypeOK, Io, Dispatcher, lifeVars, countVars
<1> QED BY <1>4, <1>5, <1>6, QuietIsKnown DEF EngineInv

\* A dispatcher uses a destroyed connection only where the application has asked
\* for it: its task is a second Close(), or its connect() was awaited.
LEMMA EventUsesDestroyedStep ==
  ASSUME EngineInv, NEW d \in Connection, EventUsesDestroyed(d)
  PROVE  EngineInv'
<1>1. life[d] = "destroyed" /\ UseDestroyed(d)
  BY DEF EventUsesDestroyed
<1>2. /\ SocketOf(d) /\ ClosesOf(d) /\ ConnectOf(d)
      /\ closes[d] \in Nat /\ detached[d] \in Nat /\ answered[d] \in Nat
      /\ Disconnects(eventQueue, d) \in Nat /\ Disconnects(ioQueue[0], d) \in Nat
      /\ eventQueue \in Seq(EngineTasks)
  BY EngineFacts
<1>3. told[d] = "disconnected" /\ answered[d] > 0 /\ detached[d] > 0
  BY <1>1, <1>2 DEF SocketOf, ClosesOf
<1>4. CASE d \in m_setConnection
  BY <1>1, <1>4, UseDestroyedStep
<1>5. CASE InTasks(Event) /\ attaching = None /\ Head(eventQueue).pCtx = d
  <2>1. eventQueue # << >>
    BY <1>5 DEF InTasks, QueueOf
  <2>2. ~Connects(Head(eventQueue), d)
    BY <1>2, <1>3, <2>1, TakeTask DEF ConnectOf
  <2>3. Head(eventQueue) \in EngineTasks
    BY <1>2, <2>1, TakeTask
  <2>4. Head(eventQueue) = Task("kDoDisconnect", d)
    BY <1>5, <2>2, <2>3 DEF EngineTasks, Task, Connects
  <2>5. Disconnects(eventQueue, d) = Disconnects(Tail(eventQueue), d) + 1
    BY <1>2, <2>1, <2>4, TakeTask
  <2>6. Disconnects(Tail(eventQueue), d) \in Nat
    BY <1>2, <2>1, TakeTask, QueueCounts
  <2>7. closes[d] > 1
    BY <1>2, <1>3, <2>5, <2>6 DEF ClosesOf
  <2> QED BY <1>1, <2>7, UseDestroyedStep
<1> QED BY <1>4, <1>5 DEF EventUsesDestroyed

LEMMA IoUsesDestroyedStep ==
  ASSUME EngineInv, NEW i \in Io, NEW d \in Connection, IoUsesDestroyed(i, d)
  PROVE  EngineInv'
<1>1. life[d] = "destroyed" /\ UseDestroyed(d)
  BY DEF IoUsesDestroyed
<1>2. CASE ioThreads > 1
  BY <1>1, <1>2, UseDestroyedStep
<1>3. CASE ioThreads = 1
  <2>1. i = 0
    BY <1>3 DEF Io
  <2>2. /\ SocketOf(d) /\ ClosesOf(d) /\ SingleIoOf(d)
        /\ closes[d] \in Nat /\ detached[d] \in Nat /\ answered[d] \in Nat
        /\ Disconnects(eventQueue, d) \in Nat /\ Disconnects(ioQueue[0], d) \in Nat
        /\ ioQueue[0] \in Seq(EngineTasks)
    BY EngineFacts
  <2>3. told[d] = "disconnected" /\ answered[d] > 0
    BY <1>1, <2>2 DEF SocketOf, ClosesOf
  <2>4. d \notin batch[0] /\ ~HasConnect(ioQueue[0], d)
    BY <1>3, <2>2, <2>3 DEF SingleIoOf
  <2>5. ioQueue[0] # << >> /\ Head(ioQueue[0]).pCtx = d
    BY <2>1, <2>4, EngineFacts DEF IoUsesDestroyed, InTasks, QueueOf
  <2>6. ~Connects(Head(ioQueue[0]), d) /\ Head(ioQueue[0]) \in EngineTasks
    BY <2>2, <2>4, <2>5, TakeTask
  <2>7. Head(ioQueue[0]) = Task("kDoDisconnect", d)
    BY <2>5, <2>6 DEF EngineTasks, Task, Connects
  <2>8. Disconnects(ioQueue[0], d) = Disconnects(Tail(ioQueue[0]), d) + 1
    BY <2>2, <2>5, <2>7, TakeTask
  <2>9. Disconnects(Tail(ioQueue[0]), d) \in Nat
    BY <2>2, <2>5, TakeTask, QueueCounts
  <2>10. closes[d] > 1
    BY <2>2, <2>3, <2>8, <2>9 DEF ClosesOf
  <2> QED BY <1>1, <2>10, UseDestroyedStep
<1>4. ioThreads \in Nat \ {0}
  BY EngineFacts
<1> QED BY <1>2, <1>3, <1>4

LEMMA CreateConnectionStep ==
  ASSUME EngineInv, NEW d \in Connection, CreateConnection(d)
  PROVE  EngineInv'
<1> USE DEF countVars, queueVars, epollVars, threadVars
<1>0. EngineTypeOK /\ IoTasks
  BY DEF EngineInv
<1>1. /\ Sound /\ life[d] = "none"
      /\ life' = [life EXCEPT ![d] = "made"]
      /\ fd' = [fd EXCEPT ![d] = "open"]
      /\ UNCHANGED <<ioThreads, connecting, told, countVars, queueVars, epollVars,
                     threadVars, alive, stops, dangling>>
  BY DEF CreateConnection
<1>2. PICK sync \in BOOLEAN : m_bIsSyncConnect' = [m_bIsSyncConnect EXCEPT ![d] = sync]
  BY DEF CreateConnection
<1>3. DestroyIsSafe'
  BY <1>1, StaysSafe
<1>4. IoTasks'
  BY <1>0, <1>1, IoTasksStay
<1>5. EngineTypeOK'
  <2>1. m_bIsSyncConnect' \in [Connection -> BOOLEAN]
    BY <1>0, <1>2 DEF EngineTypeOK
  <2> QED BY <1>0, <1>1, <2>1 DEF EngineTypeOK, Io, Dispatcher
<1>6. ASSUME NEW c \in Connection PROVE Known(c)'
  <2>1. /\ SocketOf(c) /\ ClosesOf(c) /\ ConnectOf(c) /\ SingleIoOf(c)
    BY EngineFacts
  <2>2. /\ life'[c] = IF c = d THEN "made" ELSE life[c]
        /\ fd'[c] = IF c = d THEN "open" ELSE fd[c]
    BY <1>0, <1>1 DEF EngineTypeOK
  <2>3. c # d => m_bIsSyncConnect'[c] = m_bIsSyncConnect[c]
    BY <1>0, <1>2 DEF EngineTypeOK
  <2>4. SocketOf(c)'
    BY <1>1, <2>1, <2>2 DEF SocketOf
  <2>5. ClosesOf(c)'
    BY <1>1, <2>1, ClosesStay
  <2>6. ConnectOf(c)'
    <3>1. CASE c = d
      <4>1. ~HasConnect(eventQueue, c) /\ attaching # c /\ InOrder(eventQueue, c)
        BY <1>1, <2>1, <3>1 DEF ConnectOf
      <4> QED BY <1>1, <4>1 DEF ConnectOf
    <3>2. CASE c # d
      BY <1>1, <2>1, <2>2, <2>3, <3>2, ConnectStays
    <3> QED BY <3>1, <3>2
  <2>7. SingleIoOf(c)'
    BY <1>1, <2>1, SingleIoStays
  <2> QED BY <2>4, <2>5, <2>6, <2>7 DEF Known
<1> QED BY <1>3, <1>4, <1>5, <1>6 DEF EngineInv

LEMMA ConnectAsyncStep ==
  ASSUME EngineInv, NEW d \in Connection, ConnectAsync(d)
  PROVE  EngineInv'
<1> USE DEF countVars, epollVars, threadVars
<1>0. EngineTypeOK /\ IoTasks
  BY DEF EngineInv
<1>1. /\ Sound /\ life[d] = "made" /\ closes[d] = 0 /\ ~m_bIsSyncConnect[d]
      /\ connecting' = [connecting EXCEPT ![d] = TRUE]
      /\ UNCHANGED <<ioThreads, life, fd, m_bIsSyncConnect, told, countVars, ioQueue,
                     nextIo, epollVars, threadVars, alive, stops, dangling>>
  BY DEF ConnectAsync, MayConnect
<1>2. PICK type \in {"kConnected", "kAddConnection"} :
        eventQueue' = Append(eventQueue, Task(type, d))
  BY DEF ConnectAsync
<1>3. /\ eventQueue' \in Seq(EngineTasks)
      /\ \A c \in Connection :
           /\ Disconnects(eventQueue', c) = Disconnects(eventQueue, c)
           /\ c # d => (HasConnect(eventQueue', c) <=> HasConnect(eventQueue, c))
           /\ InOrder(eventQueue, c) /\ (c = d => Disconnects(eventQueue, c) = 0)
                => InOrder(eventQueue', c)
  BY <1>2, EngineFacts, PostConnect
<1>4. Disconnects(eventQueue, d) = 0 /\ detached[d] = 0
  <2>1. /\ ClosesOf(d) /\ detached[d] \in Nat /\ Disconnects(eventQueue, d) \in Nat
    BY EngineFacts
  <2> QED BY <1>1, <2>1 DEF ClosesOf
<1>5. DestroyIsSafe'
  BY <1>1, StaysSafe
<1>6. IoTasks'
  BY <1>0, <1>1, IoTasksStay
<1>7. EngineTypeOK'
  BY <1>0, <1>1, <1>3 DEF EngineTypeOK, Io, Dispatcher
<1>8. ASSUME NEW c \in Connection PROVE Known(c)'
  <2>1. /\ SocketOf(c) /\ ClosesOf(c) /\ ConnectOf(c) /\ SingleIoOf(c)
    BY EngineFacts
  <2>2. SocketOf(c)'
    BY <1>1, <2>1, SocketStays
  <2>3. ClosesOf(c)'
    BY <1>1, <1>3, <2>1, ClosesStay
  <2>4. ConnectOf(c)'
    <3>1. InOrder(eventQueue', c)
      BY <1>3, <1>4, <2>1 DEF ConnectOf
    <3>2. CASE c = d
      <4>1. life[c] # "none" /\ ~m_bIsSyncConnect[c] /\ detached[c] = 0
        BY <1>1, <1>4, <3>2
      <4>2. life'[c] # "none" /\ ~m_bIsSyncConnect'[c] /\ detached'[c] = 0
        BY <1>1, <4>1
      <4> QED BY <3>1, <4>2 DEF ConnectOf
    <3>3. CASE c # d
      <4>1. HasConnect(eventQueue', c) <=> HasConnect(eventQueue, c)
        BY <1>3, <3>3
      <4> QED BY <1>1, <2>1, <3>1, <4>1, ConnectStays
    <3> QED BY <3>2, <3>3
  <2>5. SingleIoOf(c)'
    BY <1>1, <2>1, SingleIoStays
  <2> QED BY <2>2, <2>3, <2>4, <2>5 DEF Known
<1> QED BY <1>5, <1>6, <1>7, <1>8 DEF EngineInv

\* A failed connect() closes the connection as Close() does.
LEMMA ConnectSyncStep ==
  ASSUME EngineInv, NEW d \in Connection, ConnectSync(d)
  PROVE  EngineInv'
<1> USE DEF epollVars, threadVars
<1>0. EngineTypeOK /\ IoTasks
  BY DEF EngineInv
<1>1. /\ Sound /\ fd[d] = "open" /\ m_bIsSyncConnect[d]
      /\ connecting' = [connecting EXCEPT ![d] = TRUE]
      /\ UNCHANGED <<ioThreads, life, fd, m_bIsSyncConnect, told, answered, eventQueue,
                     nextIo, epollVars, threadVars, alive, stops, dangling>>
  BY DEF ConnectSync, MayConnect
<1>d. DestroyIsSafe'
  BY <1>1, StaysSafe
<1>2. CASE UNCHANGED <<closes, detached, ioQueue>>
  <2>2. IoTasks'
    BY <1>0, <1>1, <1>2, IoTasksStay
  <2>3. EngineTypeOK'
    BY <1>0, <1>1, <1>2 DEF EngineTypeOK, Io, Dispatcher
  <2>4. ASSUME NEW c \in Connection PROVE Known(c)'
    BY <1>1, <1>2, EngineFacts, SocketStays, ClosesStay, ConnectStays, SingleIoStays DEF Known
  <2> QED BY <1>d, <2>2, <2>3, <2>4 DEF EngineInv
<1>3. CASE CanClose(d) /\ CountClose(d) /\ Detach(d)
  <2>1. closes[d] < MaxClose /\ closes' = [closes EXCEPT ![d] = @ + 1]
    BY <1>1, <1>3 DEF CanClose, CountClose
  <2>2. /\ IoTasks'
        /\ ioQueue' \in [Io -> Seq(EngineTasks)]
        /\ Posted(ioQueue[0], ioQueue'[0], d, 1)
    BY <1>1, <1>3, DetachTasks
  <2>3. detached' = [detached EXCEPT ![d] = @ + 1]
    BY <1>3 DEF Detach
  <2>4. detached[d] + 1 \in 0 .. MaxClose /\ closes[d] + 1 \in 0 .. MaxClose
    <3>1. ClosesOf(d) /\ closes[d] \in Nat /\ detached[d] \in Nat /\ MaxClose \in Nat
      BY EngineFacts, EngineAssumption
    <3>2. Disconnects(eventQueue, d) \in Nat
      BY EngineFacts
    <3>3. detached[d] <= closes[d]
      BY <3>1, <3>2 DEF ClosesOf
    <3> QED BY <2>1, <3>1, <3>3
  <2>5. EngineTypeOK'
    BY <1>0, <1>1, <2>1, <2>2, <2>3, <2>4 DEF EngineTypeOK, Io, Dispatcher
  <2>6. ASSUME NEW c \in Connection PROVE Known(c)'
    <3>1. /\ closes'[c] = IF c = d THEN closes[c] + 1 ELSE closes[c]
          /\ detached'[c] = IF c = d THEN detached[c] + 1 ELSE detached[c]
      BY <1>0, <2>1, <2>3 DEF EngineTypeOK
    <3>2. SocketOf(c)'
      BY <1>1, EngineFacts, SocketStays
    <3>3. ClosesOf(c)'
      <4>1. /\ Disconnects(ioQueue'[0], c) =
                 IF c = d THEN Disconnects(ioQueue[0], c) + 1 ELSE Disconnects(ioQueue[0], c)
            /\ Disconnects(eventQueue', c) = Disconnects(eventQueue, c)
            /\ answered'[c] = answered[c] /\ told'[c] = told[c]
        BY <1>1, <2>2 DEF Posted
      <4>2. /\ ClosesOf(c)
            /\ closes[c] \in Nat /\ detached[c] \in Nat /\ answered[c] \in Nat
            /\ Disconnects(eventQueue, c) \in Nat /\ Disconnects(ioQueue[0], c) \in Nat
        BY EngineFacts
      <4> QED BY <3>1, <4>1, <4>2 DEF ClosesOf
    <3>4. ConnectOf(c)'
      BY <1>1, <3>1, EngineFacts DEF ConnectOf
    <3>5. SingleIoOf(c)'
      BY <1>1, <2>2, EngineFacts, SingleIoStays DEF Posted
    <3> QED BY <3>2, <3>3, <3>4, <3>5 DEF Known
  <2> QED BY <1>d, <2>2, <2>5, <2>6 DEF EngineInv
<1> QED BY <1>2, <1>3 DEF ConnectSync

LEMMA DestroyConnectionStep ==
  ASSUME EngineInv, NEW d \in Connection, DestroyConnection(d)
  PROVE  EngineInv'
<1> USE DEF countVars, queueVars, epollVars, threadVars
<1>0. EngineTypeOK /\ IoTasks
  BY DEF EngineInv
<1>1. /\ Sound /\ life[d] = "made" /\ told[d] = "disconnected"
      /\ life' = [life EXCEPT ![d] = "destroyed"]
      /\ UNCHANGED <<ioThreads, fd, m_bIsSyncConnect, connecting, told, countVars,
                     queueVars, epollVars, threadVars, alive, stops, dangling>>
  BY DEF DestroyConnection
<1>2. DestroyIsSafe'
  BY <1>1, StaysSafe
<1>3. IoTasks'
  BY <1>0, <1>1, IoTasksStay
<1>4. EngineTypeOK'
  BY <1>0, <1>1 DEF EngineTypeOK, Io, Dispatcher
<1>5. ASSUME NEW c \in Connection PROVE Known(c)'
  <2>1. /\ SocketOf(c) /\ ClosesOf(c) /\ ConnectOf(c) /\ SingleIoOf(c)
    BY EngineFacts
  <2>2. life'[c] = IF c = d THEN "destroyed" ELSE life[c]
    BY <1>0, <1>1 DEF EngineTypeOK
  <2>3. SocketOf(c)'
    BY <1>1, <2>1, <2>2 DEF SocketOf
  <2>4. ClosesOf(c)'
    BY <1>1, <2>1, ClosesStay
  <2>5. ConnectOf(c)'
    BY <1>1, <2>1, <2>2 DEF ConnectOf
  <2>6. SingleIoOf(c)'
    BY <1>1, <2>1, SingleIoStays
  <2> QED BY <2>3, <2>4, <2>5, <2>6 DEF Known
<1> QED BY <1>2, <1>3, <1>4, <1>5 DEF EngineInv

\* Stop() of a dispatcher empties its queue.
LEMMA StopEventDispatcherStep ==
  ASSUME EngineInv, StopEventDispatcher
  PROVE  EngineInv'
<1> USE DEF countVars, epollVars, threadVars
<1>0. EngineTypeOK /\ IoTasks
  BY DEF EngineInv
<1>1. /\ Sound /\ stops < MaxStop /\ stops' = stops + 1
      /\ alive' = alive \ {Event} /\ eventQueue' = << >>
      /\ UNCHANGED <<ioThreads, lifeVars, countVars, ioQueue, nextIo, epollVars,
                     threadVars, dangling>>
  BY DEF StopEventDispatcher
<1>2. DestroyIsSafe'
  BY <1>1, StaysSafe
<1>3. IoTasks'
  BY <1>0, <1>1, IoTasksStay
<1>4. EngineTypeOK'
  <2>1. stops' \in 0 .. MaxStop
    BY <1>0, <1>1, EngineAssumption DEF EngineTypeOK
  <2>2. eventQueue' \in Seq(EngineTasks)
    BY <1>1
  <2> QED BY <1>0, <1>1, <2>1, <2>2 DEF EngineTypeOK, Io, Dispatcher, lifeVars
<1>5. ASSUME NEW c \in Connection PROVE Known(c)'
  <2>1. /\ SocketOf(c) /\ ClosesOf(c) /\ ConnectOf(c) /\ SingleIoOf(c)
        /\ closes[c] \in Nat /\ detached[c] \in Nat /\ Disconnects(eventQueue, c) \in Nat
    BY EngineFacts
  <2>2. UNCHANGED <<life, fd, told, m_bIsSyncConnect>>
    BY <1>1 DEF lifeVars
  <2>3. /\ Disconnects(eventQueue', c) = 0 /\ ~HasConnect(eventQueue', c)
        /\ InOrder(eventQueue', c)
    BY <1>1, EmptyQueue
  <2>4. SocketOf(c)'
    BY <2>1, <2>2, SocketStays
  <2>5. ClosesOf(c)'
    BY <1>1, <2>1, <2>2, <2>3 DEF ClosesOf
  <2>6. ConnectOf(c)'
    BY <1>1, <2>1, <2>2, <2>3, ConnectStays
  <2>7. SingleIoOf(c)'
    BY <1>1, <2>1, <2>2, SingleIoStays
  <2> QED BY <2>4, <2>5, <2>6, <2>7 DEF Known
<1> QED BY <1>2, <1>3, <1>4, <1>5 DEF EngineInv

\* No I/O dispatcher but the first has a task that disconnects.
LEMMA OthersDetachNothing ==
  ASSUME EngineInv, NEW i \in Io, i # 0, NEW c
  PROVE  Queued(ioQueue[i], "kDoDisconnect", c) = 0
<1>1. ioQueue[i] \in Seq(IoTasksOf(i))
  BY DEF EngineInv, IoTasks
<1>2. \A k \in 1 .. Len(ioQueue[i]) : ioQueue[i][k] # Task("kDoDisconnect", c)
  BY <1>1, ElementOfSeq DEF IoTasksOf, Task
<1> QED BY <1>1, <1>2, QueueCounts DEF Disconnects

LEMMA StopIoDispatcherStep ==
  ASSUME EngineInv, NEW i \in Io, StopIoDispatcher(i)
  PROVE  EngineInv'
<1> USE DEF queueVars, epollVars, threadVars
<1> DEFINE cleared == {c \in Connection : Queued(ioQueue[i], "kDoDisconnect", c) > 0}
<1>0. EngineTypeOK /\ IoTasks /\ 0 \in Io
  BY EngineFacts DEF EngineInv
<1>1. CASE \E c \in cleared : life[c] = "destroyed" /\ UseDestroyed(c)
  <2>1. PICK d \in Connection : /\ Queued(ioQueue[i], "kDoDisconnect", d) > 0
                                /\ life[d] = "destroyed" /\ UseDestroyed(d)
    BY <1>1
  <2>2. i = 0
    BY <2>1, OthersDetachNothing
  <2>3. /\ SocketOf(d) /\ ClosesOf(d)
        /\ closes[d] \in Nat /\ detached[d] \in Nat /\ answered[d] \in Nat
        /\ Disconnects(eventQueue, d) \in Nat /\ Disconnects(ioQueue[0], d) \in Nat
    BY EngineFacts
  <2>4. Disconnects(ioQueue[0], d) > 0
    BY <2>1, <2>2 DEF Disconnects
  <2>5. told[d] = "disconnected" /\ answered[d] > 0
    BY <2>1, <2>3 DEF SocketOf, ClosesOf
  <2>6. closes[d] > 1
    BY <2>3, <2>4, <2>5 DEF ClosesOf
  <2> QED BY <2>1, <2>6, UseDestroyedStep
<1>2. CASE /\ alive' = alive \ {i}
           /\ ioQueue' = [ioQueue EXCEPT ![i] = << >>]
           /\ answered' = [c \in Connection |->
                             answered[c] + Queued(ioQueue[i], "kDoDisconnect", c)]
           /\ UNCHANGED <<ioThreads, lifeVars, closes, detached, eventQueue, nextIo,
                          epollVars, threadVars, stops, dangling>>
  <2>1. DestroyIsSafe'
    BY <1>2, StaysSafe DEF StopIoDispatcher
  <2>2. \A j \in Io : ioQueue'[j] = IF j = i THEN << >> ELSE ioQueue[j]
    BY <1>0, <1>2 DEF EngineTypeOK
  <2>3. IoTasks'
    BY <1>0, <1>2, <2>2, EmptySeq DEF IoTasks, Io
  <2>4. ASSUME NEW c \in Connection
        PROVE  /\ answered'[c] + Disconnects(ioQueue'[0], c)
                    = answered[c] + Disconnects(ioQueue[0], c)
               /\ answered'[c] \in Nat /\ answered'[c] >= answered[c]
    <3>1. answered'[c] = answered[c] + Queued(ioQueue[i], "kDoDisconnect", c)
      BY <1>2
    <3>2. answered[c] \in Nat /\ Disconnects(ioQueue[0], c) \in Nat
      BY EngineFacts
    <3>3. CASE i = 0
      <4>1. Disconnects(ioQueue'[0], c) = 0
        BY <1>0, <2>2, <3>3, EmptyQueue
      <4>2. Queued(ioQueue[i], "kDoDisconnect", c) = Disconnects(ioQueue[0], c)
        BY <3>3 DEF Disconnects
      <4> QED BY <3>1, <3>2, <4>1, <4>2
    <3>4. CASE i # 0
      <4>1. ioQueue'[0] = ioQueue[0]
        BY <1>0, <2>2, <3>4
      <4>2. Queued(ioQueue[i], "kDoDisconnect", c) = 0
        BY <3>4, OthersDetachNothing
      <4> QED BY <3>1, <3>2, <4>1, <4>2
    <3> QED BY <3>3, <3>4
  <2>5. EngineTypeOK'
    <3>1. answered' \in [Connection -> 0 .. MaxClose]
      <4> SUFFICES ASSUME NEW c \in Connection PROVE answered'[c] \in 0 .. MaxClose
        BY <1>2
      <4>1. /\ ClosesOf(c) /\ detached[c] \in 0 .. MaxClose
            /\ answered[c] \in Nat /\ Disconnects(ioQueue[0], c) \in Nat
        BY <1>0, EngineFacts DEF EngineTypeOK
      <4>2. Disconnects(ioQueue'[0], c) \in Nat
        <5>1. ioQueue'[0] \in Seq(EngineTasks)
          BY <1>0, <2>2, EngineFacts, EmptySeq
        <5> QED BY <5>1, QueueCounts
      <4> QED BY <2>4, <4>1, <4>2, EngineAssumption DEF ClosesOf
    <3>2. ioQueue' \in [Io -> Seq(EngineTasks)]
      BY <1>0, <1>2 DEF EngineTypeOK
    <3> QED BY <1>0, <1>2, <3>1, <3>2 DEF EngineTypeOK, Io, Dispatcher, lifeVars
  <2>6. ASSUME NEW c \in Connection PROVE Known(c)'
    <3>1. UNCHANGED <<life, fd, told, m_bIsSyncConnect>>
      BY <1>2 DEF lifeVars
    <3>2. SocketOf(c)'
      BY <3>1, EngineFacts, SocketStays
    <3>3. ClosesOf(c)'
      <4>1. ClosesOf(c) /\ answered[c] \in Nat
        BY EngineFacts
      <4>2. /\ closes' = closes /\ detached' = detached /\ eventQueue' = eventQueue
        BY <1>2
      <4> QED BY <2>4, <3>1, <4>1, <4>2 DEF ClosesOf
    <3>4. ConnectOf(c)'
      BY <1>2, <3>1, EngineFacts, ConnectStays
    <3>5. SingleIoOf(c)'
      <4>1. ioQueue'[0] = ioQueue[0] \/ ioQueue'[0] = << >>
        BY <1>0, <2>2
      <4>2. /\ HasConnect(ioQueue'[0], c) => HasConnect(ioQueue[0], c)
            /\ InOrder(ioQueue[0], c) => InOrder(ioQueue'[0], c)
        BY <4>1, EmptyQueue
      <4> QED BY <1>2, <3>1, <4>2, EngineFacts, SingleIoStays
    <3> QED BY <3>2, <3>3, <3>4, <3>5 DEF Known
  <2> QED BY <2>1, <2>3, <2>5, <2>6 DEF EngineInv
<1> QED BY <1>1, <1>2 DEF StopIoDispatcher

\* What Close() on the thread of a dispatcher does: q is the queue it finds.
LEMMA ClosedIntoCounts ==
  ASSUME EngineInv, NEW d \in Connection, NEW q \in Seq(EngineTasks),
         CanClose(d), CountClose(d), eventQueue' = ClosedInto(q, d)
  PROVE  \E n \in 0 .. 1 :
           /\ closes[d] + n \in 0 .. MaxClose
           /\ closes' = [closes EXCEPT ![d] = closes[d] + n]
           /\ Posted(q, eventQueue', d, n)
<1>0. closes \in [Connection -> 0 .. MaxClose] /\ closes[d] \in 0 .. MaxClose
  BY DEF EngineInv, EngineTypeOK
<1>1. CASE fd[d] = "open"
  <2>1. closes[d] + 1 \in 0 .. MaxClose
    BY <1>0, <1>1, EngineAssumption DEF CanClose
  <2>2. closes' = [closes EXCEPT ![d] = closes[d] + 1]
    BY <1>1 DEF CountClose
  <2>3. Posted(q, eventQueue', d, 1)
    BY <1>1, PostDisconnect DEF ClosedInto
  <2> QED BY <2>1, <2>2, <2>3
<1>2. CASE fd[d] # "open"
  <2>1. closes[d] + 0 = closes[d]
    BY <1>0
  <2>2. closes' = closes /\ eventQueue' = q
    BY <1>2 DEF CountClose, ClosedInto
  <2>3. closes' = [closes EXCEPT ![d] = closes[d] + 0]
    BY <1>0, <2>1, <2>2
  <2>4. Posted(q, q, d, 0)
    BY QueueCounts DEF Posted
  <2> QED BY <1>0, <2>1, <2>2, <2>3, <2>4
<1> QED BY <1>1, <1>2

\* Closes that are posted to the event dispatcher are counted there.
LEMMA ClosesPosted ==
  ASSUME EngineInv, NEW d \in Connection, NEW n \in Nat, NEW c \in Connection,
         closes' = [closes EXCEPT ![d] = closes[d] + n],
         Posted(eventQueue, eventQueue', d, n),
         detached' = detached, answered' = answered, told' = told, ioQueue' = ioQueue
  PROVE  ClosesOf(c)'
<1>1. closes'[c] = IF c = d THEN closes[c] + n ELSE closes[c]
  BY DEF EngineInv, EngineTypeOK
<1>2. Disconnects(eventQueue', c) =
        IF c = d THEN Disconnects(eventQueue, c) + n ELSE Disconnects(eventQueue, c)
  BY DEF Posted
<1>3. /\ ClosesOf(c)
      /\ closes[c] \in Nat /\ detached[c] \in Nat /\ Disconnects(eventQueue, c) \in Nat
  BY EngineFacts
<1> QED BY <1>1, <1>2, <1>3 DEF ClosesOf

LEMMA ProcessConnectionEventStep ==
  ASSUME EngineInv, NEW d \in Connection, ProcessConnectionEvent(d)
  PROVE  EngineInv'
<1>0. EngineTypeOK /\ IoTasks /\ 0 # Event /\ eventQueue \in Seq(EngineTasks)
  BY EngineFacts DEF EngineInv, Event
<1>1. /\ Sound
      /\ m_setConnection' = m_setConnection \ {d}
      /\ batch' = [batch EXCEPT ![Event] = @ \ {d}]
      /\ UNCHANGED <<ioThreads, lifeVars, detached, answered, ioQueue, nextIo, eventEpoll,
                     ioEpoll, pc, budget, attaching, alive, stops, dangling>>
  BY DEF ProcessConnectionEvent, InEvents
<1>2. PICK n \in 0 .. 1 :
        /\ closes[d] + n \in 0 .. MaxClose
        /\ closes' = [closes EXCEPT ![d] = closes[d] + n]
        /\ Posted(eventQueue, eventQueue', d, n)
  <2>1. CASE CanClose(d) /\ CountClose(d) /\ eventQueue' = ClosedInto(eventQueue, d)
    BY <1>0, <2>1, ClosedIntoCounts
  <2>2. CASE UNCHANGED <<closes, eventQueue>>
    <3>1. closes[d] \in 0 .. MaxClose /\ closes[d] + 0 = closes[d]
      BY <1>0, EngineAssumption DEF EngineTypeOK
    <3>2. closes' = [closes EXCEPT ![d] = closes[d] + 0]
      BY <1>0, <2>2, <3>1 DEF EngineTypeOK
    <3>3. Posted(eventQueue, eventQueue', d, 0)
      BY <1>0, <2>2, QueueCounts DEF Posted
    <3> QED BY <3>1, <3>2, <3>3
  <2> QED BY <2>1, <2>2 DEF ProcessConnectionEvent
<1>3. DestroyIsSafe'
  BY <1>1, StaysSafe
<1>4. IoTasks'
  BY <1>0, <1>1, IoTasksStay
<1>5. EngineTypeOK'
  <2>1. eventQueue' \in Seq(EngineTasks)
    BY <1>2 DEF Posted
  <2> QED BY <1>0, <1>1, <1>2, <2>1 DEF EngineTypeOK, Io, Dispatcher, lifeVars
<1>6. batch'[0] = batch[0]
  BY <1>0, <1>1 DEF EngineTypeOK
<1>7. ASSUME NEW c \in Connection PROVE Known(c)'
  <2>1. UNCHANGED <<life, fd, told, m_bIsSyncConnect>>
    BY <1>1 DEF lifeVars
  <2>2. SocketOf(c)'
    BY <2>1, EngineFacts, SocketStays
  <2>3. ClosesOf(c)'
    <3>1. /\ n \in Nat
          /\ closes' = [closes EXCEPT ![d] = closes[d] + n]
          /\ Posted(eventQueue, eventQueue', d, n)
      BY <1>2
    <3>2. /\ detached' = detached /\ answered' = answered
          /\ told' = told /\ ioQueue' = ioQueue
      BY <1>1, <2>1
    <3> QED BY <3>1, <3>2, ClosesPosted
  <2>4. ConnectOf(c)'
    BY <1>1, <1>2, <2>1, EngineFacts, ConnectStays DEF Posted
  <2>5. SingleIoOf(c)'
    BY <1>1, <1>6, <2>1, EngineFacts, SingleIoStays
  <2> QED BY <2>2, <2>3, <2>4, <2>5 DEF Known
<1> QED BY <1>3, <1>4, <1>5, <1>7 DEF EngineInv

\* The event of an I/O dispatcher closes up to twice.
LEMMA ProcessIoEventStep ==
  ASSUME EngineInv, NEW i \in Io, NEW d \in Connection, ProcessIoEvent(i, d)
  PROVE  EngineInv'
<1>0. EngineTypeOK /\ IoTasks /\ 0 \in Io /\ eventQueue \in Seq(EngineTasks)
  BY EngineFacts DEF EngineInv
<1>1. /\ Sound
      /\ batch' = [batch EXCEPT ![i] = @ \ {d}]
      /\ UNCHANGED <<ioThreads, lifeVars, detached, answered, ioQueue, nextIo, epollVars,
                     pc, budget, attaching, alive, stops, dangling>>
  BY DEF ProcessIoEvent, InEvents
<1>2. PICK n \in 0 .. IF fd[d] = "open" THEN 2 ELSE 0 :
        /\ closes[d] + n <= MaxClose
        /\ closes' = [closes EXCEPT ![d] = @ + n]
        /\ eventQueue' = eventQueue \o [k \in 1 .. n |-> Task("kDoDisconnect", d)]
  BY DEF ProcessIoEvent
<1>n. n \in 0 .. 2 /\ n \in Nat
  OBVIOUS
<1>3. Posted(eventQueue, eventQueue', d, n)
  BY <1>0, <1>2, <1>n, PostDisconnects
<1>4. closes[d] + n \in 0 .. MaxClose
  BY <1>2, EngineFacts, EngineAssumption
<1>5. DestroyIsSafe'
  BY <1>1, StaysSafe
<1>6. IoTasks'
  BY <1>0, <1>1, IoTasksStay
<1>7. EngineTypeOK'
  <2>1. eventQueue' \in Seq(EngineTasks)
    BY <1>3 DEF Posted
  <2>2. closes' \in [Connection -> 0 .. MaxClose]
    BY <1>0, <1>2, <1>4 DEF EngineTypeOK
  <2> QED BY <1>0, <1>1, <2>1, <2>2 DEF EngineTypeOK, Io, Dispatcher, lifeVars, epollVars
<1>8. batch'[0] \subseteq batch[0]
  BY <1>0, <1>1 DEF EngineTypeOK, Dispatcher
<1>9. ASSUME NEW c \in Connection PROVE Known(c)'
  <2>1. UNCHANGED <<life, fd, told, m_bIsSyncConnect, ioEpoll>>
    BY <1>1 DEF lifeVars, epollVars
  <2>2. SocketOf(c)'
    BY <2>1, EngineFacts, SocketStays
  <2>3. ClosesOf(c)'
    <3>1. /\ n \in Nat
          /\ closes' = [closes EXCEPT ![d] = closes[d] + n]
          /\ Posted(eventQueue, eventQueue', d, n)
      BY <1>2, <1>3
    <3>2. /\ detached' = detached /\ answered' = answered
          /\ told' = told /\ ioQueue' = ioQueue
      BY <1>1, <2>1
    <3> QED BY <3>1, <3>2, ClosesPosted
  <2>4. ConnectOf(c)'
    BY <1>1, <1>3, <2>1, EngineFacts, ConnectStays DEF Posted
  <2>5. SingleIoOf(c)'
    BY <1>1, <1>8, <2>1, EngineFacts, SingleIoStays
  <2> QED BY <2>2, <2>3, <2>4, <2>5 DEF Known
<1> QED BY <1>5, <1>6, <1>7, <1>9 DEF EngineInv

\* What the event dispatcher knows of the task it takes.
LEMMA TaskTaken ==
  ASSUME EngineInv, NEW type \in TaskTypes, NEW d \in Connection, Take(type, d)
  PROVE  /\ Sound /\ attaching = None /\ life[d] = "made"
         /\ budget' \in [Dispatcher -> 0 .. kBatchTaskSize]
         /\ Tail(eventQueue) \in Seq(EngineTasks)
         /\ \A c \in Connection :
              /\ Disconnects(eventQueue, c) =
                   IF type = "kDoDisconnect" /\ c = d
                   THEN Disconnects(Tail(eventQueue), c) + 1
                   ELSE Disconnects(Tail(eventQueue), c)
              /\ Disconnects(Tail(eventQueue), c) \in Nat
              /\ HasConnect(Tail(eventQueue), c) => HasConnect(eventQueue, c)
              /\ InOrder(Tail(eventQueue), c)
         /\ type # "kDoDisconnect" <=> HasConnect(eventQueue, d)
<1>1. /\ Sound /\ attaching = None /\ life[d] = "made"
      /\ eventQueue # << >> /\ Head(eventQueue) = Task(type, d)
      /\ budget[Event] > 0 /\ budget' = [budget EXCEPT ![Event] = @ - 1]
  BY DEF Take, InTasks, QueueOf
<1>2. eventQueue \in Seq(EngineTasks) /\ \A c \in Connection : InOrder(eventQueue, c)
  BY EngineFacts DEF ConnectOf
<1>3. budget' \in [Dispatcher -> 0 .. kBatchTaskSize]
  <2>1. budget \in [Dispatcher -> 0 .. kBatchTaskSize] /\ Event \in Dispatcher
    BY DEF EngineInv, EngineTypeOK, Dispatcher
  <2>2. budget[Event] - 1 \in 0 .. kBatchTaskSize
    BY <1>1, <2>1, EngineAssumption
  <2> QED BY <1>1, <2>1, <2>2
<1>4. \A c \in Connection :
        /\ Head(eventQueue) = Task("kDoDisconnect", c) <=> type = "kDoDisconnect" /\ c = d
        /\ Connects(Head(eventQueue), c) <=> type # "kDoDisconnect" /\ c = d
  BY <1>1, TasksAreTold
<1>5. Tail(eventQueue) \in Seq(EngineTasks)
  BY <1>1, <1>2, TakeTask
<1>6. ASSUME NEW c \in Connection
      PROVE  /\ Disconnects(eventQueue, c) =
                  IF type = "kDoDisconnect" /\ c = d
                  THEN Disconnects(Tail(eventQueue), c) + 1
                  ELSE Disconnects(Tail(eventQueue), c)
             /\ Disconnects(Tail(eventQueue), c) \in Nat
             /\ HasConnect(Tail(eventQueue), c) => HasConnect(eventQueue, c)
             /\ InOrder(Tail(eventQueue), c)
  BY <1>1, <1>2, <1>4, <1>5, TakeTask, QueueCounts
<1>7. type # "kDoDisconnect" => HasConnect(eventQueue, d)
  BY <1>1, <1>2, <1>4, TakeTask
<1>8. type = "kDoDisconnect" => ~HasConnect(eventQueue, d)
  BY <1>1, <1>2, <1>4, TakeTask
<1> QED BY <1>1, <1>3, <1>5, <1>6, <1>7, <1>8

LEMMA AddConnectionStep ==
  ASSUME EngineInv, NEW d \in Connection, AddConnection(d)
  PROVE  EngineInv'
<1> DEFINE type == "kAddConnection"
<1>0. EngineTypeOK /\ IoTasks
  BY DEF EngineInv
<1>1. /\ Take(type, d) /\ eventQueue' = Tail(eventQueue)
      /\ UNCHANGED <<ioThreads, lifeVars, countVars, ioQueue, nextIo, ioEpoll, pc, batch,
                     attaching, alive, stops, dangling>>
      /\ m_setConnection' = m_setConnection \cup {d} \/ m_setConnection' = m_setConnection
      /\ eventEpoll' = eventEpoll \cup {d} \/ eventEpoll' = eventEpoll
  BY DEF AddConnection
<1>t. type \in TaskTypes /\ type # "kDoDisconnect"
  BY DEF TaskTypes
<1> HIDE DEF type
<1>2. /\ Sound /\ budget' \in [Dispatcher -> 0 .. kBatchTaskSize]
      /\ eventQueue' \in Seq(EngineTasks)
      /\ \A c \in Connection :
           /\ Disconnects(eventQueue', c) = Disconnects(eventQueue, c)
           /\ HasConnect(eventQueue', c) => HasConnect(eventQueue, c)
           /\ InOrder(eventQueue', c)
  BY <1>1, <1>t, TaskTaken
<1>3. DestroyIsSafe'
  BY <1>1, <1>2, StaysSafe
<1>4. IoTasks'
  BY <1>0, <1>1, IoTasksStay
<1>5. EngineTypeOK'
  BY <1>0, <1>1, <1>2 DEF EngineTypeOK, Io, Dispatcher, lifeVars, countVars
<1>6. ASSUME NEW c \in Connection PROVE Known(c)'
  <2>1. UNCHANGED <<life, fd, told, m_bIsSyncConnect, closes, detached, answered>>
    BY <1>1 DEF lifeVars, countVars
  <2>2. SocketOf(c)'
    BY <2>1, EngineFacts, SocketStays
  <2>3. ClosesOf(c)'
    BY <1>1, <1>2, <2>1, EngineFacts, ClosesStay
  <2>4. ConnectOf(c)'
    BY <1>1, <1>2, <2>1, EngineFacts, ConnectStays
  <2>5. SingleIoOf(c)'
    BY <1>1, <2>1, EngineFacts, SingleIoStays
  <2> QED BY <2>2, <2>3, <2>4, <2>5 DEF Known
<1> QED BY <1>3, <1>4, <1>5, <1>6 DEF EngineInv

\* OnConnected() is told of a connection that nobody has detached.
LEMMA ConnectedStep ==
  ASSUME EngineInv, NEW d \in Connection, Connected(d)
  PROVE  EngineInv'
<1> DEFINE type == "kConnected"
           rest == Tail(eventQueue)
<1>0. EngineTypeOK /\ IoTasks
  BY DEF EngineInv
<1>1. /\ Take(type, d)
      /\ told' = [told EXCEPT ![d] = "connected"]
      /\ UNCHANGED <<ioThreads, life, fd, m_bIsSyncConnect, connecting, detached, answered,
                     ioQueue, nextIo, epollVars, pc, batch, alive, stops, dangling>>
  BY DEF Connected
<1>t. type \in TaskTypes /\ type # "kDoDisconnect"
  BY DEF TaskTypes
<1>c. \/ attaching' = d /\ eventQueue' = rest /\ closes' = closes
      \/ /\ CanClose(d) /\ CountClose(d)
         /\ eventQueue' = ClosedInto(rest, d)
         /\ attaching' = attaching
  BY DEF Connected
<1> HIDE DEF type
<1>2. /\ Sound /\ attaching = None /\ budget' \in [Dispatcher -> 0 .. kBatchTaskSize]
      /\ life[d] = "made" /\ HasConnect(eventQueue, d)
      /\ rest \in Seq(EngineTasks)
      /\ \A c \in Connection :
           /\ Disconnects(rest, c) = Disconnects(eventQueue, c)
           /\ HasConnect(rest, c) => HasConnect(eventQueue, c)
           /\ InOrder(rest, c)
  BY <1>1, <1>t, TaskTaken
<1> HIDE DEF rest
<1>3. ~m_bIsSyncConnect[d] /\ detached[d] = 0
  BY <1>2, EngineFacts DEF ConnectOf
<1>4. told[d] # "disconnected" /\ fd[d] # "closed"
  <2>1. /\ SocketOf(d) /\ ClosesOf(d)
        /\ answered[d] \in Nat /\ Disconnects(ioQueue[0], d) \in Nat
    BY EngineFacts
  <2> QED BY <1>3, <2>1 DEF SocketOf, ClosesOf
<1>5. PICK n \in 0 .. 1 :
        /\ closes[d] + n \in 0 .. MaxClose
        /\ closes' = [closes EXCEPT ![d] = closes[d] + n]
        /\ Posted(rest, eventQueue', d, n)
  <2>1. CASE /\ CanClose(d) /\ CountClose(d)
             /\ eventQueue' = ClosedInto(rest, d)
    BY <1>2, <2>1, ClosedIntoCounts
  <2>2. CASE eventQueue' = rest /\ closes' = closes
    <3>1. closes[d] \in 0 .. MaxClose /\ closes[d] + 0 = closes[d]
      BY <1>0, EngineAssumption DEF EngineTypeOK
    <3>2. closes' = [closes EXCEPT ![d] = closes[d] + 0]
      BY <1>0, <2>2, <3>1 DEF EngineTypeOK
    <3>3. Posted(rest, rest, d, 0)
      BY <1>2, QueueCounts DEF Posted
    <3>4. Posted(rest, eventQueue', d, 0)
      BY <2>2, <3>3
    <3>5. 0 \in 0 .. 1 /\ closes[d] + 0 \in 0 .. MaxClose
      BY <3>1
    <3> QED BY <3>2, <3>4, <3>5
  <2> QED BY <1>c, <2>1, <2>2
<1>6. attaching' \in {attaching, d}
  BY <1>c
<1>7. DestroyIsSafe'
  BY <1>1, <1>2, StaysSafe
<1>8. IoTasks'
  BY <1>0, <1>1, IoTasksStay
<1>9. EngineTypeOK'
  <2>1. eventQueue' \in Seq(EngineTasks)
    BY <1>5 DEF Posted
  <2>2. told' \in [Connection -> {"nothing", "connected", "disconnected"}]
    BY <1>0, <1>1 DEF EngineTypeOK
  <2>3. closes' \in [Connection -> 0 .. MaxClose]
    BY <1>0, <1>5 DEF EngineTypeOK
  <2> QED BY <1>0, <1>1, <1>2, <1>6, <2>1, <2>2, <2>3
          DEF EngineTypeOK, Io, Dispatcher, epollVars
<1>10. ASSUME NEW c \in Connection PROVE Known(c)'
  <2>1. /\ SocketOf(c) /\ ClosesOf(c) /\ ConnectOf(c) /\ SingleIoOf(c)
        /\ closes[c] \in Nat /\ detached[c] \in Nat /\ Disconnects(eventQueue, c) \in Nat
    BY EngineFacts
  <2>2. told'[c] = IF c = d THEN "connected" ELSE told[c]
    BY <1>0, <1>1 DEF EngineTypeOK
  <2>3. told'[c] = "disconnected" <=> told[c] = "disconnected"
    BY <1>4, <2>2
  <2>4. SocketOf(c)'
    BY <1>1, <2>1, <2>3 DEF SocketOf
  <2>5. ClosesOf(c)'
    <3>1. closes'[c] = IF c = d THEN closes[c] + n ELSE closes[c]
      BY <1>0, <1>5 DEF EngineTypeOK
    <3>2. Disconnects(eventQueue', c) =
            IF c = d THEN Disconnects(eventQueue, c) + n ELSE Disconnects(eventQueue, c)
      BY <1>2, <1>5 DEF Posted
    <3>3. /\ detached' = detached /\ answered' = answered /\ ioQueue' = ioQueue
          /\ n \in Nat
      BY <1>1
    <3> QED BY <2>1, <2>3, <3>1, <3>2, <3>3 DEF ClosesOf
  <2>6. ConnectOf(c)'
    <3>1. /\ HasConnect(eventQueue', c) => HasConnect(eventQueue, c)
          /\ InOrder(eventQueue', c)
      BY <1>2, <1>5 DEF Posted
    <3>2. attaching' = c => c = d
      BY <1>2, <1>6, EngineAssumption DEF None
    <3>3. life' = life /\ m_bIsSyncConnect' = m_bIsSyncConnect /\ detached' = detached
      BY <1>1
    <3> QED BY <1>2, <2>1, <3>1, <3>2, <3>3 DEF ConnectOf
  <2>7. SingleIoOf(c)'
    <3>1. /\ ioThreads' = ioThreads /\ ioQueue' = ioQueue /\ ioEpoll' = ioEpoll
          /\ batch' = batch
      BY <1>1 DEF epollVars
    <3> QED BY <2>1, <2>3, <3>1 DEF SingleIoOf
  <2> QED BY <2>4, <2>5, <2>6, <2>7 DEF Known
<1> QED BY <1>7, <1>8, <1>9, <1>10 DEF EngineInv

LEMMA AttachConnectionStep ==
  ASSUME EngineInv, AttachConnection
  PROVE  EngineInv'
<1> DEFINE d == attaching
           e == Task("kAddConnection", d)
<1>0. EngineTypeOK /\ IoTasks /\ nextIo \in Io /\ 0 \in Io /\ ioThreads \in Nat \ {0}
  BY EngineFacts DEF EngineInv, EngineTypeOK
<1>1. /\ Sound /\ attaching # None
      /\ ioQueue' = [ioQueue EXCEPT ![nextIo] = Append(@, e)]
      /\ nextIo' = NextIo
      /\ attaching' = None
      /\ UNCHANGED <<ioThreads, lifeVars, countVars, eventQueue, epollVars, pc, batch,
                     budget, alive, stops, dangling>>
  BY DEF AttachConnection
<1>2. d \in Connection
  BY <1>0, <1>1 DEF EngineTypeOK
<1>3. detached[d] = 0 /\ told[d] # "disconnected" /\ Disconnects(ioQueue[0], d) = 0
  <2>1. /\ ClosesOf(d) /\ ConnectOf(d) /\ detached[d] \in Nat
        /\ answered[d] \in Nat /\ Disconnects(ioQueue[0], d) \in Nat
    BY <1>2, EngineFacts
  <2> QED BY <2>1 DEF ClosesOf, ConnectOf
<1>e. "kAddConnection" \in {"kAddConnection", "kConnected"}
  OBVIOUS
<1> HIDE DEF d
<1>4. /\ Append(ioQueue[0], e) \in Seq(EngineTasks)
      /\ \A c \in Connection :
           /\ Disconnects(Append(ioQueue[0], e), c) = Disconnects(ioQueue[0], c)
           /\ c # d => (HasConnect(Append(ioQueue[0], e), c) <=> HasConnect(ioQueue[0], c))
           /\ InOrder(ioQueue[0], c) /\ (c = d => Disconnects(ioQueue[0], c) = 0)
                => InOrder(Append(ioQueue[0], e), c)
  BY <1>2, <1>e, EngineFacts, PostConnect
<1>5. ioQueue'[0] = Append(ioQueue[0], e) \/ ioQueue'[0] = ioQueue[0]
  BY <1>0, <1>1 DEF EngineTypeOK
<1>6. IoTasks' /\ ioQueue' \in [Io -> Seq(EngineTasks)]
  <2>1. e \in IoTasksOf(nextIo) /\ e \in EngineTasks
    BY <1>2 DEF Task, IoTasksOf, EngineTasks
  <2> HIDE DEF e
  <2>2. \A i \in Io : ioQueue'[i] = IF i = nextIo THEN Append(ioQueue[i], e) ELSE ioQueue[i]
    BY <1>0, <1>1 DEF EngineTypeOK
  <2>3. Append(ioQueue[nextIo], e) \in Seq(IoTasksOf(nextIo))
    BY <1>0, <2>1, AppendProperties DEF IoTasks
  <2>4. Append(ioQueue[nextIo], e) \in Seq(EngineTasks)
    BY <1>0, <2>1, AppendProperties DEF EngineTypeOK
  <2>5. IoTasks'
    BY <1>0, <1>1, <2>2, <2>3 DEF IoTasks, Io
  <2>6. ioQueue' \in [Io -> Seq(EngineTasks)]
    BY <1>0, <1>1, <2>4 DEF EngineTypeOK
  <2> QED BY <2>5, <2>6
<1>7. NextIo \in Io
  BY <1>0 DEF NextIo, Io
<1>8. DestroyIsSafe'
  BY <1>1, StaysSafe
<1>9. EngineTypeOK'
  BY <1>0, <1>1, <1>6, <1>7 DEF EngineTypeOK, Io, Dispatcher, lifeVars, countVars, epollVars
<1>10. ASSUME NEW c \in Connection PROVE Known(c)'
  <2>1. UNCHANGED <<life, fd, told, m_bIsSyncConnect, closes, detached, answered, ioEpoll>>
    BY <1>1 DEF lifeVars, countVars, epollVars
  <2>2. /\ SocketOf(c) /\ ClosesOf(c) /\ ConnectOf(c) /\ SingleIoOf(c)
    BY EngineFacts
  <2>3. /\ Disconnects(ioQueue'[0], c) = Disconnects(ioQueue[0], c)
        /\ c # d => (HasConnect(ioQueue'[0], c) => HasConnect(ioQueue[0], c))
        /\ InOrder(ioQueue[0], c) => InOrder(ioQueue'[0], c)
    BY <1>3, <1>4, <1>5 DEF d
  <2>4. SocketOf(c)'
    BY <2>1, <2>2, SocketStays
  <2>5. ClosesOf(c)'
    BY <1>1, <2>1, <2>2, <2>3, ClosesStay
  <2>6. ConnectOf(c)'
    <3>1. attaching' # c
      BY <1>1, EngineAssumption DEF None
    <3>2. eventQueue' = eventQueue
      BY <1>1
    <3> QED BY <2>1, <2>2, <3>1, <3>2 DEF ConnectOf
  <2>7. SingleIoOf(c)'
    <3>1. told'[c] = "disconnected" => c # d
      BY <1>3, <2>1 DEF d
    <3>2. ioThreads' = ioThreads /\ batch' = batch
      BY <1>1
    <3> QED BY <2>1, <2>2, <2>3, <3>1, <3>2 DEF SingleIoOf
  <2> QED BY <2>4, <2>5, <2>6, <2>7 DEF Known
<1> QED BY <1>6, <1>8, <1>9, <1>10 DEF EngineInv

\* A Close() moves from the event dispatcher to the first I/O dispatcher.
LEMMA DoDisconnectStep ==
  ASSUME EngineInv, NEW d \in Connection, DoDisconnect(d)
  PROVE  EngineInv'
<1> DEFINE type == "kDoDisconnect"
<1>0. EngineTypeOK /\ IoTasks
  BY DEF EngineInv
<1>1. /\ Take(type, d) /\ eventQueue' = Tail(eventQueue) /\ Detach(d)
      /\ UNCHANGED <<ioThreads, lifeVars, closes, answered, nextIo, epollVars, pc, batch,
                     attaching, alive, stops, dangling>>
  BY DEF DoDisconnect
<1>t. type \in TaskTypes /\ type = "kDoDisconnect"
  BY DEF TaskTypes
<1> HIDE DEF type
<1>2. /\ Sound /\ attaching = None /\ budget' \in [Dispatcher -> 0 .. kBatchTaskSize]
      /\ eventQueue' \in Seq(EngineTasks)
      /\ ~HasConnect(eventQueue, d)
      /\ \A c \in Connection :
           /\ Disconnects(eventQueue, c) = IF c = d THEN Disconnects(eventQueue', c) + 1
                                                    ELSE Disconnects(eventQueue', c)
           /\ Disconnects(eventQueue', c) \in Nat
           /\ HasConnect(eventQueue', c) => HasConnect(eventQueue, c)
           /\ InOrder(eventQueue', c)
  BY <1>1, <1>t, TaskTaken
<1>3. /\ IoTasks'
      /\ ioQueue' \in [Io -> Seq(EngineTasks)]
      /\ Posted(ioQueue[0], ioQueue'[0], d, 1)
  BY <1>1, DetachTasks
<1>4. detached' = [detached EXCEPT ![d] = @ + 1]
  BY <1>1 DEF Detach
<1>5. detached[d] + 1 \in 0 .. MaxClose
  <2>1. /\ ClosesOf(d) /\ closes[d] \in 0 .. MaxClose /\ detached[d] \in Nat
    BY <1>0, EngineFacts DEF EngineTypeOK
  <2>2. /\ Disconnects(eventQueue, d) = Disconnects(eventQueue', d) + 1
        /\ Disconnects(eventQueue', d) \in Nat
    BY <1>2
  <2> QED BY <2>1, <2>2, EngineAssumption DEF ClosesOf
<1>6. DestroyIsSafe'
  BY <1>1, <1>2, StaysSafe
<1>7. EngineTypeOK'
  BY <1>0, <1>1, <1>2, <1>3, <1>4, <1>5 DEF EngineTypeOK, Io, Dispatcher, lifeVars, epollVars
<1>8. ASSUME NEW c \in Connection PROVE Known(c)'
  <2>1. UNCHANGED <<life, fd, told, m_bIsSyncConnect, closes, answered, ioEpoll>>
    BY <1>1 DEF lifeVars, epollVars
  <2>2. detached'[c] = IF c = d THEN detached[c] + 1 ELSE detached[c]
    BY <1>0, <1>4 DEF EngineTypeOK
  <2>3. SocketOf(c)'
    BY <2>1, EngineFacts, SocketStays
  <2>4. ClosesOf(c)'
    <3>1. /\ ClosesOf(c)
          /\ closes[c] \in Nat /\ detached[c] \in Nat /\ answered[c] \in Nat
          /\ Disconnects(ioQueue[0], c) \in Nat
      BY EngineFacts
    <3>2. /\ Disconnects(eventQueue, c) = IF c = d THEN Disconnects(eventQueue', c) + 1
                                                    ELSE Disconnects(eventQueue', c)
          /\ Disconnects(eventQueue', c) \in Nat
      BY <1>2
    <3>3. Disconnects(ioQueue'[0], c) =
            IF c = d THEN Disconnects(ioQueue[0], c) + 1 ELSE Disconnects(ioQueue[0], c)
      BY <1>3 DEF Posted
    <3> QED BY <2>1, <2>2, <3>1, <3>2, <3>3 DEF ClosesOf
  <2>5. ConnectOf(c)'
    <3>1. attaching' = attaching /\ attaching # d
      BY <1>1, <1>2, EngineAssumption DEF None
    <3>2. ConnectOf(c)
      BY EngineFacts
    <3> QED BY <1>2, <2>1, <2>2, <3>1, <3>2 DEF ConnectOf
  <2>6. SingleIoOf(c)'
    BY <1>1, <1>3, <2>1, EngineFacts, SingleIoStays DEF Posted
  <2> QED BY <2>3, <2>4, <2>5, <2>6 DEF Known
<1> QED BY <1>3, <1>6, <1>7, <1>8 DEF EngineInv

\* What an I/O dispatcher knows of the task it takes.
LEMMA IoTaskTaken ==
  ASSUME EngineInv, NEW i \in Io, NEW type \in TaskTypes, NEW d \in Connection,
         TakeIo(i, type, d), ioThreads' = ioThreads
  PROVE  /\ Sound /\ life[d] = "made" /\ batch[i] = {}
         /\ type = "kDoDisconnect" => i = 0
         /\ budget' \in [Dispatcher -> 0 .. kBatchTaskSize]
         /\ IoTasks' /\ ioQueue' \in [Io -> Seq(EngineTasks)]
         /\ \A c \in Connection :
              /\ Disconnects(ioQueue[0], c) =
                   IF type = "kDoDisconnect" /\ c = d
                   THEN Disconnects(ioQueue'[0], c) + 1
                   ELSE Disconnects(ioQueue'[0], c)
              /\ Disconnects(ioQueue'[0], c) \in Nat
              /\ HasConnect(ioQueue'[0], c) => HasConnect(ioQueue[0], c)
              /\ InOrder(ioQueue[0], c) => InOrder(ioQueue'[0], c)
         /\ type = "kDoDisconnect" /\ InOrder(ioQueue[0], d) => ~HasConnect(ioQueue'[0], d)
<1>0. /\ EngineTypeOK /\ IoTasks /\ 0 \in Io
      /\ ioQueue[0] \in Seq(EngineTasks)
  BY EngineFacts DEF EngineInv
<1>1. /\ Sound /\ life[d] = "made" /\ batch[i] = {}
      /\ budget[i] > 0 /\ budget' = [budget EXCEPT ![i] = @ - 1]
      /\ Head(ioQueue[i]) = Task(type, d)
      /\ ioQueue' = [ioQueue EXCEPT ![i] = Tail(@)]
  BY DEF TakeIo, InTasks
<1>2. ioQueue[i] # << >>
  BY EngineFacts DEF TakeIo, InTasks, QueueOf
<1>3. budget' \in [Dispatcher -> 0 .. kBatchTaskSize]
  <2>1. budget \in [Dispatcher -> 0 .. kBatchTaskSize] /\ i \in Dispatcher
    BY <1>0 DEF EngineTypeOK, Dispatcher
  <2>2. budget[i] - 1 \in 0 .. kBatchTaskSize
    BY <1>1, <2>1, EngineAssumption
  <2> QED BY <1>1, <2>1, <2>2
<1>4. /\ ioQueue[i] \in Seq(EngineTasks) /\ ioQueue[i] \in Seq(IoTasksOf(i))
  BY <1>0 DEF EngineTypeOK, IoTasks
<1>5. \A c \in Connection :
        /\ Head(ioQueue[i]) = Task("kDoDisconnect", c) <=> type = "kDoDisconnect" /\ c = d
        /\ Connects(Head(ioQueue[i]), c) <=> type # "kDoDisconnect" /\ c = d
  BY <1>1, TasksAreTold
<1>6. type = "kDoDisconnect" => i = 0
  <2>1. Head(ioQueue[i]) \in IoTasksOf(i)
    BY <1>2, <1>4, HeadTailProperties
  <2>2. Task(type, d).type = type
    BY TasksAreTold
  <2> QED BY <1>1, <2>1, <2>2 DEF IoTasksOf
<1>7. \A j \in Io : ioQueue'[j] = IF j = i THEN Tail(ioQueue[j]) ELSE ioQueue[j]
  BY <1>0, <1>1 DEF EngineTypeOK
<1>8. IoTasks'
  <2>1. Tail(ioQueue[i]) \in Seq(IoTasksOf(i))
    BY <1>2, <1>4, HeadTailProperties
  <2> QED BY <1>0, <1>7, <2>1 DEF IoTasks, Io
<1>9. ioQueue' \in [Io -> Seq(EngineTasks)]
  <2>1. Tail(ioQueue[i]) \in Seq(EngineTasks)
    BY <1>2, <1>4, HeadTailProperties
  <2> QED BY <1>0, <1>1, <2>1 DEF EngineTypeOK
<1>10. CASE i = 0
  <2>1. ioQueue'[0] = Tail(ioQueue[0])
    BY <1>0, <1>7, <1>10
  <2>2. ioQueue'[0] \in Seq(EngineTasks)
    BY <1>0, <1>9
  <2>3. ASSUME NEW c \in Connection
        PROVE  /\ Disconnects(ioQueue[0], c) =
                    IF type = "kDoDisconnect" /\ c = d
                    THEN Disconnects(ioQueue'[0], c) + 1
                    ELSE Disconnects(ioQueue'[0], c)
               /\ Disconnects(ioQueue'[0], c) \in Nat
               /\ HasConnect(ioQueue'[0], c) => HasConnect(ioQueue[0], c)
               /\ InOrder(ioQueue[0], c) => InOrder(ioQueue'[0], c)
    BY <1>0, <1>2, <1>5, <1>10, <2>1, <2>2, TakeTask, QueueCounts
  <2>4. type = "kDoDisconnect" /\ InOrder(ioQueue[0], d) => ~HasConnect(ioQueue'[0], d)
    BY <1>0, <1>2, <1>5, <1>10, <2>3, TakeTask
  <2> QED BY <1>1, <1>3, <1>6, <1>8, <1>9, <2>3, <2>4
<1>11. CASE i # 0
  <2>1. ioQueue'[0] = ioQueue[0] /\ type # "kDoDisconnect"
    BY <1>0, <1>6, <1>7, <1>11
  <2> QED BY <1>0, <1>1, <1>3, <1>6, <1>8, <1>9, <2>1, QueueCounts
<1> QED BY <1>10, <1>11

LEMMA AddToIoStep ==
  ASSUME EngineInv, NEW i \in Io, NEW d \in Connection, AddToIo(i, d)
  PROVE  EngineInv'
<1> DEFINE type == "kAddConnection"
<1>0. EngineTypeOK /\ 0 \in Io
  BY EngineFacts DEF EngineInv
<1>1. /\ TakeIo(i, type, d)
      /\ UNCHANGED <<ioThreads, lifeVars, countVars, eventQueue, nextIo, m_setConnection,
                     eventEpoll, pc, batch, attaching, alive, stops, dangling>>
  BY DEF AddToIo
<1>e. \/ fd[d] = "open" /\ ioEpoll' = [ioEpoll EXCEPT ![i] = @ \cup {d}]
      \/ ioEpoll' = ioEpoll
  BY DEF AddToIo
<1>f. ioEpoll \in [Io -> SUBSET Connection]
  BY <1>0 DEF EngineTypeOK
<1>t. type \in TaskTypes /\ type # "kDoDisconnect"
  BY DEF TaskTypes
<1> HIDE DEF type
<1>2. /\ Sound /\ budget' \in [Dispatcher -> 0 .. kBatchTaskSize]
      /\ IoTasks' /\ ioQueue' \in [Io -> Seq(EngineTasks)]
      /\ \A c \in Connection :
           /\ Disconnects(ioQueue'[0], c) = Disconnects(ioQueue[0], c)
           /\ HasConnect(ioQueue'[0], c) => HasConnect(ioQueue[0], c)
           /\ InOrder(ioQueue[0], c) => InOrder(ioQueue'[0], c)
  BY <1>1, <1>t, IoTaskTaken
<1>3. DestroyIsSafe'
  BY <1>1, <1>2, StaysSafe
<1>4. EngineTypeOK'
  <2>1. ioEpoll' \in [Io -> SUBSET Connection]
    BY <1>e, <1>f
  <2> QED BY <1>0, <1>1, <1>2, <2>1 DEF EngineTypeOK, Io, Dispatcher, lifeVars, countVars
<1>5. ASSUME NEW c \in Connection PROVE Known(c)'
  <2>1. UNCHANGED <<life, fd, told, m_bIsSyncConnect, closes, detached, answered>>
    BY <1>1 DEF lifeVars, countVars
  <2>2. SocketOf(c) /\ ClosesOf(c) /\ ConnectOf(c) /\ SingleIoOf(c)
    BY EngineFacts
  <2>3. SocketOf(c)'
    BY <2>1, <2>2, SocketStays
  <2>4. ClosesOf(c)'
    BY <1>1, <1>2, <2>1, <2>2, ClosesStay
  <2>5. ConnectOf(c)'
    BY <1>1, <2>1, <2>2, ConnectStays
  <2>6. SingleIoOf(c)'
    <3>1. c \in ioEpoll'[0] => c \in ioEpoll[0] \/ fd[c] = "open"
      BY <1>0, <1>e, <1>f
    <3>2. fd[c] = "open" => told[c] # "disconnected"
      BY <2>2 DEF SocketOf
    <3> QED BY <1>1, <1>2, <2>1, <2>2, <3>1, <3>2 DEF SingleIoOf
  <2> QED BY <2>3, <2>4, <2>5, <2>6 DEF Known
<1> QED BY <1>2, <1>3, <1>4, <1>5 DEF EngineInv

LEMMA DisconnectedStep ==
  ASSUME EngineInv, NEW i \in Io, NEW d \in Connection, Disconnected(i, d)
  PROVE  EngineInv'
<1> DEFINE type == "kDoDisconnect"
<1>0. EngineTypeOK /\ 0 \in Io
  BY EngineFacts DEF EngineInv
<1>1. /\ TakeIo(i, type, d)
      /\ answered' = [answered EXCEPT ![d] = @ + 1]
      /\ UNCHANGED <<ioThreads, life, m_bIsSyncConnect, connecting, closes, detached,
                     eventQueue, nextIo, m_setConnection, pc, batch, attaching, alive,
                     stops, dangling>>
  BY DEF Disconnected
<1>s. \/ /\ fd' = [fd EXCEPT ![d] = "closed"]
         /\ told' = [told EXCEPT ![d] = "disconnected"]
         /\ eventEpoll' = eventEpoll \ {d}
         /\ ioEpoll' = [j \in Io |-> ioEpoll[j] \ {d}]
      \/ UNCHANGED <<fd, told, eventEpoll, ioEpoll>>
  BY DEF Disconnected
<1>t. type \in TaskTypes /\ type = "kDoDisconnect"
  BY DEF TaskTypes
<1> HIDE DEF type
<1>2. /\ Sound /\ life[d] = "made" /\ batch[0] = {}
      /\ budget' \in [Dispatcher -> 0 .. kBatchTaskSize]
      /\ IoTasks' /\ ioQueue' \in [Io -> Seq(EngineTasks)]
      /\ InOrder(ioQueue[0], d) => ~HasConnect(ioQueue'[0], d)
      /\ \A c \in Connection :
           /\ Disconnects(ioQueue[0], c) = IF c = d THEN Disconnects(ioQueue'[0], c) + 1
                                                    ELSE Disconnects(ioQueue'[0], c)
           /\ Disconnects(ioQueue'[0], c) \in Nat
           /\ HasConnect(ioQueue'[0], c) => HasConnect(ioQueue[0], c)
           /\ InOrder(ioQueue[0], c) => InOrder(ioQueue'[0], c)
  BY <1>1, <1>t, IoTaskTaken
<1>3. DestroyIsSafe'
  BY <1>1, <1>2, StaysSafe
<1>4. EngineTypeOK'
  <2>1. answered[d] + 1 \in 0 .. MaxClose
    <3>1. /\ ClosesOf(d) /\ detached[d] \in 0 .. MaxClose /\ answered[d] \in Nat
          /\ Disconnects(ioQueue[0], d) = Disconnects(ioQueue'[0], d) + 1
          /\ Disconnects(ioQueue'[0], d) \in Nat
      BY <1>0, <1>2, EngineFacts DEF EngineTypeOK
    <3> QED BY <3>1, EngineAssumption DEF ClosesOf
  <2>2. answered' \in [Connection -> 0 .. MaxClose]
    BY <1>0, <1>1, <2>1 DEF EngineTypeOK
  <2>3. /\ fd' \in [Connection -> {"none", "open", "closed"}]
        /\ told' \in [Connection -> {"nothing", "connected", "disconnected"}]
        /\ eventEpoll' \subseteq Connection
        /\ ioEpoll' \in [Io -> SUBSET Connection]
    <3>1. /\ fd \in [Connection -> {"none", "open", "closed"}]
          /\ told \in [Connection -> {"nothing", "connected", "disconnected"}]
          /\ eventEpoll \subseteq Connection
          /\ ioEpoll \in [Io -> SUBSET Connection]
      BY <1>0 DEF EngineTypeOK
    <3>2. CASE UNCHANGED <<fd, told, eventEpoll, ioEpoll>>
      BY <3>1, <3>2
    <3>3. CASE /\ fd' = [fd EXCEPT ![d] = "closed"]
               /\ told' = [told EXCEPT ![d] = "disconnected"]
               /\ eventEpoll' = eventEpoll \ {d}
               /\ ioEpoll' = [j \in Io |-> ioEpoll[j] \ {d}]
      <4>1. ioEpoll' \in [Io -> SUBSET Connection]
        BY <3>1, <3>3
      <4>2. fd' \in [Connection -> {"none", "open", "closed"}]
        BY <3>1, <3>3
      <4>3. told' \in [Connection -> {"nothing", "connected", "disconnected"}]
        BY <3>1, <3>3
      <4> QED BY <3>1, <3>3, <4>1, <4>2, <4>3
    <3> QED BY <1>s, <3>2, <3>3
  <2> QED BY <1>0, <1>1, <1>2, <2>2, <2>3 DEF EngineTypeOK, Io, Dispatcher
<1>5. ASSUME NEW c \in Connection PROVE Known(c)'
  <2>1. /\ SocketOf(c) /\ ClosesOf(c) /\ ConnectOf(c) /\ SingleIoOf(c)
        /\ detached[c] \in Nat /\ answered[c] \in Nat
    BY EngineFacts
  <2>2. \/ fd'[c] = fd[c] /\ told'[c] = told[c]
        \/ c = d /\ fd'[c] = "closed" /\ told'[c] = "disconnected" /\ c \notin ioEpoll'[0]
    BY <1>0, <1>s DEF EngineTypeOK
  <2>3. c \in ioEpoll'[0] => c \in ioEpoll[0]
    BY <1>0, <1>s DEF EngineTypeOK
  <2>4. answered'[c] = IF c = d THEN answered[c] + 1 ELSE answered[c]
    BY <1>0, <1>1 DEF EngineTypeOK
  <2>5. SocketOf(c)'
    BY <1>1, <1>2, <2>1, <2>2 DEF SocketOf
  <2>6. ClosesOf(c)'
    <3>1. /\ detached' = detached /\ closes' = closes /\ eventQueue' = eventQueue
      BY <1>1
    <3>2. /\ Disconnects(ioQueue[0], c) = IF c = d THEN Disconnects(ioQueue'[0], c) + 1
                                                   ELSE Disconnects(ioQueue'[0], c)
          /\ Disconnects(ioQueue'[0], c) \in Nat
      BY <1>2
    <3>3. told'[c] = "disconnected" => told[c] = "disconnected" \/ c = d
      BY <2>2
    <3> QED BY <2>1, <2>4, <3>1, <3>2, <3>3 DEF ClosesOf
  <2>7. ConnectOf(c)'
    BY <1>1, <2>1, ConnectStays
  <2>8. SingleIoOf(c)'
    <3>1. ioThreads' = ioThreads /\ batch' = batch
      BY <1>1
    <3> QED BY <1>2, <2>1, <2>2, <2>3, <3>1 DEF SingleIoOf
  <2> QED BY <2>5, <2>6, <2>7, <2>8 DEF Known
<1> QED BY <1>2, <1>3, <1>4, <1>5 DEF EngineInv

LEMMA InitEngineInv == EngineInit => EngineInv
<1> SUFFICES ASSUME EngineInit PROVE EngineInv
  OBVIOUS
<1>1. ioThreads \in Nat \ {0} /\ 0 \in Io
  BY EngineAssumption DEF EngineInit, Io
<1>2. EngineTypeOK
  <2>1. << >> \in Seq(EngineTasks)
    BY EmptySeq
  <2>2. 0 \in 0 .. MaxClose /\ 0 \in 0 .. MaxStop /\ 0 \in 0 .. kBatchTaskSize
    BY EngineAssumption
  <2> QED BY <2>1, <2>2 DEF EngineInit, EngineTypeOK
<1>3. IoTasks
  BY EmptySeq DEF EngineInit, IoTasks
<1>4. ASSUME NEW c \in Connection PROVE Known(c)
  <2>1. /\ life[c] = "none" /\ fd[c] = "none" /\ told[c] = "nothing"
        /\ closes[c] = 0 /\ detached[c] = 0 /\ answered[c] = 0
        /\ eventQueue = << >> /\ ioQueue[0] = << >> /\ attaching = None
    BY <1>1 DEF EngineInit
  <2>2. attaching # c
    BY <2>1, EngineAssumption DEF None
  <2>3. Disconnects(<< >>, c) = 0 /\ ~HasConnect(<< >>, c) /\ InOrder(<< >>, c)
    BY EmptyQueue
  <2>4. SocketOf(c)
    BY <2>1 DEF SocketOf
  <2>5. ClosesOf(c)
    BY <2>1, <2>3 DEF ClosesOf
  <2>6. ConnectOf(c)
    BY <2>1, <2>2, <2>3 DEF ConnectOf
  <2>7. SingleIoOf(c)
    BY <2>1, <2>3 DEF SingleIoOf
  <2> QED BY <2>4, <2>5, <2>6, <2>7 DEF Known
<1>5. DestroyIsSafe
  BY DEF EngineInit, DestroyIsSafe
<1> QED BY <1>2, <1>3, <1>4, <1>5 DEF EngineInv

LEMMA EngineInvStep == EngineInv /\ [EngineNext]_engineVars => EngineInv'
<1> SUFFICES ASSUME EngineInv, [EngineNext]_engineVars
             PROVE  EngineInv'
  OBVIOUS
<1>1. CASE Application
  BY <1>1, StartEngineStep, StopEventDispatcherStep, StopIoDispatcherStep,
     CreateConnectionStep, ConnectAsyncStep, ConnectSyncStep, CloseStep,
     DestroyConnectionStep DEF Application
<1>2. CASE EventTurn
  <2>1. Event \in Dispatcher
    BY DEF Dispatcher
  <2> QED
    BY <1>2, <2>1, TurnStep, AttachConnectionStep, ProcessConnectionEventStep,
       ProcessUnknownEventStep, AddConnectionStep, ConnectedStep, DoDisconnectStep,
       EventUsesDestroyedStep DEF EventTurn
<1>3. ASSUME NEW i \in Io, IoTurn(i) PROVE EngineInv'
  <2>1. i \in Dispatcher
    BY DEF Dispatcher
  <2> QED
    BY <1>3, <2>1, TurnStep, ProcessIoEventStep, AddToIoStep, DisconnectedStep,
       IoUsesDestroyedStep DEF IoTurn
<1>4. CASE UNCHANGED engineVars
  <2>1. UNCHANGED engineVars /\ UNCHANGED <<ioThreads, lifeVars, countVars, queueVars,
          epollVars, threadVars, alive, stops, dangling>>
    BY <1>4 DEF engineVars
  <2>2. QuietStep
    BY <2>1 DEF QuietStep, queueVars, epollVars, threadVars
  <2>3. DestroyIsSafe'
    BY <2>1 DEF EngineInv, DestroyIsSafe, countVars, epollVars
  <2>4. EngineTypeOK'
    BY <2>1 DEF EngineInv, EngineTypeOK, Io, Dispatcher, lifeVars, countVars, queueVars,
                epollVars, threadVars
  <2> QED BY <2>2, <2>3, <2>4, QuietIsKnown DEF EngineInv
<1> QED BY <1>1, <1>2, <1>3, <1>4 DEF EngineNext

LEMMA EngineInvariant == EngineSpec => []EngineInv
  BY InitEngineInv, EngineInvStep, PTL DEF EngineSpec

\* Queues hold tasks of connections, no counter passes the calls it counts, and
\* every dispatcher that a queue or a turn names exists.
THEOREM EngineTypeCorrect == EngineSpec => []EngineTypeOK
<1>1. EngineInv => EngineTypeOK
  BY DEF EngineInv
<1> QED BY <1>1, EngineInvariant, PTL

\* For any number of I/O threads and connections, however often they are closed and
\* the engine is stopped: a request to detach a connection is with the first I/O
\* dispatcher until it is answered, once, and OnDisconnected() comes only of Close().
THEOREM ClosesAreAccountedAlways == EngineSpec => []ClosesAreAccounted
<1>1. ASSUME EngineInv PROVE ClosesAreAccounted
  <2>1. ASSUME NEW c \in Connection
        PROVE  detached[c] = answered[c] + Queued(ioQueue[0], "kDoDisconnect", c)
    BY <1>1, EngineFacts DEF ClosesOf, Disconnects
  <2>2. ASSUME NEW c \in Connection
        PROVE  /\ told[c] = "disconnected" => closes[c] > 0
               /\ fd[c] = "closed" <=> told[c] = "disconnected"
    <3>1. /\ SocketOf(c) /\ ClosesOf(c)
          /\ closes[c] \in Nat /\ detached[c] \in Nat /\ answered[c] \in Nat
          /\ Disconnects(eventQueue, c) \in Nat /\ Disconnects(ioQueue[0], c) \in Nat
      BY <1>1, EngineFacts
    <3> QED BY <3>1 DEF SocketOf, ClosesOf
  <2> QED BY <2>1, <2>2 DEF ClosesAreAccounted, DetachAnsweredOnce, DisconnectWasAsked
<1> QED BY <1>1, EngineInvariant, PTL

\* An application that closes a connection once, and waits to be told, may destroy
\* it, unless the engine has several I/O threads or awaited its connect().
THEOREM DestroyIsSafeAlways == EngineSpec => []DestroyIsSafe
<1>1. EngineInv => DestroyIsSafe
  BY DEF EngineInv
<1> QED BY <1>1, EngineInvariant, PTL

\* Nothing is told of a connection after OnDisconnected(): Connected() takes a task
\* that connects, and such a connection has not been detached.
LEMMA ToldIsLast ==
  ASSUME EngineInv, [EngineNext]_engineVars, NEW c \in Connection, told[c] = "disconnected"
  PROVE  told'[c] = "disconnected"
<1>0. told \in [Connection -> {"nothing", "connected", "disconnected"}]
  BY DEF EngineInv, EngineTypeOK
<1>1. ASSUME NEW d \in Connection, Connected(d) PROVE told'[c] = "disconnected"
  <2>1. Take("kConnected", d) /\ told' = [told EXCEPT ![d] = "connected"]
    BY <1>1 DEF Connected
  <2>2. "kConnected" \in TaskTypes /\ "kConnected" # "kDoDisconnect"
    BY DEF TaskTypes
  <2>3. HasConnect(eventQueue, d)
    BY <2>1, <2>2, TaskTaken
  <2>4. /\ ClosesOf(d) /\ ConnectOf(d) /\ answered[d] \in Nat
        /\ Disconnects(ioQueue[0], d) \in Nat
    BY EngineFacts
  <2>5. told[d] # "disconnected"
    BY <2>3, <2>4 DEF ClosesOf, ConnectOf
  <2> QED BY <1>0, <2>1, <2>5
<1>2. ASSUME NEW i \in Io, NEW d \in Connection, Disconnected(i, d)
      PROVE  told'[c] = "disconnected"
  BY <1>0, <1>2 DEF Disconnected
<1>3. CASE told' = told
  BY <1>3
<1>4. CASE Application
  BY <1>3, <1>4 DEF Application, StartEngine, StopEventDispatcher, StopIoDispatcher,
     CreateConnection, ConnectAsync, ConnectSync, Close, DestroyConnection, UseDestroyed,
     lifeVars
<1>5. CASE EventTurn
  BY <1>1, <1>3, <1>5 DEF EventTurn, EpollWait, EndTurn, AttachConnection,
     ProcessConnectionEvent, ProcessUnknownEvent, AddConnection, DoDisconnect,
     EventUsesDestroyed, UseDestroyed, lifeVars
<1>6. ASSUME NEW i \in Io, IoTurn(i) PROVE told'[c] = "disconnected"
  BY <1>2, <1>3, <1>6 DEF IoTurn, EpollWait, EndTurn, ProcessIoEvent, AddToIo,
     IoUsesDestroyed, UseDestroyed, lifeVars
<1>7. CASE UNCHANGED engineVars
  BY <1>3, <1>7 DEF engineVars, lifeVars
<1> QED BY <1>4, <1>5, <1>6, <1>7 DEF EngineNext

\* The number of I/O threads is fixed when the engine is made.
LEMMA IoThreadsStay ==
  ASSUME [EngineNext]_engineVars
  PROVE  ioThreads' = ioThreads
<1>1. CASE Application
  BY <1>1 DEF Application, StartEngine, StopEventDispatcher, StopIoDispatcher,
     CreateConnection, ConnectAsync, ConnectSync, Close, DestroyConnection, UseDestroyed
<1>2. CASE EventTurn
  BY <1>2 DEF EventTurn, EpollWait, EndTurn, AttachConnection, ProcessConnectionEvent,
     ProcessUnknownEvent, AddConnection, Connected, DoDisconnect, EventUsesDestroyed,
     UseDestroyed
<1>3. ASSUME NEW i \in Io, IoTurn(i) PROVE ioThreads' = ioThreads
  BY <1>3 DEF IoTurn, EpollWait, EndTurn, ProcessIoEvent, AddToIo, Disconnected,
     IoUsesDestroyed, UseDestroyed
<1>4. CASE UNCHANGED engineVars
  BY <1>4 DEF engineVars
<1> QED BY <1>1, <1>2, <1>3, <1>4 DEF EngineNext

\* With one I/O thread, OnDisconnected() is the last that the engine does for a
\* connection.
THEOREM DisconnectedIsLastAlways == EngineSpec => DisconnectedIsLast
<1> DEFINE Last ==
      ioThreads = 1 =>
       \A c \in Connection : told[c] = "disconnected" =>
         /\ told'[c] = "disconnected"
         /\ \A i \in Io : Queued(ioQueue'[i], "kAddConnection", c) = 0 /\ c \notin ioEpoll'[i]
<1>1. EngineInv /\ EngineInv' /\ [EngineNext]_engineVars => [Last]_engineVars
  <2> SUFFICES ASSUME EngineInv, EngineInv', [EngineNext]_engineVars PROVE Last
    OBVIOUS
  <2> SUFFICES ASSUME ioThreads = 1, NEW c \in Connection, told[c] = "disconnected"
               PROVE  /\ told'[c] = "disconnected"
                      /\ \A i \in Io : /\ Queued(ioQueue'[i], "kAddConnection", c) = 0
                                       /\ c \notin ioEpoll'[i]
    OBVIOUS
  <2>1. told'[c] = "disconnected"
    BY ToldIsLast
  <2>2. Io = {0} /\ ioThreads' = 1
    BY IoThreadsStay DEF Io
  <2>3. SingleIoOf(c)' /\ EngineTypeOK'
    BY DEF EngineInv, Known
  <2>4. ~HasConnect(ioQueue'[0], c) /\ c \notin ioEpoll'[0]
    BY <2>1, <2>2, <2>3 DEF SingleIoOf
  <2>5. ioQueue'[0] \in Seq(EngineTasks)
    BY <2>2, <2>3 DEF EngineTypeOK, Io
  <2>6. Connects(Task("kAddConnection", c), c)
    BY DEF Connects, Task
  <2>7. \A k \in 1 .. Len(ioQueue'[0]) : ioQueue'[0][k] # Task("kAddConnection", c)
    BY <2>4, <2>6 DEF HasConnect
  <2>8. Queued(ioQueue'[0], "kAddConnection", c) = 0
    BY <2>5, <2>7, MarksAreFinite DEF Queued, Marks
  <2>9. \A i \in Io : i = 0
    BY <2>2
  <2> QED BY <2>1, <2>4, <2>8, <2>9
<1> QED BY <1>1, EngineInvariant, EngineInvStep, PTL DEF EngineSpec, DisconnectedIsLast

-----------------------------------------------------------------------------
(* The parts in one model. *)

\* The part that runs takes the steps of its own specification, and the others none:
\* what is proved of a part holds of it in the model that the runs check.
THEOREM PartsAreTheirSpecs == Spec => ReceiveSpec /\ EngineSpec /\ AcceptorSpec
<1>1. Init => ReceiveInit /\ EngineInit /\ AcceptorInit
  BY DEF Init
<1>2. [Next]_networkVars => [ReceiveNext]_receiveVars
  BY DEF Next, networkVars
<1>3. [Next]_networkVars => [EngineNext]_engineVars
  BY DEF Next, networkVars
<1>4. [Next]_networkVars => [AcceptorNext]_acceptorVars
  BY DEF Next, networkVars
<1> QED BY <1>1, <1>2, <1>3, <1>4, PTL DEF Spec, ReceiveSpec, EngineSpec, AcceptorSpec

\* The three parts are well-typed in the model that the runs check.
THEOREM NetworkTypeCorrect == Spec => []NetworkTypeOK
<1>1. AcceptorInv => AcceptorTypeOK
  BY DEF AcceptorInv
<1>2. AcceptorSpec => []AcceptorTypeOK
  BY <1>1, InitAcceptorInv, AcceptorInvStep, PTL DEF AcceptorSpec
<1>3. ReceiveTypeOK /\ EngineTypeOK /\ AcceptorTypeOK => NetworkTypeOK
  BY DEF NetworkTypeOK
<1> QED BY <1>2, <1>3, PartsAreTheirSpecs, ReceiveTypeCorrect, EngineTypeCorrect, PTL

\* What the run of the model checks on a small instance, but for EveryCloseAnswered,
\* holds of the three parts together for every number of I/O threads, connections,
\* acceptors and bytes; of the receive path, until a doubling wraps its size.
THEOREM NetworkIsSafe ==
  Spec => /\ [](StreamIsKept /\ NothingHeldBack /\ EofIsReal)
          /\ [](ClosesAreAccounted /\ DestroyIsSafe)
          /\ []AcceptorsAreSound
          /\ DisconnectedIsLast
BY PartsAreTheirSpecs, StreamIsKeptAlways, NothingHeldBackAlways, EofIsRealAlways,
   ClosesAreAccountedAlways, DestroyIsSafeAlways, AcceptorsAreSoundAlways,
   DisconnectedIsLastAlways, PTL
=============================================================================
