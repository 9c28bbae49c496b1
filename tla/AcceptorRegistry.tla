-------------------------- MODULE AcceptorRegistry --------------------------
(***************************************************************************)
(* The acceptors of a network engine: an application thread creates, starts, *)
(* stops and destroys them, and changes the event dispatcher's m_setAcceptor  *)
(* without a lock, while the thread of the dispatcher looks events up in it.  *)
(* No acceptor calls listen(): a registered one is reported with EPOLLHUP,    *)
(* which is logged, and none ever accepts.                                   *)
(***************************************************************************)
EXTENDS Naturals

CONSTANT Acceptor  \* the addresses acceptors may have; freed ones are used again

VARIABLES
  acceptorLife,   \* "none", "made" or "destroyed"
  m_setAcceptor,  \* the dispatcher's set of pointers
  acceptorEpoll,  \* the sockets registered with its epoll
  call,           \* the call of the application that is half done
  dispatcherRuns, \* whether the thread of the dispatcher runs
  acceptorEvents, \* events it has fetched and not processed
  using,          \* the acceptor it has found and is about to use
  abandoned,      \* addresses of acceptors destroyed without a Stop()
  meddled,        \* whether the application changed acceptors while it ran
  usedFreed       \* whether it used a destroyed acceptor

acceptorVars == <<acceptorLife, m_setAcceptor, acceptorEpoll, call, dispatcherRuns,
                  acceptorEvents, using, abandoned, meddled, usedFreed>>
dispatcherVars == <<dispatcherRuns, acceptorEvents, using, usedFreed>>

Idle == <<"idle">>

AcceptorInit ==
  /\ acceptorLife = [a \in Acceptor |-> "none"]
  /\ m_setAcceptor = {}
  /\ acceptorEpoll = {}
  /\ call = Idle
  /\ dispatcherRuns = FALSE
  /\ acceptorEvents = {}
  /\ using = Idle
  /\ abandoned = {}
  /\ meddled = FALSE
  /\ usedFreed = FALSE

-----------------------------------------------------------------------------
(* The application. *)

CreateAcceptor(a) ==
  /\ call = Idle
  /\ acceptorLife[a] # "made"
  /\ acceptorLife' = [acceptorLife EXCEPT ![a] = "made"]
  /\ UNCHANGED <<m_setAcceptor, acceptorEpoll, call, dispatcherVars, abandoned, meddled>>

Meddle == meddled' = (meddled \/ dispatcherRuns)

\* Start() runs ProcessTask<kAddAcceptor> on the caller's thread: it is refused for
\* a pointer that is in the set, and otherwise inserts it before it registers the
\* socket.
StartAcceptor(a) ==
  /\ call = Idle
  /\ acceptorLife[a] = "made"
  /\ a \notin m_setAcceptor
  /\ m_setAcceptor' = m_setAcceptor \cup {a}
  /\ call' = <<"register", a>>
  /\ Meddle
  /\ UNCHANGED <<acceptorLife, acceptorEpoll, dispatcherVars, abandoned>>

RegisterAndForget(a) ==
  /\ call = <<"register", a>>
  /\ call' = Idle
  /\ acceptorEpoll' = acceptorEpoll \cup {a} \/ UNCHANGED acceptorEpoll
  /\ UNCHANGED <<m_setAcceptor, acceptorLife, dispatcherVars, abandoned, meddled>>

RegisterAcceptor(a) ==
  /\ call = <<"register", a>>
  /\ call' = Idle
  /\ \/ acceptorEpoll' = acceptorEpoll \cup {a} /\ UNCHANGED m_setAcceptor
     \/ m_setAcceptor' = m_setAcceptor \ {a} /\ UNCHANGED acceptorEpoll
  /\ UNCHANGED <<acceptorLife, dispatcherVars, abandoned, meddled>>

\* Stop(), by ProcessTask<kRemoveAcceptor>: nothing is done for a pointer that is
\* not in the set or a socket that is not registered.
StopAcceptor(a) ==
  /\ call = Idle
  /\ acceptorLife[a] = "made"
  /\ a \in m_setAcceptor
  /\ a \in acceptorEpoll
  /\ acceptorEpoll' = acceptorEpoll \ {a}
  /\ call' = <<"erase", a>>
  /\ Meddle
  /\ UNCHANGED <<acceptorLife, m_setAcceptor, dispatcherVars, abandoned>>

EraseAcceptor(a) ==
  /\ call = <<"erase", a>>
  /\ call' = Idle
  /\ m_setAcceptor' = m_setAcceptor \ {a}
  /\ UNCHANGED <<acceptorLife, acceptorEpoll, dispatcherVars, abandoned, meddled>>

\* The destructor closes the socket, which leaves epoll; the set keeps the pointer.
DestroyWithoutClosing(a) ==
  /\ call = Idle
  /\ acceptorLife[a] = "made"
  /\ acceptorLife' = [acceptorLife EXCEPT ![a] = "destroyed"]
  /\ Meddle
  /\ UNCHANGED <<m_setAcceptor, acceptorEpoll, call, dispatcherVars, abandoned>>

DestroyAcceptor(a) ==
  /\ call = Idle
  /\ acceptorLife[a] = "made"
  /\ acceptorLife' = [acceptorLife EXCEPT ![a] = "destroyed"]
  /\ acceptorEpoll' = acceptorEpoll \ {a}
  /\ abandoned' = IF a \in m_setAcceptor THEN abandoned \cup {a} ELSE abandoned
  /\ Meddle
  /\ UNCHANGED <<m_setAcceptor, call, dispatcherVars>>

StartDispatcher ==
  /\ call = Idle
  /\ ~dispatcherRuns
  /\ dispatcherRuns' = TRUE
  /\ UNCHANGED <<acceptorLife, m_setAcceptor, acceptorEpoll, call, acceptorEvents,
                 using, abandoned, meddled, usedFreed>>

StopDispatcher ==
  /\ call = Idle
  /\ dispatcherRuns
  /\ acceptorEvents = {} /\ using = Idle
  /\ dispatcherRuns' = FALSE
  /\ UNCHANGED <<acceptorLife, m_setAcceptor, acceptorEpoll, call, acceptorEvents,
                 using, abandoned, meddled, usedFreed>>

-----------------------------------------------------------------------------
(* The dispatcher's thread. *)

WaitForAcceptors ==
  /\ dispatcherRuns
  /\ acceptorEvents = {} /\ using = Idle
  /\ \E ready \in SUBSET acceptorEpoll : acceptorEvents' = ready
  /\ UNCHANGED <<acceptorLife, m_setAcceptor, acceptorEpoll, call, dispatcherRuns,
                 using, abandoned, meddled, usedFreed>>

\* ProcessEvent(): an event of a pointer that is in no set is dropped.
LookUpAcceptor(a) ==
  /\ a \in acceptorEvents
  /\ using = Idle
  /\ acceptorEvents' = acceptorEvents \ {a}
  /\ using' = IF a \in m_setAcceptor THEN <<"acceptor", a>> ELSE Idle
  /\ UNCHANGED <<acceptorLife, m_setAcceptor, acceptorEpoll, call, dispatcherRuns,
                 abandoned, meddled, usedFreed>>

\* ProcessAcceptorEvent() of an event that is not EPOLLIN logs the acceptor's name.
ProcessAcceptorEvent(a) ==
  /\ using = <<"acceptor", a>>
  /\ using' = Idle
  /\ usedFreed' = (usedFreed \/ acceptorLife[a] = "destroyed")
  /\ UNCHANGED <<acceptorLife, m_setAcceptor, acceptorEpoll, call, dispatcherRuns,
                 acceptorEvents, abandoned, meddled>>

AcceptorNext ==
  \/ StartDispatcher
  \/ StopDispatcher
  \/ WaitForAcceptors
  \/ \E a \in Acceptor :
       \/ CreateAcceptor(a)
       \/ StartAcceptor(a)
       \/ RegisterAcceptor(a)
       \/ StopAcceptor(a)
       \/ EraseAcceptor(a)
       \/ DestroyAcceptor(a)
       \/ LookUpAcceptor(a)
       \/ ProcessAcceptorEvent(a)

AcceptorSpec == AcceptorInit /\ [][AcceptorNext]_acceptorVars

-----------------------------------------------------------------------------
AcceptorTypeOK ==
  /\ acceptorLife \in [Acceptor -> {"none", "made", "destroyed"}]
  /\ m_setAcceptor \subseteq Acceptor
  /\ acceptorEpoll \subseteq Acceptor
  /\ call \in {Idle} \cup ({"register", "erase"} \X Acceptor)
  /\ dispatcherRuns \in BOOLEAN
  /\ acceptorEvents \subseteq Acceptor
  /\ using \in {Idle} \cup ({"acceptor"} \X Acceptor)
  /\ abandoned \subseteq Acceptor
  /\ meddled \in BOOLEAN
  /\ usedFreed \in BOOLEAN

\* Between two calls, an acceptor that is in the set is registered with epoll, and
\* the other way round: one that is in the set alone could neither be started nor
\* be heard of.  The exception is an acceptor made at the address of one that was
\* destroyed without a Stop().
SetMatchesEpoll ==
  /\ acceptorEpoll \subseteq m_setAcceptor
  /\ call = Idle => m_setAcceptor \subseteq acceptorEpoll \cup abandoned

\* Starting, stopping and destroying acceptors is safe while the engine is stopped,
\* with or without Stop() of the acceptor: only a call made while the dispatcher
\* runs can leave it an acceptor that is gone.
QuietChangesAreSafe == usedFreed => meddled
=============================================================================
