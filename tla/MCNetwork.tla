----------------------------- MODULE MCNetwork ------------------------------
(***************************************************************************)
(* The three parts of the network library in one model: the receive path of *)
(* a connection, the connections of an engine, and its acceptors.  The parts *)
(* share no state, so that their interleavings show nothing the parts alone  *)
(* do not: a behaviour runs one part, chosen at the start, and the others    *)
(* stay in their initial states.                                            *)
(***************************************************************************)
EXTENDS ReceivePath, NetworkEngine, AcceptorRegistry

VARIABLE part  \* the part that runs

networkVars == <<part, receiveVars, engineVars, acceptorVars>>

\* Messages of four, one and four bytes, then a byte that begins none.
MCFrame == [p \in 0 .. 9 |-> CASE p = 0 -> 4 [] p = 4 -> 1 [] p = 5 -> 4 [] OTHER -> 0]

Init ==
  /\ part \in {"receive", "engine", "acceptor"}
  /\ ReceiveInit
  /\ EngineInit
  /\ AcceptorInit

Next ==
  /\ UNCHANGED part
  /\ \/ part = "receive" /\ ReceiveNext /\ UNCHANGED <<engineVars, acceptorVars>>
     \/ part = "engine" /\ EngineNext /\ UNCHANGED <<receiveVars, acceptorVars>>
     \/ part = "acceptor" /\ AcceptorNext /\ UNCHANGED <<receiveVars, engineVars>>

\* An engine that does not run has no dispatcher: its fairness asks nothing then.
Spec == Init /\ [][Next]_networkVars /\ EngineFairness

-----------------------------------------------------------------------------
NetworkTypeOK == ReceiveTypeOK /\ EngineTypeOK /\ AcceptorTypeOK

\* Every Close() is accounted for, at either end: its connection is taken off the
\* dispatchers once, and OnDisconnected() comes only of a Close().
ClosesAreAccounted == DetachAnsweredOnce /\ DisconnectWasAsked

\* The dispatcher and epoll know the same acceptors, and only a change that is made
\* while the engine runs can leave them one that is gone.
AcceptorsAreSound == SetMatchesEpoll /\ QuietChangesAreSafe
=============================================================================
