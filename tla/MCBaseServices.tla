--------------------------- MODULE MCBaseServices ---------------------------
(***************************************************************************)
(* The services of the base library that share no state, in one model: a      *)
(* behaviour runs one of them, chosen at the start, and the others stay in     *)
(* their initial states.                                                     *)
(***************************************************************************)
EXTENDS JsonDocuments, Logger, ThreadManager, CivilTime, AllocatorInstance

VARIABLE service  \* the one that runs

serviceVars == <<service, jsonVars, loggerVars, managerVars, timeVars, allocatorVars>>

\* A text that is a scalar, and one that is an array of an object.
MCTexts == {[p \in {<< >>} |-> "scalar"],
            [p \in {<< >>, <<0>>} |-> IF p = << >> THEN "array" ELSE "object"]}

Init ==
  /\ service \in {"json", "logger", "manager", "time", "allocator"}
  /\ JsonInit
  /\ LoggerInit
  /\ ManagerInit
  /\ TimeInit
  /\ AllocatorInit

Next ==
  /\ UNCHANGED service
  /\ \/ /\ service = "json"
        /\ JsonNext
        /\ UNCHANGED <<loggerVars, managerVars, timeVars, allocatorVars>>
     \/ /\ service = "logger"
        /\ LoggerNext
        /\ UNCHANGED <<jsonVars, managerVars, timeVars, allocatorVars>>
     \/ /\ service = "manager"
        /\ ManagerNext
        /\ UNCHANGED <<jsonVars, loggerVars, timeVars, allocatorVars>>
     \/ /\ service = "time"
        /\ TimeNext
        /\ UNCHANGED <<jsonVars, loggerVars, managerVars, allocatorVars>>
     \/ /\ service = "allocator"
        /\ AllocatorNext
        /\ UNCHANGED <<jsonVars, loggerVars, managerVars, timeVars>>

\* A thread manager that does not run joins nobody: its fairness asks nothing then.
Spec == Init /\ [][Next]_serviceVars /\ ManagerFairness

-----------------------------------------------------------------------------
BaseTypeOK ==
  JsonTypeOK /\ LoggerTypeOK /\ ManagerTypeOK /\ TimeTypeOK /\ AllocatorTypeOK
=============================================================================
