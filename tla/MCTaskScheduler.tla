-------------------------- MODULE MCTaskScheduler ---------------------------
(* Small task kinds for TLC: a task due at once with a count of 0, which is run  *)
(* like one with a count of 1, one due later and run twice, rescheduled at the   *)
(* instant it ran, and a periodic one as PostPeriodicTask() makes it.            *)
EXTENDS TaskScheduler

AtOnce == [periodic |-> FALSE, times |-> 0, delay |-> 0, interval |-> 0]
Twice == [periodic |-> FALSE, times |-> 2, delay |-> 1, interval |-> 0]
Periodic == [periodic |-> TRUE, times |-> 0, delay |-> 0, interval |-> 1]

MCTaskKinds == {AtOnce, Twice, Periodic}
=============================================================================
