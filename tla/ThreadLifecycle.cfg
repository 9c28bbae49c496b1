\* No constant: the state space is complete.  A destroyed object stops, hence
\* no check for deadlock.
SPECIFICATION FairSpec
INVARIANTS TypeOK PausedIsQuiet StoppedMeansGone
PROPERTIES DestroyedIsFinal CallsReturn
CHECK_DEADLOCK FALSE
