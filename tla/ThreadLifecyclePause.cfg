\* The thread function may end the thread while Pause() waits.  A destroyed object stops, hence
\* no check for deadlock.
SPECIFICATION FairSpec
PROPERTY PauseIsSynchronous
CHECK_DEADLOCK FALSE
