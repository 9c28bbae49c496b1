\* Pause, then Resume: the reported state.  A destroyed object stops, hence
\* no check for deadlock.
SPECIFICATION FairSpec
PROPERTY ResumeRestoresState
CHECK_DEADLOCK FALSE
