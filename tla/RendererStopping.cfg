\* An end of stream timer that fires while Stop or Pause changes the state.
SPECIFICATION Spec
CONSTANTS
    MaxAdvises = 1
    MaxTimers = 1
    KillSync = {TRUE}
PROPERTIES CompleteOnlyRunning
