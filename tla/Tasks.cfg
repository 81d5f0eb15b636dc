\* Two user tasks and the helper in the ring, a third task created
\* later; tasks sleep, block, wake, exit and are sent SIGKILL, the clock
\* runs to 2 ticks, and a reader lists /proc one entry per call.  The
\* helper and the timer never stop, so there is no deadlock.
CONSTANTS
  t1 = t1
  t2 = t2
  t3 = t3
  h = h
  idle = idle
  Helper = h
  Dummy = idle
  InitList <- MCInitList
  Spawn <- MCSpawn
  MaxTicks = 2
  Naps = {1}
  DirCap = 1
  None = None
SPECIFICATION ProcFairSpec
INVARIANT ProcTypeOK ReapedOnceAndGone ListingComplete
PROPERTY SwitchesRoundRobin NoStarvation HandedTaskReaped ListingTerminates
