\* rt_sigprocmask and rt_sigaction with Linux's numbering (SIGKILL 9,
\* SIGSTOP 19, SIGRTMIN 32, _NSIG 64, sizeof(sigset_t) 8); the model keeps
\* the 30 low bits of a sigset_t, which hold both signals' bits.
CONSTANTS
  SIGKILL = 9
  SIGSTOP = 19
  SIGRTMIN = 32
  NSIG = 64
  SIGSET_SIZE = 8
  SIGSET_BITS = 30
  SIG_DFL = SIG_DFL
  Handlers = {SIG_DFL, hUser}
  SigArgs <- MCSigArgs
  Masks <- MCMasks
  Hows = {"SIG_BLOCK", "SIG_UNBLOCK", "SIG_SETMASK", "bad"}
  SigsetSizes = {4, 8}
  NULL = NULL
SPECIFICATION Spec
INVARIANT KillStopNeverBlocked
