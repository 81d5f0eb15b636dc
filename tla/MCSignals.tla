----------------------------- MODULE MCSignals -----------------------------
(* The signal syscalls with Linux's signal numbers and a few masks.        *)
EXTENDS Signals

SIGINT == 2

\* Signal numbers: out of range both ways, 0, an ordinary signal, SIGKILL,
\* the first real-time signal and _NSIG itself.
MCSigArgs == {-1, 0, SIGINT, SIGKILL, SIGRTMIN, NSIG, NSIG + 1}

\* Masks: empty, SIGINT, SIGKILL, and SIGINT with SIGSTOP.
MCMasks == {0, SigBit(SIGINT), SigBit(SIGKILL), SigBit(SIGINT) | SigBit(SIGSTOP)}
=============================================================================
