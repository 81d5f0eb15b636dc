------------------------------ MODULE Signals ------------------------------
(***************************************************************************)
(* The signal syscalls of syscalls_sig.c: rt_sigaction installs or reads  *)
(* the action of one signal in the task's table, rt_sigprocmask reads and *)
(* changes the task's blocked set.  Both act on the calling task only and  *)
(* each is one step (rt_sigaction's copies are under LOCK_SIGNAL, and only *)
(* the task itself changes its mask), so the model is one task's signal    *)
(* state driven by calls with arguments from small sets.                   *)
(*                                                                         *)
(* A sigset_t is a natural number whose bit s-1 stands for signal s, as in *)
(* the Linux ABI the syscalls implement.  The code's 64-bit masks are cut  *)
(* to their SIGSET_BITS low bits: & | and ~ act bit by bit, so the low     *)
(* bits of every result are exact.  The flags and restorer copied with the *)
(* handler are folded into the handler value.                              *)
(***************************************************************************)
EXTENDS Integers, Bitwise

CONSTANTS
  SIGKILL, SIGSTOP,   \* 9 and 19
  SIGRTMIN,           \* first real-time signal
  NSIG,               \* _NSIG
  SIGSET_SIZE,        \* sizeof(sigset_t)
  SIGSET_BITS,        \* low bits of a sigset_t the model keeps
  SIG_DFL,            \* the default handler, a model value
  Handlers,           \* handlers a caller may install (SIG_DFL among them)
  SigArgs,            \* signal numbers passed to rt_sigaction
  Masks,              \* sigset_t values passed as *nset or act->sa_mask
  Hows,               \* values of how: SIG_BLOCK, SIG_UNBLOCK, SIG_SETMASK, others
  SigsetSizes,        \* sigsetsize arguments
  NULL

ASSUME 0 < SIGKILL /\ SIGKILL < SIGSTOP /\ SIGSTOP <= SIGSET_BITS
ASSUME SIGSTOP < SIGRTMIN /\ SIGRTMIN <= NSIG /\ SIGSET_BITS < 31
ASSUME {"SIG_BLOCK", "SIG_UNBLOCK", "SIG_SETMASK"} \subseteq Hows

VARIABLES
  sigBlockList,   \* currentTask->sigBlockList
  sigTable,       \* infoSignals->signals: the action of each signal
  oact,           \* the last struct sigaction copied out to the caller
  oset,           \* the last sigset_t copied out to the caller
  ret             \* the last syscall's return value

vars == <<sigBlockList, sigTable, oact, oset, ret>>

\* Slots of the action table a call can reach past the range checks.
SigSlots == 0 .. SIGRTMIN - 1

\* The bit of signal s in a sigset_t.
SigBit(s) == 2 ^ (s - 1)

\* C's ~x on a sigset_t, on the bits the model keeps.
Compl(x) == (2 ^ SIGSET_BITS - 1) - x

Action == [handler : Handlers, mask : 0 .. 2 ^ SIGSET_BITS - 1]

DefaultAction == [handler |-> SIG_DFL, mask |-> 0]

-----------------------------------------------------------------------------
\* What the code clears from every mask it stores: ~(SIGKILL | SIGSTOP).
KillStopClear == Compl(SIGKILL | SIGSTOP)

\* rt_sigaction(sig, act, oact, sigsetsize): range checks, the copy-out of
\* the old action, then the refusal of SIGKILL/SIGSTOP and the install with
\* the mask cleaned.  The copy-out happens before that refusal.
syscallRtSigaction(sig, act, wantOld, sigsetsize) ==
  \/ /\ sig < 0 \/ sig > NSIG \/ sigsetsize < SIGSET_SIZE
     /\ ret' = "EINVAL"
     /\ UNCHANGED <<sigBlockList, sigTable, oact, oset>>
  \/ /\ ~(sig < 0 \/ sig > NSIG \/ sigsetsize < SIGSET_SIZE)
     /\ sig >= SIGRTMIN
     /\ ret' = "ENOSYS"
     /\ UNCHANGED <<sigBlockList, sigTable, oact, oset>>
  \/ /\ ~(sig < 0 \/ sig > NSIG \/ sigsetsize < SIGSET_SIZE)
     /\ sig < SIGRTMIN
     /\ oact' = IF wantOld THEN sigTable[sig] ELSE oact
     /\ IF act = NULL
        THEN /\ ret' = 0
             /\ UNCHANGED sigTable
        ELSE IF sig \in {SIGKILL, SIGSTOP}
        THEN /\ ret' = "EINVAL"
             /\ UNCHANGED sigTable
        ELSE /\ sigTable' = [sigTable EXCEPT ![sig] =
                              [handler |-> act.handler,
                               mask    |-> act.mask & KillStopClear]]
             /\ ret' = 0
     /\ UNCHANGED <<sigBlockList, oset>>

\* The new blocked set for one value of how, or NULL for an unknown how.
NewBlockList(how, safe) ==
  CASE how = "SIG_BLOCK"   -> sigBlockList | safe
    [] how = "SIG_UNBLOCK" -> sigBlockList & Compl(safe)
    [] how = "SIG_SETMASK" -> safe
    [] OTHER               -> NULL

\* rt_sigprocmask(how, nset, oset): copy out the old set, clean *nset and
\* apply it; an unknown how returns EINVAL after the copy-out.
syscallRtSigprocmask(how, nset, wantOld) ==
  /\ oset' = IF wantOld THEN sigBlockList ELSE oset
  /\ IF nset = NULL
     THEN /\ ret' = 0
          /\ UNCHANGED sigBlockList
     ELSE LET new == NewBlockList(how, nset & KillStopClear)
          IN  IF new = NULL
              THEN /\ ret' = "EINVAL"
                   /\ UNCHANGED sigBlockList
              ELSE /\ sigBlockList' = new
                   /\ ret' = 0
  /\ UNCHANGED <<sigTable, oact>>

Init ==
  /\ sigBlockList = 0
  /\ sigTable = [s \in SigSlots |-> DefaultAction]
  /\ oact = NULL
  /\ oset = NULL
  /\ ret = NULL

Next ==
  \/ \E sig \in SigArgs, w \in BOOLEAN, size \in SigsetSizes,
        act \in [handler : Handlers, mask : Masks] \cup {NULL} :
       syscallRtSigaction(sig, act, w, size)
  \/ \E how \in Hows, nset \in Masks \cup {NULL}, w \in BOOLEAN :
       syscallRtSigprocmask(how, nset, w)

Spec == Init /\ [][Next]_vars

-----------------------------------------------------------------------------
TypeOK ==
  /\ sigBlockList \in 0 .. 2 ^ SIGSET_BITS - 1
  /\ sigTable \in [SigSlots -> Action]
  /\ oact \in Action \cup {NULL}
  /\ oset \in (0 .. 2 ^ SIGSET_BITS - 1) \cup {NULL}
  /\ ret \in {0, "EINVAL", "ENOSYS", NULL}

\* The bits of the two sigTable that can be neither caught nor blocked.
Unblockable == SigBit(SIGKILL) | SigBit(SIGSTOP)

\* "nuh uh!" (syscalls_sig.c:58) and "safe with the masks" (line 36): no
\* sequence of rt_sigprocmask and rt_sigaction calls gets SIGKILL or
\* SIGSTOP into the task's blocked set or into the mask of an action.
KillStopNeverBlocked ==
  /\ (sigBlockList & Unblockable) = 0
  /\ \A s \in SigSlots : (sigTable[s].mask & Unblockable) = 0
=============================================================================
