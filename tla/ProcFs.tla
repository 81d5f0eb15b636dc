------------------------------- MODULE ProcFs -------------------------------
(***************************************************************************)
(* The process listing of /proc (procGetdents64, proc_controller.c) over  *)
(* the task list of Tasks.  One reader opens the /proc root and calls      *)
(* getdents64 until it returns 0, while tasks are created, exit and are    *)
(* reaped between its calls.  A call holds TASK_LL_MODIFY for reading, so  *)
(* it walks a list no one edits meanwhile: it is one step.  It lists each  *)
(* live process whose tgid is above fd->pointer, in list order, and moves   *)
(* fd->pointer to the last tgid listed.  dentsAdd (outside the sources)    *)
(* fits DirCap entries in the caller's buffer and answers DENTS_RETURN for  *)
(* the next one.  The static entries fakefsGetDents64 returns first are     *)
(* not modelled.                                                           *)
(***************************************************************************)
EXTENDS Tasks

CONSTANTS
  DirCap          \* directory entries that fit in one getdents64 buffer

ASSUME DirCap >= 1

VARIABLES
  dirPtr,         \* fd->pointer of the open /proc root
  listed,         \* the tgids getdents64 returned since the open
  ordered,        \* every call's tgids ascend and lie above all listed before
  lpc,            \* "closed", "open", or "done" once a call returned 0
  survivors       \* history: the processes live at every step since the open

procVars == <<dirPtr, listed, ordered, lpc, survivors>>
allVars == <<vars, procVars>>

\* Processes the loop may list: linked and not DEAD.
LiveTasks == {t \in ToSet(taskList) : state[t] # "DEAD"}

-----------------------------------------------------------------------------
\* The walk's test: id == tgid, not DEAD, tgid above the pointer.
Listable(t) == state[t] # "DEAD" /\ TaskId(t) > dirPtr

\* The entries one call returns, added to what the reader has seen.
Returned(ents) ==
  /\ listed' = listed \cup Range(ents)
  /\ ordered' = ordered /\ \A i \in DOMAIN ents :
                  /\ \A j \in 1 .. i - 1 : ents[j] < ents[i]
                  /\ \A x \in listed : x < ents[i]

\* A call that lists but leaves fd->pointer where it was.
procGetdents64NoAdvance ==
  /\ lpc = "open"
  /\ LET cand == SelectSeq(taskList, Listable)
         n    == IF Len(cand) < DirCap THEN Len(cand) ELSE DirCap
     IN  IF cand = <<>>
         THEN /\ lpc' = "done"
              /\ UNCHANGED <<dirPtr, listed, ordered>>
         ELSE /\ Returned([i \in 1 .. n |-> TaskId(cand[i])])
              /\ UNCHANGED <<dirPtr, lpc>>
  /\ UNCHANGED <<vars, survivors>>

\* A call that records the tgid of the entry dentsAdd refused.
procGetdents64SkipOne ==
  /\ lpc = "open"
  /\ LET cand == SelectSeq(taskList, Listable)
         n    == IF Len(cand) < DirCap THEN Len(cand) ELSE DirCap
     IN  IF cand = <<>>
         THEN /\ lpc' = "done"
              /\ UNCHANGED <<dirPtr, listed, ordered>>
         ELSE /\ Returned([i \in 1 .. n |-> TaskId(cand[i])])
              /\ dirPtr' = TaskId(cand[IF n < Len(cand) THEN n + 1 ELSE n])
              /\ UNCHANGED lpc
  /\ UNCHANGED <<vars, survivors>>

\* One getdents64 call: nothing left above the pointer returns 0; else
\* the first DirCap listable tasks are added and the pointer moves to the
\* last of them, and DENTS_RETURN ends the walk without moving it further.
procGetdents64 ==
  /\ lpc = "open"
  /\ LET cand == SelectSeq(taskList, Listable)
         n    == IF Len(cand) < DirCap THEN Len(cand) ELSE DirCap
     IN  IF cand = <<>>
         THEN /\ lpc' = "done"
              /\ UNCHANGED <<dirPtr, listed, ordered>>
         ELSE /\ Returned([i \in 1 .. n |-> TaskId(cand[i])])
              /\ dirPtr' = TaskId(cand[n])
              /\ UNCHANGED lpc
  /\ UNCHANGED <<vars, survivors>>

\* The VFS opens the /proc root with fd->pointer 0.
procOpenRoot ==
  /\ lpc = "closed"
  /\ dirPtr' = 0
  /\ listed' = {}
  /\ ordered' = TRUE
  /\ lpc' = "open"
  /\ survivors' = LiveTasks
  /\ UNCHANGED vars

\* A step of the tasks, the scheduler or the reaper.
TaskStep(A) ==
  /\ A
  /\ survivors' = survivors \cap LiveTasks'
  /\ UNCHANGED <<dirPtr, listed, ordered, lpc>>

ProcInit ==
  /\ Init
  /\ dirPtr = 0
  /\ listed = {}
  /\ ordered = TRUE
  /\ lpc = "closed"
  /\ survivors = {}

ProcNext ==
  \/ TaskStep(Next)
  \/ procOpenRoot
  \/ procGetdents64

\* The fairness of Tasks, for the same steps taken with the listing.
ProcFairSpec ==
  /\ ProcInit /\ [][ProcNext]_allVars
  /\ WF_allVars(TaskStep(schedule)) /\ WF_allVars(TaskStep(TimerTick))
  /\ SF_allVars(TaskStep(helperReaper))

-----------------------------------------------------------------------------
ProcTypeOK ==
  /\ TypeOK
  /\ dirPtr \in 0 .. Len(InitList \o Spawn)
  /\ listed \subseteq 1 .. Len(InitList \o Spawn)
  /\ ordered \in BOOLEAN
  /\ lpc \in {"closed", "open", "done"}
  /\ survivors \subseteq TaskIds

\* The calls that resume from fd->pointer list each process at most once,
\* in ascending tgid order, and a complete listing names every process
\* that stayed alive from the open to the last call, although tasks were
\* created, killed and unlinked between the calls.
ListingComplete ==
  /\ ordered
  /\ lpc = "done" => \A t \in survivors : TaskId(t) \in listed

\* A reader that keeps calling getdents64 on the /proc root (weak fairness
\* of procGetdents64, the hypothesis) gets 0 in the end, although tasks
\* are created, exit and are reaped between its calls: each call that
\* lists moves fd->pointer past what it listed.
ListingTerminates == WF_allVars(procGetdents64) => <>[](lpc # "open")
=============================================================================
