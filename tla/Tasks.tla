------------------------------- MODULE Tasks -------------------------------
(***************************************************************************)
(* The task ring, the clock-tick scheduler (schedule.c) and the reaper     *)
(* half of the kernel helper task (helperReaper, kernel_helper.c).          *)
(*                                                                         *)
(* taskList is the linked list from firstTask through ->next; schedule()    *)
(* walks it from currentTask->next and takes the first task that is READY  *)
(* and not sleeping, wrapping to firstTask at the end of the list and      *)
(* giving up, for dummyTask, after the third wrap.  The dummy task is not  *)
(* linked, so its ->next is NULL and a walk from it starts at firstTask.    *)
(* Task creation, exit, blocking, waking and sleeping live in task.c and   *)
(* the syscalls, outside the sources: they are the environment here,     *)
(* written from the scheduling model of the spec.  handControl() is a       *)
(* yield: it enters schedule() through the timer vector.  Signal delivery  *)
(* (signalsPendingHandle) and the register switch are not modelled.       *)
(***************************************************************************)
EXTENDS Integers, Sequences, SequencesExt

CONSTANTS
  Helper,        \* netHelperTask, running kernelHelpEntry
  Dummy,         \* dummyTask
  InitList,      \* the ring at tasksInitiated, firstTask first
  Spawn,         \* tasks created later, in the order they are created
  MaxTicks,      \* bound on timerTicks
  Naps,          \* sleep lengths in ticks
  None

ASSUME /\ Helper \in ToSet(InitList)
       /\ Dummy \notin ToSet(InitList \o Spawn)
       /\ ToSet(InitList) \cap ToSet(Spawn) = {}

VARIABLES
  currentTask,
  state,         \* task -> TASK_STATE_*
  sleepUntil,    \* task -> tick it sleeps until, 0 when awake
  timerTicks,
  taskList,      \* the linked list, in ->next order
  reaperTask,    \* the task handed to helperReaper, or None
  reaped         \* history: the tasks taskListDestroy removed, in order

vars == <<currentTask, state, sleepUntil, timerTicks, taskList, reaperTask,
          reaped>>

TaskIds == ToSet(InitList \o Spawn)
States == {"CREATED", "READY", "BLOCKED", "SIGKILLED", "DEAD"}

\* Task ids are handed out in creation order; id = tgid (no threads).
TaskId(t) == SelectInSeq(InitList \o Spawn, LAMBDA x : x = t)

-----------------------------------------------------------------------------
(* schedule()                                                              *)

\* The loop's test: READY and not sleeping (sleepUntil 0 means awake).
Runnable(st, sl, ticks, list) ==
  {t \in ToSet(list) : st[t] = "READY" /\ ~(sl[t] # 0 /\ sl[t] > ticks)}

\* A walk that always starts at firstTask.
StartAtFirst(list, cur) == 1
\* next = currentTask->next, or firstTask when that is NULL.
StartIndex(list, cur) ==
  IF cur \notin ToSet(list) \/ cur = list[Len(list)] THEN 1
  ELSE SelectInSeq(list, LAMBDA x : x = cur) + 1

\* A walk that gives up at the first wrap.
RECURSIVE ScanOneWrap(_, _, _, _)
ScanOneWrap(list, ok, i, fullRun) ==
  IF list[i] \in ok THEN list[i]
  ELSE IF i < Len(list) THEN ScanOneWrap(list, ok, i + 1, fullRun)
  ELSE IF fullRun + 1 > 0 THEN Dummy
  ELSE ScanOneWrap(list, ok, 1, fullRun + 1)
\* The walk: past the last task fullRun counts a wrap, and past the third
\* the loop breaks with next = NULL, which becomes dummyTask.
RECURSIVE Scan(_, _, _, _)
Scan(list, ok, i, fullRun) ==
  IF list[i] \in ok THEN list[i]
  ELSE IF i < Len(list) THEN Scan(list, ok, i + 1, fullRun)
  ELSE IF fullRun + 1 > 2 THEN Dummy
  ELSE Scan(list, ok, 1, fullRun + 1)

\* The task schedule() switches to, given the state it reads.
PickNext(st, sl, list) ==
  Scan(list, Runnable(st, sl, timerTicks, list),
       StartIndex(list, currentTask), 0)

\* The timer interrupt (and every handControl) runs schedule().
schedule ==
  /\ currentTask' = PickNext(state, sleepUntil, taskList)
  /\ UNCHANGED <<state, sleepUntil, timerTicks, taskList, reaperTask, reaped>>

-----------------------------------------------------------------------------
(* helperReaper(), then handControl(), as one turn of kernelHelpEntry.     *)
\* helperReaper leaving reaperTask set after the destroy.
helperReaperNoReset ==
  /\ currentTask = Helper
  /\ LET r  == reaperTask
         st == IF r # None /\ state[r] = "SIGKILLED"
                 THEN [state EXCEPT ![r] = "DEAD"] ELSE state
         destroy == r # None /\ st[r] = "DEAD"
         list == IF destroy THEN Remove(taskList, r) ELSE taskList
     IN /\ state' = st
        /\ taskList' = list
        /\ reaperTask' = reaperTask
        /\ reaped' = IF destroy THEN Append(reaped, r) ELSE reaped
        /\ currentTask' = PickNext(st, sleepUntil, list)
  /\ UNCHANGED <<sleepUntil, timerTicks>>

\* helperReaper without the test of reaperTask against NULL.
helperReaperNoNullCheck ==
  /\ currentTask = Helper
  /\ LET r  == reaperTask
         st == IF r # None /\ state[r] = "SIGKILLED"
                 THEN [state EXCEPT ![r] = "DEAD"] ELSE state
         destroy == r = None \/ st[r] = "DEAD"
         list == IF destroy THEN Remove(taskList, r) ELSE taskList
     IN /\ state' = st
        /\ taskList' = list
        /\ reaperTask' = IF destroy THEN None ELSE reaperTask
        /\ reaped' = IF destroy THEN Append(reaped, r) ELSE reaped
        /\ currentTask' = PickNext(st, sleepUntil, list)
  /\ UNCHANGED <<sleepUntil, timerTicks>>

\* helperReaper without the taskKill of a SIGKILLED task.
helperReaperNoKill ==
  /\ currentTask = Helper
  /\ LET r  == reaperTask
         st == state
         destroy == r # None /\ st[r] = "DEAD"
         list == IF destroy THEN Remove(taskList, r) ELSE taskList
     IN /\ state' = st
        /\ taskList' = list
        /\ reaperTask' = IF destroy THEN None ELSE reaperTask
        /\ reaped' = IF destroy THEN Append(reaped, r) ELSE reaped
        /\ currentTask' = PickNext(st, sleepUntil, list)
  /\ UNCHANGED <<sleepUntil, timerTicks>>

\* A SIGKILLED task is first killed (taskKill sets it DEAD); a task that
\* is still not DEAD is left for a later turn (goto end); a DEAD one is
\* unlinked by taskListDestroy and the slot is cleared.
helperReaper ==
  /\ currentTask = Helper
  /\ LET r  == reaperTask
         st == IF r # None /\ state[r] = "SIGKILLED"
                 THEN [state EXCEPT ![r] = "DEAD"] ELSE state
         destroy == r # None /\ st[r] = "DEAD"
         list == IF destroy THEN Remove(taskList, r) ELSE taskList
     IN /\ state' = st
        /\ taskList' = list
        /\ reaperTask' = IF destroy THEN None ELSE reaperTask
        /\ reaped' = IF destroy THEN Append(reaped, r) ELSE reaped
        /\ currentTask' = PickNext(st, sleepUntil, list)
  /\ UNCHANGED <<sleepUntil, timerTicks>>

-----------------------------------------------------------------------------
(* The environment: the tasks' side of task.c and the syscalls.            *)

UserTasks == TaskIds \ {Helper}

\* The PIT advances timerTicks.
TimerTick ==
  /\ timerTicks < MaxTicks
  /\ timerTicks' = timerTicks + 1
  /\ UNCHANGED <<currentTask, state, sleepUntil, taskList, reaperTask, reaped>>

\* The running task sleeps for n ticks and yields.
TaskSleep(n) ==
  /\ currentTask \in UserTasks
  /\ timerTicks + n <= MaxTicks
  /\ LET sl == [sleepUntil EXCEPT ![currentTask] = timerTicks + n]
     IN /\ sleepUntil' = sl
        /\ currentTask' = PickNext(state, sl, taskList)
  /\ UNCHANGED <<state, timerTicks, taskList, reaperTask, reaped>>

\* The running task creates the next task: taskCreate links it at the end
\* of the list, so the list stays in ascending id order.
TaskCreate ==
  /\ currentTask \in TaskIds
  /\ \E i \in 1 .. Len(Spawn) :
       /\ state[Spawn[i]] = "CREATED"
       /\ \A j \in 1 .. i - 1 : state[Spawn[j]] # "CREATED"
       /\ taskList' = Append(taskList, Spawn[i])
       /\ state' = [state EXCEPT ![Spawn[i]] = "READY"]
  /\ UNCHANGED <<currentTask, sleepUntil, timerTicks, reaperTask, reaped>>

\* The running task blocks (on a wait it is woken from) and yields.
TaskBlock ==
  /\ currentTask \in UserTasks
  /\ state[currentTask] = "READY"
  /\ LET st == [state EXCEPT ![currentTask] = "BLOCKED"]
     IN /\ state' = st
        /\ currentTask' = PickNext(st, sleepUntil, taskList)
  /\ UNCHANGED <<sleepUntil, timerTicks, taskList, reaperTask, reaped>>

\* A blocked task is woken.
TaskWake(t) ==
  /\ state[t] = "BLOCKED"
  /\ state' = [state EXCEPT ![t] = "READY"]
  /\ UNCHANGED <<currentTask, sleepUntil, timerTicks, taskList, reaperTask,
                 reaped>>

\* The running task exits: taskKill marks it DEAD, hands it to the reaper
\* (whose slot must be free) and yields.
TaskExit ==
  /\ currentTask \in UserTasks
  /\ reaperTask = None
  /\ LET st == [state EXCEPT ![currentTask] = "DEAD"]
     IN /\ state' = st
        /\ reaperTask' = currentTask
        /\ currentTask' = PickNext(st, sleepUntil, taskList)
  /\ UNCHANGED <<sleepUntil, timerTicks, taskList, reaped>>

\* Another task is sent SIGKILL: it is marked and handed to the reaper.
TaskSigKill(t) ==
  /\ t \in UserTasks \cap ToSet(taskList)
  /\ t # currentTask
  /\ state[t] \in {"READY", "BLOCKED"}
  /\ reaperTask = None
  /\ state' = [state EXCEPT ![t] = "SIGKILLED"]
  /\ reaperTask' = t
  /\ UNCHANGED <<currentTask, sleepUntil, timerTicks, taskList, reaped>>

Init ==
  /\ currentTask = Dummy
  /\ state = [t \in TaskIds |-> IF t \in ToSet(InitList) THEN "READY"
                                                         ELSE "CREATED"]
  /\ sleepUntil = [t \in TaskIds |-> 0]
  /\ timerTicks = 0
  /\ taskList = InitList
  /\ reaperTask = None
  /\ reaped = <<>>

Next ==
  \/ schedule
  \/ helperReaper
  \/ TimerTick
  \/ \E n \in Naps : TaskSleep(n)
  \/ TaskCreate
  \/ TaskBlock
  \/ \E t \in TaskIds : TaskWake(t) \/ TaskSigKill(t)
  \/ TaskExit

\* The timer keeps interrupting and ticking; a task that is switched to
\* again and again runs its code (the helper its loop turn).
FairSpec ==
  /\ Init /\ [][Next]_vars
  /\ WF_vars(schedule) /\ WF_vars(TimerTick) /\ SF_vars(helperReaper)

-----------------------------------------------------------------------------
TypeOK ==
  /\ currentTask \in TaskIds \cup {Dummy}
  /\ state \in [TaskIds -> States]
  /\ sleepUntil \in [TaskIds -> 0 .. MaxTicks]
  /\ timerTicks \in 0 .. MaxTicks
  /\ taskList \in Seq(TaskIds)
  /\ reaperTask \in TaskIds \cup {None}
  /\ reaped \in Seq(TaskIds)

\* Reference for the walk: the first runnable task in ring order after
\* cur (after firstTask's predecessor when cur is not linked), or the
\* dummy task when none is runnable.
RoundRobinRef(list, ok, cur) ==
  LET p    == IF cur \in ToSet(list) THEN SelectInSeq(list, LAMBDA x : x = cur)
              ELSE 0
      dist(i) == (i - p - 1) % Len(list)
      cand == {i \in 1 .. Len(list) : list[i] \in ok}
  IN  IF cand = {} THEN Dummy
      ELSE list[CHOOSE i \in cand : \A j \in cand : dist(i) <= dist(j)]

\* Every switch, by the timer or by a yield, goes to the first runnable
\* task after the running one in ring order, whatever mix of sleeping,
\* blocked, killed and unlinked tasks the walk passes; the dummy task
\* runs only when no linked task is runnable.
SwitchesRoundRobin ==
  [][currentTask' # currentTask =>
       currentTask' = RoundRobinRef(taskList',
                        Runnable(state', sleepUntil', timerTicks', taskList'),
                        currentTask)]_vars

\* A task that stays runnable from some point on is switched to again and
\* again, while other tasks block, sleep, wake, exit and are reaped: the
\* round-robin walk of schedule() starves no one.
NoStarvation ==
  \A t \in TaskIds :
    (<>[](t \in Runnable(state, sleepUntil, timerTicks, taskList)))
      => []<>(currentTask = t)

\* helperReaper destroys each task once, only after it is DEAD, and a
\* destroyed task is neither linked nor running.
ReapedOnceAndGone ==
  /\ IsInjective(reaped)
  /\ \A i \in DOMAIN reaped :
       /\ state[reaped[i]] = "DEAD"
       /\ reaped[i] \notin ToSet(taskList)
       /\ reaped[i] # currentTask

\* A task handed to the reaper, by exit or by SIGKILL, is eventually
\* unlinked: the helper is switched to and its loop turn finishes it.
HandedTaskReaped ==
  \A t \in TaskIds : (reaperTask = t) ~> (t \notin ToSet(taskList))
=============================================================================
