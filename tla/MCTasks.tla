------------------------------ MODULE MCTasks ------------------------------
(* Two user tasks and the helper linked, a third task created later, and *)
(* the dummy task.                                                         *)
EXTENDS ProcFs

CONSTANTS t1, t2, t3, h, idle

MCInitList == <<t1, h, t2>>
MCSpawn == <<t3>>
=============================================================================
