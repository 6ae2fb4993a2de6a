------------------------------ MODULE MCWorkers -------------------------------
(***************************************************************************)
(* Instances of Workers for TLC: two workers, so that one can wait, fail   *)
(* or be cancelled while main deals with the other.                        *)
(***************************************************************************)
EXTENDS Workers

\* What can keep a waiting main program, or shutdown, from ending.
WaitMenu == {"thread_spawn", "task_spawn", "thread_join", "thread_join_timeout",
             "task_group_wait", "timed_wait", "host_call"}

\* What can keep shutdown from ending.
ShutdownMenu == {"thread_spawn", "thread_join_timeout", "timed_wait"}
=============================================================================
