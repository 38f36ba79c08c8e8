------------------------ MODULE MCEventQueueService ------------------------
(***************************************************************************)
(* Changes and budgets for the runs of EventQueueService.                  *)
(***************************************************************************)
EXTENDS EventQueueService

CONSTANTS e1, e2, e3

\* A new source file, its deletion (priority 4), and a large text file.
Changes ==
    [e \in Events |->
        CASE e = e1 -> [type |-> "created", size |-> "small", critical |-> TRUE]
          [] e = e2 -> [type |-> "deleted", size |-> "none", critical |-> FALSE]
          [] e = e3 -> [type |-> "created", size |-> "large", critical |-> FALSE]]

Allow(crash, shutdown, clear, retry) ==
    [what \in {"crash", "shutdown", "clear", "retry"} |->
        CASE what = "crash" -> crash [] what = "shutdown" -> shutdown
          [] what = "clear" -> clear [] what = "retry" -> retry]

OneCrashOrRetry == {Allow(1, 0, 0, 0), Allow(0, 0, 0, 1)}
OneClear == {Allow(0, 1, 1, 0)}
=============================================================================
