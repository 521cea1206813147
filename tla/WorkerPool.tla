----------------------------- MODULE WorkerPool -----------------------------
(***************************************************************************)
(* What the worker queue promises about parallelism, and nothing else:     *)
(* each worker runs at most one task, a task is run by at most one worker  *)
(* at a time, and runs begin and end one by one, except that a restart of  *)
(* the API server ends all of them at once.  TaskQueue implements this     *)
(* specification, with Running as its running tasks.                       *)
(***************************************************************************)
CONSTANTS Tasks, Workers, Free  \* Free: the run of an idle worker

VARIABLE run  \* worker -> the task it runs, or Free

Init == run = [w \in Workers |-> Free]

Begin(w, t) ==
  /\ run[w] = Free
  /\ \A v \in Workers : run[v] # t
  /\ run' = [run EXCEPT ![w] = t]

End(w) ==
  /\ run[w] # Free
  /\ run' = [run EXCEPT ![w] = Free]

Restart == run' = [w \in Workers |-> Free]

Next ==
  \/ \E w \in Workers : End(w) \/ \E t \in Tasks : Begin(w, t)
  \/ Restart

Spec == Init /\ [][Next]_run

=============================================================================
