---------------------------- MODULE ProcessStates ----------------------------
(***************************************************************************)
(* What the kernel promises of a process: the five-state diagram that the  *)
(* scheduler writes in its log ("PID: %i - Estado Anterior: X - Estado     *)
(* Actual: Y").  A process is created in NEW, at most one process is in    *)
(* EXECUTE, and EXIT is final.  The threads, queues and semaphore that     *)
(* implement the diagram are in Scheduler.                                 *)
(***************************************************************************)

CONSTANT Pids

VARIABLE state   \* state[p], the state of process p

States == {"none", "NEW", "READY", "EXECUTE", "BLOCKED", "EXIT"}

(* The transitions the log messages of scheduller.c name.  A process taken *)
(* out of the NEW queue is reported READY and EXECUTE in the same call.    *)
Transitions ==
  { <<"none", "NEW">>,
    <<"NEW", "READY">>,     <<"NEW", "EXECUTE">>,
    <<"READY", "EXECUTE">>, <<"BLOCKED", "READY">>,
    <<"EXECUTE", "READY">>, <<"EXECUTE", "BLOCKED">>, <<"EXECUTE", "EXIT">> }

Init == state = [p \in Pids |-> "none"]

Move(p) ==
  \E s \in States :
    /\ <<state[p], s>> \in Transitions
    /\ s = "EXECUTE" => \A r \in Pids : state[r] # "EXECUTE"
    /\ state' = [state EXCEPT ![p] = s]

Next == \E p \in Pids : Move(p)

Spec == Init /\ [][Next]_state
=============================================================================
