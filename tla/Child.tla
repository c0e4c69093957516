------------------------------- MODULE Child -------------------------------
(***************************************************************************)
(* What the supervisors assume of a child process: it is started once,     *)
(* exits once, by itself or because it is stopped, and a call of stop()    *)
(* returns only when it is not running.  ManagedProcess implements this.   *)
(***************************************************************************)
VARIABLES
    child,      \* "none", "running" or "exited"
    stopping    \* is a call of stop() in progress?

vars == <<child, stopping>>

Init == child = "none" /\ stopping = FALSE

Start == child = "none" /\ child' = "running" /\ UNCHANGED stopping
Exit == child = "running" /\ child' = "exited" /\ UNCHANGED stopping

StopCalled == ~stopping /\ stopping' = TRUE /\ UNCHANGED child
StopReturns == stopping /\ child # "running" /\ stopping' = FALSE /\ UNCHANGED child

Next == Start \/ Exit \/ StopCalled \/ StopReturns
Spec == Init /\ [][Next]_vars
=============================================================================
