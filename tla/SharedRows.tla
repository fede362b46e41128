------------------------------ MODULE SharedRows ------------------------------
(***************************************************************************)
(* What the coordinator and the gates are to each other: the two columns   *)
(* of a run that both read, and who may write what in them.  The run       *)
(* column is seen as the gates see it, a run that is parked or cut off     *)
(* being at work still.                                                    *)
(***************************************************************************)
EXTENDS Integers

CONSTANTS Runs, DependsOn

VARIABLES
    run,      \* "queued", "running", "done", "failed" or "cancelled"
    settled,  \* whether the run has ever been done or failed
    worktree  \* worktree_status

vars == <<run, settled, worktree>>

Finished == {"done", "failed", "cancelled"}

Init ==
    /\ run = [r \in Runs |-> "queued"]
    /\ settled = [r \in Runs |-> FALSE]
    /\ worktree = [r \in Runs |-> "active"]

Moves(r, to, ends) ==
    /\ run' = [run EXCEPT ![r] = to]
    /\ settled' = [settled EXCEPT ![r] = @ \/ ends]
    /\ UNCHANGED worktree

-----------------------------------------------------------------------------
(* The coordinator's part.                                                 *)

\* Nothing starts beside the work it waits for, or without a place to work in.
Start(r) ==
    /\ run[r] = "queued" /\ worktree[r] = "active"
    /\ DependsOn[r] # 0 => worktree[DependsOn[r]] = "reclaimable"
    /\ Moves(r, "running", FALSE)

End(r) == run[r] = "running" /\ \E to \in {"done", "failed"} : Moves(r, to, TRUE)

Cancel(r) == run[r] \in {"queued", "running"} /\ Moves(r, "cancelled", FALSE)

Retry(r) ==
    /\ run[r] \in {"done", "failed"} /\ worktree[r] = "active"
    /\ Moves(r, "queued", FALSE)

-----------------------------------------------------------------------------
(* The gates' part.                                                        *)

\* A worktree is released once its run has ended, though it may have been retried
\* since.
Release(r) ==
    /\ run[r] \in Finished \/ settled[r]
    /\ worktree[r] = "active"
    /\ worktree' = [worktree EXCEPT ![r] = "reclaimable"]
    /\ UNCHANGED <<run, settled>>

Clean(r) ==
    /\ worktree[r] \in {"active", "reclaimable"}
    /\ worktree' = [worktree EXCEPT ![r] = "cleaned"]
    /\ UNCHANGED <<run, settled>>

-----------------------------------------------------------------------------
\* A restart sends back what was at work.
Restart ==
    /\ run' = [r \in Runs |-> IF run[r] = "running" THEN "queued" ELSE run[r]]
    /\ UNCHANGED <<settled, worktree>>

RunNext == \E r \in Runs : Start(r) \/ End(r) \/ Cancel(r) \/ Retry(r)

WorktreeNext == \E r \in Runs : Release(r) \/ Clean(r)

Next == RunNext \/ WorktreeNext \/ Restart

Spec == Init /\ [][Next]_vars
===============================================================================
