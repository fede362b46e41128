----------------------------- MODULE RunLifecycle -----------------------------
(***************************************************************************)
(* What the coordinator promises about a run, whatever interleaving of     *)
(* clients, workers, timers, scheduler ticks and restarts it goes through: *)
(* which states follow which, that work is done under one open leg at a    *)
(* time, that only a leg the agent answers for is charged, that a retry    *)
(* needs budget left, and that no more than Slots runs work at once.       *)
(***************************************************************************)
EXTENDS Integers, FiniteSets

CONSTANTS Runs, Slots, Budget

VARIABLES
    state,   \* where each run is
    working, \* whether a leg of it is open
    spent    \* the legs it has been charged for

vars == <<state, working, spent>>

Parked == {"awaiting_input", "awaiting_quota", "interrupted"}

Settled == {"done", "failed"}

Init ==
    /\ state = [r \in Runs |-> "draft"]
    /\ working = [r \in Runs |-> FALSE]
    /\ spent = [r \in Runs |-> 0]

\* How one run moves: to a state, with or without an open leg, at a cost.
Moves(r, to, open, cost) ==
    /\ state'[r] = to
    /\ working'[r] = open
    /\ spent'[r] = spent[r] + cost

Approve(r) == state[r] = "draft" /\ Moves(r, "queued", FALSE, 0)

Start(r) == state[r] = "queued" /\ Moves(r, "running", TRUE, 0)

Park(r) == state[r] = "running" /\ \E to \in Parked : Moves(r, to, FALSE, 0)

Unpark(r) == state[r] \in Parked /\ Moves(r, "queued", FALSE, 0)

Settle(r) == state[r] = "running" /\ \E to \in Settled : Moves(r, to, FALSE, 1)

Retry(r) == state[r] \in Settled /\ spent[r] < Budget /\ Moves(r, "queued", FALSE, 0)

Drop(r) == state[r] \notin Settled \cup {"cancelled"} /\ Moves(r, "cancelled", FALSE, 0)

Stays(r) == Moves(r, state[r], working[r], 0)

Step(r) ==
    \/ Approve(r)
    \/ Start(r)
    \/ Park(r)
    \/ Unpark(r)
    \/ Settle(r)
    \/ Retry(r)
    \/ Drop(r)

\* A timer stage or a boot moves several runs; a leg opens for one at a time.
Next ==
    /\ \A r \in Runs : Step(r) \/ Stays(r)
    /\ Cardinality({r \in Runs : working'[r]}) <= Slots

Spec == Init /\ [][Next]_vars
=============================================================================
