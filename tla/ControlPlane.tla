----------------------------- MODULE ControlPlane -----------------------------
(***************************************************************************)
(* The durable rows of the coordinator and the transitions the state       *)
(* machines of crates/agens-server/src/fsm apply to them.                  *)
(*                                                                         *)
(* Every operator named Apply... is one transition of a machine: its guard *)
(* and what StateMachines::apply_run, apply_question or apply_worktree     *)
(* writes in one SQLite transaction.  None of them decides when it is      *)
(* applied: that is the business of Coordinator, which extends this        *)
(* module.                                                                 *)
(*                                                                         *)
(* Abstractions.  A run row is its state, its worktree status and the      *)
(* attempts and questions that point at it.  The clock appears only as the *)
(* passing of a provider's reset: a cap whose moment has come is "due".    *)
(* The journal appears as the one thing a decision is read back from it,   *)
(* whether a run reached the queue by resuming.  Events, texts, tokens and *)
(* costs are left out.                                                     *)
(***************************************************************************)
EXTENDS Integers, Sequences, FiniteSets

CONSTANTS
    Runs,        \* the ids of the run rows
    Providers,   \* the subscriptions the runs speak to
    ProviderOf,  \* the provider column of each run
    DependsOn,   \* the dep_run_id column: a run, or NoRun
    SessionIds,  \* the ids of the session rows
    RetryBudget  \* how many chargeable attempts a retry may find

NoRun == 0

ASSUME RowAssumption ==
    /\ Runs \subseteq Nat \ {NoRun} /\ IsFiniteSet(Runs)
    /\ SessionIds \subseteq Nat \ {0}
    /\ ProviderOf \in [Runs -> Providers]
    /\ DependsOn \in [Runs -> Runs \cup {NoRun}]
    /\ RetryBudget \in Nat \ {0}

RunStates == {"draft", "queued", "running", "awaiting_input", "awaiting_quota",
              "done", "failed", "cancelled", "interrupted"}

\* The states cancellation reaches: the ones a run can still act in.
Cancellable == {"draft", "queued", "running", "awaiting_input",
                "awaiting_quota", "interrupted"}

Outcomes == {"open", "succeeded", "failed", "interrupted"}

\* "none" is a provider with no row; "due" a capped one whose reset has come.
QuotaStates == {"none", "ok", "capped", "due"}

Leg == [session : SessionIds, outcome : Outcomes]

VARIABLES
    run,        \* state column of each run
    resumed,    \* last run_state_changed of the run left a RESUMED_FROM state
    legs,       \* the attempts of each run, in order of n
    questions,  \* the questions of each run, in order of id
    parkedOn,   \* which of them the last ask of the run opened, 0 for none
    quota,      \* the providers table
    worktree    \* worktree_status column of each run

rows == <<run, resumed, legs, questions, parkedOn, quota, worktree>>

RowTypeOK ==
    /\ run \in [Runs -> RunStates]
    /\ resumed \in [Runs -> BOOLEAN]
    /\ legs \in [Runs -> Seq(Leg)]
    /\ questions \in [Runs -> Seq({"open", "answered"})]
    /\ parkedOn \in [Runs -> Nat]
    /\ quota \in [Providers -> QuotaStates]
    /\ worktree \in [Runs -> {"active", "reclaimable", "cleaned"}]

RowInit ==
    /\ run = [r \in Runs |-> "draft"]
    /\ resumed = [r \in Runs |-> FALSE]
    /\ legs = [r \in Runs |-> <<>>]
    /\ questions = [r \in Runs |-> <<>>]
    /\ parkedOn = [r \in Runs |-> 0]
    /\ quota = [p \in Providers |-> "none"]
    /\ worktree = [r \in Runs |-> "active"]

-----------------------------------------------------------------------------
(* What the guards read back from the rows.                                *)

Running == {r \in Runs : run[r] = "running"}

Capped(p) == quota[p] \in {"capped", "due"}

LastLeg(r) == legs[r][Len(legs[r])]

\* A leg that ended interrupted spends nothing; one still open does.
Charged(r) == Cardinality({i \in DOMAIN legs[r] : legs[r][i].outcome # "interrupted"})

\* The legs a run settled with.
Spent(r) == Cardinality({i \in DOMAIN legs[r] : legs[r][i].outcome \in {"succeeded", "failed"}})

-----------------------------------------------------------------------------
(* The write half of a transition.                                         *)

ResumedFrom == {"awaiting_input", "awaiting_quota", "interrupted"}

\* One UPDATE of runs.state for each run of a set, and its run_state_changed.
MoveRuns(moved, to) ==
    /\ run' = [r \in Runs |-> IF r \in moved THEN to ELSE run[r]]
    /\ resumed' = [r \in Runs |->
                     IF r \in moved THEN run[r] \in ResumedFrom ELSE resumed[r]]

MoveRun(r, to) == MoveRuns({r}, to)

\* close_open_attempts rewriting the attempts that had already ended.
CloseLegs_RewritesHistory(closing, outcome) ==
    legs' = [r \in Runs |->
               IF r \in closing
               THEN [i \in DOMAIN legs[r] |-> [legs[r][i] EXCEPT !.outcome = outcome]]
               ELSE legs[r]]

\* Ends every attempt of a run that is still open, and touches no other.
CloseLegs(closing, outcome) ==
    legs' = [r \in Runs |->
               IF r \in closing
               THEN [i \in DOMAIN legs[r] |->
                       IF legs[r][i].outcome = "open"
                       THEN [legs[r][i] EXCEPT !.outcome = outcome]
                       ELSE legs[r][i]]
               ELSE legs[r]]

-----------------------------------------------------------------------------
(* The run machine, one operator per row of RUN_TRANSITIONS.               *)

ApplyApprove(r) ==
    /\ run[r] = "draft"
    /\ MoveRun(r, "queued")
    /\ UNCHANGED <<legs, questions, parkedOn, quota, worktree>>

ApplyDiscard(r) ==
    /\ run[r] = "draft"
    /\ MoveRun(r, "cancelled")
    /\ UNCHANGED <<legs, questions, parkedOn, quota, worktree>>

ApplyAdmit(r, session) ==
    /\ run[r] = "queued"
    /\ worktree[r] = "active"
    /\ MoveRun(r, "running")
    /\ legs' = [legs EXCEPT ![r] = Append(@, [session |-> session, outcome |-> "open"])]
    /\ UNCHANGED <<questions, parkedOn, quota, worktree>>

\* The park that forgets to end the leg it parks.
ApplyAsk_LeavesLegOpen(r) ==
    /\ run[r] = "running"
    /\ MoveRun(r, "awaiting_input")
    /\ questions' = [questions EXCEPT ![r] = Append(@, "open")]
    /\ parkedOn' = [parkedOn EXCEPT ![r] = Len(questions[r]) + 1]
    /\ UNCHANGED <<legs, quota, worktree>>

\* The question is inserted in the transaction that parks the run.
ApplyAsk(r) ==
    /\ run[r] = "running"
    /\ MoveRun(r, "awaiting_input")
    /\ CloseLegs({r}, "interrupted")
    /\ questions' = [questions EXCEPT ![r] = Append(@, "open")]
    /\ parkedOn' = [parkedOn EXCEPT ![r] = Len(questions[r]) + 1]
    /\ UNCHANGED <<quota, worktree>>

\* The provider's row written once and never again.
ApplyQuotaReached_KeepsTheRow(r) ==
    /\ run[r] = "running"
    /\ MoveRun(r, "awaiting_quota")
    /\ CloseLegs({r}, "interrupted")
    /\ quota' = [quota EXCEPT ![ProviderOf[r]] = IF @ = "none" THEN "capped" ELSE @]
    /\ UNCHANGED <<questions, parkedOn, worktree>>

ApplyQuotaReached(r) ==
    /\ run[r] = "running"
    /\ MoveRun(r, "awaiting_quota")
    /\ CloseLegs({r}, "interrupted")
    /\ quota' = [quota EXCEPT ![ProviderOf[r]] = "capped"]
    /\ UNCHANGED <<questions, parkedOn, worktree>>

\* The guard asks that the question named is one of the run's own and has been
\* answered; which question parked the run is not one of the things it reads.
ApplyAnswered(r, q) ==
    /\ run[r] = "awaiting_input"
    /\ questions'[r][q] = "answered"
    /\ MoveRun(r, "queued")
    /\ UNCHANGED <<legs, parkedOn, quota, worktree>>

\* One transition per run of the set, all within one timer stage: the first run
\* of a provider clears its cap and the guard accepts a provider that serves.
ApplyQuotaReset(woken) ==
    /\ \A r \in woken : run[r] = "awaiting_quota" /\ quota[ProviderOf[r]] = "due"
    /\ MoveRuns(woken, "queued")
    /\ quota' = [p \in Providers |->
                   IF \E r \in woken : ProviderOf[r] = p THEN "ok" ELSE quota[p]]
    /\ UNCHANGED <<legs, questions, parkedOn, worktree>>

ApplyFinished(r) ==
    /\ run[r] = "running"
    /\ MoveRun(r, "done")
    /\ CloseLegs({r}, "succeeded")
    /\ UNCHANGED <<questions, parkedOn, quota, worktree>>

ApplyAttemptFailed(r) ==
    /\ run[r] = "running"
    /\ MoveRun(r, "failed")
    /\ CloseLegs({r}, "failed")
    /\ UNCHANGED <<questions, parkedOn, quota, worktree>>

\* The budget compared with > rather than >=.
ApplyRetry_OneTooMany(r) ==
    /\ run[r] \in {"done", "failed"}
    /\ worktree[r] = "active"
    /\ Charged(r) <= RetryBudget
    /\ MoveRun(r, "queued")
    /\ UNCHANGED <<legs, questions, parkedOn, quota, worktree>>

ApplyRetry(r) ==
    /\ run[r] \in {"done", "failed"}
    /\ worktree[r] = "active"
    /\ Charged(r) < RetryBudget
    /\ MoveRun(r, "queued")
    /\ UNCHANGED <<legs, questions, parkedOn, quota, worktree>>

\* An outcome of its own for a cancelled attempt, which no reader knows.
ApplyCancel_NewOutcome(r) ==
    /\ run[r] \in Cancellable
    /\ MoveRun(r, "cancelled")
    /\ CloseLegs({r}, "cancelled")
    /\ UNCHANGED <<questions, parkedOn, quota, worktree>>

ApplyCancel(r) ==
    /\ run[r] \in Cancellable
    /\ MoveRun(r, "cancelled")
    /\ CloseLegs({r}, "interrupted")
    /\ UNCHANGED <<questions, parkedOn, quota, worktree>>

\* The reconciliation that charges the agent for the restart.
ApplyReconcile_ChargesTheLeg(orphaned) ==
    /\ \A r \in orphaned : run[r] = "running"
    /\ MoveRuns(orphaned, "interrupted")
    /\ CloseLegs(orphaned, "failed")
    /\ UNCHANGED <<questions, parkedOn, quota, worktree>>

ApplyReconcile(orphaned) ==
    /\ \A r \in orphaned : run[r] = "running"
    /\ MoveRuns(orphaned, "interrupted")
    /\ CloseLegs(orphaned, "interrupted")
    /\ UNCHANGED <<questions, parkedOn, quota, worktree>>

ApplyResume(interrupted) ==
    /\ \A r \in interrupted : run[r] = "interrupted"
    /\ MoveRuns(interrupted, "queued")
    /\ UNCHANGED <<legs, questions, parkedOn, quota, worktree>>

-----------------------------------------------------------------------------
(* The question machine (plain questions) and the worktree machine.        *)

ApplyAnswer(r, q) ==
    /\ questions[r][q] = "open"
    /\ questions' = [questions EXCEPT ![r][q] = "answered"]

OpenQuestion(r) ==
    /\ questions' = [questions EXCEPT ![r] = Append(@, "open")]
    /\ UNCHANGED <<run, resumed, legs, parkedOn, quota, worktree>>

\* No row of the worktree machine looks at the state of the run.
ApplyWorktree(r, from, to) ==
    /\ <<from, to>> \in {<<"active", "reclaimable">>, <<"reclaimable", "cleaned">>,
                         <<"active", "cleaned">>}
    /\ worktree[r] = from
    /\ worktree' = [worktree EXCEPT ![r] = to]
    /\ UNCHANGED <<run, resumed, legs, questions, parkedOn, quota>>
=============================================================================
