------------------------------ MODULE Coordinator ------------------------------
(***************************************************************************)
(* The coordinator daemon over the rows of ControlPlane: the clients' Team *)
(* operations, the scheduler's admission tick, the timer wheel, the        *)
(* session registry, the workers that execute the runs, the boot           *)
(* reconciliation and the shutdown.                                        *)
(*                                                                         *)
(* Everything that takes the service core's lock is one action, with one   *)
(* exception: an admission tick holds the lock over several steps, because *)
(* sessions end without it while the tick is launching others.  The lock   *)
(* is held exactly while candidates is not empty.                          *)
(*                                                                         *)
(* Crashes lose the variables of memory and nothing else.                  *)
(***************************************************************************)
EXTENDS ControlPlane

CONSTANTS
    Priority,           \* the priority column of each run
    MaxConcurrent,      \* SchedulerLimits.max_concurrent
    Capacity,           \* SchedulerLimits.capacity_for of each provider
    AvailableWorktrees, \* SchedulerLimits.available_worktrees
    MaxLiveSessions,    \* SessionLimits.max_live_sessions
    Operations,         \* bound: what clients and gates do after an approval
    Faults,             \* the failures the environment may cause, see AllFaults
    MaxLegs,            \* bound: attempts of a run
    MaxQuestions,       \* bound: questions of a run
    MaxRestarts         \* bound: crashes and shutdowns

AllOperations == {"discard", "cancel", "escalate", "answer", "retry", "pause",
                  "stop", "worktree"}

(* "launch": a session cannot be built.  "admit": the store refuses an     *)
(* admission after its session started.  "setup": a worker cannot build    *)
(* its turn's request.  "report": a worker panics, or its report is not    *)
(* stored.  "answer": an answer stops after its first transaction.         *)
(* "timer": the quota stage stops at a refusal part of the way through.    *)
(* "reopen": a launch cannot read the session of the last attempt.         *)
AllFaults == {"launch", "admit", "setup", "report", "answer", "timer", "reopen"}

ASSUME CoordinatorAssumption ==
    /\ Priority \in [Runs -> Int]
    /\ MaxConcurrent \in Nat
    /\ Capacity \in [Providers -> Nat]
    /\ AvailableWorktrees \in Nat
    /\ MaxLiveSessions \in Nat
    /\ Operations \subseteq AllOperations
    /\ Faults \subseteq AllFaults
    /\ {MaxLegs, MaxQuestions, MaxRestarts} \subseteq Nat

VARIABLES
    phase,      \* how far the daemon is through its life
    registry,   \* SessionState of each session the registry holds
    worker,     \* where the thread executing a session is
    sessionRun, \* the run each session was opened for
    opened,     \* session rows opened so far; their ids are 1..opened
    paused,     \* Admissions.paused
    occasion,   \* the admission loop read an open toggle and wants the lock
    candidates, \* eligible runs the tick under way has not offered a slot yet
    taken,      \* runs whose slot this tick gave out without admitting them
    restarts    \* crashes and shutdowns so far

memory == <<registry, worker, paused, occasion, candidates, taken>>
sessions == <<registry, worker, sessionRun, opened>>
tick == <<occasion, candidates, taken>>
vars == <<rows, phase, memory, sessionRun, opened, restarts>>

Phases == {"down", "reconciled", "looping", "serving", "stopping"}

Reports == {"Finished", "QuotaReached", "AttemptFailed"}

TypeOK ==
    /\ RowTypeOK
    /\ phase \in Phases
    /\ registry \in [SessionIds -> {"absent", "running", "cancelling", "finished"}]
    /\ worker \in [SessionIds -> {"none", "polling", "turn", "exiting"} \cup Reports]
    /\ sessionRun \in [SessionIds -> Runs \cup {NoRun}]
    /\ \A s \in SessionIds : worker[s] # "none" => sessionRun[s] \in Runs
    /\ opened \in Nat
    /\ paused \in BOOLEAN
    /\ occasion \in BOOLEAN
    /\ candidates \subseteq Runs
    /\ taken \subseteq Runs
    /\ restarts \in Nat

MemoryInit ==
    /\ registry = [s \in SessionIds |-> "absent"]
    /\ worker = [s \in SessionIds |-> "none"]
    /\ paused = FALSE
    /\ occasion = FALSE
    /\ candidates = {}
    /\ taken = {}

Init ==
    /\ RowInit
    /\ MemoryInit
    /\ phase = "serving"
    /\ sessionRun = [s \in SessionIds |-> NoRun]
    /\ opened = 0
    /\ restarts = 0

CoreFree == candidates = {}

Looping == phase \in {"looping", "serving", "stopping"}

-----------------------------------------------------------------------------
(* Sessions: SessionRegistry and the ports that address it by run.         *)

Live == {s \in SessionIds : registry[s] \in {"running", "cancelling"}}

\* The session a run is executing in right now; empty when it is not running.
LiveSession(r) ==
    IF run[r] = "running" /\ legs[r] # <<>> /\ LastLeg(r).outcome = "open"
    THEN {LastLeg(r).session}
    ELSE {}

\* The session a run last executed in, whatever its state is now.
LastSession(r) == IF legs[r] = <<>> THEN {} ELSE {LastLeg(r).session}

\* SupervisedSessions::cancel_session on each of a set of sessions.
Signalled(targets) ==
    [s \in SessionIds |-> IF s \in targets \cap Live THEN "cancelling" ELSE registry[s]]

\* A fresh session for every launch, whatever the run executed in before.
SessionFor_AlwaysFresh(r) == opened + 1

\* The row a launch executes as: the one of the last attempt when there is one.
SessionFor(r) == IF legs[r] = <<>> THEN opened + 1 ELSE LastLeg(r).session

\* A previous session that cannot be read is taken for none.
SessionsFor(r) ==
    {SessionFor(r)} \cup {s \in {opened + 1} : "reopen" \in Faults}

\* SessionRegistry::admit refuses a session that is live and a full registry.
Registrable(s) == s \in SessionIds \ Live /\ Cardinality(Live) < MaxLiveSessions

\* SessionSupervisor::start: registered, and a thread polling for its run.
StartSession(s, r, state) ==
    /\ registry' = [registry EXCEPT ![s] = state]
    /\ worker' = [worker EXCEPT ![s] = "polling"]
    /\ sessionRun' = [sessionRun EXCEPT ![s] = r]
    /\ opened' = IF s > opened THEN s ELSE opened

-----------------------------------------------------------------------------
(* The clients' operations on a run, each under the core's lock.           *)

Serving == phase = "serving" /\ CoreFree

Called(operation) == Serving /\ operation \in Operations

ApprovePlan(r) ==
    /\ Serving
    /\ ApplyApprove(r)
    /\ UNCHANGED <<phase, memory, sessionRun, opened, restarts>>

DiscardDraft(r) ==
    /\ Called("discard")
    /\ ApplyDiscard(r)
    /\ UNCHANGED <<phase, memory, sessionRun, opened, restarts>>

\* The transition first and the signal second, in that order.
CancelRun(r) ==
    /\ Called("cancel")
    /\ ApplyCancel(r)
    /\ registry' = Signalled(LiveSession(r)')
    /\ UNCHANGED <<phase, worker, paused, tick, sessionRun, opened, restarts>>

Escalate(r) ==
    /\ Called("escalate")
    /\ Len(questions[r]) < MaxQuestions
    /\ OpenQuestion(r)
    /\ UNCHANGED <<phase, memory, sessionRun, opened, restarts>>

\* The answer that stops after recording itself.
AnswerQuestion_LeavesTheRun(r) ==
    /\ Called("answer")
    /\ \E q \in DOMAIN questions[r] : ApplyAnswer(r, q)
    /\ UNCHANGED <<run, resumed, legs, parkedOn, quota, worktree>>
    /\ UNCHANGED <<phase, memory, sessionRun, opened, restarts>>

\* Answers, delivers, and requeues the run when it is waiting: two transactions
\* of which a failure in between leaves the first.
AnswerQuestion(r) ==
    /\ Called("answer")
    /\ \E q \in DOMAIN questions[r] :
         /\ ApplyAnswer(r, q)
         /\ \/ ApplyAnswered(r, q)
            \/ /\ run[r] # "awaiting_input" \/ "answer" \in Faults
               /\ UNCHANGED <<run, resumed, legs, parkedOn, quota, worktree>>
    /\ UNCHANGED <<phase, memory, sessionRun, opened, restarts>>

RetryRun(r) ==
    /\ Called("retry")
    /\ Len(legs[r]) < MaxLegs
    /\ ApplyRetry(r)
    /\ UNCHANGED <<phase, memory, sessionRun, opened, restarts>>

PauseAdmissions ==
    /\ Called("pause")
    /\ paused' = ~paused
    /\ UNCHANGED <<rows, phase, registry, worker, tick, sessionRun, opened, restarts>>

\* Pauses before it signals anything; the scope is a run, the runs of the
\* repository, or every session of the machine.
StopTeam ==
    /\ Called("stop")
    /\ paused' = TRUE
    /\ \E scope \in {UNION {LiveSession(r) : r \in Runs}, SessionIds}
                      \cup {LiveSession(r) : r \in Runs} :
         registry' = Signalled(scope)
    /\ UNCHANGED <<rows, phase, worker, tick, sessionRun, opened, restarts>>

\* What the merge gates and the cleaning flow do to a worktree.  The sweep works
\* on runs it read as settled, and by the time it acts a run may have been
\* retried; a person disposes of a worktree whatever its run is doing.
ReleaseWorktree(r) ==
    /\ Looping /\ CoreFree /\ "worktree" \in Operations
    /\ run[r] \in {"done", "failed", "cancelled"} \/ Spent(r) > 0
    /\ ApplyWorktree(r, "active", "reclaimable")
    /\ UNCHANGED <<phase, memory, sessionRun, opened, restarts>>

ReclaimWorktree(r) ==
    /\ Looping /\ CoreFree /\ "worktree" \in Operations
    /\ ApplyWorktree(r, "reclaimable", "cleaned")
    /\ UNCHANGED <<phase, memory, sessionRun, opened, restarts>>

DisposeWorktree(r) ==
    /\ Called("worktree")
    /\ ApplyWorktree(r, "active", "cleaned")
    /\ UNCHANGED <<phase, memory, sessionRun, opened, restarts>>

-----------------------------------------------------------------------------
(* The admission loop.                                                     *)

\* The loop reads the toggle before it asks for the core's lock.
WaitForOccasion ==
    /\ Looping /\ ~occasion /\ CoreFree
    /\ ~paused
    /\ occasion' = TRUE
    /\ UNCHANGED <<rows, phase, sessions, paused, candidates, taken, restarts>>

Eligible(r) ==
    /\ run[r] = "queued"
    /\ ~Capped(ProviderOf[r])
    /\ worktree[r] = "active"
    /\ DependsOn[r] # NoRun => worktree[DependsOn[r]] = "reclaimable"

\* queue::build, with the core's lock held from here to the last offer.
BeginTick ==
    /\ Looping /\ occasion /\ CoreFree
    /\ occasion' = FALSE
    /\ candidates' = {r \in Runs : Eligible(r)}
    /\ UNCHANGED <<rows, phase, sessions, paused, taken, restarts>>

\* Resumed first, then priority, then the row that was created first.
Precedes(a, b) ==
    \/ resumed[a] /\ ~resumed[b]
    \/ /\ resumed[a] = resumed[b]
       /\ Priority[a] > Priority[b] \/ (Priority[a] = Priority[b] /\ a < b)

NextInQueue(r) == r \in candidates /\ \A o \in candidates \ {r} : Precedes(r, o)

\* The concurrency ceiling lets one more run through once it is reached.
Room_OffByOne(r, occupying, holding) ==
    /\ Cardinality(occupying) <= MaxConcurrent
    /\ Cardinality(holding) < AvailableWorktrees
    /\ Cardinality({o \in occupying : ProviderOf[o] = ProviderOf[r]}) <= Capacity[ProviderOf[r]]

\* Slots::offer: the ceilings one more run has to pass.
Room(r, occupying, holding) ==
    /\ Cardinality(occupying) < MaxConcurrent
    /\ Cardinality(holding) < AvailableWorktrees
    /\ Cardinality({o \in occupying : ProviderOf[o] = ProviderOf[r]}) < Capacity[ProviderOf[r]]

Holding == {r \in Runs : run[r] # "queued" /\ worktree[r] # "cleaned"}

\* A slot given out stays given out for the rest of the tick.
SlotFor(r) == Room(r, Running \cup taken, Holding \cup taken)

\* The tick is done with r; the lock goes with the last candidate.
DoneWith(r, givenOut) ==
    /\ candidates' = candidates \ {r}
    /\ taken' = IF candidates = {r} THEN {} ELSE taken \cup givenOut
    /\ UNCHANGED <<phase, paused, occasion, restarts>>

Defer(r) ==
    /\ NextInQueue(r)
    /\ ~SlotFor(r)
    /\ DoneWith(r, {})
    /\ UNCHANGED <<rows, sessions>>

LaunchFails(r) ==
    /\ NextInQueue(r)
    /\ SlotFor(r)
    /\ "launch" \in Faults \/ \E s \in SessionsFor(r) : ~Registrable(s)
    /\ DoneWith(r, {r})
    /\ UNCHANGED <<rows, sessions>>

\* The launch and the transition behind it.
Admit(r) ==
    /\ NextInQueue(r)
    /\ SlotFor(r)
    /\ \E s \in SessionsFor(r) :
         /\ Registrable(s)
         /\ ApplyAdmit(r, s)
         /\ StartSession(s, r, "running")
    /\ DoneWith(r, {})

\* The launch without the transition: the session is abandoned to its thread.
\* Bounded by the session rows the runs not started yet will need.
AdmissionRefused(r) ==
    /\ "admit" \in Faults
    /\ NextInQueue(r)
    /\ SlotFor(r)
    /\ \E s \in SessionsFor(r) :
         /\ Registrable(s)
         /\ s <= opened \/ s + Cardinality({o \in Runs : legs[o] = <<>>})
                             <= Cardinality(SessionIds)
         /\ StartSession(s, r, "cancelling")
    /\ DoneWith(r, {r})
    /\ UNCHANGED rows

-----------------------------------------------------------------------------
(* The timer wheel.                                                        *)

\* The reset a provider named, or the configured window, passes.
ResetArrives(p) ==
    /\ quota[p] = "capped"
    /\ quota' = [quota EXCEPT ![p] = "due"]
    /\ UNCHANGED <<run, resumed, legs, questions, parkedOn, worktree,
                   phase, memory, sessionRun, opened, restarts>>

ParkedOnDue == {r \in Runs : run[r] = "awaiting_quota" /\ quota[ProviderOf[r]] = "due"}

\* One run woken per stage rather than the group.
WokenBy_OneRun(last) == {last}

\* The parked runs the stage reaches, in row order, when last is where it ends.
WokenBy(last) == {r \in ParkedOnDue : r <= last}

\* A stage ends early when one of its transitions is refused.
LiftElapsedCaps ==
    /\ Looping /\ CoreFree
    /\ \E last \in ParkedOnDue :
         /\ (\A r \in ParkedOnDue : r <= last) \/ "timer" \in Faults
         /\ ApplyQuotaReset(WokenBy(last))
    /\ UNCHANGED <<phase, memory, sessionRun, opened, restarts>>

-----------------------------------------------------------------------------
(* The worker: one thread per launched session, one turn per admission.    *)

\* await_running found the run's row running.
SeesRunning(s) ==
    /\ CoreFree
    /\ worker[s] = "polling"
    /\ run[sessionRun[s]] = "running"
    /\ worker' = [worker EXCEPT ![s] = "turn"]
    /\ UNCHANGED <<rows, phase, registry, paused, tick, sessionRun, opened, restarts>>

\* await_running ran out of patience.
GivesUpWaiting(s) ==
    /\ worker[s] = "polling"
    /\ worker' = [worker EXCEPT ![s] = "AttemptFailed"]
    /\ UNCHANGED <<rows, phase, registry, paused, tick, sessionRun, opened, restarts>>

\* The suspension addressed to the session the run is executing in.
Suspended_LiveOnly(r) == LiveSession(r)'

\* The session a park suspends, read after the transition that parked the run.
Suspended(r) == LastSession(r)'

\* The worker's ask tool, and a denylisted call: parks the run and signals the
\* session behind it, which goes on until it looks at its cancellation.
Ask(s) ==
    \E r \in Runs :
        /\ sessionRun[s] = r
        /\ CoreFree
        /\ worker[s] = "turn"
        /\ Len(questions[r]) < MaxQuestions /\ Len(legs[r]) < MaxLegs
        /\ ApplyAsk(r)
        /\ registry' = Signalled(Suspended(r))
        /\ UNCHANGED <<phase, worker, paused, tick, sessionRun, opened, restarts>>

\* The turn ends and the worker reads its run's row: a report is owed only for
\* a run that is still running.
TurnEnds(s) ==
    LET r == sessionRun[s] IN
    /\ CoreFree
    /\ worker[s] = "turn"
    /\ \E report \in Reports :
         /\ report = "QuotaReached" => Len(legs[r]) < MaxLegs
         /\ worker' = [worker EXCEPT ![s] =
                         IF run[r] = "running" THEN report ELSE "exiting"]
    /\ UNCHANGED <<rows, phase, registry, paused, tick, sessionRun, opened, restarts>>

\* The run machine applies the report to the run, or refuses it.
Report(s) ==
    LET r == sessionRun[s] IN
    /\ CoreFree
    /\ worker[s] \in Reports
    /\ \/ worker[s] = "Finished" /\ ApplyFinished(r)
       \/ worker[s] = "QuotaReached" /\ ApplyQuotaReached(r)
       \/ worker[s] = "AttemptFailed" /\ ApplyAttemptFailed(r)
       \/ run[r] # "running" /\ UNCHANGED rows
    /\ worker' = [worker EXCEPT ![s] = "exiting"]
    /\ UNCHANGED <<phase, registry, paused, tick, sessionRun, opened, restarts>>

\* The request cannot be built, the work panics, or its report is not stored.
WorkerVanishes(s) ==
    /\ \/ "setup" \in Faults /\ worker[s] = "turn"
       \/ "report" \in Faults /\ worker[s] \in Reports
    /\ worker' = [worker EXCEPT ![s] = "exiting"]
    /\ UNCHANGED <<rows, phase, registry, paused, tick, sessionRun, opened, restarts>>

\* The end of a thread that the registry never hears of.
RecordEnd_LeavesItLive(s) ==
    /\ worker[s] = "exiting"
    /\ worker' = [worker EXCEPT ![s] = "none"]
    /\ UNCHANGED <<rows, phase, registry, paused, tick, sessionRun, opened, restarts>>

\* SessionRegistry::record_end, from the session's task and without the core.
RecordEnd(s) ==
    /\ worker[s] = "exiting"
    /\ registry' = [registry EXCEPT ![s] = "finished"]
    /\ worker' = [worker EXCEPT ![s] = "none"]
    /\ UNCHANGED <<rows, phase, paused, tick, sessionRun, opened, restarts>>

-----------------------------------------------------------------------------
(* The daemon's life: boot, shutdown, and the process ending.              *)

\* A boot that takes what the rows call running for running.
ReconcileBoot_TrustsTheRows ==
    /\ phase = "down"
    /\ phase' = "reconciled"
    /\ UNCHANGED <<rows, memory, sessionRun, opened, restarts>>

\* Step 2 of the boot: what the rows call running is executed by nothing.
ReconcileBoot ==
    /\ phase = "down"
    /\ ApplyReconcile(Running)
    /\ phase' = "reconciled"
    /\ UNCHANGED <<memory, sessionRun, opened, restarts>>

\* Step 3, a timer tick, after which the loops start.
BootTimers ==
    /\ phase = "reconciled"
    /\ ApplyQuotaReset(ParkedOnDue)
    /\ phase' = "looping"
    /\ UNCHANGED <<memory, sessionRun, opened, restarts>>

\* Only what still has a session is resumed, and after a boot nothing has.
ResumeReconciled_LiveOnly ==
    /\ phase = "looping" /\ CoreFree
    /\ ApplyResume({r \in Runs : run[r] = "interrupted" /\ LastSession(r) \subseteq Live})
    /\ phase' = "serving"
    /\ UNCHANGED <<memory, sessionRun, opened, restarts>>

\* Step 5, with the loops already ticking and before any client is answered.
ResumeReconciled ==
    /\ phase = "looping" /\ CoreFree
    /\ ApplyResume({r \in Runs : run[r] = "interrupted"})
    /\ phase' = "serving"
    /\ UNCHANGED <<memory, sessionRun, opened, restarts>>

\* Bound: an interrupted run will need one more leg.
MayRestart == \A r \in Running : Len(legs[r]) < MaxLegs

\* A termination signal: the facade drains, every session is signalled, and the
\* loops and the workers go on while the sessions are joined.
Shutdown ==
    /\ Serving
    /\ MayRestart /\ restarts < MaxRestarts
    /\ phase' = "stopping"
    /\ registry' = Signalled(SessionIds)
    /\ restarts' = restarts + 1
    /\ UNCHANGED <<rows, worker, paused, tick, sessionRun, opened>>

\* The process is gone, at the end of a shutdown or at any moment before.
ProcessEnds ==
    /\ phase # "down"
    /\ MayRestart
    /\ \/ phase = "stopping" /\ UNCHANGED restarts
       \/ phase # "stopping" /\ restarts < MaxRestarts /\ restarts' = restarts + 1
    /\ phase' = "down"
    /\ registry' = [s \in SessionIds |-> "absent"]
    /\ worker' = [s \in SessionIds |-> "none"]
    /\ paused' = FALSE
    /\ occasion' = FALSE
    /\ candidates' = {}
    /\ taken' = {}
    /\ UNCHANGED <<rows, sessionRun, opened>>

-----------------------------------------------------------------------------

ClientStep(r) ==
    \/ ApprovePlan(r)
    \/ DiscardDraft(r)
    \/ CancelRun(r)
    \/ Escalate(r)
    \/ AnswerQuestion(r)
    \/ RetryRun(r)
    \/ ReleaseWorktree(r)
    \/ ReclaimWorktree(r)
    \/ DisposeWorktree(r)

OfferStep(r) ==
    \/ Defer(r)
    \/ LaunchFails(r)
    \/ Admit(r)
    \/ AdmissionRefused(r)

WorkerStep(s) ==
    \/ SeesRunning(s)
    \/ GivesUpWaiting(s)
    \/ Ask(s)
    \/ TurnEnds(s)
    \/ Report(s)
    \/ WorkerVanishes(s)
    \/ RecordEnd(s)

DaemonStep ==
    \/ PauseAdmissions
    \/ StopTeam
    \/ WaitForOccasion
    \/ BeginTick
    \/ LiftElapsedCaps
    \/ ReconcileBoot
    \/ BootTimers
    \/ ResumeReconciled
    \/ Shutdown
    \/ ProcessEnds

Next ==
    \/ \E r \in Runs : ClientStep(r) \/ OfferStep(r)
    \/ \E s \in SessionIds : WorkerStep(s)
    \/ \E p \in Providers : ResetArrives(p)
    \/ DaemonStep

Spec == Init /\ [][Next]_vars

(***************************************************************************)
(* Fairness.  A thread that is not blocked goes on (weak); one that needs  *)
(* the core's lock gets it although ticks keep taking it (strong), because *)
(* the admission loop sleeps a heartbeat between two ticks.  A turn ends   *)
(* only if its session has been signalled: cancellation is looked at       *)
(* between any two steps of a turn, and nothing bounds a turn otherwise.   *)
(* Clients are not fair, and neither is the end of the process.            *)
(***************************************************************************)
Fairness ==
    /\ WF_vars(WaitForOccasion)
    /\ WF_vars(BeginTick)
    /\ WF_vars(\E r \in Runs : OfferStep(r))
    /\ \A p \in Providers : WF_vars(ResetArrives(p))
    /\ SF_vars(LiftElapsedCaps)
    /\ WF_vars(ReconcileBoot)
    /\ WF_vars(BootTimers)
    /\ SF_vars(ResumeReconciled)
    /\ \A s \in SessionIds :
         /\ SF_vars(SeesRunning(s) \/ GivesUpWaiting(s))
         /\ SF_vars(registry[s] = "cancelling" /\ TurnEnds(s))
         /\ SF_vars(Report(s))
         /\ WF_vars(RecordEnd(s))

FairSpec == Spec /\ Fairness

-----------------------------------------------------------------------------
(* What holds whatever fails.                                              *)

(* A run works under one open attempt and no other state has one: every    *)
(* transition that leaves running closes the attempt, also the ones of a   *)
(* cancel, a park and a boot (runs.rs, close_open_attempts).               *)
LegOpenIffRunning ==
    \A r \in Runs :
        /\ run[r] = "running" => legs[r] # <<>>
        /\ \A i \in DOMAIN legs[r] :
             legs[r][i].outcome = "open" <=> run[r] = "running" /\ i = Len(legs[r])

(* The ceilings hold at every moment although a tick hands out slots one   *)
(* by one from counts it read before it started (scheduler/mod.rs).        *)
SlotsRespected ==
    /\ Cardinality(Running) <= MaxConcurrent
    /\ \A p \in Providers :
         Cardinality({r \in Running : ProviderOf[r] = p}) <= Capacity[p]

(* Parks, restarts and retries in any order never let a run be charged for *)
(* more attempts than its budget (check_retry_eligible).                   *)
ChargedWithinBudget == \A r \in Runs : Charged(r) <= RetryBudget

(* What was recorded about an attempt that ended is never rewritten, and   *)
(* no attempt is ever handed to another session (close_open_attempts).     *)
HistoryIsFinal ==
    [][\A r \in Runs : \A i \in DOMAIN legs[r] :
         /\ i \in DOMAIN legs'[r]
         /\ legs'[r][i].session = legs[r][i].session
         /\ legs[r][i].outcome # "open" => legs'[r][i] = legs[r][i]]_vars

(* Every step of the daemon is a step of the life a run is promised: see   *)
(* RunLifecycle.  A restart and a park cost nothing, a leg is charged once.*)
Promised == INSTANCE RunLifecycle WITH
    state <- run,
    working <- [r \in Runs |-> \E i \in DOMAIN legs[r] : legs[r][i].outcome = "open"],
    spent <- [r \in Runs |-> Spent(r)],
    Slots <- MaxConcurrent,
    Budget <- RetryBudget

KeepsItsPromise == Promised!Spec

\* What the gates see of the state column: an attempt that ended interrupted goes
\* on when its run is admitted again.
SeenAs(r) ==
    IF run[r] \in {"done", "failed", "cancelled"} THEN run[r]
    ELSE IF run[r] = "running" \/ (legs[r] # <<>> /\ LastLeg(r).outcome = "interrupted")
    THEN "running"
    ELSE "queued"

(* Every step of the daemon is one the gates expect of the rows they share *)
(* with it, or one they take of it: see SharedRows (fsm/mod.rs).           *)
Shared == INSTANCE SharedRows WITH
    run <- [r \in Runs |-> SeenAs(r)],
    settled <- [r \in Runs |-> Spent(r) > 0]

SharesTheRows == Shared!Spec

-----------------------------------------------------------------------------
(* What holds as long as no operation fails part of the way through.       *)

(* A run the rows call running is being executed: the session its open     *)
(* attempt names is live and its thread has not ended without reporting    *)
(* (launch before transition, report before record_end).                   *)
RunningIsExecuted ==
    Looping => \A r \in Running :
        /\ LastLeg(r).session \in Live
        /\ sessionRun[LastLeg(r).session] = r
        /\ worker[LastLeg(r).session] \notin {"none", "exiting"}

(* Reports carry a run id and no attempt.  A worker that may still report  *)
(* on a running run is the one its open attempt names, however late the    *)
(* worker of an earlier attempt ends (open_session, AlreadyLive).          *)
ReportsReachTheirOwnLeg ==
    \A s \in SessionIds :
        (worker[s] # "none" /\ worker[s] # "exiting" /\ run[sessionRun[s]] = "running")
            => LastLeg(sessionRun[s]).session = s

(* A run waits for a person only on a question that person can still       *)
(* answer: the park opens it and the answer moves the run with it.         *)
ParkedOnAnOpenQuestion ==
    \A r \in Runs :
        run[r] = "awaiting_input" => /\ parkedOn[r] \in DOMAIN questions[r]
                                     /\ questions[r][parkedOn[r]] = "open"

(* A run waits for quota only on a provider the wheel still finds due one  *)
(* day: the wheel lists capped providers and no parked runs on their own.  *)
ParkedOnACappedProvider ==
    \A r \in Runs : run[r] = "awaiting_quota" => Capped(ProviderOf[r])

(* The session of a run that parked on a question has been told to stop,   *)
(* so it does not go on working in the worktree (SessionControl::suspend). *)
SuspendedIsSignalled ==
    \A r \in Runs :
        run[r] = "awaiting_input" => \A s \in LastSession(r) : registry[s] # "running"

-----------------------------------------------------------------------------
(* What happens in the end.                                                *)

(* A run parked on quota comes back although its provider may be capped    *)
(* again, other runs wake first and the daemon restarts (timers/mod.rs).   *)
QuotaParkEnds ==
    \A r \in Runs : run[r] = "awaiting_quota" ~> run[r] # "awaiting_quota"

(* A queued run with nothing against it is admitted, also when the session *)
(* of its previous attempt has not ended yet: it loses its eligibility,    *)
(* or something is really in the way.                                      *)
EligibleIsAdmitted ==
    \A r \in Runs :
        Eligible(r) ~> \/ ~Eligible(r)
                       \/ ~Room(r, Running, Holding)
                       \/ paused
                       \/ phase # "serving"
                       \/ Cardinality(Live) >= MaxLiveSessions

(* A run a restart cut off goes back to the queue.                         *)
InterruptedComesBack ==
    \A r \in Runs : run[r] = "interrupted" ~> run[r] # "interrupted"

-----------------------------------------------------------------------------
(* What the source says of itself and the code does not do.                *)

(* "Cancels the run's session immediately" (ports/sessions.rs, cancel).    *)
CancelledIsSignalled ==
    \A r \in Runs :
        run[r] = "cancelled" => \A s \in LastSession(r) : registry[s] # "running"

=============================================================================
