--------------------------- MODULE CoordinatorProofs ---------------------------
(***************************************************************************)
(* What holds of Coordinator for every value of its constants.             *)
(*                                                                         *)
(* The argument has two layers.  StepOfTheRuns says what one step of the   *)
(* daemon, whichever it is, can do to the runs and their attempts: nothing,*)
(* open the attempt of a queued run that was given a slot, end the open    *)
(* attempts of some runs, or move runs that have none open.  The other     *)
(* theorems look at those four cases only.                                 *)
(***************************************************************************)
EXTENDS Coordinator, TLAPS, FiniteSetTheorems

\* Every way a step of the daemon reaches the rows of the control plane.
RowsStep ==
    \/ UNCHANGED rows
    \/ \E r \in Runs :
         \/ ApplyApprove(r)
         \/ ApplyDiscard(r)
         \/ ApplyCancel(r)
         \/ OpenQuestion(r)
         \/ \E q \in DOMAIN questions[r] :
              /\ ApplyAnswer(r, q)
              /\ \/ ApplyAnswered(r, q)
                 \/ UNCHANGED <<run, resumed, legs, parkedOn, quota, worktree>>
         \/ ApplyRetry(r)
         \/ \E from, to \in {"active", "reclaimable", "cleaned"} : ApplyWorktree(r, from, to)
         \/ \E s \in SessionIds :
              /\ ApplyAdmit(r, s)
              /\ Room(r, Running \cup taken, Holding \cup taken)
         \/ ApplyAsk(r)
         \/ ApplyFinished(r)
         \/ ApplyQuotaReached(r)
         \/ ApplyAttemptFailed(r)
    \/ \E p \in Providers : /\ quota' = [quota EXCEPT ![p] = "due"]
                           /\ UNCHANGED <<run, resumed, legs, questions, parkedOn, worktree>>
    \/ \E moved \in SUBSET Runs :
         \/ ApplyQuotaReset(moved)
         \/ ApplyReconcile(moved)
         \/ ApplyResume(moved)

\* A leg is appended to a queued run that passed the ceilings.
OpensALeg(r, s) ==
    /\ run[r] = "queued"
    /\ Room(r, Running \cup taken, Holding \cup taken)
    /\ run' = [run EXCEPT ![r] = "running"]
    /\ legs' = [legs EXCEPT ![r] = Append(@, [session |-> s, outcome |-> "open"])]

\* The runs of a set leave running, or are cancelled, and their legs end.
EndsLegs(moved, to, outcome) ==
    /\ \A r \in moved : run[r] = "running" \/ to = "cancelled"
    /\ \A r \in moved : run[r] \notin {"done", "failed", "cancelled"}
    /\ to \in {"done", "failed"} \/ outcome = "interrupted"
    /\ run' = [r \in Runs |-> IF r \in moved THEN to ELSE run[r]]
    /\ CloseLegs(moved, outcome)

\* Runs with no leg open change state.
MovesIdle(moved, to) ==
    /\ \A r \in moved : run[r] # "running"
    /\ \A r \in moved : \/ to = "cancelled"
                        \/ run[r] \notin {"done", "failed", "cancelled"}
                        \/ Charged(r) < RetryBudget
    /\ run' = [r \in Runs |-> IF r \in moved THEN to ELSE run[r]]
    /\ UNCHANGED legs

RunsStep ==
    \/ UNCHANGED <<run, legs>>
    \/ \E r \in Runs, s \in SessionIds : OpensALeg(r, s)
    \/ \E moved \in SUBSET Runs, to \in RunStates \ {"running"},
          outcome \in Outcomes \ {"open"} : EndsLegs(moved, to, outcome)
    \/ \E moved \in SUBSET Runs, to \in RunStates \ {"running"} : MovesIdle(moved, to)

-----------------------------------------------------------------------------
(* The rows of the machine keep their types.  Every session an attempt     *)
(* names is a session row's id, every state one the table knows.           *)
LEMMA CloseLegsType ==
    ASSUME RowTypeOK, NEW moved, NEW outcome \in Outcomes, CloseLegs(moved, outcome)
    PROVE  legs' \in [Runs -> Seq(Leg)]
<1> SUFFICES ASSUME NEW r \in Runs
             PROVE  legs'[r] \in Seq(Leg)
    BY DEF CloseLegs
<1>1. legs[r] \in Seq(Leg)
    BY DEF RowTypeOK
<1>2. CASE r \in moved
    <2> DEFINE closed(i) == IF legs[r][i].outcome = "open"
                            THEN [legs[r][i] EXCEPT !.outcome = outcome]
                            ELSE legs[r][i]
    <2>1. legs'[r] = [i \in 1..Len(legs[r]) |-> closed(i)]
        BY <1>1, <1>2 DEF CloseLegs
    <2>2. ASSUME NEW i \in 1..Len(legs[r])
          PROVE  closed(i) \in Leg
        <3>1. legs[r][i] \in Leg
            BY <1>1
        <3>2. [legs[r][i] EXCEPT !.outcome = outcome] \in Leg
            BY <3>1 DEF Leg
        <3>3. QED
            BY <3>1, <3>2
    <2>3. Len(legs[r]) \in Nat
        BY <1>1
    <2>4. QED
        BY <2>1, <2>2, <2>3
<1>3. CASE r \notin moved
    BY <1>1, <1>3 DEF CloseLegs
<1>4. QED
    BY <1>2, <1>3

LEMMA MoveRunsType ==
    ASSUME RowTypeOK, NEW moved, NEW to \in RunStates, MoveRuns(moved, to)
    PROVE  /\ run' \in [Runs -> RunStates]
           /\ resumed' \in [Runs -> BOOLEAN]
<1>1. run' \in [Runs -> RunStates]
    BY DEF RowTypeOK, MoveRuns
<1>2. resumed' \in [Runs -> BOOLEAN]
    <2> DEFINE reached(r) == IF r \in moved THEN run[r] \in ResumedFrom ELSE resumed[r]
    <2>1. ASSUME NEW r \in Runs
          PROVE  reached(r) \in BOOLEAN
        <3>1. resumed[r] \in BOOLEAN
            BY Zenon DEF RowTypeOK
        <3>2. (run[r] \in ResumedFrom) \in BOOLEAN
            OBVIOUS
        <3>3. QED
            BY <3>1, <3>2, Zenon
    <2>2. resumed' = [r \in Runs |-> reached(r)]
        BY Zenon DEF MoveRuns
    <2>3. QED
        BY <2>1, <2>2, Zenon
<1>3. QED
    BY <1>1, <1>2

LEMMA RowsKeepTheirType ==
    ASSUME RowTypeOK, RowsStep
    PROVE  RowTypeOK'
<1> USE DEF MoveRun
<1>1. CASE UNCHANGED rows
    BY <1>1 DEF RowTypeOK, rows
<1>2. ASSUME NEW r \in Runs, ApplyApprove(r) \/ ApplyRetry(r)
      PROVE  RowTypeOK'
    BY <1>2, MoveRunsType DEF ApplyApprove, ApplyRetry, RowTypeOK, RunStates
<1>3. ASSUME NEW r \in Runs, ApplyDiscard(r)
      PROVE  RowTypeOK'
    BY <1>3, MoveRunsType DEF ApplyDiscard, RowTypeOK, RunStates
<1>4. ASSUME NEW r \in Runs, ApplyCancel(r)
      PROVE  RowTypeOK'
    BY <1>4, MoveRunsType, CloseLegsType DEF ApplyCancel, RowTypeOK, RunStates, Outcomes
<1>5. ASSUME NEW r \in Runs, OpenQuestion(r)
      PROVE  RowTypeOK'
    BY <1>5 DEF OpenQuestion, RowTypeOK
<1>6. ASSUME NEW r \in Runs, NEW q \in DOMAIN questions[r], ApplyAnswer(r, q)
      PROVE  questions' \in [Runs -> Seq({"open", "answered"})]
    BY <1>6 DEF ApplyAnswer, RowTypeOK
<1>7. ASSUME NEW r \in Runs, NEW q \in DOMAIN questions[r], ApplyAnswer(r, q),
             ApplyAnswered(r, q) \/ UNCHANGED <<run, resumed, legs, parkedOn, quota, worktree>>
      PROVE  RowTypeOK'
    BY <1>6, <1>7, MoveRunsType DEF ApplyAnswered, RowTypeOK, RunStates
<1>8. ASSUME NEW r \in Runs, NEW from, NEW to, ApplyWorktree(r, from, to)
      PROVE  RowTypeOK'
    BY <1>8 DEF ApplyWorktree, RowTypeOK
<1>9. ASSUME NEW r \in Runs, NEW s \in SessionIds, ApplyAdmit(r, s)
      PROVE  RowTypeOK'
    <2>1. [session |-> s, outcome |-> "open"] \in Leg
        BY DEF Leg, Outcomes
    <2>2. legs' \in [Runs -> Seq(Leg)]
        BY <1>9, <2>1 DEF ApplyAdmit, RowTypeOK
    <2>3. QED
        BY <1>9, <2>2, MoveRunsType DEF ApplyAdmit, RowTypeOK, RunStates
<1>10. ASSUME NEW r \in Runs, ApplyAsk(r)
       PROVE  RowTypeOK'
    <2>1. /\ questions' \in [Runs -> Seq({"open", "answered"})]
          /\ parkedOn' \in [Runs -> Nat]
        BY <1>10 DEF ApplyAsk, RowTypeOK
    <2>2. QED
        BY <1>10, <2>1, MoveRunsType, CloseLegsType
        DEF ApplyAsk, RowTypeOK, RunStates, Outcomes
<1>11. ASSUME NEW r \in Runs, ApplyFinished(r)
       PROVE  RowTypeOK'
    BY <1>11, MoveRunsType, CloseLegsType DEF ApplyFinished, RowTypeOK, RunStates, Outcomes
<1>12. ASSUME NEW r \in Runs, ApplyAttemptFailed(r)
       PROVE  RowTypeOK'
    BY <1>12, MoveRunsType, CloseLegsType DEF ApplyAttemptFailed, RowTypeOK, RunStates, Outcomes
<1>13. ASSUME NEW r \in Runs, ApplyQuotaReached(r)
       PROVE  RowTypeOK'
    <2>1. quota' \in [Providers -> QuotaStates]
        BY <1>13 DEF ApplyQuotaReached, RowTypeOK, QuotaStates
    <2>2. QED
        BY <1>13, <2>1, MoveRunsType, CloseLegsType
        DEF ApplyQuotaReached, RowTypeOK, RunStates, Outcomes
<1>14. ASSUME NEW p \in Providers, quota' = [quota EXCEPT ![p] = "due"],
              UNCHANGED <<run, resumed, legs, questions, parkedOn, worktree>>
       PROVE  RowTypeOK'
    BY <1>14 DEF RowTypeOK, QuotaStates
<1>15. ASSUME NEW moved \in SUBSET Runs, ApplyQuotaReset(moved)
       PROVE  RowTypeOK'
    <2>1. quota' \in [Providers -> QuotaStates]
        BY <1>15 DEF ApplyQuotaReset, RowTypeOK, QuotaStates
    <2>2. QED
        BY <1>15, <2>1, MoveRunsType DEF ApplyQuotaReset, RowTypeOK, RunStates
<1>16. ASSUME NEW moved \in SUBSET Runs, ApplyReconcile(moved)
       PROVE  RowTypeOK'
    BY <1>16, MoveRunsType, CloseLegsType DEF ApplyReconcile, RowTypeOK, RunStates, Outcomes
<1>17. ASSUME NEW moved \in SUBSET Runs, ApplyResume(moved)
       PROVE  RowTypeOK'
    BY <1>17, MoveRunsType DEF ApplyResume, RowTypeOK, RunStates
<1>18. QED
    BY <1>1, <1>2, <1>3, <1>4, <1>5, <1>7, <1>8, <1>9, <1>10, <1>11, <1>12, <1>13,
       <1>14, <1>15, <1>16, <1>17 DEF RowsStep

-----------------------------------------------------------------------------
(* Every handler of the daemon reaches the rows through the transitions of *)
(* the state machines, and an attempt only opens behind the ceilings.      *)
LEMMA StepOfTheRows ==
    ASSUME TypeOK, Next
    PROVE  RowsStep
<1> USE DEF TypeOK
<1>1. ASSUME NEW r \in Runs, ClientStep(r)
      PROVE  RowsStep
    <2>1. CASE AnswerQuestion(r)
        BY <2>1 DEF AnswerQuestion, RowsStep
    <2>2. CASE ReleaseWorktree(r) \/ ReclaimWorktree(r) \/ DisposeWorktree(r)
        BY <2>2 DEF ReleaseWorktree, ReclaimWorktree, DisposeWorktree, RowsStep
    <2>3. CASE \/ ApprovePlan(r) \/ DiscardDraft(r) \/ CancelRun(r)
               \/ Escalate(r) \/ RetryRun(r)
        BY <2>3 DEF ApprovePlan, DiscardDraft, CancelRun, Escalate, RetryRun, RowsStep
    <2>4. QED
        BY <1>1, <2>1, <2>2, <2>3 DEF ClientStep
<1>2. ASSUME NEW r \in Runs, OfferStep(r)
      PROVE  RowsStep
    <2>1. CASE Admit(r)
        <3>1. PICK s \in SessionsFor(r) : Registrable(s) /\ ApplyAdmit(r, s)
            BY <2>1 DEF Admit
        <3>2. s \in SessionIds
            BY <3>1 DEF Registrable
        <3>3. Room(r, Running \cup taken, Holding \cup taken)
            BY <2>1 DEF Admit, SlotFor
        <3>4. QED
            BY <3>1, <3>2, <3>3 DEF RowsStep
    <2>2. CASE Defer(r) \/ LaunchFails(r) \/ AdmissionRefused(r)
        BY <2>2 DEF Defer, LaunchFails, AdmissionRefused, RowsStep
    <2>3. QED
        BY <1>2, <2>1, <2>2 DEF OfferStep
<1>3. ASSUME NEW s \in SessionIds, WorkerStep(s)
      PROVE  RowsStep
    <2>1. CASE Ask(s)
        BY <2>1 DEF Ask, RowsStep
    <2>2. CASE Report(s)
        BY <2>2 DEF Report, Reports, RowsStep
    <2>3. CASE \/ SeesRunning(s) \/ GivesUpWaiting(s) \/ TurnEnds(s)
               \/ WorkerVanishes(s) \/ RecordEnd(s)
        BY <2>3 DEF SeesRunning, GivesUpWaiting, TurnEnds, WorkerVanishes, RecordEnd,
                    RowsStep
    <2>4. QED
        BY <1>3, <2>1, <2>2, <2>3 DEF WorkerStep
<1>4. ASSUME NEW p \in Providers, ResetArrives(p)
      PROVE  RowsStep
    BY <1>4 DEF ResetArrives, RowsStep
<1>5. CASE DaemonStep
    <2>1. CASE LiftElapsedCaps
        <3>1. PICK last \in ParkedOnDue : ApplyQuotaReset(WokenBy(last))
            BY <2>1 DEF LiftElapsedCaps
        <3>2. WokenBy(last) \in SUBSET Runs
            BY DEF WokenBy, ParkedOnDue
        <3>3. QED
            BY <3>1, <3>2 DEF RowsStep
    <2>2. CASE ReconcileBoot
        BY <2>2 DEF ReconcileBoot, Running, RowsStep
    <2>3. CASE BootTimers
        BY <2>3 DEF BootTimers, ParkedOnDue, RowsStep
    <2>4. CASE ResumeReconciled
        BY <2>4 DEF ResumeReconciled, RowsStep
    <2>5. CASE \/ PauseAdmissions \/ StopTeam \/ WaitForOccasion \/ BeginTick
               \/ Shutdown \/ ProcessEnds
        BY <2>5 DEF PauseAdmissions, StopTeam, WaitForOccasion, BeginTick, Shutdown,
                    ProcessEnds, RowsStep
    <2>6. QED
        BY <1>5, <2>1, <2>2, <2>3, <2>4, <2>5 DEF DaemonStep
<1>6. QED
    BY <1>1, <1>2, <1>3, <1>4, <1>5 DEF Next

(* What the four kinds of transition do to the runs and their attempts.    *)
LEMMA StepOfTheRuns ==
    ASSUME TypeOK, RowsStep
    PROVE  RunsStep
<1> USE DEF MoveRun, MoveRuns
<1>1. CASE UNCHANGED rows
    BY <1>1 DEF rows, RunsStep
<1>2. ASSUME NEW r \in Runs, ApplyApprove(r) \/ ApplyRetry(r)
      PROVE  RunsStep
    <2>1. MovesIdle({r}, "queued")
        BY <1>2 DEF ApplyApprove, ApplyRetry, MovesIdle
    <2>2. QED
        BY <2>1 DEF RunsStep, RunStates
<1>3. ASSUME NEW r \in Runs, ApplyDiscard(r)
      PROVE  RunsStep
    <2>1. MovesIdle({r}, "cancelled")
        BY <1>3 DEF ApplyDiscard, MovesIdle
    <2>2. QED
        BY <2>1 DEF RunsStep, RunStates
<1>4. ASSUME NEW r \in Runs, ApplyCancel(r)
      PROVE  RunsStep
    <2>1. EndsLegs({r}, "cancelled", "interrupted")
        BY <1>4 DEF ApplyCancel, EndsLegs, Cancellable
    <2>2. QED
        BY <2>1 DEF RunsStep, RunStates, Outcomes
<1>5. ASSUME NEW r \in Runs, NEW q \in DOMAIN questions[r], ApplyAnswered(r, q)
      PROVE  RunsStep
    <2>1. MovesIdle({r}, "queued")
        BY <1>5 DEF ApplyAnswered, MovesIdle
    <2>2. QED
        BY <2>1 DEF RunsStep, RunStates
<1>6. ASSUME NEW r \in Runs, NEW s \in SessionIds, ApplyAdmit(r, s),
             Room(r, Running \cup taken, Holding \cup taken)
      PROVE  RunsStep
    <2>1. OpensALeg(r, s)
        BY <1>6 DEF ApplyAdmit, OpensALeg, TypeOK, RowTypeOK
    <2>2. QED
        BY <2>1 DEF RunsStep
<1>7. ASSUME NEW r \in Runs, ApplyAsk(r) \/ ApplyQuotaReached(r)
      PROVE  RunsStep
    <2>1. \E to \in {"awaiting_input", "awaiting_quota"} : EndsLegs({r}, to, "interrupted")
        BY <1>7 DEF ApplyAsk, ApplyQuotaReached, EndsLegs
    <2>2. QED
        BY <2>1 DEF RunsStep, RunStates, Outcomes
<1>8. ASSUME NEW r \in Runs, ApplyFinished(r)
      PROVE  RunsStep
    <2>1. EndsLegs({r}, "done", "succeeded")
        BY <1>8 DEF ApplyFinished, EndsLegs
    <2>2. QED
        BY <2>1 DEF RunsStep, RunStates, Outcomes
<1>9. ASSUME NEW r \in Runs, ApplyAttemptFailed(r)
      PROVE  RunsStep
    <2>1. EndsLegs({r}, "failed", "failed")
        BY <1>9 DEF ApplyAttemptFailed, EndsLegs
    <2>2. QED
        BY <2>1 DEF RunsStep, RunStates, Outcomes
<1>10. ASSUME NEW moved \in SUBSET Runs, ApplyQuotaReset(moved) \/ ApplyResume(moved)
       PROVE  RunsStep
    <2>1. MovesIdle(moved, "queued")
        BY <1>10 DEF ApplyQuotaReset, ApplyResume, MovesIdle
    <2>2. QED
        BY <2>1 DEF RunsStep, RunStates
<1>11. ASSUME NEW moved \in SUBSET Runs, ApplyReconcile(moved)
       PROVE  RunsStep
    <2>1. EndsLegs(moved, "interrupted", "interrupted")
        BY <1>11 DEF ApplyReconcile, EndsLegs
    <2>2. QED
        BY <2>1 DEF RunsStep, RunStates, Outcomes
<1>12. CASE UNCHANGED <<run, legs>>
    BY <1>12 DEF RunsStep
<1>13. QED
    BY <1>1, <1>2, <1>3, <1>4, <1>5, <1>6, <1>7, <1>8, <1>9, <1>10, <1>11, <1>12
    DEF RowsStep, OpenQuestion, ApplyWorktree

-----------------------------------------------------------------------------
(* Type correctness: rows, memory and the daemon's phase only ever hold    *)
(* values the code's types and the store's schema allow, and every thread  *)
(* executes a run.                                                         *)
LEMMA TypeInit == Init => TypeOK
<1> SUFFICES ASSUME Init PROVE TypeOK
    OBVIOUS
<1>1. RowTypeOK
    BY DEF Init, RowInit, RowTypeOK, RunStates, QuotaStates
<1>2. QED
    BY <1>1 DEF Init, MemoryInit, TypeOK, Phases, Reports

LEMMA TypeNext == TypeOK /\ [Next]_vars => TypeOK'
<1> SUFFICES ASSUME TypeOK, [Next]_vars PROVE TypeOK'
    OBVIOUS
<1> USE DEF memory, sessions, tick
<1>1. CASE UNCHANGED vars
    BY <1>1 DEF vars, rows, TypeOK, RowTypeOK
<1>2. CASE Next
    <2>1. RowTypeOK'
        BY <1>2, StepOfTheRows, RowsKeepTheirType DEF TypeOK
    <2>2. ASSUME NEW r \in Runs, ClientStep(r)
          PROVE  TypeOK'
        <3>1. CASE CancelRun(r)
            BY <2>1, <3>1 DEF CancelRun, Signalled, TypeOK
        <3>2. CASE ~CancelRun(r)
            BY <2>1, <2>2, <3>2
            DEF ClientStep, ApprovePlan, DiscardDraft, Escalate, AnswerQuestion, RetryRun,
                ReleaseWorktree, ReclaimWorktree, DisposeWorktree, TypeOK
        <3>3. QED
            BY <3>1, <3>2
    <2>3. ASSUME NEW r \in Runs, OfferStep(r)
          PROVE  TypeOK'
        <3>1. ASSUME NEW givenOut \in SUBSET Runs, DoneWith(r, givenOut)
              PROVE  /\ UNCHANGED <<phase, paused, occasion, restarts>>
                     /\ candidates' \subseteq Runs
                     /\ taken' \subseteq Runs
            BY <3>1 DEF DoneWith, TypeOK
        <3>2. ASSUME NEW s, NEW state \in {"running", "cancelling"},
                     Registrable(s), StartSession(s, r, state)
              PROVE  /\ registry' \in [SessionIds -> {"absent", "running", "cancelling", "finished"}]
                     /\ worker' \in [SessionIds -> {"none", "polling", "turn", "exiting"} \cup Reports]
                     /\ sessionRun' \in [SessionIds -> Runs \cup {NoRun}]
                     /\ \A o \in SessionIds : worker'[o] # "none" => sessionRun'[o] \in Runs
                     /\ opened' \in Nat
            BY <3>2, RowAssumption DEF Registrable, StartSession, TypeOK
        <3>3. CASE Defer(r)
            BY <2>1, <3>1, <3>3 DEF Defer, TypeOK
        <3>4. CASE LaunchFails(r)
            BY <2>1, <3>1, <3>4 DEF LaunchFails, TypeOK
        <3>5. CASE Admit(r)
            BY <2>1, <3>1, <3>2, <3>5 DEF Admit, TypeOK
        <3>6. CASE AdmissionRefused(r)
            BY <2>1, <3>1, <3>2, <3>6 DEF AdmissionRefused, TypeOK
        <3>7. QED
            BY <2>3, <3>3, <3>4, <3>5, <3>6 DEF OfferStep
    <2>4. ASSUME NEW s \in SessionIds, WorkerStep(s)
          PROVE  TypeOK'
        <3>1. CASE SeesRunning(s) \/ GivesUpWaiting(s)
            BY <2>1, <3>1 DEF SeesRunning, GivesUpWaiting, TypeOK, Reports
        <3>2. CASE Ask(s)
            BY <2>1, <3>2 DEF Ask, Signalled, TypeOK
        <3>3. CASE TurnEnds(s)
            BY <2>1, <3>3 DEF TurnEnds, TypeOK, Reports
        <3>4. CASE Report(s) \/ WorkerVanishes(s)
            BY <2>1, <3>4 DEF Report, WorkerVanishes, TypeOK, Reports
        <3>5. CASE RecordEnd(s)
            BY <2>1, <3>5 DEF RecordEnd, TypeOK
        <3>6. QED
            BY <2>4, <3>1, <3>2, <3>3, <3>4, <3>5 DEF WorkerStep
    <2>5. ASSUME NEW p \in Providers, ResetArrives(p)
          PROVE  TypeOK'
        BY <2>1, <2>5 DEF ResetArrives, TypeOK
    <2>6. CASE DaemonStep
        <3>1. CASE PauseAdmissions \/ StopTeam
            BY <2>1, <3>1 DEF PauseAdmissions, StopTeam, Signalled, TypeOK
        <3>2. CASE WaitForOccasion \/ BeginTick
            BY <2>1, <3>2 DEF WaitForOccasion, BeginTick, TypeOK
        <3>3. CASE LiftElapsedCaps \/ ReconcileBoot \/ BootTimers \/ ResumeReconciled
            BY <2>1, <3>3
            DEF LiftElapsedCaps, ReconcileBoot, BootTimers, ResumeReconciled, TypeOK, Phases
        <3>4. CASE Shutdown
            BY <2>1, <3>4 DEF Shutdown, Signalled, TypeOK, Phases
        <3>5. CASE ProcessEnds
            <4>1. restarts' \in Nat
                BY <3>5 DEF ProcessEnds, TypeOK
            <4>2. /\ UNCHANGED <<sessionRun, opened>>
                  /\ phase' \in Phases
                BY <3>5 DEF ProcessEnds, Phases
            <4>3. /\ registry' = [s \in SessionIds |-> "absent"]
                  /\ worker' = [s \in SessionIds |-> "none"]
                  /\ paused' = FALSE /\ occasion' = FALSE
                  /\ candidates' = {} /\ taken' = {}
                BY <3>5 DEF ProcessEnds
            <4>4. QED
                BY <2>1, <4>1, <4>2, <4>3 DEF TypeOK
        <3>6. QED
            BY <2>6, <3>1, <3>2, <3>3, <3>4, <3>5 DEF DaemonStep
    <2>7. QED
        BY <1>2, <2>2, <2>3, <2>4, <2>5, <2>6 DEF Next
<1>3. QED
    BY <1>1, <1>2

THEOREM TypeCorrect == Spec => []TypeOK
BY TypeInit, TypeNext, PTL DEF Spec

\* Every step of the specification is a step of the runs.
LEMMA EveryStep ==
    ASSUME TypeOK, [Next]_vars
    PROVE  RunsStep
<1>1. CASE Next
    BY <1>1, StepOfTheRows, StepOfTheRuns
<1>2. CASE UNCHANGED vars
    BY <1>2 DEF vars, rows, RunsStep
<1>3. QED
    BY <1>1, <1>2

-----------------------------------------------------------------------------
(* A run works under one open attempt, its last, and in every other state  *)
(* it has none: no order of cancels, parks, answers, reports, retries and  *)
(* boots leaves an attempt open behind a run that moved on.                *)
LEMMA LegNext == TypeOK /\ LegOpenIffRunning /\ [Next]_vars => LegOpenIffRunning'
<1> SUFFICES ASSUME TypeOK, LegOpenIffRunning, RunsStep
             PROVE  LegOpenIffRunning'
    BY EveryStep
<1> SUFFICES ASSUME NEW r \in Runs
             PROVE  /\ run'[r] = "running" => legs'[r] # <<>>
                    /\ \A i \in DOMAIN legs'[r] :
                         legs'[r][i].outcome = "open" <=> run'[r] = "running" /\ i = Len(legs'[r])
    BY DEF LegOpenIffRunning
<1>1. /\ run[r] = "running" => legs[r] # <<>>
      /\ \A i \in DOMAIN legs[r] :
           legs[r][i].outcome = "open" <=> run[r] = "running" /\ i = Len(legs[r])
    BY DEF LegOpenIffRunning
<1>2. legs[r] \in Seq(Leg)
    BY DEF TypeOK, RowTypeOK
<1>3. CASE UNCHANGED <<run, legs>>
    BY <1>1, <1>3
<1>4. ASSUME NEW opening \in Runs, NEW s \in SessionIds, OpensALeg(opening, s)
      PROVE  /\ run'[r] = "running" => legs'[r] # <<>>
             /\ \A i \in DOMAIN legs'[r] :
                  legs'[r][i].outcome = "open" <=> run'[r] = "running" /\ i = Len(legs'[r])
    <2> DEFINE new == [session |-> s, outcome |-> "open"]
    <2>1. CASE r = opening
        <3>1. new \in Leg
            BY DEF Leg, Outcomes
        <3>2. /\ run[r] = "queued" /\ run'[r] = "running"
              /\ legs'[r] = Append(legs[r], new)
            BY <1>4, <2>1 DEF OpensALeg, TypeOK, RowTypeOK
        <3>3. \A i \in DOMAIN legs[r] : legs[r][i].outcome # "open"
            BY <1>1, <3>2
        <3>4. /\ Len(legs'[r]) = Len(legs[r]) + 1
              /\ DOMAIN legs'[r] = 1..(Len(legs[r]) + 1)
              /\ legs'[r][Len(legs[r]) + 1] = new
              /\ \A i \in 1..Len(legs[r]) : legs'[r][i] = legs[r][i]
            BY <1>2, <3>1, <3>2
        <3>5. DOMAIN legs[r] = 1..Len(legs[r]) /\ Len(legs[r]) \in Nat
            BY <1>2
        <3>6. legs'[r] # <<>>
            BY <3>4, <3>5
        <3>7. new.outcome = "open"
            OBVIOUS
        <3>8. QED
            BY <3>2, <3>3, <3>4, <3>5, <3>6, <3>7
    <2>2. CASE r # opening
        <3>1. run'[r] = run[r] /\ legs'[r] = legs[r]
            BY <1>4, <2>2 DEF OpensALeg, TypeOK, RowTypeOK
        <3>2. QED
            BY <1>1, <3>1
    <2>3. QED
        BY <2>1, <2>2
<1>5. ASSUME NEW moved \in SUBSET Runs, NEW to \in RunStates \ {"running"},
             NEW outcome \in Outcomes \ {"open"}, EndsLegs(moved, to, outcome)
      PROVE  /\ run'[r] = "running" => legs'[r] # <<>>
             /\ \A i \in DOMAIN legs'[r] :
                  legs'[r][i].outcome = "open" <=> run'[r] = "running" /\ i = Len(legs'[r])
    <2>1. CASE r \in moved
        <3>1. run'[r] = to
            BY <1>5, <2>1 DEF EndsLegs
        <3>2. /\ DOMAIN legs'[r] = DOMAIN legs[r]
              /\ \A i \in DOMAIN legs[r] :
                   legs'[r][i] = IF legs[r][i].outcome = "open"
                                 THEN [legs[r][i] EXCEPT !.outcome = outcome]
                                 ELSE legs[r][i]
            BY <1>5, <2>1 DEF EndsLegs, CloseLegs
        <3>3. ASSUME NEW i \in DOMAIN legs[r]
              PROVE  legs'[r][i].outcome # "open"
            <4>1. legs[r][i] \in Leg
                BY <1>2
            <4>2. [legs[r][i] EXCEPT !.outcome = outcome].outcome = outcome
                BY <4>1 DEF Leg
            <4>3. QED
                BY <3>2, <4>2
        <3>4. QED
            BY <3>1, <3>2, <3>3
    <2>2. CASE r \notin moved
        <3>1. run'[r] = run[r] /\ legs'[r] = legs[r]
            BY <1>5, <2>2 DEF EndsLegs, CloseLegs
        <3>2. QED
            BY <1>1, <3>1
    <2>3. QED
        BY <2>1, <2>2
<1>6. ASSUME NEW moved \in SUBSET Runs, NEW to \in RunStates \ {"running"},
             MovesIdle(moved, to)
      PROVE  /\ run'[r] = "running" => legs'[r] # <<>>
             /\ \A i \in DOMAIN legs'[r] :
                  legs'[r][i].outcome = "open" <=> run'[r] = "running" /\ i = Len(legs'[r])
    BY <1>1, <1>6 DEF MovesIdle
<1>7. QED
    BY <1>3, <1>4, <1>5, <1>6 DEF RunsStep

THEOREM LegsFollowTheRun == Spec => []LegOpenIffRunning
<1>1. Init => LegOpenIffRunning
    BY DEF Init, RowInit, LegOpenIffRunning
<1>2. QED
    BY <1>1, LegNext, TypeCorrect, PTL DEF Spec

-----------------------------------------------------------------------------
(* What was recorded of an attempt that ended is final, and an attempt     *)
(* stays with the session it was opened for.                               *)
THEOREM HistoryTheorem == Spec => HistoryIsFinal
<1> DEFINE Final == \A r \in Runs : \A i \in DOMAIN legs[r] :
                      /\ i \in DOMAIN legs'[r]
                      /\ legs'[r][i].session = legs[r][i].session
                      /\ legs[r][i].outcome # "open" => legs'[r][i] = legs[r][i]
<1>1. TypeOK /\ [Next]_vars => Final
    <2> SUFFICES ASSUME TypeOK, RunsStep, NEW r \in Runs, NEW i \in DOMAIN legs[r]
                 PROVE  /\ i \in DOMAIN legs'[r]
                        /\ legs'[r][i].session = legs[r][i].session
                        /\ legs[r][i].outcome # "open" => legs'[r][i] = legs[r][i]
        BY EveryStep
    <2>1. legs[r] \in Seq(Leg)
        BY DEF TypeOK, RowTypeOK
    <2>2. ASSUME NEW opening \in Runs, NEW s \in SessionIds, OpensALeg(opening, s)
          PROVE  i \in DOMAIN legs'[r] /\ legs'[r][i] = legs[r][i]
        <3>1. [session |-> s, outcome |-> "open"] \in Leg
            BY DEF Leg, Outcomes
        <3>2. CASE r = opening
            <4>1. legs'[r] = Append(legs[r], [session |-> s, outcome |-> "open"])
                BY <2>2, <3>2 DEF OpensALeg, TypeOK, RowTypeOK
            <4>2. QED
                BY <2>1, <3>1, <4>1
        <3>3. CASE r # opening
            BY <2>2, <3>3 DEF OpensALeg, TypeOK, RowTypeOK
        <3>4. QED
            BY <3>2, <3>3
    <2>3. ASSUME NEW moved \in SUBSET Runs, NEW to, NEW outcome, EndsLegs(moved, to, outcome)
          PROVE  /\ i \in DOMAIN legs'[r]
                 /\ legs'[r][i].session = legs[r][i].session
                 /\ legs[r][i].outcome # "open" => legs'[r][i] = legs[r][i]
        <3>1. legs[r][i] \in Leg
            BY <2>1
        <3>2. [legs[r][i] EXCEPT !.outcome = outcome].session = legs[r][i].session
            BY <3>1 DEF Leg
        <3>3. QED
            BY <2>3, <3>2 DEF EndsLegs, CloseLegs
    <2>4. QED
        BY <2>2, <2>3 DEF RunsStep, MovesIdle
<1>2. QED
    BY <1>1, TypeCorrect, PTL DEF Spec, HistoryIsFinal

-----------------------------------------------------------------------------
(* The ceilings on running runs hold at every moment, for every capacity   *)
(* and every number of runs: slots are given out one by one within a tick, *)
(* and nothing else makes a run running.                                   *)
LEMMA AtMostOneMore ==
    ASSUME NEW S, NEW x, IsFiniteSet(S)
    PROVE  /\ Cardinality(S) \in Nat
           /\ Cardinality(S \cup {x}) \in Nat
           /\ Cardinality(S \cup {x}) <= Cardinality(S) + 1
<1>1. Cardinality(S) \in Nat
    BY FS_CardinalityType
<1>2. Cardinality(S \cup {x}) = IF x \in S THEN Cardinality(S) ELSE Cardinality(S) + 1
    BY FS_AddElement
<1>3. QED
    BY <1>1, <1>2

LEMMA RunningFinite == Running \in SUBSET Runs /\ IsFiniteSet(Running)
<1>1. Running \in SUBSET Runs
    BY DEF Running
<1>2. QED
    BY <1>1, FS_Subset, RowAssumption

LEMMA SlotsNext == TypeOK /\ SlotsRespected /\ [Next]_vars => SlotsRespected'
<1> DEFINE OfProvider(S, p) == {r \in S : ProviderOf[r] = p}
<1> SUFFICES ASSUME TypeOK, SlotsRespected, RunsStep
             PROVE  SlotsRespected'
    BY EveryStep
<1>1. ASSUME Running' \subseteq Running
      PROVE  SlotsRespected'
    <2>1. Cardinality(Running') <= Cardinality(Running) /\ IsFiniteSet(Running')
        BY <1>1, RunningFinite, FS_Subset
    <2>2. ASSUME NEW p \in Providers
          PROVE  Cardinality(OfProvider(Running', p)) <= Capacity[p]
        <3>1. OfProvider(Running', p) \in SUBSET OfProvider(Running, p)
            BY <1>1
        <3>2. IsFiniteSet(OfProvider(Running, p))
            BY RunningFinite, FS_Subset
        <3>3. Cardinality(OfProvider(Running', p)) <= Cardinality(OfProvider(Running, p))
            BY <3>1, <3>2, FS_Subset
        <3>4. /\ Cardinality(OfProvider(Running', p)) \in Nat
              /\ Cardinality(OfProvider(Running, p)) \in Nat
            BY <3>1, <3>2, FS_Subset, FS_CardinalityType
        <3>5. Cardinality(OfProvider(Running, p)) <= Capacity[p] /\ Capacity[p] \in Nat
            BY CoordinatorAssumption DEF SlotsRespected
        <3>6. QED
            BY <3>3, <3>4, <3>5
    <2>3. Cardinality(Running') \in Nat /\ Cardinality(Running) \in Nat
        BY <2>1, RunningFinite, FS_CardinalityType
    <2>4. QED
        BY <2>1, <2>2, <2>3, CoordinatorAssumption DEF SlotsRespected
<1>2. ASSUME NEW opening \in Runs, NEW s \in SessionIds, OpensALeg(opening, s)
      PROVE  SlotsRespected'
    <2> DEFINE occupying == Running \cup taken
    <2>1. Running' = Running \cup {opening}
        BY <1>2 DEF OpensALeg, Running, TypeOK, RowTypeOK
    <2>2. occupying \in SUBSET Runs /\ IsFiniteSet(occupying)
        <3>1. occupying \in SUBSET Runs
            BY DEF Running, TypeOK
        <3>2. QED
            BY <3>1, FS_Subset, RowAssumption
    <2>3. /\ Cardinality(occupying) < MaxConcurrent
          /\ Cardinality(OfProvider(occupying, ProviderOf[opening])) < Capacity[ProviderOf[opening]]
        BY <1>2 DEF OpensALeg, Room
    <2>4. Cardinality(Running') <= MaxConcurrent
        <3>1. Cardinality(Running) <= Cardinality(occupying)
            BY <2>2, FS_Subset
        <3>2. Cardinality(Running') <= Cardinality(Running) + 1
            BY <2>1, RunningFinite, AtMostOneMore
        <3>3. /\ Cardinality(Running) \in Nat /\ Cardinality(occupying) \in Nat
              /\ Cardinality(Running') \in Nat
            BY <2>1, <2>2, RunningFinite, FS_AddElement, FS_CardinalityType
        <3>4. QED
            BY <2>3, <3>1, <3>2, <3>3, CoordinatorAssumption
    <2>5. ASSUME NEW p \in Providers
          PROVE  Cardinality(OfProvider(Running', p)) <= Capacity[p]
        <3>1. IsFiniteSet(OfProvider(Running, p)) /\ IsFiniteSet(OfProvider(occupying, p))
            BY <2>2, RunningFinite, FS_Subset
        <3>2. Capacity[p] \in Nat
            BY CoordinatorAssumption
        <3>3. CASE p = ProviderOf[opening]
            <4>1. OfProvider(Running', p) = OfProvider(Running, p) \cup {opening}
                BY <2>1, <3>3
            <4>2. /\ Cardinality(OfProvider(Running', p)) <= Cardinality(OfProvider(Running, p)) + 1
                  /\ Cardinality(OfProvider(Running', p)) \in Nat
                BY <3>1, <4>1, AtMostOneMore
            <4>3. Cardinality(OfProvider(Running, p)) <= Cardinality(OfProvider(occupying, p))
                BY <3>1, FS_Subset
            <4>4. QED
                BY <2>3, <3>1, <3>2, <3>3, <4>2, <4>3, FS_CardinalityType
        <3>4. CASE p # ProviderOf[opening]
            <4>1. OfProvider(Running', p) = OfProvider(Running, p)
                BY <2>1, <3>4
            <4>2. QED
                BY <4>1 DEF SlotsRespected
        <3>5. QED
            BY <3>3, <3>4
    <2>6. QED
        BY <2>4, <2>5 DEF SlotsRespected
<1>3. CASE UNCHANGED <<run, legs>>
    BY <1>1, <1>3 DEF Running
<1>4. ASSUME NEW moved \in SUBSET Runs, NEW to \in RunStates \ {"running"},
             run' = [r \in Runs |-> IF r \in moved THEN to ELSE run[r]]
      PROVE  SlotsRespected'
    BY <1>1, <1>4 DEF Running
<1>5. QED
    BY <1>2, <1>3, <1>4 DEF RunsStep, EndsLegs, MovesIdle

THEOREM SlotsTheorem == Spec => []SlotsRespected
<1>1. Init => SlotsRespected
    <2> SUFFICES ASSUME Init PROVE SlotsRespected
        OBVIOUS
    <2>1. Running = {}
        BY DEF Init, RowInit, Running
    <2>2. \A p \in Providers : {r \in Running : ProviderOf[r] = p} = {}
        BY <2>1
    <2>3. \A p \in Providers : Capacity[p] \in Nat
        BY CoordinatorAssumption
    <2>4. QED
        BY <2>1, <2>2, <2>3, FS_EmptySet, CoordinatorAssumption DEF SlotsRespected
<1>2. QED
    BY <1>1, SlotsNext, TypeCorrect, PTL DEF Spec

-----------------------------------------------------------------------------
(* The budget.  That no run is charged for more attempts than its budget   *)
(* is not inductive: the guard is looked at by a retry, the charge comes   *)
(* with the admission behind it, and a run can be parked, woken and        *)
(* admitted again any number of times in between.  What is inductive is    *)
(* that a run which may still be admitted has budget left.                 *)
MayStillOpen(r) == run[r] \notin {"running", "done", "failed", "cancelled"}

BudgetLeft ==
    \A r \in Runs : /\ Charged(r) <= RetryBudget
                    /\ MayStillOpen(r) => Charged(r) < RetryBudget

ChargedLegs(r) == {i \in DOMAIN legs[r] : legs[r][i].outcome # "interrupted"}

LEMMA ChargedFinite ==
    ASSUME TypeOK, NEW r \in Runs
    PROVE  /\ IsFiniteSet(ChargedLegs(r))
           /\ Charged(r) = Cardinality(ChargedLegs(r))
           /\ Charged(r) \in Nat
<1>1. DOMAIN legs[r] = 1..Len(legs[r]) /\ Len(legs[r]) \in Nat
    BY DEF TypeOK, RowTypeOK
<1>2. IsFiniteSet(1..Len(legs[r]))
    <2>1. 1 \in Int /\ Len(legs[r]) \in Int
        BY <1>1
    <2>2. QED
        BY <2>1, FS_Interval
<1>3. ChargedLegs(r) \in SUBSET (1..Len(legs[r]))
    BY <1>1 DEF ChargedLegs
<1>4. IsFiniteSet(ChargedLegs(r))
    BY <1>2, <1>3, FS_Subset
<1>5. Charged(r) = Cardinality(ChargedLegs(r))
    BY DEF Charged, ChargedLegs
<1>6. QED
    BY <1>4, <1>5, FS_CardinalityType

\* An admission charges one leg more.
LEMMA OpeningCharges ==
    ASSUME TypeOK, NEW r \in Runs, NEW s \in SessionIds, OpensALeg(r, s)
    PROVE  Charged(r)' <= Charged(r) + 1
<1> DEFINE new == [session |-> s, outcome |-> "open"]
<1>1. legs[r] \in Seq(Leg) /\ new \in Leg
    BY DEF TypeOK, RowTypeOK, Leg, Outcomes
<1>2. legs'[r] = Append(legs[r], new)
    BY DEF OpensALeg, TypeOK, RowTypeOK
<1>3. /\ DOMAIN legs'[r] = DOMAIN legs[r] \cup {Len(legs[r]) + 1}
      /\ legs'[r][Len(legs[r]) + 1] = new
      /\ \A i \in DOMAIN legs[r] : legs'[r][i] = legs[r][i]
    BY <1>1, <1>2
<1>4. ChargedLegs(r)' = ChargedLegs(r) \cup {Len(legs[r]) + 1}
    BY <1>3 DEF ChargedLegs
<1>5. Charged(r)' = Cardinality(ChargedLegs(r)')
    BY DEF Charged, ChargedLegs
<1>6. QED
    BY <1>4, <1>5, ChargedFinite, AtMostOneMore

\* Ending the open leg charges nothing, and gives it back if it is interrupted.
LEMMA EndingCharges ==
    ASSUME TypeOK, LegOpenIffRunning, NEW r \in Runs, NEW moved \in SUBSET Runs,
           NEW to, NEW outcome \in Outcomes \ {"open"}, EndsLegs(moved, to, outcome), r \in moved
    PROVE  /\ Charged(r)' <= Charged(r)
           /\ Charged(r)' \in Nat
           /\ run[r] = "running" /\ outcome = "interrupted" => Charged(r)' < Charged(r)
<1>1. legs[r] \in Seq(Leg)
    BY DEF TypeOK, RowTypeOK
<1>2. /\ DOMAIN legs'[r] = DOMAIN legs[r]
      /\ \A i \in DOMAIN legs[r] :
           legs'[r][i] = IF legs[r][i].outcome = "open"
                         THEN [legs[r][i] EXCEPT !.outcome = outcome]
                         ELSE legs[r][i]
    BY DEF EndsLegs, CloseLegs
<1>3. ASSUME NEW i \in DOMAIN legs[r], legs[r][i].outcome = "open"
      PROVE  legs'[r][i].outcome = outcome
    <2>1. legs[r][i] \in Leg
        BY <1>1
    <2>2. QED
        BY <1>2, <1>3, <2>1 DEF Leg
<1>4. ChargedLegs(r)' \in SUBSET ChargedLegs(r)
    BY <1>2, <1>3 DEF ChargedLegs
<1>5. /\ Charged(r)' = Cardinality(ChargedLegs(r)')
      /\ Charged(r) = Cardinality(ChargedLegs(r))
    BY DEF Charged, ChargedLegs
<1>6. /\ Cardinality(ChargedLegs(r)') <= Cardinality(ChargedLegs(r))
      /\ IsFiniteSet(ChargedLegs(r)')
      /\ Cardinality(ChargedLegs(r)) = Cardinality(ChargedLegs(r)')
           => ChargedLegs(r) = ChargedLegs(r)'
    BY <1>4, ChargedFinite, FS_Subset
<1>7. Cardinality(ChargedLegs(r)') \in Nat /\ Cardinality(ChargedLegs(r)) \in Nat
    BY <1>6, ChargedFinite, FS_CardinalityType
<1>8. ASSUME run[r] = "running", outcome = "interrupted"
      PROVE  ChargedLegs(r) # ChargedLegs(r)'
    <2>1. legs[r] # <<>>
        BY <1>8 DEF LegOpenIffRunning
    <2>2. Len(legs[r]) \in DOMAIN legs[r]
        BY <1>1, <2>1
    <2>3. legs[r][Len(legs[r])].outcome = "open"
        BY <1>8, <2>2 DEF LegOpenIffRunning
    <2>4. Len(legs[r]) \in ChargedLegs(r)
        BY <2>2, <2>3 DEF ChargedLegs
    <2>5. Len(legs[r]) \notin ChargedLegs(r)'
        BY <1>3, <1>8, <2>2, <2>3 DEF ChargedLegs
    <2>6. QED
        BY <2>4, <2>5
<1>9. QED
    BY <1>5, <1>6, <1>7, <1>8

LEMMA BudgetNext ==
    TypeOK /\ LegOpenIffRunning /\ BudgetLeft /\ [Next]_vars => BudgetLeft'
<1> SUFFICES ASSUME TypeOK, LegOpenIffRunning, BudgetLeft, RunsStep, NEW r \in Runs
             PROVE  /\ Charged(r)' <= RetryBudget
                    /\ MayStillOpen(r)' => Charged(r)' < RetryBudget
    BY EveryStep DEF BudgetLeft
<1>1. /\ Charged(r) <= RetryBudget
      /\ MayStillOpen(r) => Charged(r) < RetryBudget
      /\ Charged(r) \in Nat /\ RetryBudget \in Nat
    BY ChargedFinite, RowAssumption DEF BudgetLeft
<1>2. ASSUME legs'[r] = legs[r]
      PROVE  Charged(r)' = Charged(r)
    BY <1>2 DEF Charged
<1>3. ASSUME NEW opening \in Runs, NEW s \in SessionIds, OpensALeg(opening, s)
      PROVE  /\ Charged(r)' <= RetryBudget
             /\ MayStillOpen(r)' => Charged(r)' < RetryBudget
    <2>1. CASE r = opening
        <3>1. MayStillOpen(r)
            BY <1>3, <2>1 DEF OpensALeg, MayStillOpen
        <3>2. ~MayStillOpen(r)'
            BY <1>3, <2>1 DEF OpensALeg, MayStillOpen, TypeOK, RowTypeOK
        <3>3. Charged(r)' <= Charged(r) + 1
            BY <1>3, <2>1, OpeningCharges
        <3>4. Charged(r)' \in Nat
            <4>1. ChargedLegs(r)' \in SUBSET (1..Len(legs[r]) + 1)
                <5>1. legs[r] \in Seq(Leg) /\ [session |-> s, outcome |-> "open"] \in Leg
                    BY DEF TypeOK, RowTypeOK, Leg, Outcomes
                <5>2. legs'[r] = Append(legs[r], [session |-> s, outcome |-> "open"])
                    BY <1>3, <2>1 DEF OpensALeg, TypeOK, RowTypeOK
                <5>3. QED
                    BY <5>1, <5>2 DEF ChargedLegs
            <4>2. Len(legs[r]) + 1 \in Int
                BY DEF TypeOK, RowTypeOK
            <4>3. IsFiniteSet(1..Len(legs[r]) + 1)
                BY <4>2, FS_Interval
            <4>4. Cardinality(ChargedLegs(r)') \in Nat
                BY <4>1, <4>3, FS_Subset, FS_CardinalityType
            <4>5. QED
                BY <4>4 DEF Charged, ChargedLegs
        <3>5. QED
            BY <1>1, <3>1, <3>2, <3>3, <3>4
    <2>2. CASE r # opening
        <3>1. run'[r] = run[r] /\ legs'[r] = legs[r]
            BY <1>3, <2>2 DEF OpensALeg, TypeOK, RowTypeOK
        <3>2. QED
            BY <1>1, <1>2, <3>1 DEF MayStillOpen
    <2>3. QED
        BY <2>1, <2>2
<1>4. ASSUME NEW moved \in SUBSET Runs, NEW to \in RunStates \ {"running"},
             NEW outcome \in Outcomes \ {"open"}, EndsLegs(moved, to, outcome)
      PROVE  /\ Charged(r)' <= RetryBudget
             /\ MayStillOpen(r)' => Charged(r)' < RetryBudget
    <2>1. CASE r \in moved
        <3>1. /\ Charged(r)' <= Charged(r)
              /\ Charged(r)' \in Nat
              /\ run[r] = "running" /\ outcome = "interrupted" => Charged(r)' < Charged(r)
            BY <1>4, <2>1, EndingCharges
        <3>2. run'[r] = to
            BY <1>4, <2>1 DEF EndsLegs
        <3>3. ASSUME MayStillOpen(r)'
              PROVE  run[r] = "running" /\ outcome = "interrupted"
            BY <1>4, <2>1, <3>2, <3>3 DEF EndsLegs, MayStillOpen
        <3>4. QED
            BY <1>1, <3>1, <3>3
    <2>2. CASE r \notin moved
        <3>1. run'[r] = run[r] /\ legs'[r] = legs[r]
            BY <1>4, <2>2 DEF EndsLegs, CloseLegs
        <3>2. QED
            BY <1>1, <1>2, <3>1 DEF MayStillOpen
    <2>3. QED
        BY <2>1, <2>2
<1>5. ASSUME NEW moved \in SUBSET Runs, NEW to \in RunStates \ {"running"},
             MovesIdle(moved, to)
      PROVE  /\ Charged(r)' <= RetryBudget
             /\ MayStillOpen(r)' => Charged(r)' < RetryBudget
    <2>1. legs'[r] = legs[r]
        BY <1>5 DEF MovesIdle
    <2>2. MayStillOpen(r)' => MayStillOpen(r) \/ Charged(r) < RetryBudget
        BY <1>5 DEF MovesIdle, MayStillOpen
    <2>3. QED
        BY <1>1, <1>2, <2>1, <2>2
<1>6. CASE UNCHANGED <<run, legs>>
    BY <1>1, <1>2, <1>6 DEF MayStillOpen
<1>7. QED
    BY <1>3, <1>4, <1>5, <1>6 DEF RunsStep

THEOREM BudgetTheorem == Spec => []ChargedWithinBudget
<1>1. Init => BudgetLeft
    <2> SUFFICES ASSUME Init, NEW r \in Runs
                 PROVE  Charged(r) < RetryBudget
        BY RowAssumption, ChargedFinite, TypeInit DEF BudgetLeft
    <2>1. {i \in DOMAIN legs[r] : legs[r][i].outcome # "interrupted"} = {}
        BY DEF Init, RowInit
    <2>2. QED
        BY <2>1, FS_EmptySet, RowAssumption DEF Charged
<1>2. BudgetLeft => ChargedWithinBudget
    BY DEF BudgetLeft, ChargedWithinBudget
<1>3. QED
    BY <1>1, <1>2, BudgetNext, TypeCorrect, LegsFollowTheRun, PTL DEF Spec
=============================================================================
