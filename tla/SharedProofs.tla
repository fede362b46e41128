----------------------------- MODULE SharedProofs -----------------------------
(***************************************************************************)
(* Coordinator and the gates keep to the contract of SharedRows: here the  *)
(* coordinator's side, for every value of the constants; the other side is *)
(* in MergeGateProofs.                                                     *)
(*                                                                         *)
(* What the gates see of a run hides its parks and its resumptions, so a   *)
(* step that moves many runs (a boot, a timer stage) is none of theirs,    *)
(* and any other step moves one run or one worktree.                       *)
(***************************************************************************)
EXTENDS LifecycleProofs, SessionProofs

\* The last attempt of a run that settled is one that settled.
SettledLeg ==
    \A r \in Runs :
        run[r] \in {"done", "failed"} =>
            legs[r] # <<>> /\ LastLeg(r).outcome \in {"succeeded", "failed"}

\* The runs a tick chose have what they wait for until the tick is over.
ChosenMayStart ==
    \A r \in candidates : DependsOn[r] # NoRun => worktree[DependsOn[r]] = "reclaimable"

Ended == {"done", "failed", "cancelled"}

SharedInv == TypeOK /\ LegOpenIffRunning /\ SettledLeg /\ ChosenMayStart

\* A step that moves at most the run o, which has a place to work in when it starts
\* or comes back.
OneRunMoves(o) ==
    /\ UNCHANGED worktree
    /\ \A r \in Runs \ {o} : run'[r] = run[r] /\ legs'[r] = legs[r]
    /\ run[o] \in {"queued", "done", "failed"} /\ run'[o] \in {"queued", "running"}
         => worktree[o] = "active" \/ run'[o] = run[o]

\* A step that moves several, none of which starts or ends.
ManyRunsMove ==
    /\ UNCHANGED worktree
    /\ \A r \in Runs : \/ run'[r] = run[r]
                       \/ run[r] = "running" /\ run'[r] \in ResumedFrom
                       \/ run[r] \in ResumedFrom /\ run'[r] = "queued"

OneWorktreeMoves(o) ==
    /\ UNCHANGED <<run, legs>>
    /\ \E from, to \in {"active", "reclaimable", "cleaned"} : ApplyWorktree(o, from, to)

-----------------------------------------------------------------------------
(* Who starts a run, and who moves a worktree.                             *)

LEMMA Chosen ==
    ASSUME TypeOK, ChosenMayStart, [Next]_vars, NEW r \in Runs,
           run[r] # "running", run'[r] = "running"
    PROVE  DependsOn[r] # NoRun => worktree[DependsOn[r]] = "reclaimable"
<1>1. PICK o \in Runs : Admit(o)
    BY OnlyAdmitRuns
<1>2. run' = [n \in Runs |-> IF n \in {o} THEN "running" ELSE run[n]]
    BY <1>1 DEF Admit, ApplyAdmit, MoveRun, MoveRuns
<1>3. r = o
    BY <1>2
<1> QED
    BY <1>1, <1>3 DEF Admit, NextInQueue, ChosenMayStart

LEMMA WorktreeMovers ==
    ASSUME TypeOK, [Next]_vars,
           \A r \in Runs : ~ReleaseWorktree(r) /\ ~ReclaimWorktree(r) /\ ~DisposeWorktree(r)
    PROVE  UNCHANGED worktree
<1>1. ASSUME NEW r \in Runs, ClientStep(r)
      PROVE  UNCHANGED worktree
    BY <1>1 DEF ClientStep, ApprovePlan, DiscardDraft, CancelRun, Escalate, AnswerQuestion,
        RetryRun, ApplyApprove, ApplyDiscard, ApplyCancel, OpenQuestion, ApplyAnswered, ApplyRetry
<1>2. ASSUME NEW r \in Runs, OfferStep(r)
      PROVE  UNCHANGED worktree
    BY <1>2 DEF OfferStep, Admit, Defer, LaunchFails, AdmissionRefused, ApplyAdmit, rows
<1>3. ASSUME NEW s \in SessionIds, WorkerStep(s)
      PROVE  UNCHANGED worktree
    BY <1>3 DEF WorkerStep, Ask, Report, ApplyAsk, ApplyFinished, ApplyQuotaReached,
        ApplyAttemptFailed, SeesRunning, GivesUpWaiting, TurnEnds, WorkerVanishes, RecordEnd, rows
<1>4. ASSUME NEW p \in Providers, ResetArrives(p)
      PROVE  UNCHANGED worktree
    BY <1>4 DEF ResetArrives
<1>5. CASE DaemonStep
    BY <1>5 DEF DaemonStep, LiftElapsedCaps, BootTimers, ApplyQuotaReset, ReconcileBoot,
        ResumeReconciled, ApplyReconcile, ApplyResume, PauseAdmissions, StopTeam,
        WaitForOccasion, BeginTick, Shutdown, ProcessEnds, rows
<1> QED
    BY <1>1, <1>2, <1>3, <1>4, <1>5 DEF Next, vars, rows

\* A worktree is released behind a run that has ended.
LEMMA ReleasedBehind ==
    ASSUME TypeOK, [Next]_vars, NEW r \in Runs,
           worktree[r] = "active", worktree'[r] = "reclaimable"
    PROVE  run[r] \in {"done", "failed", "cancelled"} \/ Spent(r) > 0
<1>1. PICK o \in Runs : ReleaseWorktree(o) \/ ReclaimWorktree(o) \/ DisposeWorktree(o)
    BY WorktreeMovers
<1>2. CASE ReleaseWorktree(o)
    <2>1. worktree' = [worktree EXCEPT ![o] = "reclaimable"]
        BY <1>2 DEF ReleaseWorktree, ApplyWorktree
    <2>2. r = o
        BY <2>1 DEF TypeOK, RowTypeOK
    <2> QED
        BY <1>2, <2>2 DEF ReleaseWorktree
<1>3. CASE ReclaimWorktree(o) \/ DisposeWorktree(o)
    <2>1. worktree' = [worktree EXCEPT ![o] = "cleaned"]
        BY <1>3 DEF ReclaimWorktree, DisposeWorktree, ApplyWorktree
    <2> QED
        BY <2>1 DEF TypeOK, RowTypeOK
<1> QED
    BY <1>1, <1>2, <1>3

LEMMA ChosenNext ==
    ASSUME TypeOK, ChosenMayStart, [Next]_vars
    PROVE  ChosenMayStart'
<1>1. CASE \E r \in Runs : ReleaseWorktree(r) \/ ReclaimWorktree(r) \/ DisposeWorktree(r)
    <2>1. candidates = {} /\ UNCHANGED candidates
        BY <1>1 DEF ReleaseWorktree, ReclaimWorktree, DisposeWorktree, Called, Serving, CoreFree,
            memory
    <2> QED
        BY <2>1 DEF ChosenMayStart
<1>2. CASE UNCHANGED worktree /\ candidates' \subseteq candidates
    BY <1>2 DEF ChosenMayStart
<1>3. CASE BeginTick
    BY <1>3 DEF BeginTick, Eligible, ChosenMayStart, rows
<1>4. ASSUME ~BeginTick
      PROVE  candidates' \subseteq candidates
    <2>1. ASSUME NEW r \in Runs, ClientStep(r)
          PROVE  UNCHANGED candidates
        BY <2>1 DEF ClientStep, ApprovePlan, DiscardDraft, CancelRun, Escalate, AnswerQuestion,
            RetryRun, ReleaseWorktree, ReclaimWorktree, DisposeWorktree, memory, tick
    <2>2. ASSUME NEW r \in Runs, OfferStep(r)
          PROVE  candidates' \subseteq candidates
        BY <2>2 DEF OfferStep, Admit, Defer, LaunchFails, AdmissionRefused, DoneWith
    <2>3. ASSUME NEW s \in SessionIds, WorkerStep(s)
          PROVE  UNCHANGED candidates
        BY <2>3 DEF WorkerStep, Ask, Report, SeesRunning, GivesUpWaiting, TurnEnds,
            WorkerVanishes, RecordEnd, tick
    <2>4. ASSUME NEW p \in Providers, ResetArrives(p)
          PROVE  UNCHANGED candidates
        BY <2>4 DEF ResetArrives, memory
    <2>5. CASE DaemonStep
        BY <1>4, <2>5 DEF DaemonStep, LiftElapsedCaps, BootTimers, ReconcileBoot,
            ResumeReconciled, PauseAdmissions, StopTeam, WaitForOccasion, Shutdown, ProcessEnds,
            memory, tick
    <2> QED
        BY <2>1, <2>2, <2>3, <2>4, <2>5 DEF Next, vars, memory
<1> QED
    BY <1>1, <1>2, <1>3, <1>4, WorktreeMovers

-----------------------------------------------------------------------------
(* What a step makes of a run, as the gates see it.                        *)

\* A run at work has its attempt ended, and it is its last.
LEMMA EndedIsLast ==
    ASSUME TypeOK, TypeOK', LegOpenIffRunning, NEW r \in Runs, run[r] = "running",
           NEW outcome \in Outcomes, Closes(r, outcome)
    PROVE  legs'[r] # <<>> /\ LastLeg(r)'.outcome = outcome
<1>1. legs[r] \in Seq(Leg) /\ legs'[r] \in Seq(Leg)
    BY DEF TypeOK, RowTypeOK
<1>2. legs[r] # <<>> /\ Len(legs[r]) \in DOMAIN legs[r] /\ LastLeg(r).outcome = "open"
    BY <1>1 DEF LegOpenIffRunning, LastLeg
<1>3. DOMAIN legs'[r] = DOMAIN legs[r] /\ legs'[r][Len(legs[r])] = [LastLeg(r) EXCEPT !.outcome = outcome]
    BY <1>2 DEF Closes, LastLeg
<1>4. LastLeg(r) \in Leg /\ Len(legs'[r]) = Len(legs[r])
    BY <1>1, <1>2, <1>3 DEF LastLeg
<1> QED
    BY <1>1, <1>2, <1>3, <1>4 DEF LastLeg, Leg

LEMMA SettledLegNext ==
    ASSUME TypeOK, TypeOK', LegOpenIffRunning, SettledLeg, RowsStep
    PROVE  SettledLeg'
<1> SUFFICES ASSUME NEW r \in Runs, run'[r] \in {"done", "failed"}
             PROVE  legs'[r] # <<>> /\ LastLeg(r)'.outcome \in {"succeeded", "failed"}
    BY DEF SettledLeg
<1>1. RunMove(r)
    BY EveryRunMoves
<1>2. CASE run'[r] = run[r] /\ legs'[r] = legs[r]
    BY <1>2 DEF SettledLeg, LastLeg
<1>3. CASE Settled(r)
    BY <1>3, EndedIsLast DEF Settled, Outcomes
<1> QED
    BY <1>1, <1>2, <1>3 DEF RunMove, Requeued, Admitted, Interrupted, ResumedFrom

\* What a step does to the run and settled columns of r.
Seen(r, before, after, ends) ==
    SeenAs(r) = before /\ SeenAs(r)' = after /\ (Spent(r)' > 0) = (Spent(r) > 0 \/ ends)

SeenMove(r) ==
    \/ Seen(r, SeenAs(r), SeenAs(r), FALSE)
    \/ Seen(r, "queued", "running", FALSE) /\ run[r] = "queued" /\ run'[r] = "running"
    \/ \E to \in {"done", "failed"} : Seen(r, "running", to, TRUE)
    \/ \E from \in {"queued", "running"} : Seen(r, from, "cancelled", FALSE)
    \/ /\ run[r] \in {"done", "failed"} /\ run'[r] = "queued"
       /\ Seen(r, run[r], "queued", FALSE)

LEMMA EveryRunIsSeen ==
    ASSUME TypeOK, TypeOK', LegOpenIffRunning, SettledLeg, NEW r \in Runs, RunMove(r)
    PROVE  SeenMove(r)
<1>1. Spent(r) \in Nat /\ run[r] \in RunStates /\ legs[r] \in Seq(Leg)
    BY SpentFinite DEF TypeOK, RowTypeOK
<1>2. ASSUME Spent(r)' = Spent(r)
      PROVE  (Spent(r)' > 0) = (Spent(r) > 0 \/ FALSE)
    BY <1>2
<1>3. CASE run'[r] = run[r] /\ legs'[r] = legs[r]
    <2>1. SeenAs(r)' = SeenAs(r) /\ Spent(r)' = Spent(r)
        BY <1>3 DEF SeenAs, LastLeg, Spent
    <2> QED
        BY <1>2, <2>1 DEF SeenMove, Seen
<1>4. CASE Requeued(r)
    <2>1. Spent(r)' = Spent(r)
        BY <1>4 DEF Requeued, Spent
    <2>2. LastLeg(r)' = LastLeg(r) /\ legs'[r] = legs[r]
        BY <1>4 DEF Requeued, LastLeg
    <2>3. CASE run'[r] = "cancelled"
        <3>1. run[r] = "draft"
            BY <1>4, <2>3 DEF Requeued
        <3>2. SeenAs(r) \in {"queued", "running"} /\ SeenAs(r)' = "cancelled"
            BY <2>3, <3>1 DEF SeenAs
        <3> QED
            BY <1>2, <2>1, <3>2 DEF SeenMove, Seen
    <2>4. CASE run[r] \in {"draft"} \cup ResumedFrom /\ run'[r] = "queued"
        <3>1. SeenAs(r)' = SeenAs(r)
            BY <2>2, <2>4 DEF SeenAs, ResumedFrom
        <3> QED
            BY <1>2, <2>1, <3>1 DEF SeenMove, Seen
    <2>5. CASE run[r] \in {"done", "failed"} /\ run'[r] = "queued"
        <3>1. legs[r] # <<>> /\ LastLeg(r).outcome # "interrupted"
            BY <2>5 DEF SettledLeg
        <3>2. SeenAs(r) = run[r] /\ SeenAs(r)' = "queued"
            BY <2>2, <2>5, <3>1 DEF SeenAs
        <3> QED
            BY <1>2, <2>1, <2>5, <3>2 DEF SeenMove, Seen
    <2> QED
        BY <1>4, <2>3, <2>4, <2>5 DEF Requeued
<1>5. CASE Admitted(r)
    <2>1. Spent(r)' = Spent(r)
        BY <1>5, OpeningSpendsNothing
    <2>2. run[r] = "queued" /\ run'[r] = "running"
        BY <1>5 DEF Admitted
    <2>3. SeenAs(r) \in {"queued", "running"} /\ SeenAs(r)' = "running"
        BY <2>2 DEF SeenAs
    <2> QED
        BY <1>2, <2>1, <2>2, <2>3 DEF SeenMove, Seen
<1>6. CASE Settled(r)
    <2>1. Spent(r)' = Spent(r) + 1
        BY <1>6, ClosingSpends DEF Settled, Outcomes
    <2>2. (Spent(r)' > 0) = (Spent(r) > 0 \/ TRUE)
        BY <1>1, <2>1
    <2>3. SeenAs(r) = "running" /\ SeenAs(r)' = run'[r] /\ run'[r] \in {"done", "failed"}
        BY <1>6 DEF Settled, SeenAs
    <2> QED
        BY <2>2, <2>3 DEF SeenMove, Seen
<1>7. CASE Interrupted(r)
    <2>1. Spent(r)' = Spent(r)
        BY <1>7, ClosingSpends DEF Interrupted, Outcomes
    <2>2. CASE run'[r] = "cancelled"
        <3>1. SeenAs(r) \in {"queued", "running"} /\ SeenAs(r)' = "cancelled"
            BY <1>7, <2>2 DEF Interrupted, Cancellable, SeenAs, ResumedFrom
        <3> QED
            BY <1>2, <2>1, <3>1 DEF SeenMove, Seen
    <2>3. CASE run[r] = "running" /\ run'[r] \in ResumedFrom
        <3>1. legs'[r] # <<>> /\ LastLeg(r)'.outcome = "interrupted"
            BY <1>7, <2>3, EndedIsLast DEF Interrupted, Outcomes
        <3>2. SeenAs(r) = "running" /\ SeenAs(r)' = "running"
            BY <2>3, <3>1 DEF SeenAs, ResumedFrom
        <3> QED
            BY <1>2, <2>1, <3>2 DEF SeenMove, Seen
    <2> QED
        BY <1>7, <2>2, <2>3 DEF Interrupted
<1> QED
    BY <1>3, <1>4, <1>5, <1>6, <1>7 DEF RunMove

-----------------------------------------------------------------------------
(* Which of them a step reaches.                                           *)

LEMMA OneOrNone ==
    ASSUME TypeOK, RowsStep
    PROVE  \/ \E o \in Runs : OneRunMoves(o)
           \/ ManyRunsMove
           \/ \E o \in Runs : OneWorktreeMoves(o)
<1> USE DEF MoveRun, MoveRuns
<1>1. CASE UNCHANGED <<run, legs, worktree>>
    BY <1>1 DEF ManyRunsMove
<1>2. ASSUME NEW o \in Runs, ApplyApprove(o) \/ ApplyDiscard(o) \/ ApplyRetry(o)
      PROVE  OneRunMoves(o)
    BY <1>2 DEF ApplyApprove, ApplyDiscard, ApplyRetry, OneRunMoves
<1>3. ASSUME NEW o \in Runs, NEW q \in DOMAIN questions[o], ApplyAnswered(o, q)
      PROVE  OneRunMoves(o)
    BY <1>3 DEF ApplyAnswered, OneRunMoves
<1>4. ASSUME NEW o \in Runs, NEW s \in SessionIds, ApplyAdmit(o, s)
      PROVE  OneRunMoves(o)
    <2>1. worktree[o] = "active" /\ UNCHANGED worktree
        BY <1>4 DEF ApplyAdmit
    <2>2. \A r \in Runs \ {o} : run'[r] = run[r] /\ legs'[r] = legs[r]
        BY <1>4 DEF ApplyAdmit, TypeOK, RowTypeOK
    <2> QED
        BY <2>1, <2>2 DEF OneRunMoves
<1>5. ASSUME NEW o \in Runs, ApplyFinished(o) \/ ApplyAttemptFailed(o) \/ ApplyAsk(o)
                             \/ ApplyQuotaReached(o) \/ ApplyCancel(o)
      PROVE  OneRunMoves(o)
    <2>1. /\ UNCHANGED worktree
          /\ \E outcome : CloseLegs({o}, outcome)
          /\ \E to \in RunStates \ {"queued", "running"} :
               run' = [n \in Runs |-> IF n \in {o} THEN to ELSE run[n]]
        BY <1>5 DEF ApplyFinished, ApplyAttemptFailed, ApplyAsk, ApplyQuotaReached, ApplyCancel,
            RunStates
    <2>2. \A r \in Runs \ {o} : legs'[r] = legs[r]
        BY <2>1 DEF CloseLegs
    <2> QED
        BY <2>1, <2>2 DEF OneRunMoves
<1>6. ASSUME NEW moved \in SUBSET Runs,
             ApplyQuotaReset(moved) \/ ApplyResume(moved) \/ ApplyReconcile(moved)
      PROVE  ManyRunsMove
    BY <1>6 DEF ApplyQuotaReset, ApplyResume, ApplyReconcile, ManyRunsMove, ResumedFrom
<1>7. ASSUME NEW o \in Runs, NEW from \in {"active", "reclaimable", "cleaned"},
             NEW to \in {"active", "reclaimable", "cleaned"}, ApplyWorktree(o, from, to)
      PROVE  OneWorktreeMoves(o)
    BY <1>7 DEF ApplyWorktree, OneWorktreeMoves
<1> QED
    BY <1>1, <1>2, <1>3, <1>4, <1>5, <1>6, <1>7 DEF RowsStep, rows, OpenQuestion

-----------------------------------------------------------------------------
(* The columns of SharedRows, as the coordinator writes them.              *)

LEMMA SharedTypes ==
    ASSUME TypeOK, NEW r \in Runs
    PROVE  SeenAs(r) \in {"queued", "running", "done", "failed", "cancelled"}
BY DEF SeenAs

\* A column written at one place.
LEMMA WrittenAt ==
    ASSUME NEW f, NEW g, NEW o \in Runs, NEW v,
           f = [n \in Runs |-> f[n]], g = [n \in Runs |-> g[n]],
           \A r \in Runs \ {o} : g[r] = f[r], g[o] = v
    PROVE  g = [f EXCEPT ![o] = v]
OBVIOUS

LEMMA SharedStep ==
    ASSUME SharedInv, TypeOK', LegOpenIffRunning', [Next]_vars
    PROVE  Shared!Next \/ UNCHANGED Shared!vars
<1> DEFINE seen == [n \in Runs |-> SeenAs(n)]
           done == [n \in Runs |-> Spent(n) > 0]
<1>1. \A r, to, ends : Shared!Moves(r, to, ends) <=>
        /\ seen' = [seen EXCEPT ![r] = to]
        /\ done' = [done EXCEPT ![r] = @ \/ ends]
        /\ UNCHANGED worktree
    BY Zenon DEF Shared!Moves
<1>2. (UNCHANGED Shared!vars) <=> UNCHANGED <<seen, done, worktree>>
    BY Zenon DEF Shared!vars
<1>3. \A r \in Runs : /\ seen[r] = SeenAs(r) /\ seen'[r] = SeenAs(r)'
                     /\ done[r] = (Spent(r) > 0) /\ done'[r] = (Spent(r)' > 0)
    OBVIOUS
<1>4. /\ seen = [n \in Runs |-> seen[n]] /\ seen' = [n \in Runs |-> seen'[n]]
      /\ done = [n \in Runs |-> done[n]] /\ done' = [n \in Runs |-> done'[n]]
    OBVIOUS
<1>5. \A r \in Runs : done[r] \in BOOLEAN /\ done'[r] \in BOOLEAN
    OBVIOUS
<1>6. \A r \in Runs : SeenMove(r)
    BY EveryRunMoves, EveryRunIsSeen, StepOfTheRows DEF SharedInv, vars, RowsStep
<1>7. \A r :
        /\ Shared!Start(r) <=>
             /\ seen[r] = "queued" /\ worktree[r] = "active"
             /\ DependsOn[r] # 0 => worktree[DependsOn[r]] = "reclaimable"
             /\ Shared!Moves(r, "running", FALSE)
        /\ Shared!End(r) <=>
             seen[r] = "running" /\ \E to \in {"done", "failed"} : Shared!Moves(r, to, TRUE)
        /\ Shared!Cancel(r) <=>
             seen[r] \in {"queued", "running"} /\ Shared!Moves(r, "cancelled", FALSE)
        /\ Shared!Retry(r) <=>
             /\ seen[r] \in {"done", "failed"} /\ worktree[r] = "active"
             /\ Shared!Moves(r, "queued", FALSE)
    BY Zenon DEF Shared!Start, Shared!End, Shared!Cancel, Shared!Retry
<1>8. \A r :
        /\ Shared!Release(r) <=>
             /\ seen[r] \in {"done", "failed", "cancelled"} \/ done[r]
             /\ worktree[r] = "active"
             /\ worktree' = [worktree EXCEPT ![r] = "reclaimable"]
             /\ UNCHANGED <<seen, done>>
        /\ Shared!Clean(r) <=>
             /\ worktree[r] \in {"active", "reclaimable"}
             /\ worktree' = [worktree EXCEPT ![r] = "cleaned"]
             /\ UNCHANGED <<seen, done>>
    BY Zenon DEF Shared!Release, Shared!Clean, Shared!Finished
<1>9. ASSUME NEW r \in Runs,
             \/ Shared!Start(r) \/ Shared!End(r) \/ Shared!Cancel(r) \/ Shared!Retry(r)
             \/ Shared!Release(r) \/ Shared!Clean(r)
      PROVE  Shared!Next
    BY <1>9, Zenon DEF Shared!Next, Shared!RunNext, Shared!WorktreeNext
<1> HIDE DEF seen, done
<1>10. ASSUME NEW o \in Runs, OneRunMoves(o)
       PROVE  Shared!Next \/ UNCHANGED Shared!vars
    <2>1. \A r \in Runs \ {o} : SeenAs(r)' = SeenAs(r) /\ Spent(r)' = Spent(r)
        BY <1>10 DEF OneRunMoves, SeenAs, LastLeg, Spent
    <2>2. \A r \in Runs \ {o} : seen'[r] = seen[r] /\ done'[r] = done[r]
        BY <1>3, <2>1
    <2>3. UNCHANGED worktree
        BY <1>10 DEF OneRunMoves
    <2>4. ASSUME NEW before, NEW after, NEW ends \in BOOLEAN, Seen(o, before, after, ends)
          PROVE  seen[o] = before /\ seen'[o] = after /\ done'[o] = (done[o] \/ ends)
        BY <1>3, <2>4 DEF Seen
    <2>5. ASSUME NEW before, NEW after, NEW ends \in BOOLEAN, Seen(o, before, after, ends)
          PROVE  Shared!Moves(o, after, ends)
        <3>1. seen'[o] = after /\ done'[o] = (done[o] \/ ends)
            BY <2>4, <2>5
        <3>2. seen' = [seen EXCEPT ![o] = after]
            BY <1>4, <2>2, <3>1, WrittenAt
        <3>3. done' = [done EXCEPT ![o] = done[o] \/ ends]
            BY <1>4, <2>2, <3>1, WrittenAt
        <3> QED
            BY <1>1, <2>3, <3>2, <3>3
    <2>6. CASE Seen(o, SeenAs(o), SeenAs(o), FALSE)
        <3>1. seen'[o] = seen[o] /\ done'[o] = done[o]
            BY <1>3, <1>5, <2>6 DEF Seen
        <3>2. UNCHANGED <<seen, done>>
            BY <1>4, <2>2, <3>1
        <3> QED
            BY <1>2, <2>3, <3>2
    <2>7. CASE Seen(o, "queued", "running", FALSE) /\ run[o] = "queued" /\ run'[o] = "running"
        <3>1. DependsOn[o] # 0 => worktree[DependsOn[o]] = "reclaimable"
            BY <2>7, Chosen DEF SharedInv, NoRun
        <3>2. worktree[o] = "active"
            BY <1>10, <2>7 DEF OneRunMoves
        <3> QED
            BY <1>7, <1>9, <2>4, <2>5, <2>7, <3>1, <3>2
    <2>8. CASE \E to \in {"done", "failed"} : Seen(o, "running", to, TRUE)
        <3>1. PICK to \in {"done", "failed"} : Seen(o, "running", to, TRUE)
            BY <2>8
        <3>2. seen[o] = "running" /\ Shared!Moves(o, to, TRUE)
            BY <2>4, <2>5, <3>1
        <3> QED
            BY <1>7, <1>9, <3>2
    <2>9. CASE \E from \in {"queued", "running"} : Seen(o, from, "cancelled", FALSE)
        BY <1>7, <1>9, <2>4, <2>5, <2>9
    <2>10. CASE /\ run[o] \in {"done", "failed"} /\ run'[o] = "queued"
                /\ Seen(o, run[o], "queued", FALSE)
        <3>1. worktree[o] = "active"
            BY <1>10, <2>10 DEF OneRunMoves
        <3> QED
            BY <1>7, <1>9, <2>4, <2>5, <2>10, <3>1
    <2> QED
        BY <1>6, <2>6, <2>7, <2>8, <2>9, <2>10 DEF SeenMove
<1>11. CASE ManyRunsMove
    <2>1. ASSUME NEW r \in Runs
          PROVE  Seen(r, SeenAs(r), SeenAs(r), FALSE)
        <3>1. run[r] \in Ended => SeenAs(r) = run[r]
            BY DEF SeenAs, Ended
        <3>2. SeenAs(r)' \in Ended => run'[r] = SeenAs(r)'
            BY DEF SeenAs, Ended
        <3>3. /\ \/ run'[r] = run[r]
                 \/ run[r] = "running" /\ run'[r] \in ResumedFrom
                 \/ run[r] \in ResumedFrom /\ run'[r] = "queued"
              /\ SeenMove(r)
            BY <1>6, <1>11 DEF ManyRunsMove
        <3>4. ~(run[r] = "queued" /\ run'[r] = "running")
              /\ ~(run[r] \in {"done", "failed"} /\ run'[r] = "queued")
              /\ (run'[r] \in Ended => run'[r] = run[r])
            BY <3>3 DEF ResumedFrom, Ended
        <3>5. SeenAs(r)' \in Ended => SeenAs(r)' = run[r] /\ run[r] \in Ended
            BY <3>2, <3>4
        <3>6. ASSUME NEW to \in {"done", "failed"}
              PROVE  ~Seen(r, "running", to, TRUE)
            BY <3>1, <3>5 DEF Seen, Ended
        <3>7. ASSUME NEW from \in {"queued", "running"}
              PROVE  ~Seen(r, from, "cancelled", FALSE)
            BY <3>1, <3>5 DEF Seen, Ended
        <3> QED
            BY <3>3, <3>4, <3>6, <3>7 DEF SeenMove
    <2>2. \A r \in Runs : seen'[r] = seen[r] /\ done'[r] = done[r]
        BY <1>3, <1>5, <2>1 DEF Seen
    <2>3. UNCHANGED <<seen, done>>
        BY <1>4, <2>2
    <2> QED
        BY <1>2, <1>11, <2>3 DEF ManyRunsMove
<1>12. ASSUME NEW o \in Runs, OneWorktreeMoves(o)
       PROVE  Shared!Next \/ UNCHANGED Shared!vars
    <2>1. UNCHANGED <<run, legs>>
        BY <1>12 DEF OneWorktreeMoves
    <2>2. \A r \in Runs : SeenAs(r)' = SeenAs(r) /\ Spent(r)' = Spent(r)
        BY <2>1 DEF SeenAs, LastLeg, Spent
    <2>3. UNCHANGED <<seen, done>>
        BY <1>3, <1>4, <2>2
    <2>4. PICK from, to \in {"active", "reclaimable", "cleaned"} : ApplyWorktree(o, from, to)
        BY <1>12 DEF OneWorktreeMoves
    <2>5. worktree[o] = from /\ worktree' = [worktree EXCEPT ![o] = to]
        BY <2>4 DEF ApplyWorktree
    <2>6. CASE to = "reclaimable"
        <3>1. from = "active" /\ worktree'[o] = "reclaimable"
            BY <2>4, <2>5, <2>6 DEF ApplyWorktree, SharedInv, TypeOK, RowTypeOK
        <3>2. run[o] \in {"done", "failed", "cancelled"} \/ Spent(o) > 0
            BY <2>5, <3>1, ReleasedBehind DEF SharedInv
        <3>3. seen[o] \in {"done", "failed", "cancelled"} \/ done[o]
            BY <1>3, <3>2 DEF SeenAs
        <3> QED
            BY <1>8, <1>9, <2>3, <2>5, <2>6, <3>1, <3>3
    <2>7. CASE to = "cleaned"
        <3>1. from \in {"active", "reclaimable"}
            BY <2>4, <2>7 DEF ApplyWorktree
        <3> QED
            BY <1>8, <1>9, <2>3, <2>5, <2>7, <3>1
    <2> QED
        BY <2>4, <2>6, <2>7 DEF ApplyWorktree
<1> QED
    BY <1>10, <1>11, <1>12, OneOrNone, StepOfTheRows DEF SharedInv, vars, RowsStep

(* The coordinator keeps to what the gates rely on: a run starts only      *)
(* beside released work and in a worktree of its own, it settles only from *)
(* an attempt and comes back only while its worktree is active, however    *)
(* ticks, parks, restarts and retries interleave (fsm/runs.rs,             *)
(* scheduler/queue.rs).                                                    *)
THEOREM CoordinatorContract == Spec => SharesTheRows
<1>1. Init => Shared!Init /\ SettledLeg /\ ChosenMayStart
    <2> SUFFICES ASSUME Init PROVE Shared!Init /\ SettledLeg /\ ChosenMayStart
        OBVIOUS
    <2>1. \A r \in Runs : legs[r] = <<>> /\ run[r] = "draft"
        BY DEF Init, RowInit
    <2>2. \A r \in Runs : SeenAs(r) = "queued"
        BY <2>1 DEF SeenAs
    <2>3. ASSUME NEW r \in Runs
          PROVE  (Spent(r) > 0) = FALSE
        <3>1. {i \in DOMAIN legs[r] : legs[r][i].outcome \in {"succeeded", "failed"}} = {}
            BY <2>1
        <3>2. Spent(r) = 0
            BY <3>1, FS_EmptySet DEF Spent
        <3> QED
            BY <3>2
    <2>4. SettledLeg /\ ChosenMayStart
        BY <2>1 DEF SettledLeg, ChosenMayStart, Init, MemoryInit
    <2>5. worktree = [r \in Runs |-> "active"]
        BY DEF Init, RowInit
    <2> QED
        BY <2>2, <2>3, <2>4, <2>5 DEF Shared!Init
<1>2. ASSUME TypeOK, TypeOK', LegOpenIffRunning, LegOpenIffRunning', SettledLeg, ChosenMayStart,
             [Next]_vars
      PROVE  SettledLeg' /\ ChosenMayStart' /\ (Shared!Next \/ UNCHANGED Shared!vars)
    <2>1. RowsStep
        BY <1>2, StepOfTheRows DEF RowsStep, vars
    <2>2. SettledLeg'
        BY <1>2, <2>1, SettledLegNext
    <2>3. ChosenMayStart'
        BY <1>2, ChosenNext
    <2>4. Shared!Next \/ UNCHANGED Shared!vars
        BY <1>2, SharedStep DEF SharedInv
    <2> QED
        BY <2>2, <2>3, <2>4
<1> QED
    BY <1>1, <1>2, TypeCorrect, LegsFollowTheRun, PTL DEF Spec, SharesTheRows, Shared!Spec

(* What stands for the gates here is no tamer than the contract: whatever  *)
(* the contract lets them do to a worktree while they have the core's lock *)
(* is a step of Coordinator.  A sweep needs the loops and a disposition by *)
(* hand a daemon that serves (gates/mod.rs, ports/worktrees.rs).           *)
THEOREM GatesAreFree ==
    ASSUME TypeOK, "worktree" \in Operations, CoreFree, NEW r \in Runs,
           \/ Looping /\ Shared!Release(r)
           \/ Looping /\ Shared!Clean(r) /\ worktree[r] = "reclaimable"
           \/ phase = "serving" /\ Shared!Clean(r),
           UNCHANGED <<run, resumed, legs, questions, parkedOn, quota>>,
           UNCHANGED <<phase, memory, sessionRun, opened, restarts>>
    PROVE  ReleaseWorktree(r) \/ ReclaimWorktree(r) \/ DisposeWorktree(r)
<1>1. ASSUME Shared!Release(r)
      PROVE  /\ run[r] \in Ended \/ Spent(r) > 0
             /\ worktree[r] = "active" /\ worktree' = [worktree EXCEPT ![r] = "reclaimable"]
    <2> DEFINE seen == [n \in Runs |-> SeenAs(n)]
               done == [n \in Runs |-> Spent(n) > 0]
    <2>1. /\ seen[r] \in Ended \/ done[r]
          /\ worktree[r] = "active" /\ worktree' = [worktree EXCEPT ![r] = "reclaimable"]
        BY <1>1, Zenon DEF Shared!Release, Shared!Finished, Ended
    <2>2. SeenAs(r) \in Ended => run[r] \in Ended
        BY DEF SeenAs, Ended
    <2> QED
        BY <2>1, <2>2
<1>2. ASSUME Shared!Clean(r)
      PROVE  /\ worktree[r] \in {"active", "reclaimable"}
             /\ worktree' = [worktree EXCEPT ![r] = "cleaned"]
    BY <1>2, Zenon DEF Shared!Clean
<1>3. CASE Looping /\ Shared!Release(r)
    BY <1>1, <1>3 DEF ReleaseWorktree, ApplyWorktree, Ended
<1>4. CASE Shared!Clean(r) /\ worktree[r] = "reclaimable" /\ Looping
    BY <1>2, <1>4 DEF ReclaimWorktree, ApplyWorktree
<1>5. CASE Shared!Clean(r) /\ worktree[r] = "active" /\ phase = "serving"
    BY <1>2, <1>5 DEF DisposeWorktree, Called, Serving, ApplyWorktree
<1> QED
    BY <1>2, <1>3, <1>4, <1>5 DEF Looping
===============================================================================
