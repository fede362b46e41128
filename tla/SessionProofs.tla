---------------------------- MODULE SessionProofs ----------------------------
(***************************************************************************)
(* What relates the rows of Coordinator to the sessions and threads behind *)
(* them, for every value of its constants.                                 *)
(*                                                                         *)
(* A report, a signal and a park name a run; a registration, a thread and  *)
(* a leg name a session.  What keeps the two together is that a session    *)
(* belongs to one run for good, which the launch brings about by choosing  *)
(* a row nobody had before or the one of the run's last attempt.           *)
(***************************************************************************)
EXTENDS CoordinatorProofs

\* The sessions a run's attempts name are its own, and were opened.
Owned ==
    \A r \in Runs : \A i \in DOMAIN legs[r] :
        sessionRun[legs[r][i].session] = r /\ legs[r][i].session <= opened

\* A session is live as long as it has a thread.
LiveHasThread == \A s \in SessionIds : worker[s] # "none" <=> s \in Live

\* No tick is under way before the loops start.
QuietAtBoot == ~Looping => candidates = {}

SessionsSound == TypeOK /\ LegOpenIffRunning /\ Owned /\ LiveHasThread /\ QuietAtBoot

\* The runs' sessions stay what they are, and no run starts.
NothingStarts ==
    /\ \A r \in Runs : run'[r] = "running" => run[r] = "running"
    /\ \A r \in Runs :
         /\ DOMAIN legs'[r] = DOMAIN legs[r] /\ Len(legs'[r]) = Len(legs[r])
         /\ \A i \in DOMAIN legs[r] : legs'[r][i].session = legs[r][i].session

Starts == \E r \in Runs : Admit(r) \/ AdmissionRefused(r)

-----------------------------------------------------------------------------
(* Only an admission starts a run.                                         *)
LEMMA OnlyAdmitRuns ==
    ASSUME TypeOK, [Next]_vars, \A r \in Runs : ~Admit(r)
    PROVE  \A r \in Runs : run'[r] = "running" => run[r] = "running"
<1> USE DEF TypeOK, RowTypeOK, MoveRun, MoveRuns
<1>1. ASSUME NEW r \in Runs, ClientStep(r)
      PROVE  \A o \in Runs : run'[o] = "running" => run[o] = "running"
    <2>1. CASE ApprovePlan(r) \/ DiscardDraft(r) \/ CancelRun(r) \/ RetryRun(r)
        <3>1. CASE ApprovePlan(r)
            BY <3>1 DEF ApprovePlan, ApplyApprove
        <3>2. CASE DiscardDraft(r)
            BY <3>2 DEF DiscardDraft, ApplyDiscard
        <3>3. CASE CancelRun(r)
            BY <3>3 DEF CancelRun, ApplyCancel
        <3>4. CASE RetryRun(r)
            BY <3>4 DEF RetryRun, ApplyRetry
        <3> QED
            BY <2>1, <3>1, <3>2, <3>3, <3>4
    <2>2. CASE Escalate(r)
        BY <2>2 DEF Escalate, OpenQuestion
    <2>3. CASE AnswerQuestion(r)
        BY <2>3 DEF AnswerQuestion, ApplyAnswered
    <2>4. CASE ReleaseWorktree(r) \/ ReclaimWorktree(r) \/ DisposeWorktree(r)
        BY <2>4 DEF ReleaseWorktree, ReclaimWorktree, DisposeWorktree, ApplyWorktree
    <2> QED
        BY <1>1, <2>1, <2>2, <2>3, <2>4 DEF ClientStep
<1>2. ASSUME NEW r \in Runs, OfferStep(r)
      PROVE  UNCHANGED run
    BY <1>2 DEF OfferStep, Defer, LaunchFails, AdmissionRefused, rows
<1>3. ASSUME NEW s \in SessionIds, WorkerStep(s)
      PROVE  \A o \in Runs : run'[o] = "running" => run[o] = "running"
    <2>1. CASE Ask(s)
        BY <2>1 DEF Ask, ApplyAsk
    <2>2. CASE Report(s)
        BY <2>2 DEF Report, ApplyFinished, ApplyQuotaReached, ApplyAttemptFailed, rows
    <2>3. CASE \/ SeesRunning(s) \/ GivesUpWaiting(s) \/ TurnEnds(s)
               \/ WorkerVanishes(s) \/ RecordEnd(s)
        BY <2>3 DEF SeesRunning, GivesUpWaiting, TurnEnds, WorkerVanishes, RecordEnd, rows
    <2> QED
        BY <1>3, <2>1, <2>2, <2>3 DEF WorkerStep
<1>4. ASSUME NEW p \in Providers, ResetArrives(p)
      PROVE  UNCHANGED run
    BY <1>4 DEF ResetArrives
<1>5. CASE DaemonStep
    <2>1. CASE LiftElapsedCaps \/ BootTimers
        BY <2>1 DEF LiftElapsedCaps, BootTimers, ApplyQuotaReset
    <2>2. CASE ReconcileBoot \/ ResumeReconciled
        BY <2>2 DEF ReconcileBoot, ResumeReconciled, ApplyReconcile, ApplyResume
    <2>3. CASE \/ PauseAdmissions \/ StopTeam \/ WaitForOccasion \/ BeginTick
               \/ Shutdown \/ ProcessEnds
        BY <2>3 DEF PauseAdmissions, StopTeam, WaitForOccasion, BeginTick, Shutdown,
            ProcessEnds, rows
    <2> QED
        BY <1>5, <2>1, <2>2, <2>3 DEF DaemonStep
<1>6. CASE UNCHANGED vars
    BY <1>6 DEF vars, rows
<1> QED
    BY <1>1, <1>2, <1>3, <1>4, <1>5, <1>6 DEF Next

LEMMA OnlyAdmitStarts ==
    ASSUME TypeOK, [Next]_vars, \A r \in Runs : ~Admit(r)
    PROVE  NothingStarts
<1>1. \A r \in Runs : run'[r] = "running" => run[r] = "running"
    BY OnlyAdmitRuns
<1>2. RunsStep
    BY EveryStep
<1>3. \A r \in Runs : legs[r] \in Seq(Leg)
    BY DEF TypeOK, RowTypeOK
<1>4. CASE UNCHANGED legs
    BY <1>1, <1>4 DEF NothingStarts
<1>5. ASSUME NEW r \in Runs, NEW s \in SessionIds, OpensALeg(r, s)
      PROVE  FALSE
    BY <1>1, <1>5 DEF OpensALeg, TypeOK, RowTypeOK
<1>6. ASSUME NEW moved \in SUBSET Runs, NEW outcome \in Outcomes, CloseLegs(moved, outcome)
      PROVE  NothingStarts
    <2> SUFFICES ASSUME NEW r \in Runs
                 PROVE  /\ DOMAIN legs'[r] = DOMAIN legs[r] /\ Len(legs'[r]) = Len(legs[r])
                        /\ \A i \in DOMAIN legs[r] : legs'[r][i].session = legs[r][i].session
        BY <1>1 DEF NothingStarts
    <2>1. CASE r \notin moved
        BY <1>6, <2>1 DEF CloseLegs
    <2>2. CASE r \in moved
        <3>1. legs'[r] = [i \in DOMAIN legs[r] |->
                            IF legs[r][i].outcome = "open"
                            THEN [legs[r][i] EXCEPT !.outcome = outcome]
                            ELSE legs[r][i]]
            BY <1>6, <2>2 DEF CloseLegs
        <3>2. \A i \in DOMAIN legs[r] : legs[r][i] \in Leg
            BY <1>3
        <3>3. \A leg \in Leg : [leg EXCEPT !.outcome = outcome].session = leg.session
            BY DEF Leg
        <3>4. DOMAIN legs'[r] = DOMAIN legs[r]
            BY <3>1
        <3>5. ASSUME NEW i \in DOMAIN legs[r]
              PROVE  legs'[r][i].session = legs[r][i].session
            BY <3>1, <3>2, <3>3
        <3>6. Len(legs'[r]) = Len(legs[r])
            BY <1>3, <3>4, TypeNext DEF TypeOK, RowTypeOK
        <3> QED
            BY <3>4, <3>5, <3>6
    <2> QED
        BY <2>1, <2>2
<1> QED
    BY <1>2, <1>4, <1>5, <1>6 DEF RunsStep, EndsLegs, MovesIdle

-----------------------------------------------------------------------------
(* A session belongs to one run.                                           *)

\* What a launch executes as is new, or the run's own.
LEMMA LaunchedAs ==
    ASSUME TypeOK, Owned, NEW r \in Runs, NEW s \in SessionsFor(r)
    PROVE  /\ s \in Nat
           /\ \A o \in Runs \ {r} : \A i \in DOMAIN legs[o] : legs[o][i].session # s
           /\ \A i \in DOMAIN legs[r] : legs[r][i].session <= opened
<1>1. s = opened + 1 \/ (legs[r] # <<>> /\ s = LastLeg(r).session)
    BY DEF SessionsFor, SessionFor
<1>2. \A o \in Runs : legs[o] \in Seq(Leg)
    BY DEF TypeOK, RowTypeOK
<1>3. \A o \in Runs : \A i \in DOMAIN legs[o] : legs[o][i].session \in SessionIds
    <2>1. \A leg \in Leg : leg.session \in SessionIds
        BY DEF Leg
    <2>2. \A o \in Runs : \A i \in DOMAIN legs[o] : legs[o][i] \in Leg
        BY <1>2
    <2> QED
        BY <2>1, <2>2
<1>4. legs[r] # <<>> => Len(legs[r]) \in DOMAIN legs[r]
    BY <1>2
<1>5. opened \in Nat /\ SessionIds \subseteq Nat
    BY RowAssumption DEF TypeOK, RowAssumption
<1>6. CASE s = opened + 1
    BY <1>3, <1>5, <1>6 DEF Owned
<1>7. CASE legs[r] # <<>> /\ s = LastLeg(r).session
    <2>1. PICK j \in DOMAIN legs[r] : s = legs[r][j].session
        BY <1>4, <1>7 DEF LastLeg
    <2>2. s \in Nat /\ sessionRun[s] = r
        BY <1>3, <1>5, <2>1 DEF Owned
    <2> QED
        BY <2>2 DEF Owned
<1> QED
    BY <1>1, <1>6, <1>7

LEMMA OwnedByTheStart ==
    ASSUME TypeOK, Owned, NEW r \in Runs, NEW s \in SessionsFor(r), s \in SessionIds,
           sessionRun' = [sessionRun EXCEPT ![s] = r],
           opened' = IF s > opened THEN s ELSE opened
    PROVE  /\ s <= opened' /\ opened <= opened' /\ sessionRun'[s] = r
           /\ \A o \in Runs : \A i \in DOMAIN legs[o] :
                sessionRun'[legs[o][i].session] = o /\ legs[o][i].session <= opened'
<1>1. s \in Nat /\ opened \in Nat /\ opened' \in Nat
    BY LaunchedAs DEF TypeOK
<1>2. s <= opened' /\ opened <= opened' /\ sessionRun'[s] = r
    BY <1>1 DEF TypeOK
<1>3. ASSUME NEW o \in Runs, NEW i \in DOMAIN legs[o]
      PROVE  sessionRun'[legs[o][i].session] = o /\ legs[o][i].session <= opened'
    <2>1. legs[o][i].session \in SessionIds
        <3>1. legs[o][i] \in Leg
            BY DEF TypeOK, RowTypeOK
        <3> QED
            BY <3>1 DEF Leg
    <2>2. legs[o][i].session \in Nat /\ legs[o][i].session <= opened
        BY <2>1, RowAssumption DEF Owned, RowAssumption
    <2>3. sessionRun'[legs[o][i].session] = o
        BY <2>1, LaunchedAs DEF Owned, TypeOK
    <2> QED
        BY <1>1, <1>2, <2>2, <2>3
<1> QED
    BY <1>2, <1>3

LEMMA OwnedNext ==
    ASSUME TypeOK, Owned, [Next]_vars
    PROVE  Owned'
<1>1. ASSUME NEW r \in Runs, Admit(r)
      PROVE  Owned'
    <2>1. PICK s \in SessionsFor(r) :
            Registrable(s) /\ ApplyAdmit(r, s) /\ StartSession(s, r, "running")
        BY <1>1 DEF Admit
    <2> DEFINE leg == [session |-> s, outcome |-> "open"]
    <2>2. legs' = [legs EXCEPT ![r] = Append(@, leg)]
        BY <2>1 DEF ApplyAdmit
    <2>3. s \in SessionIds
        BY <2>1 DEF Registrable
    <2>4. /\ s <= opened' /\ sessionRun'[s] = r
          /\ \A o \in Runs : \A i \in DOMAIN legs[o] :
               sessionRun'[legs[o][i].session] = o /\ legs[o][i].session <= opened'
        BY <2>1, <2>3, OwnedByTheStart DEF StartSession
    <2>5. leg.session = s
        OBVIOUS
    <2>6. legs[r] \in Seq(Leg) /\ legs'[r] = Append(legs[r], leg)
          /\ \A o \in Runs \ {r} : legs'[o] = legs[o]
        BY <2>2 DEF TypeOK, RowTypeOK
    <2> HIDE DEF leg
    <2>7. ASSUME NEW o \in Runs, NEW i \in DOMAIN legs'[o]
          PROVE  sessionRun'[legs'[o][i].session] = o /\ legs'[o][i].session <= opened'
        <3>1. CASE o # r
            BY <2>4, <2>6, <3>1
        <3>2. CASE o = r
            <4>1. legs'[r][i] = leg \/ (i \in DOMAIN legs[r] /\ legs'[r][i] = legs[r][i])
                BY <2>6, <3>2
            <4> QED
                BY <2>4, <2>5, <3>2, <4>1
        <3> QED
            BY <3>1, <3>2
    <2> QED
        BY <2>7 DEF Owned
<1>2. ASSUME NEW r \in Runs, AdmissionRefused(r)
      PROVE  Owned'
    <2>1. PICK s \in SessionsFor(r) : Registrable(s) /\ StartSession(s, r, "cancelling")
        BY <1>2 DEF AdmissionRefused
    <2>2. UNCHANGED legs
        BY <1>2 DEF AdmissionRefused, rows
    <2>3. s \in SessionIds
        BY <2>1 DEF Registrable
    <2> QED
        BY <2>1, <2>2, <2>3, OwnedByTheStart DEF StartSession, Owned
<1>3. CASE ~Starts
    <2>1. NothingStarts
        BY <1>3, OnlyAdmitStarts DEF Starts
    <2>2. UNCHANGED <<sessionRun, opened>>
        BY <1>3 DEF Starts, Next, vars, ClientStep, OfferStep, WorkerStep, DaemonStep,
            ApprovePlan, DiscardDraft, CancelRun, Escalate, AnswerQuestion, RetryRun,
            ReleaseWorktree, ReclaimWorktree, DisposeWorktree, Defer, LaunchFails, SeesRunning,
            GivesUpWaiting, Ask, TurnEnds, Report, WorkerVanishes, RecordEnd, PauseAdmissions,
            StopTeam, WaitForOccasion, BeginTick, LiftElapsedCaps, ReconcileBoot, BootTimers,
            ResumeReconciled, Shutdown, ProcessEnds, ResetArrives, sessions
    <2> QED
        BY <2>1, <2>2 DEF NothingStarts, Owned
<1> QED
    BY <1>1, <1>2, <1>3 DEF Starts

-----------------------------------------------------------------------------
(* Threads and registrations.                                              *)

LEMMA SignalsKeepLive ==
    ASSUME TypeOK, NEW targets, registry' = Signalled(targets)
    PROVE  Live' = Live
BY DEF TypeOK, Signalled, Live

LEMMA LiveHasThreadNext ==
    ASSUME TypeOK, LiveHasThread, [Next]_vars
    PROVE  LiveHasThread'
<1> USE DEF TypeOK
<1>1. ASSUME NEW r \in Runs, NEW s \in SessionsFor(r), NEW state \in {"running", "cancelling"},
             Registrable(s), StartSession(s, r, state)
      PROVE  LiveHasThread'
    <2>1. s \in SessionIds
        BY <1>1 DEF Registrable
    <2>2. registry' = [registry EXCEPT ![s] = state] /\ worker' = [worker EXCEPT ![s] = "polling"]
        BY <1>1 DEF StartSession
    <2> QED
        BY <2>1, <2>2 DEF LiveHasThread, Live
<1>2. ASSUME NEW r \in Runs, Admit(r) \/ AdmissionRefused(r)
      PROVE  LiveHasThread'
    BY <1>1, <1>2 DEF Admit, AdmissionRefused
<1>3. ASSUME NEW targets, registry' = Signalled(targets), UNCHANGED worker
      PROVE  LiveHasThread'
    <2>1. Live' = Live
        BY <1>3, SignalsKeepLive
    <2> QED
        BY <1>3, <2>1 DEF LiveHasThread
<1>4. ASSUME NEW r \in Runs, CancelRun(r)
      PROVE  LiveHasThread'
    BY <1>3, <1>4 DEF CancelRun
<1>5. ASSUME NEW s \in SessionIds, Ask(s)
      PROVE  LiveHasThread'
    BY <1>3, <1>5 DEF Ask
<1>6. CASE StopTeam \/ Shutdown
    BY <1>3, <1>6 DEF StopTeam, Shutdown
<1>7. CASE ProcessEnds
    <2>1. /\ registry' = [s \in SessionIds |-> "absent"]
          /\ worker' = [s \in SessionIds |-> "none"]
        BY <1>7 DEF ProcessEnds
    <2> QED
        BY <2>1 DEF LiveHasThread, Live
<1>8. ASSUME NEW s \in SessionIds, RecordEnd(s)
      PROVE  LiveHasThread'
    <2>1. registry' = [registry EXCEPT ![s] = "finished"] /\ worker' = [worker EXCEPT ![s] = "none"]
        BY <1>8 DEF RecordEnd
    <2> QED
        BY <2>1 DEF LiveHasThread, Live
<1>9. ASSUME NEW s \in SessionIds,
             \/ SeesRunning(s) \/ GivesUpWaiting(s) \/ TurnEnds(s)
             \/ Report(s) \/ WorkerVanishes(s)
      PROVE  LiveHasThread'
    <2>1. UNCHANGED registry /\ worker[s] # "none"
        BY <1>9 DEF SeesRunning, GivesUpWaiting, TurnEnds, Report, WorkerVanishes, Reports
    <2>2. \E w : w # "none" /\ worker' = [worker EXCEPT ![s] = w]
        <3>1. CASE TurnEnds(s)
            BY <3>1 DEF TurnEnds, Reports
        <3>2. CASE ~TurnEnds(s)
            BY <1>9, <3>2 DEF SeesRunning, GivesUpWaiting, Report, WorkerVanishes
        <3> QED
            BY <3>1, <3>2
    <2> QED
        BY <2>1, <2>2 DEF LiveHasThread, Live
<1>10. CASE UNCHANGED <<registry, worker>>
    BY <1>10 DEF LiveHasThread, Live
<1>11. CASE UNCHANGED vars
    BY <1>10, <1>11 DEF vars, memory
<1>12. ASSUME NEW r \in Runs,
              \/ ApprovePlan(r) \/ DiscardDraft(r) \/ Escalate(r) \/ AnswerQuestion(r)
              \/ RetryRun(r) \/ ReleaseWorktree(r) \/ ReclaimWorktree(r) \/ DisposeWorktree(r)
              \/ Defer(r) \/ LaunchFails(r)
       PROVE  UNCHANGED <<registry, worker>>
    BY <1>12 DEF ApprovePlan, DiscardDraft, Escalate, AnswerQuestion, RetryRun, ReleaseWorktree,
        ReclaimWorktree, DisposeWorktree, Defer, LaunchFails, memory, sessions
<1>13. CASE \/ PauseAdmissions \/ WaitForOccasion \/ BeginTick \/ LiftElapsedCaps
            \/ ReconcileBoot \/ BootTimers \/ ResumeReconciled
            \/ \E p \in Providers : ResetArrives(p)
    <2>1. UNCHANGED <<registry, worker>>
        BY <1>13 DEF PauseAdmissions, WaitForOccasion, BeginTick, LiftElapsedCaps, ReconcileBoot,
            BootTimers, ResumeReconciled, ResetArrives, memory, sessions
    <2> QED
        BY <1>10, <2>1
<1> QED
    BY <1>2, <1>4, <1>5, <1>6, <1>7, <1>8, <1>9, <1>10, <1>11, <1>12, <1>13
    DEF Next, ClientStep, OfferStep, WorkerStep, DaemonStep

LEMMA QuietAtBootNext ==
    ASSUME TypeOK, QuietAtBoot, [Next]_vars
    PROVE  QuietAtBoot'
<1> USE DEF QuietAtBoot, Looping
<1>1. CASE ProcessEnds
    BY <1>1 DEF ProcessEnds
<1>2. CASE BeginTick
    BY <1>2 DEF BeginTick
<1>3. CASE ReconcileBoot \/ BootTimers \/ ResumeReconciled \/ Shutdown
    BY <1>3 DEF ReconcileBoot, BootTimers, ResumeReconciled, Shutdown, memory, tick
<1>4. ASSUME NEW r \in Runs, OfferStep(r)
      PROVE  QuietAtBoot'
    BY <1>4 DEF OfferStep, Defer, LaunchFails, Admit, AdmissionRefused, DoneWith
<1>5. CASE UNCHANGED <<phase, candidates>>
    BY <1>5
<1>6. ASSUME NEW r \in Runs, ClientStep(r)
      PROVE  UNCHANGED <<phase, candidates>>
    BY <1>6 DEF ClientStep, ApprovePlan, DiscardDraft, CancelRun, Escalate, AnswerQuestion,
        RetryRun, ReleaseWorktree, ReclaimWorktree, DisposeWorktree, memory, tick
<1>7. ASSUME NEW s \in SessionIds, WorkerStep(s)
      PROVE  UNCHANGED <<phase, candidates>>
    BY <1>7 DEF WorkerStep, SeesRunning, GivesUpWaiting, Ask, TurnEnds, Report, WorkerVanishes,
        RecordEnd, memory, tick
<1>8. CASE \/ PauseAdmissions \/ StopTeam \/ WaitForOccasion \/ LiftElapsedCaps
           \/ (\E p \in Providers : ResetArrives(p)) \/ UNCHANGED vars
    BY <1>5, <1>8 DEF PauseAdmissions, StopTeam, WaitForOccasion, LiftElapsedCaps, ResetArrives,
        vars, memory, tick
<1> QED
    BY <1>1, <1>2, <1>3, <1>4, <1>5, <1>6, <1>7, <1>8 DEF Next, DaemonStep

LEMMA SessionsHold == Spec => []SessionsSound
<1>1. Init => Owned /\ LiveHasThread /\ QuietAtBoot
    <2> SUFFICES ASSUME Init
                 PROVE  Owned /\ LiveHasThread /\ QuietAtBoot
        OBVIOUS
    <2>1. Owned
        BY DEF Init, RowInit, Owned
    <2>2. LiveHasThread
        BY DEF Init, MemoryInit, LiveHasThread, Live
    <2>3. QuietAtBoot
        BY DEF Init, MemoryInit, QuietAtBoot
    <2> QED
        BY <2>1, <2>2, <2>3
<1>2. /\ TypeOK /\ Owned /\ [Next]_vars => Owned'
      /\ TypeOK /\ LiveHasThread /\ [Next]_vars => LiveHasThread'
      /\ TypeOK /\ QuietAtBoot /\ [Next]_vars => QuietAtBoot'
    BY OwnedNext, LiveHasThreadNext, QuietAtBootNext
<1> QED
    BY <1>1, <1>2, TypeCorrect, LegsFollowTheRun, PTL DEF Spec, SessionsSound

\* What a run last executed in stays the same until it starts again.
LEMMA SameSession ==
    ASSUME TypeOK, TypeOK', NothingStarts, NEW r \in Runs
    PROVE  /\ (legs'[r] = <<>>) <=> (legs[r] = <<>>)
           /\ legs[r] # <<>> => /\ LastLeg(r).session' = LastLeg(r).session
                                /\ LastLeg(r).session \in SessionIds
                                /\ Len(legs[r]) \in DOMAIN legs[r]
           /\ LastSession(r)' = LastSession(r)
<1>1. legs[r] \in Seq(Leg) /\ legs'[r] \in Seq(Leg)
    BY DEF TypeOK, RowTypeOK
<1>2. Len(legs'[r]) = Len(legs[r])
    BY DEF NothingStarts
<1>3. (legs'[r] = <<>>) <=> (legs[r] = <<>>)
    BY <1>1, <1>2
<1>4. ASSUME legs[r] # <<>>
      PROVE  /\ LastLeg(r).session' = LastLeg(r).session
             /\ LastLeg(r).session \in SessionIds
             /\ Len(legs[r]) \in DOMAIN legs[r]
    <2>1. Len(legs[r]) \in DOMAIN legs[r]
        BY <1>1, <1>4
    <2>2. LastLeg(r).session' = LastLeg(r).session
        BY <1>2, <2>1 DEF NothingStarts, LastLeg
    <2>3. legs[r][Len(legs[r])] \in Leg
        BY <1>1, <2>1
    <2>4. LastLeg(r).session \in SessionIds
        BY <2>3 DEF Leg, LastLeg
    <2> QED
        BY <2>1, <2>2, <2>4
<1> QED
    BY <1>3, <1>4 DEF LastSession

-----------------------------------------------------------------------------
(* The park on a question.                                                 *)

LEMMA OnlyAskParks ==
    ASSUME TypeOK, [Next]_vars, \A s \in SessionIds : ~Ask(s)
    PROVE  /\ parkedOn' = parkedOn
           /\ \A r \in Runs : run'[r] = "awaiting_input" => run[r] = "awaiting_input"
<1> USE DEF TypeOK, RowTypeOK, MoveRun, MoveRuns
<1>1. ASSUME NEW r \in Runs, ClientStep(r)
      PROVE  /\ parkedOn' = parkedOn
             /\ \A o \in Runs : run'[o] = "awaiting_input" => run[o] = "awaiting_input"
    <2>1. CASE ApprovePlan(r) \/ DiscardDraft(r) \/ CancelRun(r) \/ RetryRun(r)
        <3>1. CASE ApprovePlan(r)
            BY <3>1 DEF ApprovePlan, ApplyApprove
        <3>2. CASE DiscardDraft(r)
            BY <3>2 DEF DiscardDraft, ApplyDiscard
        <3>3. CASE CancelRun(r)
            BY <3>3 DEF CancelRun, ApplyCancel
        <3>4. CASE RetryRun(r)
            BY <3>4 DEF RetryRun, ApplyRetry
        <3> QED
            BY <2>1, <3>1, <3>2, <3>3, <3>4
    <2>2. CASE Escalate(r)
        BY <2>2 DEF Escalate, OpenQuestion
    <2>3. CASE AnswerQuestion(r)
        BY <2>3 DEF AnswerQuestion, ApplyAnswered
    <2>4. CASE ReleaseWorktree(r) \/ ReclaimWorktree(r) \/ DisposeWorktree(r)
        BY <2>4 DEF ReleaseWorktree, ReclaimWorktree, DisposeWorktree, ApplyWorktree
    <2> QED
        BY <1>1, <2>1, <2>2, <2>3, <2>4 DEF ClientStep
<1>2. ASSUME NEW r \in Runs, OfferStep(r)
      PROVE  /\ parkedOn' = parkedOn
             /\ \A o \in Runs : run'[o] = "awaiting_input" => run[o] = "awaiting_input"
    BY <1>2 DEF OfferStep, Defer, LaunchFails, Admit, ApplyAdmit, AdmissionRefused, rows
<1>3. ASSUME NEW s \in SessionIds, WorkerStep(s)
      PROVE  /\ parkedOn' = parkedOn
             /\ \A o \in Runs : run'[o] = "awaiting_input" => run[o] = "awaiting_input"
    <2>1. CASE Report(s)
        BY <2>1 DEF Report, ApplyFinished, ApplyQuotaReached, ApplyAttemptFailed, rows
    <2>2. CASE \/ SeesRunning(s) \/ GivesUpWaiting(s) \/ TurnEnds(s)
               \/ WorkerVanishes(s) \/ RecordEnd(s)
        BY <2>2 DEF SeesRunning, GivesUpWaiting, TurnEnds, WorkerVanishes, RecordEnd, rows
    <2> QED
        BY <1>3, <2>1, <2>2 DEF WorkerStep
<1>4. ASSUME NEW p \in Providers, ResetArrives(p)
      PROVE  UNCHANGED <<run, parkedOn>>
    BY <1>4 DEF ResetArrives
<1>5. CASE DaemonStep
    <2>1. CASE LiftElapsedCaps \/ BootTimers
        BY <2>1 DEF LiftElapsedCaps, BootTimers, ApplyQuotaReset
    <2>2. CASE ReconcileBoot \/ ResumeReconciled
        BY <2>2 DEF ReconcileBoot, ResumeReconciled, ApplyReconcile, ApplyResume
    <2>3. CASE \/ PauseAdmissions \/ StopTeam \/ WaitForOccasion \/ BeginTick
               \/ Shutdown \/ ProcessEnds
        BY <2>3 DEF PauseAdmissions, StopTeam, WaitForOccasion, BeginTick, Shutdown,
            ProcessEnds, rows
    <2> QED
        BY <1>5, <2>1, <2>2, <2>3 DEF DaemonStep
<1>6. CASE UNCHANGED vars
    BY <1>6 DEF vars, rows
<1> QED
    BY <1>1, <1>2, <1>3, <1>4, <1>5, <1>6 DEF Next

\* Nothing but a launch makes a registration run.
LEMMA OnlyStartsRegister ==
    ASSUME TypeOK, [Next]_vars, ~Starts
    PROVE  \A x \in SessionIds : registry'[x] = "running" => registry[x] = "running"
<1>1. ASSUME NEW targets, registry' = Signalled(targets)
      PROVE  \A x \in SessionIds : registry'[x] = "running" => registry[x] = "running"
    BY <1>1 DEF Signalled
<1>2. CASE UNCHANGED registry
    BY <1>2
<1>3. CASE \/ \E r \in Runs : CancelRun(r)
           \/ \E s \in SessionIds : Ask(s)
           \/ StopTeam \/ Shutdown
    BY <1>1, <1>3 DEF CancelRun, Ask, StopTeam, Shutdown
<1>4. CASE ProcessEnds \/ \E s \in SessionIds : RecordEnd(s)
    BY <1>4 DEF ProcessEnds, RecordEnd, TypeOK
<1>5. CASE UNCHANGED vars
    BY <1>2, <1>5 DEF vars, memory
<1>6. CASE \E r \in Runs :
              \/ ApprovePlan(r) \/ DiscardDraft(r) \/ Escalate(r) \/ AnswerQuestion(r)
              \/ RetryRun(r) \/ ReleaseWorktree(r) \/ ReclaimWorktree(r) \/ DisposeWorktree(r)
              \/ Defer(r) \/ LaunchFails(r)
    BY <1>2, <1>6 DEF ApprovePlan, DiscardDraft, Escalate, AnswerQuestion, RetryRun,
        ReleaseWorktree, ReclaimWorktree, DisposeWorktree, Defer, LaunchFails, memory, sessions
<1>7. CASE \E s \in SessionIds :
              \/ SeesRunning(s) \/ GivesUpWaiting(s) \/ TurnEnds(s)
              \/ Report(s) \/ WorkerVanishes(s)
    BY <1>2, <1>7 DEF SeesRunning, GivesUpWaiting, TurnEnds, Report, WorkerVanishes
<1>8. CASE \/ PauseAdmissions \/ WaitForOccasion \/ BeginTick \/ LiftElapsedCaps
           \/ ReconcileBoot \/ BootTimers \/ ResumeReconciled
           \/ \E p \in Providers : ResetArrives(p)
    BY <1>2, <1>8 DEF PauseAdmissions, WaitForOccasion, BeginTick, LiftElapsedCaps,
        ReconcileBoot, BootTimers, ResumeReconciled, ResetArrives, memory, sessions
<1> QED
    BY <1>3, <1>4, <1>5, <1>6, <1>7, <1>8
    DEF Starts, Next, ClientStep, OfferStep, WorkerStep, DaemonStep

LEMMA StartsElsewhere ==
    ASSUME TypeOK, Owned, SuspendedIsSignalled, NEW r \in Runs, NEW s \in SessionsFor(r),
           Registrable(s), NEW state, StartSession(s, r, state),
           NEW o \in Runs, run[o] = "awaiting_input", o # r, NEW x \in LastSession(o)
    PROVE  registry'[x] # "running"
<1>1. legs[o] # <<>> /\ x = LastLeg(o).session /\ legs[o] \in Seq(Leg)
    BY DEF LastSession, TypeOK, RowTypeOK
<1>2. Len(legs[o]) \in DOMAIN legs[o]
    BY <1>1
<1>3. x # s
    BY <1>1, <1>2, LaunchedAs DEF LastLeg
<1>4. legs[o][Len(legs[o])] \in Leg
    BY <1>1, <1>2
<1>5. x \in SessionIds
    BY <1>1, <1>4 DEF LastLeg, Leg
<1> QED
    BY <1>3, <1>5 DEF StartSession, TypeOK, SuspendedIsSignalled

LEMMA SuspendedNext ==
    ASSUME SessionsSound, SuspendedIsSignalled, [Next]_vars
    PROVE  SuspendedIsSignalled'
<1> USE DEF SessionsSound
<1>1. TypeOK'
    BY TypeNext
<1>2. ASSUME NEW r \in Runs, Admit(r)
      PROVE  SuspendedIsSignalled'
    <2>1. PICK s \in SessionsFor(r) :
            Registrable(s) /\ ApplyAdmit(r, s) /\ StartSession(s, r, "running")
        BY <1>2 DEF Admit
    <2>2. run' = [run EXCEPT ![r] = "running"]
        BY <2>1 DEF ApplyAdmit, MoveRun, MoveRuns, TypeOK, RowTypeOK
    <2>3. \A o \in Runs \ {r} : legs'[o] = legs[o]
        BY <2>1 DEF ApplyAdmit, TypeOK, RowTypeOK
    <2>4. ASSUME NEW o \in Runs, run'[o] = "awaiting_input", NEW x \in LastSession(o)'
          PROVE  registry'[x] # "running"
        <3>1. o # r /\ run[o] = "awaiting_input"
            BY <2>2, <2>4 DEF TypeOK, RowTypeOK
        <3>2. x \in LastSession(o)
            BY <2>3, <2>4, <3>1 DEF LastSession, LastLeg
        <3> QED
            BY <2>1, <3>1, <3>2, StartsElsewhere
    <2> QED
        BY <2>4 DEF SuspendedIsSignalled
<1>3. ASSUME NEW r \in Runs, AdmissionRefused(r)
      PROVE  SuspendedIsSignalled'
    <2>1. PICK s \in SessionsFor(r) : Registrable(s) /\ StartSession(s, r, "cancelling")
        BY <1>3 DEF AdmissionRefused
    <2>2. UNCHANGED <<run, legs>>
        BY <1>3 DEF AdmissionRefused, rows
    <2>3. ASSUME NEW o \in Runs, run'[o] = "awaiting_input", NEW x \in LastSession(o)'
          PROVE  registry'[x] # "running"
        <3>1. run[o] = "awaiting_input" /\ x \in LastSession(o)
            BY <2>2, <2>3 DEF LastSession, LastLeg
        <3>2. CASE o # r
            BY <2>1, <3>1, <3>2, StartsElsewhere
        <3>3. CASE o = r
            <4>1. registry' = [registry EXCEPT ![s] = "cancelling"]
                BY <2>1 DEF StartSession
            <4>2. registry[x] # "running"
                BY <3>1 DEF SuspendedIsSignalled
            <4> QED
                BY <4>1, <4>2 DEF TypeOK
        <3> QED
            BY <3>2, <3>3
    <2> QED
        BY <2>3 DEF SuspendedIsSignalled
<1>4. ASSUME ~Starts, NEW o \in Runs, run[o] = "awaiting_input", NEW x \in LastSession(o)'
      PROVE  registry'[x] # "running"
    <2>1. NothingStarts
        BY <1>4, OnlyAdmitStarts DEF Starts
    <2>2. x \in LastSession(o) /\ x \in SessionIds
        BY <1>1, <1>4, <2>1, SameSession DEF LastSession
    <2> QED
        BY <1>4, <2>2, OnlyStartsRegister DEF SuspendedIsSignalled
<1>5. ASSUME NEW s \in SessionIds, Ask(s)
      PROVE  SuspendedIsSignalled'
    <2>1. PICK r \in Runs : ApplyAsk(r) /\ registry' = Signalled(Suspended(r))
        BY <1>5 DEF Ask
    <2>2. ~Starts \/ Starts
        OBVIOUS
    <2>3. run' = [run EXCEPT ![r] = "awaiting_input"]
        BY <2>1 DEF ApplyAsk, MoveRun, MoveRuns, TypeOK, RowTypeOK
    <2>4. ASSUME NEW o \in Runs, run'[o] = "awaiting_input", NEW x \in LastSession(o)'
          PROVE  registry'[x] # "running"
        <3>1. CASE Starts
            BY <1>2, <1>3, <2>4, <3>1 DEF Starts, SuspendedIsSignalled
        <3>2. CASE o = r
            <4>1. x \in Suspended(r)
                BY <2>4, <3>2 DEF Suspended
            <4>2. x \in SessionIds
                <5>1. legs'[o] # <<>> /\ x = LastLeg(o).session' /\ legs'[o] \in Seq(Leg)
                    BY <1>1, <2>4 DEF LastSession, TypeOK, RowTypeOK
                <5>2. legs'[o][Len(legs'[o])] \in Leg
                    BY <5>1
                <5> QED
                    BY <5>1, <5>2 DEF LastLeg, Leg
            <4> QED
                BY <2>1, <4>1, <4>2 DEF Signalled, Live
        <3>3. CASE ~Starts /\ o # r
            <4>1. run[o] = "awaiting_input"
                BY <2>3, <2>4, <3>3 DEF TypeOK, RowTypeOK
            <4> QED
                BY <1>4, <2>4, <3>3, <4>1
        <3> QED
            BY <3>1, <3>2, <3>3
    <2> QED
        BY <2>4 DEF SuspendedIsSignalled
<1>6. CASE ~Starts /\ \A s \in SessionIds : ~Ask(s)
    <2>1. \A o \in Runs : run'[o] = "awaiting_input" => run[o] = "awaiting_input"
        BY <1>6, OnlyAskParks
    <2> QED
        BY <1>4, <1>6, <2>1 DEF SuspendedIsSignalled
<1> QED
    BY <1>2, <1>3, <1>5, <1>6 DEF Starts

(* The session of a run that parked on a question has been told to stop,   *)
(* whatever fails and however the answer, the end of its turn and its next *)
(* launch interleave (SessionControl::suspend looks the session up after   *)
(* the transition, when the live view would no longer find it).            *)
THEOREM SuspendedTheorem == Spec => []SuspendedIsSignalled
<1>1. Init => SuspendedIsSignalled
    BY DEF Init, RowInit, SuspendedIsSignalled
<1>2. SessionsSound /\ SuspendedIsSignalled /\ [Next]_vars => SuspendedIsSignalled'
    BY SuspendedNext
<1> QED
    BY <1>1, <1>2, SessionsHold, PTL DEF Spec

-----------------------------------------------------------------------------
(* The question a run is parked on.                                        *)

LEMMA WhoWritesQuestions ==
    ASSUME TypeOK, [Next]_vars, \A s \in SessionIds : ~Ask(s),
           \A r \in Runs : ~Escalate(r) /\ ~AnswerQuestion(r)
    PROVE  UNCHANGED questions
<1>1. ASSUME NEW r \in Runs, ClientStep(r) \/ OfferStep(r)
      PROVE  UNCHANGED questions
    BY <1>1 DEF ClientStep, ApprovePlan, DiscardDraft, CancelRun, RetryRun, ReleaseWorktree,
        ReclaimWorktree, DisposeWorktree, ApplyApprove, ApplyDiscard, ApplyCancel, ApplyRetry,
        ApplyWorktree, OfferStep, Defer, LaunchFails, Admit, AdmissionRefused, ApplyAdmit, rows
<1>2. ASSUME NEW s \in SessionIds, WorkerStep(s)
      PROVE  UNCHANGED questions
    BY <1>2 DEF WorkerStep, SeesRunning, GivesUpWaiting, TurnEnds, Report, WorkerVanishes,
        RecordEnd, ApplyFinished, ApplyQuotaReached, ApplyAttemptFailed, rows
<1>3. CASE DaemonStep
    BY <1>3 DEF DaemonStep, PauseAdmissions, StopTeam, WaitForOccasion, BeginTick,
        LiftElapsedCaps, ReconcileBoot, BootTimers, ResumeReconciled, Shutdown, ProcessEnds,
        ApplyQuotaReset, ApplyReconcile, ApplyResume, rows
<1>4. CASE UNCHANGED vars \/ \E p \in Providers : ResetArrives(p)
    BY <1>4 DEF ResetArrives, vars, rows
<1> QED
    BY <1>1, <1>2, <1>3, <1>4 DEF Next

LEMMA QuestionNext ==
    ASSUME "answer" \notin Faults, TypeOK, ParkedOnAnOpenQuestion, [Next]_vars
    PROVE  ParkedOnAnOpenQuestion'
<1> SUFFICES ASSUME NEW r \in Runs, run'[r] = "awaiting_input"
             PROVE  /\ parkedOn'[r] \in DOMAIN questions'[r]
                    /\ questions'[r][parkedOn'[r]] = "open"
    BY DEF ParkedOnAnOpenQuestion
<1>1. questions[r] \in Seq({"open", "answered"})
    BY DEF TypeOK, RowTypeOK
<1>2. ASSUME run[r] = "awaiting_input", parkedOn'[r] = parkedOn[r],
             questions'[r] = questions[r] \/ questions'[r] = Append(questions[r], "open")
      PROVE  /\ parkedOn'[r] \in DOMAIN questions'[r]
             /\ questions'[r][parkedOn'[r]] = "open"
    <2>1. /\ parkedOn[r] \in DOMAIN questions[r]
          /\ questions[r][parkedOn[r]] = "open"
        BY <1>2 DEF ParkedOnAnOpenQuestion
    <2>2. CASE questions'[r] = questions[r]
        BY <1>2, <2>1, <2>2
    <2>3. CASE questions'[r] = Append(questions[r], "open")
        BY <1>1, <1>2, <2>1, <2>3
    <2> QED
        BY <1>2, <2>2, <2>3
<1>3. ASSUME NEW s \in SessionIds, Ask(s)
      PROVE  /\ parkedOn'[r] \in DOMAIN questions'[r]
             /\ questions'[r][parkedOn'[r]] = "open"
    <2>1. PICK o \in Runs : ApplyAsk(o)
        BY <1>3 DEF Ask
    <2>2. CASE o = r
        <3>1. parkedOn'[r] = Len(questions[r]) + 1 /\ questions'[r] = Append(questions[r], "open")
            BY <2>1, <2>2 DEF ApplyAsk, TypeOK, RowTypeOK
        <3> QED
            BY <1>1, <3>1
    <2>3. CASE o # r
        <3>1. /\ run[r] = "awaiting_input" /\ parkedOn'[r] = parkedOn[r]
              /\ questions'[r] = questions[r]
            BY <2>1, <2>3 DEF ApplyAsk, MoveRun, MoveRuns, TypeOK, RowTypeOK
        <3> QED
            BY <1>2, <3>1
    <2> QED
        BY <2>2, <2>3
<1>4. CASE \A s \in SessionIds : ~Ask(s)
    <2>1. run[r] = "awaiting_input" /\ parkedOn'[r] = parkedOn[r]
        BY <1>4, OnlyAskParks
    <2>2. ASSUME NEW o \in Runs, Escalate(o)
          PROVE  questions'[r] = questions[r] \/ questions'[r] = Append(questions[r], "open")
        BY <2>2 DEF Escalate, OpenQuestion, TypeOK, RowTypeOK
    <2>3. ASSUME NEW o \in Runs, AnswerQuestion(o)
          PROVE  questions'[r] = questions[r]
        <3>1. PICK q \in DOMAIN questions[o] :
                /\ ApplyAnswer(o, q)
                /\ \/ ApplyAnswered(o, q)
                   \/ run[o] # "awaiting_input"
            BY <2>3 DEF AnswerQuestion
        <3>2. run'[o] # "awaiting_input" \/ run[o] # "awaiting_input"
            BY <3>1 DEF ApplyAnswered, MoveRun, MoveRuns, TypeOK, RowTypeOK
        <3>3. o # r
            BY <2>1, <3>2
        <3> QED
            BY <3>1, <3>3 DEF ApplyAnswer, TypeOK, RowTypeOK
    <2>4. ASSUME \A o \in Runs : ~Escalate(o) /\ ~AnswerQuestion(o)
          PROVE  UNCHANGED questions
        BY <1>4, <2>4, WhoWritesQuestions
    <2>5. questions'[r] = questions[r] \/ questions'[r] = Append(questions[r], "open")
        <3>1. CASE \E o \in Runs : Escalate(o) \/ AnswerQuestion(o)
            BY <2>2, <2>3, <3>1
        <3>2. CASE \A o \in Runs : ~Escalate(o) /\ ~AnswerQuestion(o)
            BY <2>4, <3>2
        <3> QED
            BY <3>1, <3>2
    <2> QED
        BY <1>2, <2>1, <2>5
<1> QED
    BY <1>3, <1>4

(* A run waits for a person only on a question that person can still       *)
(* answer, as long as no answer stops between recording itself and moving  *)
(* the run (answer_question in crates/agens-server/src/api/team.rs, two    *)
(* transactions).                                                          *)
THEOREM QuestionTheorem ==
    ASSUME "answer" \notin Faults
    PROVE  Spec => []ParkedOnAnOpenQuestion
<1>1. Init => ParkedOnAnOpenQuestion
    BY DEF Init, RowInit, ParkedOnAnOpenQuestion
<1>2. TypeOK /\ ParkedOnAnOpenQuestion /\ [Next]_vars => ParkedOnAnOpenQuestion'
    BY QuestionNext
<1> QED
    BY <1>1, <1>2, TypeCorrect, PTL DEF Spec

-----------------------------------------------------------------------------
(* The provider a run is parked on.                                        *)

LEMMA WhoWritesQuota ==
    ASSUME TypeOK, [Next]_vars, ~LiftElapsedCaps, ~BootTimers,
           \A s \in SessionIds : ~Report(s), \A p \in Providers : ~ResetArrives(p)
    PROVE  /\ UNCHANGED quota
           /\ \A r \in Runs : run'[r] = "awaiting_quota" => run[r] = "awaiting_quota"
<1> USE DEF TypeOK, RowTypeOK, MoveRun, MoveRuns
<1>1. ASSUME NEW r \in Runs, ClientStep(r)
      PROVE  /\ UNCHANGED quota
             /\ \A o \in Runs : run'[o] = "awaiting_quota" => run[o] = "awaiting_quota"
    <2>1. CASE ApprovePlan(r) \/ DiscardDraft(r) \/ CancelRun(r) \/ RetryRun(r)
        <3>1. CASE ApprovePlan(r)
            BY <3>1 DEF ApprovePlan, ApplyApprove
        <3>2. CASE DiscardDraft(r)
            BY <3>2 DEF DiscardDraft, ApplyDiscard
        <3>3. CASE CancelRun(r)
            BY <3>3 DEF CancelRun, ApplyCancel
        <3>4. CASE RetryRun(r)
            BY <3>4 DEF RetryRun, ApplyRetry
        <3> QED
            BY <2>1, <3>1, <3>2, <3>3, <3>4
    <2>2. CASE Escalate(r)
        BY <2>2 DEF Escalate, OpenQuestion
    <2>3. CASE AnswerQuestion(r)
        BY <2>3 DEF AnswerQuestion, ApplyAnswered
    <2>4. CASE ReleaseWorktree(r) \/ ReclaimWorktree(r) \/ DisposeWorktree(r)
        BY <2>4 DEF ReleaseWorktree, ReclaimWorktree, DisposeWorktree, ApplyWorktree
    <2> QED
        BY <1>1, <2>1, <2>2, <2>3, <2>4 DEF ClientStep
<1>2. ASSUME NEW r \in Runs, OfferStep(r)
      PROVE  /\ UNCHANGED quota
             /\ \A o \in Runs : run'[o] = "awaiting_quota" => run[o] = "awaiting_quota"
    BY <1>2 DEF OfferStep, Defer, LaunchFails, Admit, ApplyAdmit, AdmissionRefused, rows
<1>3. ASSUME NEW s \in SessionIds, WorkerStep(s)
      PROVE  /\ UNCHANGED quota
             /\ \A o \in Runs : run'[o] = "awaiting_quota" => run[o] = "awaiting_quota"
    <2>1. CASE Ask(s)
        BY <2>1 DEF Ask, ApplyAsk
    <2>2. CASE \/ SeesRunning(s) \/ GivesUpWaiting(s) \/ TurnEnds(s)
               \/ WorkerVanishes(s) \/ RecordEnd(s)
        BY <2>2 DEF SeesRunning, GivesUpWaiting, TurnEnds, WorkerVanishes, RecordEnd, rows
    <2> QED
        BY <1>3, <2>1, <2>2 DEF WorkerStep
<1>4. CASE DaemonStep
    <2>1. CASE ReconcileBoot \/ ResumeReconciled
        BY <2>1 DEF ReconcileBoot, ResumeReconciled, ApplyReconcile, ApplyResume
    <2>2. CASE \/ PauseAdmissions \/ StopTeam \/ WaitForOccasion \/ BeginTick
               \/ Shutdown \/ ProcessEnds
        BY <2>2 DEF PauseAdmissions, StopTeam, WaitForOccasion, BeginTick, Shutdown,
            ProcessEnds, rows
    <2> QED
        BY <1>4, <2>1, <2>2 DEF DaemonStep
<1>5. CASE UNCHANGED vars
    BY <1>5 DEF vars, rows
<1> QED
    BY <1>1, <1>2, <1>3, <1>4, <1>5 DEF Next

\* A stage that is not cut short wakes every run parked on a provider it lifts.
LEMMA StageWakesAll ==
    ASSUME TypeOK, ParkedOnACappedProvider, ApplyQuotaReset(ParkedOnDue)
    PROVE  ParkedOnACappedProvider'
<1> SUFFICES ASSUME NEW r \in Runs, run'[r] = "awaiting_quota"
             PROVE  Capped(ProviderOf[r])'
    BY DEF ParkedOnACappedProvider
<1>1. ProviderOf[r] \in Providers
    BY RowAssumption DEF RowAssumption
<1>2. run[r] = "awaiting_quota" /\ r \notin ParkedOnDue
    BY DEF ApplyQuotaReset, MoveRuns
<1>3. quota[ProviderOf[r]] = "capped"
    BY <1>2 DEF ParkedOnDue, ParkedOnACappedProvider, Capped
<1>4. \A o \in ParkedOnDue : quota[ProviderOf[o]] = "due"
    BY DEF ParkedOnDue
<1>5. quota'[ProviderOf[r]] = quota[ProviderOf[r]]
    BY <1>1, <1>3, <1>4 DEF ApplyQuotaReset
<1> QED
    BY <1>3, <1>5 DEF Capped

LEMMA QuotaNext ==
    ASSUME "timer" \notin Faults, TypeOK, ParkedOnACappedProvider, [Next]_vars
    PROVE  ParkedOnACappedProvider'
<1>1. \A r \in Runs : ProviderOf[r] \in Providers
    BY RowAssumption DEF RowAssumption
<1>2. CASE LiftElapsedCaps
    <2>1. PICK last \in ParkedOnDue :
            /\ \A r \in ParkedOnDue : r <= last
            /\ ApplyQuotaReset(WokenBy(last))
        BY <1>2 DEF LiftElapsedCaps
    <2>2. WokenBy(last) = ParkedOnDue
        BY <2>1 DEF WokenBy
    <2> QED
        BY <2>1, <2>2, StageWakesAll
<1>3. CASE BootTimers
    BY <1>3, StageWakesAll DEF BootTimers
<1>4. ASSUME NEW s \in SessionIds, Report(s)
      PROVE  ParkedOnACappedProvider'
    <2>1. CASE UNCHANGED rows
        BY <2>1 DEF rows, ParkedOnACappedProvider, Capped
    <2>2. ASSUME NEW r \in Runs, ApplyFinished(r) \/ ApplyAttemptFailed(r)
          PROVE  ParkedOnACappedProvider'
        BY <2>2 DEF ApplyFinished, ApplyAttemptFailed, MoveRun, MoveRuns,
            ParkedOnACappedProvider, Capped
    <2>3. ASSUME NEW r \in Runs, ApplyQuotaReached(r)
          PROVE  ParkedOnACappedProvider'
        <3>1. quota' = [quota EXCEPT ![ProviderOf[r]] = "capped"]
            BY <2>3 DEF ApplyQuotaReached
        <3>2. \A o \in Runs \ {r} : run'[o] = run[o]
            BY <2>3 DEF ApplyQuotaReached, MoveRun, MoveRuns
        <3>3. ASSUME NEW o \in Runs, run'[o] = "awaiting_quota"
              PROVE  Capped(ProviderOf[o])'
            BY <1>1, <3>1, <3>2, <3>3 DEF ParkedOnACappedProvider, Capped, TypeOK, RowTypeOK
        <3> QED
            BY <3>3 DEF ParkedOnACappedProvider
    <2>4. sessionRun[s] \in Runs
        BY <1>4 DEF Report, TypeOK, Reports
    <2> QED
        BY <1>4, <2>1, <2>2, <2>3, <2>4 DEF Report
<1>5. ASSUME NEW p \in Providers, ResetArrives(p)
      PROVE  ParkedOnACappedProvider'
    BY <1>1, <1>5 DEF ResetArrives, ParkedOnACappedProvider, Capped, TypeOK, RowTypeOK
<1>6. CASE /\ ~LiftElapsedCaps /\ ~BootTimers
           /\ \A s \in SessionIds : ~Report(s)
           /\ \A p \in Providers : ~ResetArrives(p)
    <2>1. /\ UNCHANGED quota
          /\ \A r \in Runs : run'[r] = "awaiting_quota" => run[r] = "awaiting_quota"
        BY <1>6, WhoWritesQuota
    <2> QED
        BY <2>1 DEF ParkedOnACappedProvider, Capped
<1> QED
    BY <1>2, <1>3, <1>4, <1>5, <1>6

(* A run waits for quota only on a provider the wheel still finds due one  *)
(* day, as long as the stage that lifts a cap is not cut short: it clears  *)
(* the row with the first run it wakes, so one it leaves behind would      *)
(* never be looked at again (lift_elapsed_quota_caps in                    *)
(* crates/agens-server/src/timers/mod.rs).                                 *)
THEOREM QuotaTheorem ==
    ASSUME "timer" \notin Faults
    PROVE  Spec => []ParkedOnACappedProvider
<1>1. Init => ParkedOnACappedProvider
    BY DEF Init, RowInit, ParkedOnACappedProvider
<1>2. TypeOK /\ ParkedOnACappedProvider /\ [Next]_vars => ParkedOnACappedProvider'
    BY QuotaNext
<1> QED
    BY <1>1, <1>2, TypeCorrect, PTL DEF Spec

-----------------------------------------------------------------------------
(* The attempt a report speaks for.                                        *)

\* A thread works for the last attempt of its run, even one that is over.
ThreadOfLastLeg ==
    \A s \in SessionIds :
        worker[s] # "none" => /\ legs[sessionRun[s]] # <<>>
                              /\ LastLeg(sessionRun[s]).session = s

LEMMA OnlyStartsThread ==
    ASSUME TypeOK, [Next]_vars, ~Starts
    PROVE  /\ sessionRun' = sessionRun
           /\ \A s \in SessionIds : worker'[s] # "none" => worker[s] # "none"
<1> USE DEF TypeOK
<1>1. CASE \E r \in Runs :
              \/ ApprovePlan(r) \/ DiscardDraft(r) \/ CancelRun(r) \/ Escalate(r)
              \/ AnswerQuestion(r) \/ RetryRun(r) \/ ReleaseWorktree(r)
              \/ ReclaimWorktree(r) \/ DisposeWorktree(r) \/ Defer(r) \/ LaunchFails(r)
    <2>1. UNCHANGED <<worker, sessionRun>>
        BY <1>1 DEF ApprovePlan, DiscardDraft, CancelRun, Escalate, AnswerQuestion, RetryRun,
            ReleaseWorktree, ReclaimWorktree, DisposeWorktree, Defer, LaunchFails, memory, sessions
    <2> QED
        BY <2>1
<1>2. ASSUME NEW s \in SessionIds, WorkerStep(s)
      PROVE  /\ sessionRun' = sessionRun
             /\ \A x \in SessionIds : worker'[x] # "none" => worker[x] # "none"
    BY <1>2 DEF WorkerStep, SeesRunning, GivesUpWaiting, Ask, TurnEnds, Report, WorkerVanishes,
        RecordEnd, Reports
<1>3. CASE ProcessEnds
    BY <1>3 DEF ProcessEnds
<1>4. CASE \/ PauseAdmissions \/ StopTeam \/ WaitForOccasion \/ BeginTick \/ LiftElapsedCaps
           \/ ReconcileBoot \/ BootTimers \/ ResumeReconciled \/ Shutdown
           \/ (\E p \in Providers : ResetArrives(p)) \/ UNCHANGED vars
    <2>1. UNCHANGED <<worker, sessionRun>>
        BY <1>4 DEF PauseAdmissions, StopTeam, WaitForOccasion, BeginTick, LiftElapsedCaps,
            ReconcileBoot, BootTimers, ResumeReconciled, Shutdown, ResetArrives, vars, memory,
            sessions
    <2> QED
        BY <2>1
<1> QED
    BY <1>1, <1>2, <1>3, <1>4 DEF Starts, Next, ClientStep, OfferStep, DaemonStep

LEMMA ThreadOfLastLegNext ==
    ASSUME "admit" \notin Faults, "reopen" \notin Faults,
           TypeOK, ThreadOfLastLeg, [Next]_vars
    PROVE  ThreadOfLastLeg'
<1>1. TypeOK'
    BY TypeNext
<1>2. ASSUME NEW r \in Runs, Admit(r)
      PROVE  ThreadOfLastLeg'
    <2>1. PICK s \in SessionsFor(r) :
            Registrable(s) /\ ApplyAdmit(r, s) /\ StartSession(s, r, "running")
        BY <1>2 DEF Admit
    <2>2. s \in SessionIds /\ s = SessionFor(r)
        BY <2>1 DEF Registrable, SessionsFor
    <2> DEFINE leg == [session |-> s, outcome |-> "open"]
    <2>3. leg.session = s
        OBVIOUS
    <2>4. legs[r] \in Seq(Leg) /\ legs'[r] = Append(legs[r], leg)
          /\ \A o \in Runs \ {r} : legs'[o] = legs[o]
        BY <2>1 DEF ApplyAdmit, TypeOK, RowTypeOK
    <2> HIDE DEF leg
    <2>5. legs'[r] # <<>> /\ LastLeg(r).session' = s
        BY <2>3, <2>4 DEF LastLeg
    <2>6. /\ worker' = [worker EXCEPT ![s] = "polling"]
          /\ sessionRun' = [sessionRun EXCEPT ![s] = r]
        BY <2>1 DEF StartSession
    <2>7. ASSUME NEW x \in SessionIds, worker'[x] # "none", x # s
          PROVE  /\ legs'[sessionRun'[x]] # <<>>
                 /\ LastLeg(sessionRun[x]).session' = x
                 /\ sessionRun'[x] = sessionRun[x]
        <3>1. worker[x] # "none" /\ sessionRun'[x] = sessionRun[x]
            BY <2>6, <2>7 DEF TypeOK
        <3>2. /\ legs[sessionRun[x]] # <<>> /\ LastLeg(sessionRun[x]).session = x
              /\ sessionRun[x] \in Runs
            BY <3>1 DEF ThreadOfLastLeg, TypeOK
        <3>3. sessionRun[x] # r
            BY <2>2, <2>7, <3>2 DEF SessionFor
        <3>4. legs'[sessionRun[x]] = legs[sessionRun[x]]
            BY <2>4, <3>2, <3>3
        <3> QED
            BY <3>1, <3>2, <3>4 DEF LastLeg
    <2>8. sessionRun'[s] = r
        BY <2>2, <2>6 DEF TypeOK
    <2> QED
        BY <2>5, <2>7, <2>8 DEF ThreadOfLastLeg, LastLeg
<1>3. CASE \A r \in Runs : ~Admit(r)
    <2>1. ~Starts
        BY <1>3 DEF Starts, AdmissionRefused
    <2>2. NothingStarts
        BY <1>3, OnlyAdmitStarts
    <2>3. ASSUME NEW s \in SessionIds, worker'[s] # "none"
          PROVE  /\ legs'[sessionRun'[s]] # <<>>
                 /\ LastLeg(sessionRun[s]).session' = s
                 /\ sessionRun'[s] = sessionRun[s]
        <3>1. worker[s] # "none" /\ sessionRun'[s] = sessionRun[s]
            BY <2>1, <2>3, OnlyStartsThread
        <3>2. /\ legs[sessionRun[s]] # <<>> /\ LastLeg(sessionRun[s]).session = s
              /\ sessionRun[s] \in Runs
            BY <3>1 DEF ThreadOfLastLeg, TypeOK
        <3> QED
            BY <1>1, <2>2, <3>1, <3>2, SameSession
    <2> QED
        BY <2>3 DEF ThreadOfLastLeg, LastLeg
<1> QED
    BY <1>2, <1>3

(* A worker that may still report on a running run is the one its open     *)
(* attempt names, although a report carries no attempt and an earlier      *)
(* worker of the run may end at any time: a relaunch executes as the       *)
(* session of the last attempt (open_session in                            *)
(* crates/agens-cli/src/worker.rs) and is refused while that one is live   *)
(* (AlreadyLive in crates/agens-server/src/sessions.rs).  It rests on the  *)
(* store: an admission refused behind a launch leaves a thread of no       *)
(* attempt, a session that cannot be read back a second one.               *)
THEOREM ReportsTheorem ==
    ASSUME "admit" \notin Faults, "reopen" \notin Faults
    PROVE  Spec => []ReportsReachTheirOwnLeg
<1>1. Init => ThreadOfLastLeg
    BY DEF Init, MemoryInit, ThreadOfLastLeg
<1>2. TypeOK /\ ThreadOfLastLeg /\ [Next]_vars => ThreadOfLastLeg'
    BY ThreadOfLastLegNext
<1>3. ThreadOfLastLeg => ReportsReachTheirOwnLeg
    BY DEF ThreadOfLastLeg, ReportsReachTheirOwnLeg
<1> QED
    BY <1>1, <1>2, <1>3, TypeCorrect, PTL DEF Spec

-----------------------------------------------------------------------------
(* The thread behind a running run.                                        *)

\* Between the reconciliation and the loops nothing is called running.
NothingRunsAtBoot == phase = "reconciled" => \A r \in Runs : run[r] # "running"

\* A thread that will still report, or park its run.
AtWork(s) == worker[s] \in {"polling", "turn"} \cup Reports

ThreadAtWork ==
    Looping => \A r \in Runs : run[r] = "running" => AtWork(LastLeg(r).session)

LEMMA NothingRunsAtBootNext ==
    ASSUME TypeOK, QuietAtBoot, NothingRunsAtBoot, [Next]_vars
    PROVE  NothingRunsAtBoot'
<1>1. CASE ReconcileBoot
    BY <1>1 DEF ReconcileBoot, ApplyReconcile, MoveRuns, Running, NothingRunsAtBoot
<1>2. ASSUME NEW r \in Runs, Admit(r)
      PROVE  NothingRunsAtBoot'
    <2>1. phase # "reconciled"
        BY <1>2 DEF Admit, NextInQueue, QuietAtBoot, Looping
    <2> QED
        BY <1>2, <2>1 DEF Admit, DoneWith, NothingRunsAtBoot
<1>3. CASE ~ReconcileBoot /\ \A r \in Runs : ~Admit(r)
    <2>1. \A r \in Runs : run'[r] = "running" => run[r] = "running"
        BY <1>3, OnlyAdmitRuns
    <2>2. phase' = "reconciled" => phase = "reconciled"
        <3>1. ASSUME NEW r \in Runs, ClientStep(r) \/ OfferStep(r)
              PROVE  phase' = phase
            BY <3>1 DEF ClientStep, ApprovePlan, DiscardDraft, CancelRun, Escalate,
                AnswerQuestion, RetryRun, ReleaseWorktree, ReclaimWorktree, DisposeWorktree,
                OfferStep, Defer, LaunchFails, Admit, AdmissionRefused, DoneWith
        <3>2. ASSUME NEW s \in SessionIds, WorkerStep(s)
              PROVE  phase' = phase
            BY <3>2 DEF WorkerStep, SeesRunning, GivesUpWaiting, Ask, TurnEnds, Report,
                WorkerVanishes, RecordEnd
        <3>3. CASE DaemonStep
            BY <1>3, <3>3 DEF DaemonStep, PauseAdmissions, StopTeam, WaitForOccasion, BeginTick,
                LiftElapsedCaps, BootTimers, ResumeReconciled, Shutdown, ProcessEnds
        <3>4. CASE UNCHANGED vars \/ \E p \in Providers : ResetArrives(p)
            BY <3>4 DEF ResetArrives, vars
        <3> QED
            BY <3>1, <3>2, <3>3, <3>4 DEF Next
    <2> QED
        BY <2>1, <2>2 DEF NothingRunsAtBoot
<1> QED
    BY <1>1, <1>2, <1>3

\* A thread at work goes on, ends with its run, or goes down with the process.
LEMMA GoesOnWorking ==
    ASSUME "setup" \notin Faults, "report" \notin Faults, TypeOK, [Next]_vars, ~Starts,
           NEW x \in SessionIds, AtWork(x), NEW r \in Runs, sessionRun[x] = r,
           run[r] = "running", run'[r] = "running", Looping'
    PROVE  AtWork(x)'
<1> USE DEF TypeOK
<1>1. CASE \E o \in Runs :
              \/ ApprovePlan(o) \/ DiscardDraft(o) \/ CancelRun(o) \/ Escalate(o)
              \/ AnswerQuestion(o) \/ RetryRun(o) \/ ReleaseWorktree(o)
              \/ ReclaimWorktree(o) \/ DisposeWorktree(o) \/ Defer(o) \/ LaunchFails(o)
    <2>1. UNCHANGED worker
        BY <1>1 DEF ApprovePlan, DiscardDraft, CancelRun, Escalate, AnswerQuestion, RetryRun,
            ReleaseWorktree, ReclaimWorktree, DisposeWorktree, Defer, LaunchFails, memory, sessions
    <2> QED
        BY <2>1 DEF AtWork
<1>2. ASSUME NEW s \in SessionIds, WorkerStep(s)
      PROVE  AtWork(x)'
    <2>1. CASE Report(s)
        <3>1. worker' = [worker EXCEPT ![s] = "exiting"]
            BY <2>1 DEF Report
        <3>2. ~(s = x)
            BY <2>1 DEF Report, ApplyFinished, ApplyQuotaReached, ApplyAttemptFailed, MoveRun,
                MoveRuns
        <3> QED
            BY <3>1, <3>2 DEF AtWork
    <2>2. CASE TurnEnds(s)
        BY <2>2 DEF TurnEnds, AtWork
    <2>3. CASE RecordEnd(s)
        <3>1. worker' = [worker EXCEPT ![s] = "none"] /\ worker[s] = "exiting"
            BY <2>3 DEF RecordEnd
        <3>2. s # x
            BY <3>1 DEF AtWork, Reports
        <3> QED
            BY <3>1, <3>2 DEF AtWork
    <2>4. CASE SeesRunning(s) \/ GivesUpWaiting(s) \/ Ask(s)
        BY <2>4 DEF SeesRunning, GivesUpWaiting, Ask, AtWork, Reports
    <2>5. ~WorkerVanishes(s)
        BY DEF WorkerVanishes
    <2> QED
        BY <1>2, <2>1, <2>2, <2>3, <2>4, <2>5 DEF WorkerStep
<1>3. ~ProcessEnds
    BY DEF ProcessEnds, Looping
<1>4. CASE \/ PauseAdmissions \/ StopTeam \/ WaitForOccasion \/ BeginTick \/ LiftElapsedCaps
           \/ ReconcileBoot \/ BootTimers \/ ResumeReconciled \/ Shutdown
           \/ (\E p \in Providers : ResetArrives(p)) \/ UNCHANGED vars
    <2>1. UNCHANGED worker
        BY <1>4 DEF PauseAdmissions, StopTeam, WaitForOccasion, BeginTick, LiftElapsedCaps,
            ReconcileBoot, BootTimers, ResumeReconciled, Shutdown, ResetArrives, vars, memory,
            sessions
    <2> QED
        BY <2>1 DEF AtWork
<1> QED
    BY <1>1, <1>2, <1>3, <1>4 DEF Starts, Next, ClientStep, OfferStep, DaemonStep

\* A launch disturbs no session a running run executes in.
LEMMA StartsBeside ==
    ASSUME SessionsSound, ThreadAtWork, NEW r \in Runs, NEW s \in SessionsFor(r),
           Registrable(s), NEW state, StartSession(s, r, state), Looping,
           NEW o \in Runs, run[o] = "running"
    PROVE  AtWork(LastLeg(o).session)' \/ legs'[o] # legs[o]
<1> USE DEF SessionsSound
<1> DEFINE x == LastLeg(o).session
<1>1. legs[o] # <<>> /\ legs[o] \in Seq(Leg)
    BY DEF LegOpenIffRunning, TypeOK, RowTypeOK
<1>2. Len(legs[o]) \in DOMAIN legs[o]
    BY <1>1
<1>3. legs[o][Len(legs[o])] \in Leg
    BY <1>1, <1>2
<1>4. x \in SessionIds
    BY <1>3 DEF LastLeg, Leg
<1>5. AtWork(x)
    BY DEF ThreadAtWork
<1>6. x \in Live
    BY <1>4, <1>5 DEF AtWork, Reports, LiveHasThread
<1>7. x # s
    BY <1>6 DEF Registrable
<1>8. worker'[x] = worker[x]
    BY <1>4, <1>7 DEF StartSession, TypeOK
<1>9. ASSUME legs'[o] = legs[o]
      PROVE  AtWork(LastLeg(o).session)'
    BY <1>5, <1>8, <1>9 DEF AtWork, LastLeg
<1> QED
    BY <1>9

LEMMA ThreadAtWorkNext ==
    ASSUME "setup" \notin Faults, "report" \notin Faults, SessionsSound, NothingRunsAtBoot,
           ThreadAtWork, [Next]_vars
    PROVE  ThreadAtWork'
<1> USE DEF SessionsSound
<1>1. TypeOK'
    BY TypeNext
<1>2. ASSUME NEW r \in Runs, Admit(r)
      PROVE  ThreadAtWork'
    <2>1. PICK s \in SessionsFor(r) :
            Registrable(s) /\ ApplyAdmit(r, s) /\ StartSession(s, r, "running")
        BY <1>2 DEF Admit
    <2>2. s \in SessionIds /\ Looping
        BY <1>2, <2>1 DEF Registrable, Admit, NextInQueue, QuietAtBoot
    <2> DEFINE leg == [session |-> s, outcome |-> "open"]
    <2>3. leg.session = s
        OBVIOUS
    <2>4. legs[r] \in Seq(Leg) /\ legs'[r] = Append(legs[r], leg)
          /\ \A o \in Runs \ {r} : legs'[o] = legs[o]
        BY <2>1 DEF ApplyAdmit, TypeOK, RowTypeOK
    <2> HIDE DEF leg
    <2>5. LastLeg(r).session' = s
        BY <2>3, <2>4 DEF LastLeg
    <2>6. worker'[s] = "polling"
        BY <2>1, <2>2 DEF StartSession, TypeOK
    <2>7. ASSUME NEW o \in Runs, run'[o] = "running"
          PROVE  AtWork(LastLeg(o).session)'
        <3>1. CASE o = r
            BY <2>5, <2>6, <3>1 DEF AtWork
        <3>2. CASE o # r
            <4>1. run[o] = "running"
                BY <2>1, <2>7, <3>2 DEF ApplyAdmit, MoveRun, MoveRuns
            <4> QED
                BY <2>1, <2>2, <2>4, <3>2, <4>1, StartsBeside
        <3> QED
            BY <3>1, <3>2
    <2> QED
        BY <2>7 DEF ThreadAtWork
<1>3. ASSUME NEW r \in Runs, AdmissionRefused(r)
      PROVE  ThreadAtWork'
    <2>1. PICK s \in SessionsFor(r) : Registrable(s) /\ StartSession(s, r, "cancelling")
        BY <1>3 DEF AdmissionRefused
    <2>2. Looping /\ UNCHANGED <<run, legs>>
        BY <1>3 DEF AdmissionRefused, NextInQueue, QuietAtBoot, rows
    <2>3. ASSUME NEW o \in Runs, run'[o] = "running"
          PROVE  AtWork(LastLeg(o).session)'
        BY <2>1, <2>2, <2>3, StartsBeside
    <2> QED
        BY <2>3 DEF ThreadAtWork
<1>4. CASE ~Starts
    <2>1. NothingStarts
        BY <1>4, OnlyAdmitStarts DEF Starts
    <2>2. ASSUME NEW r \in Runs, run'[r] = "running", Looping'
          PROVE  AtWork(LastLeg(r).session)'
        <3>1. run[r] = "running"
            BY <2>1, <2>2 DEF NothingStarts
        <3>2. Looping
            <4>1. CASE BootTimers
                BY <3>1, <4>1 DEF BootTimers, NothingRunsAtBoot
            <4>2. CASE ~BootTimers
                <5>1. ASSUME NEW o \in Runs, ClientStep(o) \/ OfferStep(o)
                      PROVE  phase' = phase
                    BY <5>1 DEF ClientStep, ApprovePlan, DiscardDraft, CancelRun, Escalate,
                        AnswerQuestion, RetryRun, ReleaseWorktree, ReclaimWorktree,
                        DisposeWorktree, OfferStep, Defer, LaunchFails, Admit,
                        AdmissionRefused, DoneWith
                <5>2. ASSUME NEW s \in SessionIds, WorkerStep(s)
                      PROVE  phase' = phase
                    BY <5>2 DEF WorkerStep, SeesRunning, GivesUpWaiting, Ask, TurnEnds, Report,
                        WorkerVanishes, RecordEnd
                <5>3. CASE DaemonStep
                    BY <2>2, <4>2, <5>3 DEF DaemonStep, PauseAdmissions, StopTeam,
                        WaitForOccasion, BeginTick, LiftElapsedCaps, ReconcileBoot,
                        ResumeReconciled, Shutdown, ProcessEnds, Serving, Looping, Called
                <5>4. CASE UNCHANGED vars \/ \E p \in Providers : ResetArrives(p)
                    BY <2>2, <5>4 DEF ResetArrives, vars, Looping
                <5> QED
                    BY <2>2, <5>1, <5>2, <5>3, <5>4 DEF Next, Looping
            <4> QED
                BY <4>1, <4>2
        <3>3. legs[r] # <<>>
            BY <3>1 DEF LegOpenIffRunning
        <3>4. /\ LastLeg(r).session' = LastLeg(r).session /\ LastLeg(r).session \in SessionIds
              /\ Len(legs[r]) \in DOMAIN legs[r]
            BY <1>1, <2>1, <3>3, SameSession
        <3>5. sessionRun[LastLeg(r).session] = r
            BY <3>4 DEF Owned, LastLeg
        <3>6. AtWork(LastLeg(r).session)
            BY <3>1, <3>2 DEF ThreadAtWork
        <3> DEFINE x == LastLeg(r).session
        <3>7. AtWork(x)'
            BY <1>4, <2>2, <3>1, <3>4, <3>5, <3>6, GoesOnWorking
        <3> QED
            BY <3>4, <3>7
    <2> QED
        BY <2>2 DEF ThreadAtWork
<1> QED
    BY <1>2, <1>3, <1>4 DEF Starts

(* A run the rows call running is being executed, through every restart,   *)
(* park, cancel and relaunch, refused admissions included, as long as no   *)
(* worker ends without its report being stored (the launch comes before    *)
(* the transition in crates/agens-server/src/scheduler/mod.rs, the report  *)
(* before record_end).                                                     *)
THEOREM ExecutedTheorem ==
    ASSUME "setup" \notin Faults, "report" \notin Faults
    PROVE  Spec => []RunningIsExecuted
<1>1. Init => NothingRunsAtBoot /\ ThreadAtWork
    BY DEF Init, RowInit, NothingRunsAtBoot, ThreadAtWork
<1>2. /\ SessionsSound /\ NothingRunsAtBoot /\ [Next]_vars => NothingRunsAtBoot'
      /\ SessionsSound /\ NothingRunsAtBoot /\ ThreadAtWork /\ [Next]_vars => ThreadAtWork'
    BY NothingRunsAtBootNext, ThreadAtWorkNext DEF SessionsSound
<1>3. SessionsSound /\ ThreadAtWork => RunningIsExecuted
    <2> SUFFICES ASSUME SessionsSound, ThreadAtWork, Looping, NEW r \in Running
                 PROVE  /\ LastLeg(r).session \in Live
                        /\ sessionRun[LastLeg(r).session] = r
                        /\ worker[LastLeg(r).session] \notin {"none", "exiting"}
        BY DEF RunningIsExecuted
    <2>1. r \in Runs /\ run[r] = "running"
        BY DEF Running
    <2>2. legs[r] # <<>> /\ legs[r] \in Seq(Leg)
        BY <2>1 DEF SessionsSound, LegOpenIffRunning, TypeOK, RowTypeOK
    <2>3. Len(legs[r]) \in DOMAIN legs[r]
        BY <2>2
    <2>4. LastLeg(r).session \in SessionIds
        <3>1. legs[r][Len(legs[r])] \in Leg
            BY <2>2, <2>3
        <3> QED
            BY <3>1 DEF Leg, LastLeg
    <2>5. AtWork(LastLeg(r).session)
        BY <2>1 DEF ThreadAtWork
    <2>6. worker[LastLeg(r).session] \notin {"none", "exiting"}
        BY <2>5 DEF AtWork, Reports
    <2>7. LastLeg(r).session \in Live
        BY <2>4, <2>6 DEF SessionsSound, LiveHasThread
    <2>8. sessionRun[LastLeg(r).session] = r
        BY <2>1, <2>3 DEF SessionsSound, Owned, LastLeg
    <2> QED
        BY <2>6, <2>7, <2>8
<1> QED
    BY <1>1, <1>2, <1>3, SessionsHold, PTL DEF Spec
=============================================================================
