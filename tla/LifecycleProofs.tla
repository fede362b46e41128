---------------------------- MODULE LifecycleProofs ----------------------------
(***************************************************************************)
(* Coordinator implements RunLifecycle, for every value of the constants.  *)
(*                                                                         *)
(* Under the mapping a run is working while it has an open attempt, and    *)
(* has spent the attempts that settled.  RunMove says what a step of the   *)
(* rows does to one run; counting its settled attempts before and after    *)
(* gives the step of the promise.                                          *)
(***************************************************************************)
EXTENDS CoordinatorProofs

Closes(r, outcome) ==
    legs'[r] = [i \in DOMAIN legs[r] |->
                  IF legs[r][i].outcome = "open"
                  THEN [legs[r][i] EXCEPT !.outcome = outcome]
                  ELSE legs[r][i]]

\* A run without an open attempt goes to the queue, or is discarded.
Requeued(r) ==
    /\ legs'[r] = legs[r]
    /\ \/ run[r] = "draft" /\ run'[r] \in {"queued", "cancelled"}
       \/ run[r] \in ResumedFrom /\ run'[r] = "queued"
       \/ run[r] \in {"done", "failed"} /\ Charged(r) < RetryBudget /\ run'[r] = "queued"

Admitted(r) ==
    /\ run[r] = "queued" /\ run'[r] = "running"
    /\ \E s \in SessionIds : legs'[r] = Append(legs[r], [session |-> s, outcome |-> "open"])

Settled(r) ==
    /\ run[r] = "running" /\ run'[r] \in {"done", "failed"}
    /\ \E outcome \in {"succeeded", "failed"} : Closes(r, outcome)

Interrupted(r) ==
    /\ \/ run[r] = "running" /\ run'[r] \in ResumedFrom
       \/ run[r] \in Cancellable /\ run'[r] = "cancelled"
    /\ Closes(r, "interrupted")

RunMove(r) ==
    \/ run'[r] = run[r] /\ legs'[r] = legs[r]
    \/ Requeued(r)
    \/ Admitted(r)
    \/ Settled(r)
    \/ Interrupted(r)

-----------------------------------------------------------------------------
(* Whatever a step does to the rows, each run makes one of these moves.    *)
LEMMA EveryRunMoves ==
    ASSUME TypeOK, RowsStep, NEW r \in Runs
    PROVE  RunMove(r)
<1> USE DEF MoveRun, MoveRuns, ResumedFrom
<1>1. CASE UNCHANGED <<run, legs>>
    BY <1>1 DEF RunMove
<1>2. ASSUME NEW o \in Runs, ApplyApprove(o) \/ ApplyDiscard(o) \/ ApplyRetry(o)
      PROVE  RunMove(r)
    BY <1>2 DEF ApplyApprove, ApplyDiscard, ApplyRetry, RunMove, Requeued
<1>3. ASSUME NEW o \in Runs, NEW q \in DOMAIN questions[o], ApplyAnswered(o, q)
      PROVE  RunMove(r)
    BY <1>3 DEF ApplyAnswered, RunMove, Requeued
<1>4. ASSUME NEW moved \in SUBSET Runs, ApplyQuotaReset(moved) \/ ApplyResume(moved)
      PROVE  RunMove(r)
    BY <1>4 DEF ApplyQuotaReset, ApplyResume, RunMove, Requeued
<1>5. ASSUME NEW o \in Runs, NEW s \in SessionIds, ApplyAdmit(o, s)
      PROVE  RunMove(r)
    <2>1. legs' = [legs EXCEPT ![o] = Append(legs[o], [session |-> s, outcome |-> "open"])]
        BY <1>5 DEF ApplyAdmit
    <2>2. CASE r = o
        <3>1. legs'[r] = Append(legs[r], [session |-> s, outcome |-> "open"])
            BY <2>1, <2>2 DEF TypeOK, RowTypeOK
        <3>2. run[r] = "queued" /\ run'[r] = "running"
            BY <1>5, <2>2 DEF ApplyAdmit
        <3>3. QED
            BY <3>1, <3>2 DEF RunMove, Admitted
    <2>3. CASE r # o
        <3>1. legs'[r] = legs[r] /\ run'[r] = run[r]
            BY <1>5, <2>1, <2>3 DEF ApplyAdmit, TypeOK, RowTypeOK
        <3>2. QED
            BY <3>1 DEF RunMove
    <2>4. QED
        BY <2>2, <2>3
<1>6. ASSUME NEW moved \in SUBSET Runs, NEW outcome, CloseLegs(moved, outcome)
      PROVE  IF r \in moved THEN Closes(r, outcome) ELSE legs'[r] = legs[r]
    BY <1>6 DEF CloseLegs, Closes
<1>7. ASSUME NEW o \in Runs, ApplyFinished(o) \/ ApplyAttemptFailed(o)
      PROVE  RunMove(r)
    <2>1. /\ run[o] = "running"
          /\ \E to \in {"done", "failed"} : run' = [n \in Runs |-> IF n \in {o} THEN to ELSE run[n]]
          /\ \E outcome \in {"succeeded", "failed"} : CloseLegs({o}, outcome)
        BY <1>7 DEF ApplyFinished, ApplyAttemptFailed
    <2>2. QED
        BY <1>6, <2>1 DEF RunMove, Settled
<1>8. ASSUME NEW o \in Runs, ApplyAsk(o) \/ ApplyQuotaReached(o) \/ ApplyCancel(o)
      PROVE  RunMove(r)
    <2>1. /\ CloseLegs({o}, "interrupted")
          /\ \/ /\ run[o] = "running"
                /\ \E to \in ResumedFrom : run' = [n \in Runs |-> IF n \in {o} THEN to ELSE run[n]]
             \/ /\ run[o] \in Cancellable
                /\ run' = [n \in Runs |-> IF n \in {o} THEN "cancelled" ELSE run[n]]
        BY <1>8 DEF ApplyAsk, ApplyQuotaReached, ApplyCancel
    <2>2. QED
        BY <1>6, <2>1 DEF RunMove, Interrupted
<1>9. ASSUME NEW moved \in SUBSET Runs, ApplyReconcile(moved)
      PROVE  RunMove(r)
    BY <1>6, <1>9 DEF ApplyReconcile, RunMove, Interrupted
<1>10. QED
    BY <1>1, <1>2, <1>3, <1>4, <1>5, <1>7, <1>8, <1>9
    DEF RowsStep, rows, OpenQuestion, ApplyWorktree

-----------------------------------------------------------------------------
(* The attempts a run settled with.                                        *)
SpentLegs(r) == {i \in DOMAIN legs[r] : legs[r][i].outcome \in {"succeeded", "failed"}}

LEMMA SpentFinite ==
    ASSUME TypeOK, NEW r \in Runs
    PROVE  /\ IsFiniteSet(SpentLegs(r)) /\ Spent(r) = Cardinality(SpentLegs(r))
           /\ Spent(r) \in Nat /\ Spent(r) <= Charged(r)
<1>1. SpentLegs(r) \in SUBSET ChargedLegs(r)
    BY DEF SpentLegs, ChargedLegs
<1>2. IsFiniteSet(SpentLegs(r)) /\ Cardinality(SpentLegs(r)) <= Charged(r)
    BY <1>1, ChargedFinite, FS_Subset
<1>3. Spent(r) = Cardinality(SpentLegs(r))
    BY DEF Spent, SpentLegs
<1>4. QED
    BY <1>2, <1>3, FS_CardinalityType

(* An attempt that opens costs nothing yet.                                *)
LEMMA OpeningSpendsNothing ==
    ASSUME TypeOK, NEW r \in Runs, Admitted(r)
    PROVE  Spent(r)' = Spent(r)
<1>1. PICK s \in SessionIds : legs'[r] = Append(legs[r], [session |-> s, outcome |-> "open"])
    BY DEF Admitted
<1>2. legs[r] \in Seq(Leg) /\ [session |-> s, outcome |-> "open"] \in Leg
    BY DEF TypeOK, RowTypeOK, Leg, Outcomes
<1>3. /\ DOMAIN legs'[r] = DOMAIN legs[r] \cup {Len(legs[r]) + 1}
      /\ legs'[r][Len(legs[r]) + 1].outcome = "open"
      /\ \A i \in DOMAIN legs[r] : legs'[r][i] = legs[r][i]
    BY <1>1, <1>2
<1>4. SpentLegs(r)' = SpentLegs(r)
    BY <1>3 DEF SpentLegs
<1>5. QED
    BY <1>4 DEF Spent, SpentLegs

(* The open attempt of a run, if it has one, is its last: ending it costs  *)
(* one when it settles and nothing when it is interrupted.                 *)
LEMMA ClosingSpends ==
    ASSUME TypeOK, LegOpenIffRunning, NEW r \in Runs,
           NEW outcome \in Outcomes \ {"open"}, Closes(r, outcome)
    PROVE  /\ outcome = "interrupted" => Spent(r)' = Spent(r)
           /\ outcome # "interrupted" /\ run[r] = "running" => Spent(r)' = Spent(r) + 1
<1>1. legs[r] \in Seq(Leg)
    BY DEF TypeOK, RowTypeOK
<1>2. /\ DOMAIN legs'[r] = DOMAIN legs[r]
      /\ \A i \in DOMAIN legs[r] :
           legs'[r][i] = IF legs[r][i].outcome = "open"
                         THEN [legs[r][i] EXCEPT !.outcome = outcome]
                         ELSE legs[r][i]
    BY DEF Closes
<1>3. ASSUME NEW i \in DOMAIN legs[r]
      PROVE  legs'[r][i].outcome =
               IF legs[r][i].outcome = "open" THEN outcome ELSE legs[r][i].outcome
    <2>1. legs[r][i] \in Leg
        BY <1>1
    <2>2. QED
        BY <1>2, <2>1 DEF Leg
<1>4. ASSUME outcome = "interrupted"
      PROVE  Spent(r)' = Spent(r)
    <2>1. SpentLegs(r)' = SpentLegs(r)
        BY <1>2, <1>3, <1>4 DEF SpentLegs
    <2>2. QED
        BY <2>1 DEF Spent, SpentLegs
<1>5. ASSUME outcome # "interrupted", run[r] = "running"
      PROVE  Spent(r)' = Spent(r) + 1
    <2>1. /\ Len(legs[r]) \in DOMAIN legs[r]
          /\ \A i \in DOMAIN legs[r] : legs[r][i].outcome = "open" <=> i = Len(legs[r])
        BY <1>1, <1>5 DEF LegOpenIffRunning
    <2>2. outcome \in {"succeeded", "failed"}
        BY <1>5 DEF Outcomes
    <2>3. SpentLegs(r)' = SpentLegs(r) \cup {Len(legs[r])}
        BY <1>2, <1>3, <2>1, <2>2 DEF SpentLegs
    <2>4. Len(legs[r]) \notin SpentLegs(r)
        BY <2>1 DEF SpentLegs
    <2>5. Cardinality(SpentLegs(r)') = Cardinality(SpentLegs(r)) + 1
        BY <2>3, <2>4, SpentFinite, FS_AddElement
    <2>6. QED
        BY <2>5, SpentFinite DEF Spent, SpentLegs
<1>6. QED
    BY <1>4, <1>5

-----------------------------------------------------------------------------
(* A run is working exactly while it is running, before and after a step.  *)
LEMMA WorkingIsRunning ==
    ASSUME TypeOK, TypeOK', LegOpenIffRunning, LegOpenIffRunning', NEW r \in Runs
    PROVE  /\ (\E i \in DOMAIN legs[r] : legs[r][i].outcome = "open") <=> run[r] = "running"
           /\ (\E i \in DOMAIN legs'[r] : legs'[r][i].outcome = "open") <=> run'[r] = "running"
<1>1. legs[r] \in Seq(Leg) /\ legs'[r] \in Seq(Leg)
    BY DEF TypeOK, RowTypeOK
<1>2. (\E i \in DOMAIN legs[r] : legs[r][i].outcome = "open") <=> run[r] = "running"
    BY <1>1 DEF LegOpenIffRunning
<1>3. (\E i \in DOMAIN legs'[r] : legs'[r][i].outcome = "open") <=> run'[r] = "running"
    BY <1>1 DEF LegOpenIffRunning
<1>4. QED
    BY <1>2, <1>3

(* Each move of a run is one it was promised.                              *)
LEMMA MoveIsPromised ==
    ASSUME TypeOK, TypeOK', LegOpenIffRunning, LegOpenIffRunning', NEW r \in Runs, RunMove(r)
    PROVE  Promised!Step(r) \/ Promised!Stays(r)
<1> DEFINE mapped == [n \in Runs |-> \E i \in DOMAIN legs[n] : legs[n][i].outcome = "open"]
           spent == [n \in Runs |-> Spent(n)]
<1>1. (mapped[r] <=> run[r] = "running") /\ (mapped'[r] <=> run'[r] = "running")
    BY WorkingIsRunning, Zenon
<1>2. mapped[r] \in BOOLEAN /\ mapped'[r] \in BOOLEAN
    BY Zenon
<1>3. spent[r] = Spent(r) /\ spent'[r] = Spent(r)' /\ Spent(r) \in Nat /\ Spent(r) <= Charged(r)
    BY SpentFinite
<1>4. run[r] \in RunStates /\ run'[r] \in RunStates
    BY DEF TypeOK, RowTypeOK
<1>5. \A to, open, cost : Promised!Moves(r, to, open, cost) <=>
        run'[r] = to /\ mapped'[r] = open /\ spent'[r] = spent[r] + cost
    BY Zenon DEF Promised!Moves
<1>6. run'[r] = run[r] /\ mapped'[r] = mapped[r] /\ spent'[r] = spent[r] + 0
        => Promised!Stays(r)
    BY Zenon DEF Promised!Stays, Promised!Moves
<1> HIDE DEF mapped, spent
<1>7. mapped[r] = (run[r] = "running") /\ mapped'[r] = (run'[r] = "running")
    BY <1>1, <1>2, Zenon
<1>8. CASE run'[r] = run[r] /\ legs'[r] = legs[r]
    <2>1. Spent(r)' = Spent(r)
        BY <1>8 DEF Spent
    <2>2. mapped'[r] = mapped[r]
        BY <1>7, <1>8, Zenon
    <2>3. spent'[r] = spent[r] + 0
        BY <1>3, <2>1
    <2>4. Promised!Stays(r)
        BY <1>6, <1>8, <2>2, <2>3, Zenon
    <2>5. QED
        BY <2>4
<1>9. CASE Requeued(r)
    <2>1. Spent(r)' = Spent(r)
        BY <1>9 DEF Spent, Requeued
    <2>2. spent'[r] = spent[r] + 0
        BY <1>3, <2>1
    <2>3. run'[r] # "running"
        BY <1>9 DEF Requeued
    <2>4. mapped'[r] = FALSE
        BY <1>1, <1>2, <2>3, Zenon
    <2>5. Promised!Moves(r, run'[r], FALSE, 0)
        BY <1>5, <2>2, <2>4, Zenon
    <2>6. CASE run[r] = "draft" /\ run'[r] = "queued"
        BY <2>5, <2>6 DEF Promised!Step, Promised!Approve
    <2>7. CASE run[r] = "draft" /\ run'[r] = "cancelled"
        BY <2>5, <2>7 DEF Promised!Step, Promised!Drop, Promised!Settled
    <2>8. CASE run[r] \in ResumedFrom /\ run'[r] = "queued"
        BY <2>5, <2>8 DEF Promised!Step, Promised!Unpark, Promised!Parked, ResumedFrom
    <2>9. CASE run[r] \in {"done", "failed"} /\ Charged(r) < RetryBudget /\ run'[r] = "queued"
        <3>1. spent[r] < RetryBudget
            BY <1>3, <2>9, ChargedFinite, RowAssumption
        <3>2. QED
            BY <2>5, <2>9, <3>1 DEF Promised!Step, Promised!Retry, Promised!Settled, spent
    <2>10. QED
        BY <1>9, <2>6, <2>7, <2>8, <2>9 DEF Requeued
<1>10. CASE Admitted(r)
    <2>1. spent'[r] = spent[r] + 0
        BY <1>3, <1>10, OpeningSpendsNothing
    <2>2. run[r] = "queued" /\ run'[r] = "running"
        BY <1>10 DEF Admitted
    <2>3. mapped'[r] = TRUE
        BY <1>1, <1>2, <2>2, Zenon
    <2>4. Promised!Moves(r, "running", TRUE, 0)
        BY <1>5, <2>1, <2>2, <2>3, Zenon
    <2>5. QED
        BY <2>2, <2>4 DEF Promised!Step, Promised!Start
<1>11. CASE Settled(r)
    <2>1. spent'[r] = spent[r] + 1
        BY <1>3, <1>11, ClosingSpends DEF Settled, Outcomes
    <2>2. run[r] = "running" /\ run'[r] \in {"done", "failed"}
        BY <1>11 DEF Settled
    <2>3. mapped'[r] = FALSE
        BY <1>1, <1>2, <2>2, Zenon
    <2>4. Promised!Moves(r, run'[r], FALSE, 1)
        BY <1>5, <2>1, <2>3, Zenon
    <2>5. QED
        BY <2>2, <2>4 DEF Promised!Step, Promised!Settle, Promised!Settled
<1>12. CASE Interrupted(r)
    <2>1. spent'[r] = spent[r] + 0
        BY <1>3, <1>12, ClosingSpends DEF Interrupted, Outcomes
    <2>2. run'[r] # "running"
        BY <1>12 DEF Interrupted, ResumedFrom
    <2>3. mapped'[r] = FALSE
        BY <1>1, <1>2, <2>2, Zenon
    <2>4. Promised!Moves(r, run'[r], FALSE, 0)
        BY <1>5, <2>1, <2>3, Zenon
    <2>5. CASE run[r] = "running" /\ run'[r] \in ResumedFrom
        BY <2>4, <2>5 DEF Promised!Step, Promised!Park, Promised!Parked, ResumedFrom
    <2>6. CASE run[r] \in Cancellable /\ run'[r] = "cancelled"
        BY <2>4, <2>6 DEF Promised!Step, Promised!Drop, Promised!Settled, Cancellable
    <2>7. QED
        BY <1>12, <2>5, <2>6 DEF Interrupted
<1>13. QED
    BY <1>8, <1>9, <1>10, <1>11, <1>12 DEF RunMove

(* The daemon keeps its promise about every run, whatever interleaving of  *)
(* clients, workers, timers, ticks, crashes and faults it goes through.    *)
THEOREM PromiseTheorem == Spec => KeepsItsPromise
<1>1. Init => Promised!Init
    <2> SUFFICES ASSUME Init PROVE Promised!Init
        OBVIOUS
    <2>1. \A r \in Runs : legs[r] = <<>> /\ run[r] = "draft"
        BY DEF Init, RowInit
    <2>2. run = [r \in Runs |-> "draft"]
        BY DEF Init, RowInit
    <2>3. \A r \in Runs : (\E i \in DOMAIN legs[r] : legs[r][i].outcome = "open") = FALSE
        BY <2>1
    <2>4. \A r \in Runs : Spent(r) = 0
        <3> SUFFICES ASSUME NEW r \in Runs PROVE Spent(r) = 0
            OBVIOUS
        <3>1. {i \in DOMAIN legs[r] : legs[r][i].outcome \in {"succeeded", "failed"}} = {}
            BY <2>1
        <3>2. QED
            BY <3>1, FS_EmptySet DEF Spent
    <2>5. QED
        BY <2>2, <2>3, <2>4 DEF Promised!Init
<1>2. ASSUME TypeOK, TypeOK', LegOpenIffRunning, LegOpenIffRunning', SlotsRespected', [Next]_vars
      PROVE  Promised!Next
    <2>1. RowsStep
        BY <1>2, StepOfTheRows DEF RowsStep, vars
    <2>2. \A r \in Runs : Promised!Step(r) \/ Promised!Stays(r)
        BY <1>2, <2>1, EveryRunMoves, MoveIsPromised
    <2>3. \A r \in Runs : (\E i \in DOMAIN legs'[r] : legs'[r][i].outcome = "open")
                            <=> run'[r] = "running"
        BY <1>2, WorkingIsRunning
    <2>4. {r \in Runs : [n \in Runs |-> \E i \in DOMAIN legs'[n] : legs'[n][i].outcome = "open"][r]}
            = Running'
        BY <2>3 DEF Running
    <2>5. Cardinality(Running') <= MaxConcurrent
        BY <1>2 DEF SlotsRespected
    <2>6. \A S : Promised!Cardinality(S) = Cardinality(S)
        BY Zenon DEF Promised!Cardinality, Cardinality
    <2>7. QED
        BY <2>2, <2>4, <2>5, <2>6, Zenon DEF Promised!Next
<1>3. QED
    BY <1>1, <1>2, TypeCorrect, LegsFollowTheRun, SlotsTheorem, PTL
    DEF Spec, KeepsItsPromise, Promised!Spec
=============================================================================
