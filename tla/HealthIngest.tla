---------------------------- MODULE HealthIngest ----------------------------
(***************************************************************************)
(* How the daemon learns that a worker is lost: what a run's worker and    *)
(* the timer wheel report, the bounded queue between them and the single   *)
(* writer that folds each fact into the journal and into run health        *)
(* (ingest, worker_facts.rs, introspection.rs, timer_loop).                *)
(*                                                                         *)
(* One run.  The other runs of the daemon show only as what evicts this    *)
(* one's fold from the memo.  The journal is append-only and kept as what  *)
(* is read of it: `journal` is what a replay of ingest's entries yields,   *)
(* with counts of them; `promises` are the checkpoints, `signalled` the    *)
(* overdue entries, `recorded` the reporters with an ingest_backlogged     *)
(* entry.                                                                  *)
(***************************************************************************)
EXTENDS Naturals, Sequences, FiniteSets, SequencesExt

CONSTANTS
    MaxLegs,      \* bound: attempts of the run
    MaxReports,   \* bound: tool calls and checkpoints of its workers
    Backlog,      \* INGEST_BACKLOG
    StallTurns,   \* HealthThresholds::stall_turns
    Tools,        \* the tool results a worker may have, as observations
    Claims,       \* the checkpoints it may report: see Checkpoint
    MaxMishaps,   \* bound: how many of them one execution has
    Faults        \* what may go wrong, each at most once: see AllFaults

(***************************************************************************)
(* "store": the database refuses a write of ingest.  "patience": a worker  *)
(* gives up a report the full queue did not take.  "restart": the process  *)
(* ends and the daemon is started again.                                   *)
(***************************************************************************)
AllFaults == {"store", "patience", "restart"}

ASSUME HealthAssumption ==
    /\ MaxLegs \in Nat /\ MaxReports \in Nat /\ MaxMishaps \in Nat
    /\ Backlog \in Nat \ {0}
    /\ StallTurns \in Nat \ {0}
    /\ Tools \subseteq [kind : {"mutation", "unrepresentable", "command_exit", "inert"},
                       arg : STRING]
    /\ Claims \subseteq {"proven", "claimed", "none"}
    /\ Faults \subseteq AllFaults

VARIABLES
    legs,       \* attempts: [session, open, tokens]; session 0 is uncorrelated
    touched,    \* the evidence ledger: the paths each attempt wrote
    genesis,    \* runs.genesis_paths; {} is NULL
    health,     \* the run_health row
    journal,    \* what ingest journaled of the run: see Journaled
    promises,   \* the attempt each checkpoint entry of the run was made in
    signalled,  \* the entries an overdue signal was journaled for
    recorded,   \* reporters that journaled a refused report
    worker,     \* how far the worker of the last attempt has come
    standing,   \* reporters whose last report was refused
    queue,      \* the facts reported and not drained
    memo,       \* Ingest::states for this run: <<>> or one fold
    reports,    \* history: tool calls and checkpoints so far
    heard,      \* history: facts of the wheel ingest has drained
    mishaps     \* history: what has gone wrong so far

controlPlane == <<legs, touched, genesis, health, journal, promises, signalled, recorded>>
process == <<worker, standing, queue, memo>>
history == <<reports, heard, mishaps>>
vars == <<controlPlane, process, history>>

Turn == Len(legs)

Running == legs # <<>> /\ Last(legs).open

-----------------------------------------------------------------------------
(* The fold: HealthState.                                                  *)

Observation(kind, arg) == [kind |-> kind, arg |-> arg]

Fresh ==
    [progressTurn |-> 0, noop |-> 0, signature |-> "-", spent |-> 0,
     progressed |-> FALSE, parked |-> FALSE, code |-> "-", repeats |-> 0,
     frozen |-> {}, active |-> FALSE, claims |-> FALSE, expired |-> FALSE,
     lost |-> FALSE]

\* Progress is observable, never claimed: a mutation, or a checkpoint whose
\* claim is deterministic ("proven").
Credits(o) ==
    \/ o.kind \in {"mutation", "unrepresentable"}
    \/ o.kind = "checkpoint" /\ o.arg = "proven"

CreditProgress(s, turn) ==
    [s EXCEPT !.progressTurn = turn, !.noop = 0, !.spent = 0,
              !.progressed = TRUE, !.lost = FALSE]

\* A turn without progress is a noop turn, unless it was parked.
FoldTurnEnd(s) ==
    LET idle == IF s.progressed \/ s.parked THEN 0 ELSE 1
    IN  [s EXCEPT !.noop = @ + idle, !.spent = @ + idle,
                  !.progressed = FALSE, !.parked = FALSE]

\* The same non-zero exit code twice in a row is a signature.
FoldExitCode(s, code) ==
    LET repeats == IF s.code = code THEN s.repeats + 1 ELSE 1
    IN  IF code = "0"
        THEN [s EXCEPT !.code = "-", !.repeats = 0, !.signature = "-"]
        ELSE [s EXCEPT !.code = code, !.repeats = repeats,
                       !.signature = IF repeats >= 2 THEN code ELSE @]

Noted(s, o) ==
    CASE o.kind = "command_exit" -> FoldExitCode(s, o.arg)
      [] o.kind = "turn_started" -> [s EXCEPT !.progressed = FALSE, !.parked = FALSE]
      [] o.kind = "turn_ended" -> FoldTurnEnd(s)
      [] o.kind = "quota_parked" -> [s EXCEPT !.parked = TRUE]
      [] o.kind = "checkpoint" ->
            [s EXCEPT !.active = TRUE, !.claims = o.arg # "none", !.expired = FALSE]
      [] o.kind = "checkpoint_expired" -> [s EXCEPT !.expired = TRUE]
      [] OTHER -> s

Fold(s, turn, o) ==
    IF Credits(o) THEN CreditProgress(Noted(s, o), turn) ELSE Noted(s, o)

\* A mutation the frozen paths do not contain, or cannot be compared with.
Divergent(s, o) ==
    /\ s.frozen # {}
    /\ o.kind = "unrepresentable" \/ (o.kind = "mutation" /\ o.arg \notin s.frozen)

\* detect_worker_lost
Lost(s) == s.expired \/ (s.active /\ s.claims /\ s.noop >= StallTurns)

Snapshot(s) ==
    [progressTurn |-> s.progressTurn, noop |-> s.noop,
     signature |-> s.signature, spent |-> s.spent]

\* A replay that reads observations only.
ReadBack_ForgetsLost(s, e) ==
    IF e.kind = "genesis_paths_frozen" THEN [s EXCEPT !.frozen = e.paths]
    ELSE Fold(s, e.turn, e)

\* One journal entry read back into the fold.
ReadBack(s, e) ==
    CASE e.kind = "worker_lost" -> [s EXCEPT !.lost = TRUE]
      [] e.kind = "genesis_paths_frozen" -> [s EXCEPT !.frozen = e.paths]
      [] OTHER -> Fold(s, e.turn, e)

(***************************************************************************)
(* The journal after one more entry: the fold a replay has come to, the    *)
(* worker_lost entries since the last progress, the frozen paths, the      *)
(* mutations outside of them and the divergences, the freezes and the      *)
(* turns ended of each execution.                                          *)
(***************************************************************************)
Journaled(j, e) ==
    [fold     |-> ReadBack(j.fold, e),
     raised   |-> IF Credits(e) THEN 0
                  ELSE j.raised + (IF e.kind = "worker_lost" THEN 1 ELSE 0),
     strayed  |-> j.strayed + (IF /\ e.kind = "mutation"
                                  /\ j.paths # {}
                                  /\ e.arg \notin j.paths THEN 1 ELSE 0),
     diverged |-> j.diverged + (IF e.kind = "divergence_detected" THEN 1 ELSE 0),
     freezes  |-> j.freezes + (IF e.kind = "genesis_paths_frozen" THEN 1 ELSE 0),
     paths    |-> j.paths \cup e.paths,
     ended    |-> IF e.kind = "turn_ended" THEN [j.ended EXCEPT ![e.leg] = @ + 1]
                  ELSE j.ended]

Empty ==
    [fold |-> Fresh, raised |-> 0, strayed |-> 0, diverged |-> 0, freezes |-> 0,
     paths |-> {}, ended |-> [n \in 1 .. MaxLegs |-> 0]]

-----------------------------------------------------------------------------
(* The attempts, as the run's transitions leave them.                      *)

\* A run opens its next attempt when it is admitted, and the session of the last
\* one has ended by then: its worker has reported its turn, or never had one.
OpenLeg ==
    /\ ~Running /\ Turn < MaxLegs
    /\ worker \in {"none", "setup", "ended"}
    /\ legs' = Append(legs, [session |-> 0, open |-> TRUE, tokens |-> 0])
    /\ worker' = "setup"
    /\ standing' = standing \cap {"timer_wheel"}
    /\ UNCHANGED <<touched, genesis, health, journal, promises, signalled, recorded>>
    /\ UNCHANGED <<queue, memo, history>>

\* Whatever takes the run out of running: the worker's own report, a park, a
\* cancel, a failure.  The worker may still have things to say.
EndLeg ==
    /\ Running
    /\ legs' = [legs EXCEPT ![Turn].open = FALSE]
    /\ UNCHANGED <<touched, genesis, health, journal, promises, signalled, recorded>>
    /\ UNCHANGED <<process, history>>

-----------------------------------------------------------------------------
(* The queue: FactSender::report and the notice of a standing backlog.     *)

Mishap(fault) ==
    /\ fault \in Faults \ mishaps /\ Cardinality(mishaps) < MaxMishaps
    /\ mishaps' = mishaps \cup {fault}

FactOf(session, o) ==
    [kind |-> o.kind, arg |-> o.arg, leg |-> session, turn |-> Turn]

Room_OneMore == Len(queue) <= Backlog

Room == Len(queue) < Backlog

\* A report that went through ends the reporter's standing backlog.
Taken(by, fact) ==
    /\ Room
    /\ queue' = Append(queue, fact)
    /\ standing' = standing \ {by}
    /\ UNCHANGED <<recorded, mishaps>>

\* The first refusal of a standing backlog is journaled.
Backlogged(by) ==
    /\ ~Room
    /\ standing' = standing \cup {by}
    /\ recorded' = IF by \in standing THEN recorded ELSE recorded \cup {by}
    /\ UNCHANGED queue

\* A worker waits for room, and gives the fact up when its patience is over.
\* The wheel never waits.
Patient(by, fact) ==
    \/ Taken(by, fact)
    \/ Backlogged(by) /\ Mishap("patience")

Impatient(by, fact) ==
    \/ Taken(by, fact)
    \/ Backlogged(by) /\ UNCHANGED mishaps

-----------------------------------------------------------------------------
(* The worker of the last attempt: WorkerFacts and RunIntrospection.  What *)
(* it does and the report of it are one step: whatever happens in between  *)
(* also happens to a fact that waits in the queue.                         *)

\* The worker knows which execution it is; while it does not, none of its events
\* has met an open attempt.
Speaking == worker \in {"turn", "refused"}

WorkerSays(kind, arg) == Patient("worker", FactOf(Turn, Observation(kind, arg)))

\* Every event of the turn is an occasion to name the attempt's execution: the
\* open attempt's, while it names no other.  The turn's start is reported first.
Correlate ==
    /\ worker = "setup" /\ Running
    /\ Last(legs).session \in {0, Turn}
    /\ legs' = [legs EXCEPT ![Turn].session = Turn]
    /\ worker' = "turn"
    /\ WorkerSays("turn_started", "-")
    /\ UNCHANGED <<touched, genesis, health, journal, promises, signalled>>
    /\ UNCHANGED <<memo, reports, heard>>

\* A tool call ends: its row is in the evidence ledger and its result is
\* reported.
ToolResult ==
    /\ worker = "turn" /\ reports < MaxReports
    /\ \E o \in Tools :
         /\ touched' = [touched EXCEPT ![Turn] =
                            IF o.kind = "mutation" THEN @ \cup {o.arg} ELSE @]
         /\ WorkerSays(o.kind, o.arg)
    /\ reports' = reports + 1
    /\ UNCHANGED <<legs, genesis, health, journal, promises, signalled>>
    /\ UNCHANGED <<worker, memo, heard>>

\* A checkpoint reaches the journal before its fact reaches the queue.
Checkpoint ==
    /\ worker = "turn" /\ reports < MaxReports
    /\ promises' = Append(promises, Turn)
    /\ \E c \in Claims :
         Patient("checkpoint_tool", FactOf(Turn, Observation("checkpoint", c)))
    /\ reports' = reports + 1
    /\ UNCHANGED <<legs, touched, genesis, health, journal, signalled>>
    /\ UNCHANGED <<worker, memo, heard>>

\* It reaches the journal also when the attempt ended before the worker's first
\* event, and nothing it reports can be attributed.
CheckpointUnattributed ==
    /\ worker = "setup" /\ ~Running /\ reports < MaxReports
    /\ promises' = Append(promises, Turn)
    /\ reports' = reports + 1
    /\ UNCHANGED <<legs, touched, genesis, health, journal, signalled, recorded>>
    /\ UNCHANGED <<process, heard, mishaps>>

\* The turn ended in a quota refusal, reported before the turn's ending.
ReportQuotaReached ==
    /\ worker = "turn"
    /\ worker' = "refused"
    /\ WorkerSays("quota_parked", "-")
    /\ UNCHANGED <<legs, touched, genesis, health, journal, promises, signalled>>
    /\ UNCHANGED <<memo, reports, heard>>

ReportTurnEnded ==
    /\ Speaking
    /\ worker' = "ended"
    /\ WorkerSays("turn_ended", "-")
    /\ UNCHANGED <<legs, touched, genesis, health, journal, promises, signalled>>
    /\ UNCHANGED <<memo, reports, heard>>

-----------------------------------------------------------------------------
(* The timer wheel.                                                        *)

\* The entry the run's deadline is measured from: its last checkpoint, or the
\* start of its last attempt while it has none.
Measured ==
    IF promises # <<>> THEN <<"checkpoint", Len(promises)>> ELSE <<"started", Turn>>

\* The wheel that leaves out an attempt no execution is known of.
Attributed_CorrelatedOnly == Last(legs).session # 0

\* attribution_of: the last attempt, and no execution while it is uncorrelated.
Attributed == legs # <<>>

\* A deadline is journaled once, and its fact is reported by the same tick.  When
\* it passes is not modelled: it has, or the tick finds nothing.
TickOverdue ==
    /\ Running
    /\ Measured \notin signalled
    /\ signalled' = signalled \cup {Measured}
    /\ IF Attributed
       THEN Impatient("timer_wheel",
                      FactOf(Last(legs).session, Observation("checkpoint_expired", "-")))
       ELSE UNCHANGED <<standing, recorded, queue, mishaps>>
    /\ UNCHANGED <<legs, touched, genesis, health, journal, promises>>
    /\ UNCHANGED <<worker, memo, reports, heard>>

-----------------------------------------------------------------------------
(* Ingest: the one writer.                                                 *)

\* The fact belongs to the execution the run's last attempt names.
Attributable_Uncorrelated(fact) == legs # <<>> /\ Last(legs).session \in {0, fact.leg}

Attributable(fact) == legs # <<>> /\ Last(legs).session = fact.leg

\* The paths of the ledger's rows that belong to the run's attempts.
TouchedPaths == UNION {touched[n] : n \in {n \in DOMAIN legs : legs[n].session = n}}

FreezeDue_AtEveryCheckpoint(s, fact) == fact.kind = "checkpoint"

FreezeDue(s, fact) == fact.kind = "checkpoint" /\ s.frozen = {}

RaisesLost_WhileItLasts(s) == Lost(s)

RaisesLost(s) == ~s.lost /\ Lost(s)

Entry(fact, kind, paths) ==
    [kind |-> kind, arg |-> fact.arg, paths |-> paths, leg |-> fact.leg, turn |-> fact.turn]

Adding(j, due, entry) == IF due THEN Journaled(j, entry) ELSE j

\* What the fact makes of the fold, and of the journal: its own entry, then those of
\* the signals it raises, in this order.
Digested(s, j, fact) ==
    LET folded == Fold(s, fact.turn, fact)
        frozen == IF FreezeDue(s, fact) THEN TouchedPaths ELSE {}
        settled == IF frozen = {} THEN folded ELSE [folded EXCEPT !.frozen = frozen]
        lost == RaisesLost(settled)
        observed == Journaled(j, Entry(fact, fact.kind, {}))
        froze == Adding(observed, frozen # {}, Entry(fact, "genesis_paths_frozen", frozen))
        diverged == Adding(froze, Divergent(folded, fact), Entry(fact, "divergence_detected", {}))
    IN  [state   |-> [settled EXCEPT !.lost = @ \/ lost],
         frozen  |-> frozen,
         journal |-> Adding(diverged, lost, Entry(fact, "worker_lost", {}))]

Drained ==
    /\ queue # <<>>
    /\ queue' = Tail(queue)
    /\ heard' = heard + (IF Head(queue).kind = "checkpoint_expired" THEN 1 ELSE 0)
    /\ UNCHANGED <<touched, promises, signalled, recorded, worker, standing>>
    /\ UNCHANGED reports

\* The run's fold, from the memo or, when there is none or the facts of other
\* runs have pushed it out, from the journal.
Folds == Range(memo) \cup {journal.fold}

Charged_EveryLeg(fact) ==
    [n \in DOMAIN legs |->
        IF fact.kind = "turn_ended" THEN [legs[n] EXCEPT !.tokens = @ + 1] ELSE legs[n]]

\* A turn's tokens go to the attempts of the run that are open: the fact only
\* says which run they were spent in.
Charged(fact) ==
    [n \in DOMAIN legs |->
        IF fact.kind = "turn_ended" /\ legs[n].open
        THEN [legs[n] EXCEPT !.tokens = @ + 1]
        ELSE legs[n]]

\* One transaction, and the memo only after it.
Accept ==
    /\ Drained
    /\ Attributable(Head(queue))
    /\ \E fold \in Folds :
         LET digest == Digested(fold, journal, Head(queue))
         IN  /\ journal' = digest.journal
             /\ health' = Snapshot(digest.state)
             /\ genesis' = IF genesis = {} THEN digest.frozen ELSE genesis
             /\ memo' = <<digest.state>>
    /\ legs' = Charged(Head(queue))
    /\ UNCHANGED mishaps

\* A refused fact, or one the database did not take, leaves nothing.
Reject ==
    /\ Drained
    /\ \/ ~Attributable(Head(queue)) /\ UNCHANGED mishaps
       \/ Mishap("store")
    /\ UNCHANGED <<legs, genesis, health, journal, memo>>

\* The process ends at any moment; the boot closes the attempt it cut off.
Restart ==
    /\ Mishap("restart")
    /\ legs' = [n \in DOMAIN legs |-> [legs[n] EXCEPT !.open = FALSE]]
    /\ worker' = "none"
    /\ standing' = {} /\ queue' = <<>> /\ memo' = <<>>
    /\ UNCHANGED <<touched, genesis, health, journal, promises, signalled, recorded>>
    /\ UNCHANGED <<reports, heard>>

-----------------------------------------------------------------------------
Init ==
    /\ legs = <<>>
    /\ touched = [n \in 1 .. MaxLegs |-> {}]
    /\ genesis = {}
    /\ health = Snapshot(Fresh)
    /\ journal = Empty /\ promises = <<>>
    /\ signalled = {} /\ recorded = {}
    /\ worker = "none" /\ standing = {} /\ queue = <<>> /\ memo = <<>>
    /\ reports = 0 /\ heard = 0 /\ mishaps = {}

Next ==
    \/ OpenLeg \/ EndLeg
    \/ Correlate \/ ToolResult \/ Checkpoint \/ CheckpointUnattributed
    \/ ReportQuotaReached \/ ReportTurnEnded
    \/ TickOverdue
    \/ Accept \/ Reject
    \/ Restart

Spec == Init /\ [][Next]_vars

-----------------------------------------------------------------------------
Paths == {o.arg : o \in {o \in Tools : o.kind = "mutation"}}

Reporters == {"worker", "checkpoint_tool", "timer_wheel"}

(* The shape of every row, queue and memo.                                 *)
TypeOK ==
    /\ legs \in Seq([session : 0 .. MaxLegs, open : BOOLEAN, tokens : Nat])
    /\ Len(legs) <= MaxLegs
    /\ \A n \in DOMAIN legs : legs[n].session \in {0, n} /\ (legs[n].open => n = Turn)
    /\ touched \in [1 .. MaxLegs -> SUBSET Paths]
    /\ genesis \in SUBSET Paths
    /\ promises \in Seq(1 .. MaxLegs)
    /\ signalled \subseteq {<<"checkpoint", k>> : k \in DOMAIN promises}
                        \cup {<<"started", n>> : n \in DOMAIN legs}
    /\ recorded \subseteq Reporters /\ standing \subseteq recorded
    /\ worker \in {"none", "setup", "turn", "refused", "ended"}
    /\ Len(queue) <= Backlog /\ Len(memo) <= 1
    /\ mishaps \subseteq Faults

(* "run_health is derived and recomputable" (ingest/mod.rs): the row and   *)
(* the memo are what a replay of the journal yields, after evictions,      *)
(* refused writes and restarts (replay, accept).                           *)
HealthIsRecomputable ==
    /\ health = Snapshot(journal.fold)
    /\ memo # <<>> => Head(memo) = journal.fold

(* The frozen paths of the row are those of the journal: they are frozen   *)
(* once, by the first checkpoint that finds any, and a mutation outside of *)
(* them is journaled with its divergence, also by a process that did not   *)
(* see the freeze (accept, apply_ingest, fold, replay).                    *)
GenesisAgrees ==
    /\ genesis = journal.paths
    /\ journal.freezes <= 1
    /\ journal.diverged >= journal.strayed

(* A lost worker is reported once while it stands: between two worker_lost *)
(* entries the run made progress, also when the fold was replayed between  *)
(* the two (raise_signals, replay).                                        *)
LostStandsUntilProgress == journal.raised <= 1

(* "A fact naming an attempt that is no longer the run's live one is       *)
(* refused" (ingest/mod.rs): the end of a turn is folded only while the    *)
(* attempt it ended is the run's last, however long it waited, and also    *)
(* while the next one has no execution yet (check_attribution).            *)
StragglersAreRefused ==
    [][\A n \in 1 .. MaxLegs : journal'.ended[n] # journal.ended[n] => n = Turn]_vars

(* The tokens of a turn are charged to no attempt but the one that spent   *)
(* them: the write names the run only (apply_ingest, check_attribution).   *)
ChargesStayWithTheirLeg ==
    \A n \in DOMAIN legs : legs[n].tokens <= journal.ended[n]

\* Where the facts of the wheel stand in the queue q.
Overdue(q) == {i \in DOMAIN q : q[i].kind = "checkpoint_expired"}

(* An overdue signal is journaled once and its fact exists nowhere else:   *)
(* it is on its way, ingest has drained it, the journal says that a fact   *)
(* of the wheel was refused, or the process ended in between (timer_loop). *)
SignalIsAccountedFor ==
    "restart" \notin mishaps /\ "timer_wheel" \notin recorded =>
        Cardinality(signalled) = heard + Cardinality(Overdue(queue))
=============================================================================
