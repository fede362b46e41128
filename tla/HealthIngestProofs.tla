------------------------- MODULE HealthIngestProofs -------------------------
(***************************************************************************)
(* What holds of HealthIngest for every value of its constants.            *)
(*                                                                         *)
(* The fold is carried in two places, the memo and the journal, and a      *)
(* fact is added to both by two different paths: the live one folds the    *)
(* observation and sets what its signals stand for, the replay reads one   *)
(* entry after another.  That the two agree on one fact, from any fold, is *)
(* LEMMA Replayed; the invariant is what an induction over facts needs of  *)
(* the rest.                                                               *)
(***************************************************************************)
EXTENDS HealthIngest, SequenceTheorems, FiniteSetTheorems, TLAPS

ToolKinds == {"mutation", "unrepresentable", "command_exit", "inert"}

TurnKinds == {"turn_started", "turn_ended", "quota_parked"}

FactKinds == ToolKinds \cup TurnKinds \cup {"checkpoint", "checkpoint_expired"}

Args == {o.arg : o \in Tools} \cup Claims \cup {"-"}

\* What waits in the queue: the paths of its mutations are those of the tools, and
\* the end of a turn names the execution it ended.
Facts ==
    {f \in [kind : FactKinds, arg : Args, leg : 0 .. MaxLegs, turn : Nat] :
        /\ f.kind = "mutation" => f.arg \in Paths
        /\ f.kind = "turn_ended" => f.leg # 0}

FoldType ==
    [progressTurn : Nat, noop : Nat, signature : Args, spent : Nat,
     progressed : BOOLEAN, parked : BOOLEAN, code : Args, repeats : Nat,
     frozen : SUBSET Paths, active : BOOLEAN, claims : BOOLEAN,
     expired : BOOLEAN, lost : BOOLEAN]

JournalType ==
    [fold : FoldType, raised : Nat, strayed : Nat, diverged : Nat, freezes : Nat,
     paths : SUBSET Paths, ended : [1 .. MaxLegs -> Nat]]

-----------------------------------------------------------------------------
(* The fold.                                                               *)

LEMMA CreditedFold ==
    ASSUME NEW s \in FoldType, NEW turn \in Nat
    PROVE  /\ CreditProgress(s, turn) \in FoldType
           /\ CreditProgress(s, turn).frozen = s.frozen
BY DEF FoldType, CreditProgress

LEMMA TurnEndFold ==
    ASSUME NEW s \in FoldType
    PROVE  /\ FoldTurnEnd(s) \in FoldType
           /\ FoldTurnEnd(s).frozen = s.frozen
           /\ FoldTurnEnd(s).lost = s.lost
<1> DEFINE idle == IF s.progressed \/ s.parked THEN 0 ELSE 1
<1>1. idle \in Nat
    OBVIOUS
<1>2. FoldTurnEnd(s) = [s EXCEPT !.noop = @ + idle, !.spent = @ + idle,
                                 !.progressed = FALSE, !.parked = FALSE]
    BY DEF FoldTurnEnd
<1> HIDE DEF idle
<1> DEFINE t == [s EXCEPT !.noop = @ + idle]
<1>3. t \in FoldType /\ t.frozen = s.frozen /\ t.lost = s.lost
    BY <1>1 DEF FoldType
<1> DEFINE u == [t EXCEPT !.spent = @ + idle]
<1> DEFINE v == [u EXCEPT !.progressed = FALSE, !.parked = FALSE]
<1>4. FoldTurnEnd(s) = v
    BY <1>1, <1>2 DEF FoldType
<1> HIDE DEF t
<1>5. u \in FoldType /\ u.frozen = t.frozen /\ u.lost = t.lost
    BY <1>1, <1>3 DEF FoldType
<1> HIDE DEF u
<1>6. v \in FoldType /\ v.frozen = u.frozen /\ v.lost = u.lost
    BY <1>5 DEF FoldType
<1> HIDE DEF v
<1> QED
    BY <1>3, <1>4, <1>5, <1>6

LEMMA ExitCodeFold ==
    ASSUME NEW s \in FoldType, NEW code \in Args
    PROVE  /\ FoldExitCode(s, code) \in FoldType
           /\ FoldExitCode(s, code).frozen = s.frozen
           /\ FoldExitCode(s, code).lost = s.lost
<1> DEFINE repeats == IF s.code = code THEN s.repeats + 1 ELSE 1
<1>1. repeats \in Nat
    BY DEF FoldType
<1>2. CASE code = "0"
    <2> DEFINE t == [s EXCEPT !.code = "-", !.repeats = 0, !.signature = "-"]
    <2>1. FoldExitCode(s, code) = t
        BY <1>2 DEF FoldExitCode
    <2>2. t \in FoldType
        BY DEF FoldType, Args
    <2>3. t.frozen = s.frozen /\ t.lost = s.lost
        BY DEF FoldType
    <2> HIDE DEF t
    <2> QED
        BY <2>1, <2>2, <2>3
<1>3. CASE code # "0"
    <2> HIDE DEF repeats
    <2>1. FoldExitCode(s, code) =
            [s EXCEPT !.code = code, !.repeats = repeats,
                      !.signature = IF repeats >= 2 THEN code ELSE @]
        BY <1>3 DEF FoldExitCode, repeats
    <2> QED
        BY <1>1, <2>1 DEF FoldType
<1> QED
    BY <1>2, <1>3

(* An observation never thaws the paths, and only progress ends a loss.    *)
LEMMA NotedFold ==
    ASSUME NEW s \in FoldType, NEW o, o.kind \in FactKinds, o.arg \in Args
    PROVE  /\ Noted(s, o) \in FoldType
           /\ Noted(s, o).frozen = s.frozen
           /\ Noted(s, o).lost = s.lost
<1>1. CASE o.kind = "command_exit"
    BY <1>1, ExitCodeFold DEF Noted
<1>2. CASE o.kind = "turn_ended"
    BY <1>2, TurnEndFold DEF Noted
<1>3. CASE o.kind \in {"turn_started", "quota_parked", "checkpoint", "checkpoint_expired"}
    BY <1>3 DEF Noted, FoldType
<1>4. CASE o.kind \in {"mutation", "unrepresentable", "inert"}
    BY <1>4 DEF Noted
<1> QED
    BY <1>1, <1>2, <1>3, <1>4 DEF FactKinds, ToolKinds, TurnKinds

LEMMA Folded ==
    ASSUME NEW s \in FoldType, NEW turn \in Nat,
           NEW o, o.kind \in FactKinds, o.arg \in Args
    PROVE  /\ Fold(s, turn, o) \in FoldType
           /\ Fold(s, turn, o).frozen = s.frozen
           /\ ~Credits(o) => Fold(s, turn, o).lost = s.lost
           /\ Credits(o) => Fold(s, turn, o).lost = FALSE
<1>1. CASE Credits(o)
    <2>1. CreditProgress(Noted(s, o), turn).lost = FALSE
        BY NotedFold DEF CreditProgress, FoldType
    <2> QED
        BY <1>1, <2>1, NotedFold, CreditedFold DEF Fold
<1>2. CASE ~Credits(o)
    BY <1>2, NotedFold DEF Fold
<1> QED
    BY <1>1, <1>2

-----------------------------------------------------------------------------
(* The journal: one entry, and then the entries of one fact.               *)

JournalSound(j) ==
    /\ j.fold.frozen = j.paths
    /\ j.freezes = IF j.paths = {} THEN 0 ELSE 1
    /\ j.strayed <= j.diverged
    /\ j.raised <= 1
    /\ j.raised = 1 => j.fold.lost

LEMMA Counted ==
    ASSUME NEW f \in [1 .. MaxLegs -> Nat], NEW n
    PROVE  [f EXCEPT ![n] = @ + 1] \in [1 .. MaxLegs -> Nat]
<1>1. CASE n \in 1 .. MaxLegs
    <2>1. f[n] + 1 \in Nat
        BY <1>1
    <2> QED
        BY <2>1
<1>2. CASE n \notin 1 .. MaxLegs
    BY <1>2
<1> QED
    BY <1>1, <1>2

\* What one more entry for a fact leaves of the journal.
AfterFact(o, j, fact) ==
    /\ o \in JournalType
    /\ o.fold = Fold(j.fold, fact.turn, fact)
    /\ o.paths = j.paths /\ o.freezes = j.freezes /\ o.diverged = j.diverged
    /\ o.strayed = j.strayed + (IF /\ fact.kind = "mutation"
                                  /\ j.paths # {}
                                  /\ fact.arg \notin j.paths THEN 1 ELSE 0)
    /\ o.raised = IF Credits(fact) THEN 0 ELSE j.raised
    /\ o.ended = IF fact.kind = "turn_ended" THEN [j.ended EXCEPT ![fact.leg] = @ + 1]
                 ELSE j.ended

(* An observation changes of the journal its fold, and nothing of the paths. *)
LEMMA Observed ==
    ASSUME NEW j \in JournalType, NEW fact \in Facts,
           NEW o, o = Journaled(j, Entry(fact, fact.kind, {}))
    PROVE  AfterFact(o, j, fact)
<1> DEFINE e == Entry(fact, fact.kind, {})
<1>1. /\ e.kind = fact.kind /\ e.arg = fact.arg /\ e.paths = {}
      /\ e.leg = fact.leg /\ e.turn = fact.turn
    BY DEF Entry
<1>2. fact.kind \in FactKinds /\ fact.arg \in Args /\ fact.turn \in Nat
    BY DEF Facts
<1>3. fact.kind \notin {"worker_lost", "genesis_paths_frozen", "divergence_detected"}
    BY <1>2 DEF FactKinds, ToolKinds, TurnKinds
<1> HIDE DEF e
<1>4. Credits(e) <=> Credits(fact)
    BY <1>1 DEF Credits
<1>5. Noted(j.fold, e) = Noted(j.fold, fact)
    BY <1>1 DEF Noted
<1>6. ReadBack(j.fold, e) = Fold(j.fold, fact.turn, fact)
    BY <1>1, <1>3, <1>4, <1>5 DEF ReadBack, Fold
<1>7. o = Journaled(j, e)
    BY DEF e
<1>8. o.fold = Fold(j.fold, fact.turn, fact) /\ o.fold \in FoldType
    <2>1. o.fold = ReadBack(j.fold, e)
        BY <1>7 DEF Journaled
    <2>2. j.fold \in FoldType
        BY DEF JournalType
    <2> QED
        BY <1>2, <1>6, <2>1, <2>2, Folded
<1>9. /\ o.paths = j.paths /\ o.freezes = j.freezes /\ o.diverged = j.diverged
      /\ o.strayed = j.strayed + (IF /\ fact.kind = "mutation"
                                    /\ j.paths # {}
                                    /\ fact.arg \notin j.paths THEN 1 ELSE 0)
      /\ o.raised = IF Credits(fact) THEN 0 ELSE j.raised
    <2>1. o.paths = j.paths
        <3>1. o.paths = j.paths \cup e.paths
            BY <1>7 DEF Journaled
        <3> QED
            BY <1>1, <3>1
    <2>2. o.freezes = j.freezes /\ o.diverged = j.diverged
        BY <1>1, <1>3, <1>7 DEF Journaled, JournalType
    <2>3. o.strayed = j.strayed + (IF /\ fact.kind = "mutation"
                                    /\ j.paths # {}
                                    /\ fact.arg \notin j.paths THEN 1 ELSE 0)
        BY <1>1, <1>7 DEF Journaled
    <2>4. o.raised = IF Credits(fact) THEN 0 ELSE j.raised
        BY <1>1, <1>3, <1>4, <1>7 DEF Journaled, JournalType
    <2> QED
        BY <2>1, <2>2, <2>3, <2>4
<1>10. o.ended = IF fact.kind = "turn_ended" THEN [j.ended EXCEPT ![fact.leg] = @ + 1]
                 ELSE j.ended
    BY <1>1, <1>7 DEF Journaled
<1>11. o.ended \in [1 .. MaxLegs -> Nat]
    <2>1. j.ended \in [1 .. MaxLegs -> Nat]
        BY DEF JournalType
    <2>2. [j.ended EXCEPT ![fact.leg] = @ + 1] \in [1 .. MaxLegs -> Nat]
        BY <2>1, Counted
    <2> QED
        BY <1>10, <2>1, <2>2
<1>12. o.strayed \in Nat /\ o.raised \in Nat
    BY <1>9 DEF JournalType
<1>13. o \in JournalType
    <2>1. /\ o.freezes \in Nat /\ o.diverged \in Nat /\ o.paths \in SUBSET Paths
        BY <1>9 DEF JournalType
    <2>2. o = [fold |-> o.fold, raised |-> o.raised, strayed |-> o.strayed,
               diverged |-> o.diverged, freezes |-> o.freezes, paths |-> o.paths,
               ended |-> o.ended]
        BY <1>7, Zenon DEF Journaled
    <2> QED
        BY <1>8, <1>11, <1>12, <2>1, <2>2 DEF JournalType
<1> QED
    BY <1>8, <1>9, <1>10, <1>13 DEF AfterFact

SignalKinds == {"genesis_paths_frozen", "divergence_detected", "worker_lost"}

\* What the entry of a signal makes of the journal j.
AfterSignal(o, j, kind, paths) ==
    /\ o \in JournalType
    /\ kind = "genesis_paths_frozen" => o.fold = [j.fold EXCEPT !.frozen = paths]
    /\ kind = "divergence_detected" => o.fold = j.fold
    /\ kind = "worker_lost" => o.fold = [j.fold EXCEPT !.lost = TRUE]
    /\ o.paths = j.paths \cup paths
    /\ o.freezes = j.freezes + (IF kind = "genesis_paths_frozen" THEN 1 ELSE 0)
    /\ o.diverged = j.diverged + (IF kind = "divergence_detected" THEN 1 ELSE 0)
    /\ o.strayed = j.strayed
    /\ o.raised = j.raised + (IF kind = "worker_lost" THEN 1 ELSE 0)
    /\ o.ended = j.ended

(* A freeze sets the paths, a loss is marked, and a divergence is read by  *)
(* nobody.                                                                 *)
LEMMA Signalled ==
    ASSUME NEW j \in JournalType, NEW fact, fact.leg \in 0 .. MaxLegs, fact.turn \in Nat,
           NEW kind \in SignalKinds,
           NEW paths \in SUBSET Paths, kind # "genesis_paths_frozen" => paths = {},
           NEW o, o = Journaled(j, Entry(fact, kind, paths))
    PROVE  AfterSignal(o, j, kind, paths)
<1> USE DEF SignalKinds
<1> DEFINE e == Entry(fact, kind, paths)
<1>1. /\ e.kind = kind /\ e.paths = paths /\ e.leg = fact.leg /\ e.turn = fact.turn
    BY DEF Entry
<1> HIDE DEF e
<1>2. o = Journaled(j, e)
    BY DEF e
<1>3. ~Credits(e)
    BY <1>1 DEF Credits
<1>4. j.fold \in FoldType
    BY DEF JournalType
<1>5. Fold(j.fold, e.turn, e) = j.fold \/ kind # "divergence_detected"
    BY <1>1, <1>3 DEF Fold, Noted
<1>6. o.fold = ReadBack(j.fold, e)
    BY <1>2 DEF Journaled
<1>7. /\ kind = "genesis_paths_frozen" => o.fold = [j.fold EXCEPT !.frozen = paths]
      /\ kind = "divergence_detected" => o.fold = j.fold
      /\ kind = "worker_lost" => o.fold = [j.fold EXCEPT !.lost = TRUE]
    BY <1>1, <1>5, <1>6 DEF ReadBack
<1>8. [j.fold EXCEPT !.frozen = paths] \in FoldType /\ [j.fold EXCEPT !.lost = TRUE] \in FoldType
    BY <1>4 DEF FoldType
<1>9. o.fold \in FoldType
    BY <1>4, <1>7, <1>8
<1>10. o.paths = j.paths \cup paths
    BY <1>1, <1>2 DEF Journaled
<1>11. /\ o.freezes = j.freezes + (IF kind = "genesis_paths_frozen" THEN 1 ELSE 0)
       /\ o.diverged = j.diverged + (IF kind = "divergence_detected" THEN 1 ELSE 0)
    BY <1>1, <1>2 DEF Journaled
<1>12. o.strayed = j.strayed
    BY <1>1, <1>2 DEF Journaled, JournalType
<1>13. o.raised = j.raised + (IF kind = "worker_lost" THEN 1 ELSE 0)
    BY <1>1, <1>2, <1>3 DEF Journaled, JournalType
<1>14. o.ended = j.ended
    BY <1>1, <1>2 DEF Journaled
<1>15. o \in JournalType
    <2>1. /\ o.freezes \in Nat /\ o.diverged \in Nat /\ o.strayed \in Nat
          /\ o.raised \in Nat /\ o.paths \in SUBSET Paths
          /\ o.ended \in [1 .. MaxLegs -> Nat]
        BY <1>10, <1>11, <1>12, <1>13, <1>14 DEF JournalType
    <2>2. o = [fold |-> o.fold, raised |-> o.raised, strayed |-> o.strayed,
               diverged |-> o.diverged, freezes |-> o.freezes, paths |-> o.paths,
               ended |-> o.ended]
        BY <1>2, Zenon DEF Journaled
    <2> QED
        BY <1>9, <2>1, <2>2 DEF JournalType
<1> QED
    BY <1>7, <1>10, <1>11, <1>12, <1>13, <1>14, <1>15 DEF AfterSignal

LEMMA Frozen ==
    ASSUME NEW j \in JournalType, NEW fact, fact.leg \in 0 .. MaxLegs, fact.turn \in Nat,
           NEW paths \in SUBSET Paths,
           NEW o, o = Journaled(j, Entry(fact, "genesis_paths_frozen", paths))
    PROVE  /\ o \in JournalType /\ o.fold = [j.fold EXCEPT !.frozen = paths]
           /\ o.paths = j.paths \cup paths /\ o.freezes = j.freezes + 1
           /\ o.diverged = j.diverged /\ o.strayed = j.strayed
           /\ o.raised = j.raised /\ o.ended = j.ended
<1> DEFINE kind == "genesis_paths_frozen"
<1>1. kind \in SignalKinds
    BY DEF SignalKinds
<1>2. kind = "genesis_paths_frozen" /\ kind # "divergence_detected" /\ kind # "worker_lost"
    OBVIOUS
<1>3. o = Journaled(j, Entry(fact, kind, paths))
    OBVIOUS
<1>4. j.freezes \in Nat /\ j.diverged \in Nat /\ j.raised \in Nat
    BY DEF JournalType
<1> HIDE DEF kind
<1>5. AfterSignal(o, j, kind, paths)
    BY <1>1, <1>2, <1>3, Signalled
<1> QED
    BY <1>2, <1>4, <1>5 DEF AfterSignal

LEMMA Diverged ==
    ASSUME NEW j \in JournalType, NEW fact, fact.leg \in 0 .. MaxLegs, fact.turn \in Nat,
           NEW o, o = Journaled(j, Entry(fact, "divergence_detected", {}))
    PROVE  /\ o \in JournalType /\ o.fold = j.fold
           /\ o.paths = j.paths /\ o.freezes = j.freezes
           /\ o.diverged = j.diverged + 1 /\ o.strayed = j.strayed
           /\ o.raised = j.raised /\ o.ended = j.ended
<1> DEFINE kind == "divergence_detected"
           paths == {}
<1>1. kind \in SignalKinds
    BY DEF SignalKinds
<1>2. /\ kind # "genesis_paths_frozen" /\ kind = "divergence_detected" /\ kind # "worker_lost"
      /\ paths \in SUBSET Paths /\ paths = {}
    OBVIOUS
<1>3. o = Journaled(j, Entry(fact, kind, paths))
    OBVIOUS
<1>4. j.paths \cup paths = j.paths
    OBVIOUS
<1>5. j.freezes \in Nat /\ j.diverged \in Nat /\ j.raised \in Nat
    BY DEF JournalType
<1> HIDE DEF kind, paths
<1>6. AfterSignal(o, j, kind, paths)
    BY <1>1, <1>2, <1>3, Signalled
<1> QED
    BY <1>2, <1>4, <1>5, <1>6 DEF AfterSignal

LEMMA MarkedLost ==
    ASSUME NEW j \in JournalType, NEW fact, fact.leg \in 0 .. MaxLegs, fact.turn \in Nat,
           NEW o, o = Journaled(j, Entry(fact, "worker_lost", {}))
    PROVE  /\ o \in JournalType /\ o.fold = [j.fold EXCEPT !.lost = TRUE]
           /\ o.paths = j.paths /\ o.freezes = j.freezes
           /\ o.diverged = j.diverged /\ o.strayed = j.strayed
           /\ o.raised = j.raised + 1 /\ o.ended = j.ended
<1> DEFINE kind == "worker_lost"
           paths == {}
<1>1. kind \in SignalKinds
    BY DEF SignalKinds
<1>2. /\ kind # "genesis_paths_frozen" /\ kind # "divergence_detected" /\ kind = "worker_lost"
      /\ paths \in SUBSET Paths /\ paths = {}
    OBVIOUS
<1>3. o = Journaled(j, Entry(fact, kind, paths))
    OBVIOUS
<1>4. j.paths \cup paths = j.paths
    OBVIOUS
<1>5. j.freezes \in Nat /\ j.diverged \in Nat /\ j.raised \in Nat
    BY DEF JournalType
<1> HIDE DEF kind, paths
<1>6. AfterSignal(o, j, kind, paths)
    BY <1>1, <1>2, <1>3, Signalled
<1> QED
    BY <1>2, <1>4, <1>5, <1>6 DEF AfterSignal

LEMMA LostMarked ==
    ASSUME NEW f \in FoldType, NEW g, g = [f EXCEPT !.lost = TRUE]
    PROVE  g.frozen = f.frozen /\ g.lost = TRUE
BY DEF FoldType

(* One fact, from any fold: what the live path makes of it is what a replay *)
(* of the entries it adds makes of it, and the journal stays sound.         *)
LEMMA Replayed ==
    ASSUME NEW j \in JournalType, JournalSound(j), NEW fact \in Facts,
           TouchedPaths \in SUBSET Paths,
           NEW d, d = Digested(j.fold, j, fact)
    PROVE  /\ d.journal \in JournalType
           /\ d.state = d.journal.fold
           /\ JournalSound(d.journal)
           /\ d.journal.paths = j.paths \cup d.frozen
           /\ d.frozen # {} => j.paths = {}
           /\ d.journal.ended =
                IF fact.kind = "turn_ended" THEN [j.ended EXCEPT ![fact.leg] = @ + 1]
                ELSE j.ended
<1> DEFINE folded == Fold(j.fold, fact.turn, fact)
           frozen == IF FreezeDue(j.fold, fact) THEN TouchedPaths ELSE {}
           settled == IF frozen = {} THEN folded ELSE [folded EXCEPT !.frozen = frozen]
           lost == RaisesLost(settled)
           state == [settled EXCEPT !.lost = @ \/ lost]
           observed == Journaled(j, Entry(fact, fact.kind, {}))
           froze == Adding(observed, frozen # {}, Entry(fact, "genesis_paths_frozen", frozen))
           strays == Divergent(folded, fact)
           diverged == Adding(froze, strays, Entry(fact, "divergence_detected", {}))
           last == Adding(diverged, lost, Entry(fact, "worker_lost", {}))
<1>1. d = [state |-> state, frozen |-> frozen, journal |-> last]
    BY DEF Digested
<1>2. d.state = state /\ d.frozen = frozen /\ d.journal = last
    BY <1>1
<1>3. /\ fact.kind \in FactKinds /\ fact.arg \in Args /\ fact.turn \in Nat
      /\ fact.leg \in 0 .. MaxLegs
    BY DEF Facts
<1>4. j.fold \in FoldType
    BY DEF JournalType
<1>5. /\ folded \in FoldType /\ folded.frozen = j.fold.frozen
      /\ ~Credits(fact) => folded.lost = j.fold.lost
      /\ Credits(fact) => folded.lost = FALSE
    BY <1>3, <1>4, Folded
<1>6. /\ observed \in JournalType /\ observed.fold = folded
      /\ observed.paths = j.paths /\ observed.freezes = j.freezes
      /\ observed.diverged = j.diverged
      /\ observed.strayed = j.strayed + (IF /\ fact.kind = "mutation"
                                           /\ j.paths # {}
                                           /\ fact.arg \notin j.paths THEN 1 ELSE 0)
      /\ observed.raised = IF Credits(fact) THEN 0 ELSE j.raised
      /\ observed.ended =
            IF fact.kind = "turn_ended" THEN [j.ended EXCEPT ![fact.leg] = @ + 1] ELSE j.ended
    <2>1. observed = Journaled(j, Entry(fact, fact.kind, {})) /\ folded = Fold(j.fold, fact.turn, fact)
        OBVIOUS
    <2> HIDE DEF observed
    <2>2. AfterFact(observed, j, fact)
        BY <2>1, Observed
    <2> HIDE DEF folded
    <2> QED
        BY <2>1, <2>2 DEF AfterFact
<1>7. /\ frozen \in SUBSET Paths
      /\ frozen # {} => fact.kind = "checkpoint" /\ j.paths = {}
    BY DEF FreezeDue, JournalSound
<1>8. strays <=> /\ j.paths # {}
                 /\ \/ fact.kind = "unrepresentable"
                    \/ fact.kind = "mutation" /\ fact.arg \notin j.paths
    BY <1>5 DEF Divergent, JournalSound
<1> HIDE DEF folded, frozen, observed, strays
<1>9. /\ froze \in JournalType /\ froze.fold = settled
      /\ froze.paths = j.paths \cup frozen
      /\ froze.freezes = j.freezes + (IF frozen # {} THEN 1 ELSE 0)
      /\ froze.diverged = observed.diverged /\ froze.strayed = observed.strayed
      /\ froze.raised = observed.raised /\ froze.ended = observed.ended
    <2>1. CASE frozen = {}
        BY <1>6, <2>1 DEF Adding, JournalType
    <2>2. CASE frozen # {}
        <3>1. froze = Journaled(observed, Entry(fact, "genesis_paths_frozen", frozen))
            BY <2>2 DEF Adding
        <3> HIDE DEF froze
        <3>2. /\ froze \in JournalType
              /\ froze.fold = [observed.fold EXCEPT !.frozen = frozen]
              /\ froze.paths = observed.paths \cup frozen
              /\ froze.freezes = observed.freezes + 1
              /\ froze.diverged = observed.diverged
              /\ froze.strayed = observed.strayed
              /\ froze.raised = observed.raised
              /\ froze.ended = observed.ended
            BY <1>3, <1>6, <1>7, <3>1, Frozen
        <3> QED
            BY <1>6, <2>2, <3>2 DEF JournalType
    <2> QED
        BY <2>1, <2>2
<1>10. settled \in FoldType /\ settled.lost = folded.lost /\ settled.frozen = froze.paths
    <2>1. CASE frozen = {}
        BY <1>5, <1>9, <2>1 DEF JournalSound
    <2>2. CASE frozen # {}
        BY <1>5, <1>7, <1>9, <2>2 DEF FoldType
    <2> QED
        BY <2>1, <2>2
<1> HIDE DEF froze, settled
<1>11. /\ diverged \in JournalType /\ diverged.fold = settled
       /\ diverged.paths = froze.paths /\ diverged.freezes = froze.freezes
       /\ diverged.diverged = froze.diverged + (IF strays THEN 1 ELSE 0)
       /\ diverged.strayed = froze.strayed /\ diverged.raised = froze.raised
       /\ diverged.ended = froze.ended
    <2>1. CASE ~strays
        BY <1>9, <2>1 DEF Adding, JournalType
    <2>2. CASE strays
        <3>1. diverged = Journaled(froze, Entry(fact, "divergence_detected", {}))
            BY <2>2 DEF Adding
        <3> HIDE DEF diverged
        <3>2. /\ diverged \in JournalType /\ diverged.fold = froze.fold
              /\ diverged.paths = froze.paths
              /\ diverged.freezes = froze.freezes
              /\ diverged.diverged = froze.diverged + 1
              /\ diverged.strayed = froze.strayed
              /\ diverged.raised = froze.raised
              /\ diverged.ended = froze.ended
            BY <1>3, <1>9, <3>1, Diverged
        <3> QED
            BY <1>9, <2>2, <3>2 DEF JournalType
    <2> QED
        BY <2>1, <2>2
<1> HIDE DEF diverged
<1>12. lost => ~settled.lost
    BY DEF RaisesLost
<1>13. /\ last \in JournalType /\ last.fold = state
       /\ last.fold.frozen = settled.frozen /\ last.fold.lost = (settled.lost \/ lost)
       /\ last.paths = diverged.paths /\ last.freezes = diverged.freezes
       /\ last.diverged = diverged.diverged /\ last.strayed = diverged.strayed
       /\ last.raised = diverged.raised + (IF lost THEN 1 ELSE 0)
       /\ last.ended = diverged.ended
    <2> HIDE DEF lost
    <2>1. CASE ~lost
        <3>1. state = settled
            BY <1>10, <2>1 DEF FoldType
        <3>2. last = diverged
            BY <2>1 DEF Adding
        <3> HIDE DEF state, last
        <3> QED
            BY <1>10, <1>11, <2>1, <3>1, <3>2 DEF JournalType, FoldType
    <2>2. CASE lost
        <3>1. last = Journaled(diverged, Entry(fact, "worker_lost", {}))
            BY <2>2 DEF Adding
        <3>2. state = [settled EXCEPT !.lost = TRUE]
            BY <1>10, <2>2 DEF FoldType
        <3> HIDE DEF state, last
        <3>4. state.frozen = settled.frozen /\ state.lost = TRUE
            BY <1>10, <3>2, LostMarked
        <3>3. /\ last \in JournalType /\ last.fold = [diverged.fold EXCEPT !.lost = TRUE]
              /\ last.paths = diverged.paths
              /\ last.freezes = diverged.freezes
              /\ last.diverged = diverged.diverged
              /\ last.strayed = diverged.strayed
              /\ last.raised = diverged.raised + 1
              /\ last.ended = diverged.ended
            BY <1>3, <1>11, <3>1, MarkedLost
        <3> QED
            BY <1>11, <2>2, <3>2, <3>3, <3>4 DEF JournalType
    <2> QED
        BY <2>1, <2>2
<1> HIDE DEF last, lost, state
<1>14. last.fold.frozen = last.paths
    BY <1>10, <1>11, <1>13
<1>15. last.freezes = IF last.paths = {} THEN 0 ELSE 1
    <2>1. last.paths = j.paths \cup frozen
        BY <1>9, <1>11, <1>13
    <2>2. last.freezes = j.freezes + (IF frozen # {} THEN 1 ELSE 0)
        BY <1>9, <1>11, <1>13
    <2>3. j.freezes = IF j.paths = {} THEN 0 ELSE 1
        BY DEF JournalSound
    <2>4. CASE frozen = {}
        BY <2>1, <2>2, <2>3, <2>4
    <2>5. CASE frozen # {}
        BY <1>7, <2>1, <2>2, <2>3, <2>5
    <2> QED
        BY <2>4, <2>5
<1>16. last.strayed <= last.diverged
    <2>1. j.strayed \in Nat /\ j.diverged \in Nat /\ j.strayed <= j.diverged
        BY DEF JournalSound, JournalType
    <2>2. last.diverged = j.diverged + (IF strays THEN 1 ELSE 0)
        BY <1>6, <1>9, <1>11, <1>13
    <2>3. last.strayed = observed.strayed
        BY <1>9, <1>11, <1>13
    <2>4. CASE strays
        BY <1>6, <2>1, <2>2, <2>3, <2>4
    <2>5. CASE ~strays
        BY <1>6, <1>8, <2>1, <2>2, <2>3, <2>5
    <2> QED
        BY <2>4, <2>5
<1>17. last.raised <= 1 /\ (last.raised = 1 => last.fold.lost)
    <2>1. /\ last.raised = (IF Credits(fact) THEN 0 ELSE j.raised) + (IF lost THEN 1 ELSE 0)
          /\ last.fold.lost = (folded.lost \/ lost)
          /\ lost => ~folded.lost
        BY <1>6, <1>9, <1>10, <1>11, <1>12, <1>13
    <2>2. j.raised \in Nat /\ j.raised <= 1 /\ (j.raised = 1 => j.fold.lost)
        BY DEF JournalSound, JournalType
    <2>3. lost /\ ~Credits(fact) => j.raised = 0
        BY <1>5, <2>1, <2>2
    <2>4. ~Credits(fact) /\ j.raised = 1 => last.fold.lost
        BY <1>5, <2>1, <2>2
    <2>5. lost => last.fold.lost
        BY <2>1
    <2> QED
        BY <2>1, <2>2, <2>3, <2>4, <2>5
<1> QED
    BY <1>2, <1>6, <1>7, <1>9, <1>11, <1>13, <1>14, <1>15, <1>16, <1>17 DEF JournalSound

-----------------------------------------------------------------------------
(* The invariant.                                                          *)

LegType == [session : 0 .. MaxLegs, open : BOOLEAN, tokens : Nat]

LegsSound ==
    /\ legs \in Seq(LegType)
    /\ Len(legs) <= MaxLegs
    /\ \A n \in DOMAIN legs : legs[n].session \in {0, n} /\ (legs[n].open => n = Turn)

LedgerSound ==
    /\ touched \in [1 .. MaxLegs -> SUBSET Paths]
    /\ genesis \in SUBSET Paths

WheelSound ==
    /\ promises \in Seq(1 .. MaxLegs)
    /\ signalled \subseteq {<<"checkpoint", k>> : k \in DOMAIN promises}
                        \cup {<<"started", n>> : n \in DOMAIN legs}

ReportersSound ==
    /\ recorded \subseteq Reporters /\ standing \subseteq recorded
    /\ mishaps \subseteq Faults

WorkerSound ==
    /\ worker \in {"none", "setup", "turn", "refused", "ended"}
    /\ worker # "none" => legs # <<>>

QueueSound ==
    /\ queue \in Seq(Facts)
    /\ Len(queue) <= Backlog

\* The three copies of the fold, and the two of the frozen paths.
FoldSound ==
    /\ journal \in JournalType
    /\ JournalSound(journal)
    /\ genesis = journal.paths
    /\ health = Snapshot(journal.fold)
    /\ memo \in {<<>>, <<journal.fold>>}

IInv ==
    /\ LegsSound /\ LedgerSound /\ WheelSound /\ ReportersSound
    /\ WorkerSound /\ QueueSound /\ FoldSound
    /\ ChargesStayWithTheirLeg

-----------------------------------------------------------------------------
(* The attempts.                                                           *)

LEMMA TurnInRange ==
    ASSUME LegsSound, legs # <<>>
    PROVE  /\ Turn \in 1 .. MaxLegs /\ Turn \in DOMAIN legs
           /\ Last(legs) = legs[Turn] /\ Last(legs) \in LegType
           /\ Last(legs).session \in {0, Turn}
           /\ DOMAIN legs = 1 .. Turn
BY HealthAssumption DEF LegsSound, Turn, Last, HealthAssumption

LEMMA Closed ==
    ASSUME NEW leg \in LegType, NEW new, new = [leg EXCEPT !.open = FALSE]
    PROVE  /\ new \in LegType /\ ~new.open
           /\ new.session = leg.session /\ new.tokens = leg.tokens
BY DEF LegType

LEMMA Named ==
    ASSUME NEW leg \in LegType, NEW n \in 0 .. MaxLegs, NEW new, new = [leg EXCEPT !.session = n]
    PROVE  /\ new \in LegType /\ new.open = leg.open
           /\ new.session = n /\ new.tokens = leg.tokens
BY DEF LegType

LEMMA ChargedOnce ==
    ASSUME NEW leg \in LegType, NEW new, new = [leg EXCEPT !.tokens = @ + 1]
    PROVE  /\ new \in LegType /\ new.open = leg.open
           /\ new.session = leg.session /\ new.tokens = leg.tokens + 1
BY DEF LegType

LEMMA LegsOpen ==
    ASSUME LegsSound, OpenLeg
    PROVE  LegsSound'
<1> DEFINE leg == [session |-> 0, open |-> TRUE, tokens |-> 0]
<1>1. leg \in LegType
    BY HealthAssumption DEF LegType, HealthAssumption
<1>2. legs' = Append(legs, leg) /\ ~Running /\ Len(legs) < MaxLegs
    BY DEF OpenLeg, Turn
<1>3. leg.session = 0 /\ leg.open
    OBVIOUS
<1> HIDE DEF leg
<1>4. /\ legs' \in Seq(LegType) /\ Len(legs') = Len(legs) + 1
      /\ DOMAIN legs' = 1 .. Len(legs) + 1
      /\ legs'[Len(legs) + 1] = leg
      /\ \A n \in 1 .. Len(legs) : legs'[n] = legs[n]
    BY <1>1, <1>2, AppendProperties DEF LegsSound
<1>5. \A n \in DOMAIN legs : ~legs[n].open
    <2>1. CASE legs = <<>>
        BY <2>1
    <2>2. CASE legs # <<>>
        BY <1>2, <2>2, TurnInRange DEF LegsSound, Running
    <2> QED
        BY <2>1, <2>2
<1>6. DOMAIN legs = 1 .. Len(legs)
    BY DEF LegsSound
<1>7. ASSUME NEW n \in DOMAIN legs'
      PROVE  legs'[n].session \in {0, n} /\ (legs'[n].open => n = Len(legs'))
    <2>1. CASE n = Len(legs) + 1
        BY <1>3, <1>4, <2>1
    <2>2. CASE n \in 1 .. Len(legs)
        BY <1>4, <1>5, <1>6, <2>2 DEF LegsSound
    <2> QED
        BY <1>4, <2>1, <2>2 DEF LegsSound
<1> QED
    BY <1>2, <1>4, <1>7, HealthAssumption DEF LegsSound, Turn, HealthAssumption

(* Attempts rewritten in place, as far as LegsSound reads them.            *)
LEMMA LegsKept ==
    ASSUME LegsSound, NEW ls, DOMAIN ls = DOMAIN legs, ls = [n \in DOMAIN legs |-> ls[n]],
           \A n \in DOMAIN legs :
              /\ ls[n] \in LegType /\ ls[n].session \in {0, n}
              /\ ls[n].open => legs[n].open,
           legs' = ls
    PROVE  LegsSound'
<1>1. DOMAIN legs = 1 .. Len(legs) /\ Len(legs) \in Nat
    BY DEF LegsSound
<1>2. ls \in Seq(LegType) /\ Len(ls) = Len(legs)
    <2>1. ls \in [1 .. Len(legs) -> LegType]
        BY <1>1
    <2> QED
        BY <1>1, <2>1
<1> QED
    BY <1>1, <1>2 DEF LegsSound, Turn

LEMMA LegsStep ==
    ASSUME IInv, [Next]_vars
    PROVE  LegsSound'
<1> USE DEF IInv
<1>1. CASE OpenLeg
    BY <1>1, LegsOpen
<1>2. CASE EndLeg
    <2>1. legs # <<>> /\ legs' = [legs EXCEPT ![Turn].open = FALSE]
        BY <1>2 DEF EndLeg, Running
    <2>2. ASSUME NEW n \in DOMAIN legs
          PROVE  /\ legs'[n] \in LegType /\ legs'[n].session \in {0, n}
                 /\ legs'[n].open => legs[n].open
        <3>1. legs[n] \in LegType /\ legs[n].session \in {0, n}
            BY DEF LegsSound
        <3>2. CASE n = Turn
            <4>1. legs'[n] = [legs[n] EXCEPT !.open = FALSE]
                BY <2>1, <3>2
            <4> QED
                BY <3>1, <4>1, Closed
        <3>3. CASE n # Turn
            BY <2>1, <3>1, <3>3
        <3> QED
            BY <3>2, <3>3
    <2> QED
        BY <2>1, <2>2, LegsKept DEF LegsSound
<1>3. CASE Correlate
    <2>1. legs # <<>> /\ legs' = [legs EXCEPT ![Turn].session = Turn]
        BY <1>3 DEF Correlate, Running
    <2>2. ASSUME NEW n \in DOMAIN legs
          PROVE  /\ legs'[n] \in LegType /\ legs'[n].session \in {0, n}
                 /\ legs'[n].open => legs[n].open
        <3>1. legs[n] \in LegType /\ legs[n].session \in {0, n}
            BY DEF LegsSound
        <3>2. CASE n = Turn
            <4>1. legs'[n] = [legs[n] EXCEPT !.session = Turn] /\ Turn \in 0 .. MaxLegs
                BY <2>1, <3>2, TurnInRange
            <4> QED
                BY <3>1, <3>2, <4>1, Named
        <3>3. CASE n # Turn
            BY <2>1, <3>1, <3>3
        <3> QED
            BY <3>2, <3>3
    <2> QED
        BY <2>1, <2>2, LegsKept DEF LegsSound
<1>4. CASE Accept
    <2>1. legs' = Charged(Head(queue))
        BY <1>4 DEF Accept
    <2>2. ASSUME NEW n \in DOMAIN legs
          PROVE  /\ legs'[n] \in LegType /\ legs'[n].session \in {0, n}
                 /\ legs'[n].open => legs[n].open
        <3>1. legs[n] \in LegType /\ legs[n].session \in {0, n}
            BY DEF LegsSound
        <3>2. legs'[n] \in {legs[n], [legs[n] EXCEPT !.tokens = @ + 1]}
            BY <2>1 DEF Charged
        <3>3. CASE legs'[n] = legs[n]
            BY <3>1, <3>3
        <3>4. CASE legs'[n] = [legs[n] EXCEPT !.tokens = @ + 1]
            BY <3>1, <3>4, ChargedOnce
        <3> QED
            BY <3>2, <3>3, <3>4
    <2>3. DOMAIN legs' = DOMAIN legs /\ legs' = [n \in DOMAIN legs |-> legs'[n]]
        BY <2>1 DEF Charged
    <2> QED
        BY <2>2, <2>3, LegsKept
<1>5. CASE Restart
    <2>1. legs' = [n \in DOMAIN legs |-> [legs[n] EXCEPT !.open = FALSE]]
        BY <1>5 DEF Restart
    <2>2. ASSUME NEW n \in DOMAIN legs
          PROVE  /\ legs'[n] \in LegType /\ legs'[n].session \in {0, n}
                 /\ legs'[n].open => legs[n].open
        <3>1. legs[n] \in LegType /\ legs[n].session \in {0, n}
            BY DEF LegsSound
        <3>2. legs'[n] = [legs[n] EXCEPT !.open = FALSE]
            BY <2>1
        <3> QED
            BY <3>1, <3>2, Closed
    <2> QED
        BY <2>1, <2>2, LegsKept DEF LegsSound
<1>6. CASE UNCHANGED legs
    BY <1>6 DEF LegsSound, Turn
<1>7. ASSUME [Next]_vars, ~OpenLeg, ~EndLeg, ~Correlate, ~Accept, ~Restart
      PROVE  UNCHANGED legs
    BY <1>7 DEF Next, vars, controlPlane, ToolResult, Checkpoint, CheckpointUnattributed,
        ReportQuotaReached, ReportTurnEnded, TickOverdue, Reject
<1> QED
    BY <1>1, <1>2, <1>3, <1>4, <1>5, <1>6, <1>7

-----------------------------------------------------------------------------
(* The reports and the queue.                                              *)

(* What each action but the drain and the restart puts into the queue, if  *)
(* anything.  Only the wheel speaks of deadlines.                          *)
Reported(by) ==
    \E fact \in Facts :
        /\ fact.kind = "checkpoint_expired" <=> by = "timer_wheel"
        /\ Taken(by, fact) \/ Backlogged(by)

LEMMA SaidByWorker ==
    ASSUME LegsSound, legs # <<>>,
           NEW o, o.kind \in FactKinds, o.arg \in Args, o.kind = "mutation" => o.arg \in Paths
    PROVE  FactOf(Turn, o) \in Facts /\ FactOf(Turn, o).kind = o.kind
<1>1. Turn \in 1 .. MaxLegs
    BY TurnInRange
<1> QED
    BY <1>1, HealthAssumption DEF Facts, FactOf, HealthAssumption

LEMMA WorkerReports ==
    ASSUME LegsSound, legs # <<>>,
           NEW kind \in FactKinds, NEW arg \in Args, kind = "mutation" => arg \in Paths,
           kind # "checkpoint_expired", WorkerSays(kind, arg)
    PROVE  Reported("worker")
<1> DEFINE o == Observation(kind, arg)
<1>1. o.kind = kind /\ o.arg = arg
    BY DEF Observation
<1>2. Patient("worker", FactOf(Turn, o))
    BY DEF WorkerSays
<1> HIDE DEF o
<1>3. FactOf(Turn, o) \in Facts /\ FactOf(Turn, o).kind # "checkpoint_expired"
    BY <1>1, SaidByWorker
<1> QED
    BY <1>2, <1>3 DEF Patient, Reported

LEMMA ToolReports ==
    ASSUME IInv, ToolResult
    PROVE  Reported("worker")
<1>1. PICK o \in Tools : WorkerSays(o.kind, o.arg)
    BY DEF ToolResult
<1>2. /\ o.kind \in FactKinds /\ o.arg \in Args /\ (o.kind = "mutation" => o.arg \in Paths)
      /\ o.kind # "checkpoint_expired"
    BY HealthAssumption DEF HealthAssumption, FactKinds, ToolKinds, Args, Paths
<1> QED
    BY <1>1, <1>2, WorkerReports DEF IInv, WorkerSound, ToolResult

LEMMA CheckpointReports ==
    ASSUME IInv, Checkpoint
    PROVE  Reported("checkpoint_tool")
<1>1. PICK c \in Claims : Patient("checkpoint_tool", FactOf(Turn, Observation("checkpoint", c)))
    BY DEF Checkpoint
<1> DEFINE o == Observation("checkpoint", c)
<1>2. /\ o.kind \in FactKinds /\ o.arg \in Args
      /\ o.kind # "mutation" /\ o.kind # "checkpoint_expired"
    BY DEF Observation, FactKinds, Args
<1> HIDE DEF o
<1>3. FactOf(Turn, o) \in Facts /\ FactOf(Turn, o).kind # "checkpoint_expired"
    BY <1>2, SaidByWorker DEF IInv, WorkerSound, Checkpoint
<1> QED
    BY <1>1, <1>3 DEF Patient, Reported, o

LEMMA TurnReports ==
    ASSUME IInv, Correlate \/ ReportQuotaReached \/ ReportTurnEnded
    PROVE  Reported("worker")
<1>1. PICK kind \in {"turn_started", "quota_parked", "turn_ended"} : WorkerSays(kind, "-")
    BY DEF Correlate, ReportQuotaReached, ReportTurnEnded
<1>2. /\ kind \in FactKinds /\ "-" \in Args
      /\ kind # "mutation" /\ kind # "checkpoint_expired"
    BY DEF FactKinds, TurnKinds, Args
<1>3. legs # <<>>
    BY DEF IInv, WorkerSound, Correlate, ReportQuotaReached, ReportTurnEnded, Speaking
<1> QED
    BY <1>1, <1>2, <1>3, WorkerReports DEF IInv

LEMMA WheelReports ==
    ASSUME IInv, TickOverdue
    PROVE  Reported("timer_wheel")
<1> DEFINE o == Observation("checkpoint_expired", "-")
           fact == FactOf(Last(legs).session, o)
<1>1. Attributed
    BY DEF TickOverdue, Attributed, Running
<1>2. Impatient("timer_wheel", fact)
    BY <1>1 DEF TickOverdue
<1>3. Last(legs).session \in 0 .. MaxLegs /\ Turn \in Nat
    BY <1>1, TurnInRange DEF Attributed, IInv, LegType
<1>4. o.kind = "checkpoint_expired" /\ o.arg = "-"
    BY DEF Observation
<1>5. fact \in Facts
    <2> HIDE DEF o
    <2>1. "checkpoint_expired" \in FactKinds /\ "-" \in Args
        BY DEF FactKinds, Args
    <2> QED
        BY <1>3, <1>4, <2>1 DEF Facts, FactOf
<1>6. fact.kind = "checkpoint_expired"
    BY <1>4 DEF FactOf
<1> HIDE DEF fact
<1> QED
    BY <1>2, <1>5, <1>6 DEF Impatient, Reported

LEMMA QueueStep ==
    ASSUME IInv, [Next]_vars
    PROVE  QueueSound'
<1> USE DEF IInv
<1>1. ASSUME NEW by, Reported(by)
      PROVE  QueueSound'
    <2>1. PICK fact \in Facts : Taken(by, fact) \/ Backlogged(by)
        BY <1>1 DEF Reported
    <2>2. CASE Taken(by, fact)
        <3>1. queue' = Append(queue, fact) /\ Len(queue) < Backlog
            BY <2>2 DEF Taken, Room
        <3>2. Append(queue, fact) \in Seq(Facts) /\ Len(Append(queue, fact)) = Len(queue) + 1
            BY AppendProperties DEF QueueSound
        <3>3. Len(queue) \in Nat /\ Backlog \in Nat
            BY HealthAssumption DEF QueueSound, HealthAssumption
        <3> QED
            BY <3>1, <3>2, <3>3 DEF QueueSound
    <2>3. CASE Backlogged(by)
        BY <2>3 DEF Backlogged, QueueSound
    <2> QED
        BY <2>1, <2>2, <2>3
<1>2. CASE ToolResult \/ Checkpoint \/ Correlate \/ ReportQuotaReached \/ ReportTurnEnded
           \/ TickOverdue
    BY <1>1, <1>2, ToolReports, CheckpointReports, TurnReports, WheelReports
<1>3. CASE Accept \/ Reject
    <2>1. queue # <<>> /\ queue' = Tail(queue)
        BY <1>3 DEF Accept, Reject, Drained
    <2>2. Tail(queue) \in Seq(Facts) /\ Len(Tail(queue)) = Len(queue) - 1
        BY <2>1 DEF QueueSound
    <2> QED
        BY <2>1, <2>2, HealthAssumption DEF QueueSound, HealthAssumption
<1>4. CASE Restart
    BY <1>4, HealthAssumption DEF Restart, QueueSound, HealthAssumption
<1>5. CASE UNCHANGED queue
    BY <1>5 DEF QueueSound
<1>6. CASE OpenLeg \/ EndLeg \/ CheckpointUnattributed \/ UNCHANGED vars
    BY <1>5, <1>6 DEF OpenLeg, EndLeg, CheckpointUnattributed, vars, process
<1> QED
    BY <1>2, <1>3, <1>4, <1>6 DEF Next

LEMMA WorkerStep ==
    ASSUME IInv, [Next]_vars
    PROVE  WorkerSound'
<1>1. legs # <<>> => legs' # <<>>
    <2>1. CASE OpenLeg
        BY <2>1 DEF OpenLeg, IInv, LegsSound
    <2>2. CASE EndLeg \/ Correlate \/ Accept \/ Restart
        <3>1. DOMAIN legs' = DOMAIN legs
            BY <2>2 DEF EndLeg, Correlate, Accept, Restart, Charged
        <3>2. legs \in Seq(LegType) /\ legs' \in Seq(LegType)
            BY LegsStep DEF IInv, LegsSound
        <3> QED
            BY <3>1, <3>2
    <2>3. CASE UNCHANGED legs
        BY <2>3
    <2> QED
        BY <2>1, <2>2, <2>3 DEF Next, vars, controlPlane, ToolResult, Checkpoint,
            CheckpointUnattributed, ReportQuotaReached, ReportTurnEnded, TickOverdue, Reject
<1>2. worker' \in {"none", "setup", "turn", "refused", "ended"}
    BY DEF IInv, WorkerSound, Next, vars, process, OpenLeg, EndLeg, Correlate, ToolResult,
        Checkpoint, CheckpointUnattributed, ReportQuotaReached, ReportTurnEnded, TickOverdue,
        Accept, Reject, Drained, Restart
<1>3. worker' # "none" => worker # "none" \/ OpenLeg
    BY DEF Next, vars, process, EndLeg, Correlate, ToolResult,
        Checkpoint, CheckpointUnattributed, ReportQuotaReached, ReportTurnEnded, Speaking,
        TickOverdue, Accept, Reject, Drained, Restart
<1>4. OpenLeg => legs' # <<>>
    BY DEF OpenLeg, IInv, LegsSound
<1> QED
    BY <1>1, <1>2, <1>3, <1>4 DEF IInv, WorkerSound

LEMMA ReportersStep ==
    ASSUME IInv, [Next]_vars
    PROVE  ReportersSound'
<1> USE DEF IInv, ReportersSound
<1>1. ASSUME NEW by \in Reporters,
             \E fact : Patient(by, fact) \/ Impatient(by, fact)
      PROVE  ReportersSound'
    <2>1. PICK fact : Patient(by, fact) \/ Impatient(by, fact)
        BY <1>1
    <2>2. CASE Taken(by, fact)
        BY <2>2 DEF Taken
    <2>3. CASE Backlogged(by) /\ (Mishap("patience") \/ UNCHANGED mishaps)
        <3>1. recorded' \subseteq Reporters /\ standing' \subseteq recorded'
            BY <2>3 DEF Backlogged
        <3>2. mishaps' \subseteq Faults
            BY <2>3 DEF Mishap
        <3> QED
            BY <3>1, <3>2
    <2> QED
        BY <2>1, <2>2, <2>3 DEF Patient, Impatient
<1>2. CASE ToolResult \/ Checkpoint \/ Correlate \/ ReportQuotaReached \/ ReportTurnEnded
    <2>1. \E fact : Patient("worker", fact) \/ Patient("checkpoint_tool", fact)
        BY <1>2 DEF ToolResult, Checkpoint, Correlate, ReportQuotaReached, ReportTurnEnded,
            WorkerSays
    <2>2. "worker" \in Reporters /\ "checkpoint_tool" \in Reporters
        BY DEF Reporters
    <2> QED
        BY <1>1, <2>1, <2>2
<1>3. CASE TickOverdue
    <2>1. \/ \E fact : Impatient("timer_wheel", fact)
          \/ UNCHANGED <<standing, recorded, mishaps>>
        BY <1>3 DEF TickOverdue
    <2>2. "timer_wheel" \in Reporters
        BY DEF Reporters
    <2> QED
        BY <1>1, <2>1, <2>2
<1>4. CASE OpenLeg
    BY <1>4 DEF OpenLeg, history
<1>5. CASE Accept \/ Reject
    BY <1>5 DEF Accept, Reject, Drained, Mishap
<1>6. CASE Restart
    BY <1>6 DEF Restart, Mishap
<1>7. CASE EndLeg \/ CheckpointUnattributed \/ UNCHANGED vars
    BY <1>7 DEF EndLeg, CheckpointUnattributed, vars, controlPlane, process, history
<1> QED
    BY <1>2, <1>3, <1>4, <1>5, <1>6, <1>7 DEF Next

-----------------------------------------------------------------------------
(* The ledger and the wheel.                                               *)

LEMMA TouchedInPaths ==
    ASSUME LegsSound, LedgerSound
    PROVE  TouchedPaths \in SUBSET Paths
<1>1. DOMAIN legs \subseteq 1 .. MaxLegs
    BY HealthAssumption DEF LegsSound, HealthAssumption
<1>2. \A n \in DOMAIN legs : touched[n] \subseteq Paths
    BY <1>1 DEF LedgerSound
<1> QED
    BY <1>2 DEF TouchedPaths

LEMMA TouchedStep ==
    ASSUME IInv, [Next]_vars
    PROVE  touched' \in [1 .. MaxLegs -> SUBSET Paths]
<1>1. touched \in [1 .. MaxLegs -> SUBSET Paths]
    BY DEF IInv, LedgerSound
<1>2. CASE ToolResult
    <2>1. PICK o \in Tools :
            touched' = [touched EXCEPT ![Turn] =
                            IF o.kind = "mutation" THEN @ \cup {o.arg} ELSE @]
        BY <1>2 DEF ToolResult
    <2>2. o.kind = "mutation" => o.arg \in Paths
        BY DEF Paths
    <2>3. Turn \in 1 .. MaxLegs
        BY <1>2, TurnInRange DEF ToolResult, IInv, WorkerSound
    <2> DEFINE written == IF o.kind = "mutation" THEN touched[Turn] \cup {o.arg} ELSE touched[Turn]
    <2>4. written \in SUBSET Paths
        BY <1>1, <2>2, <2>3
    <2>5. touched' = [touched EXCEPT ![Turn] = written]
        BY <2>1
    <2> HIDE DEF written
    <2> QED
        BY <1>1, <2>4, <2>5
<1>3. CASE UNCHANGED touched
    BY <1>1, <1>3
<1> QED
    BY <1>2, <1>3 DEF Next, vars, controlPlane, OpenLeg, EndLeg, Correlate, Checkpoint,
        CheckpointUnattributed, ReportQuotaReached, ReportTurnEnded, TickOverdue, Accept, Reject,
        Drained, Restart

LEMMA WheelStep ==
    ASSUME IInv, [Next]_vars
    PROVE  WheelSound'
<1> USE DEF IInv
<1>1. DOMAIN legs \subseteq DOMAIN legs'
    <2>1. CASE OpenLeg
        BY <2>1 DEF OpenLeg, LegsSound
    <2>2. CASE EndLeg \/ Correlate \/ Accept \/ Restart
        BY <2>2 DEF EndLeg, Correlate, Accept, Restart, Charged
    <2>3. CASE UNCHANGED legs
        BY <2>3
    <2> QED
        BY <2>1, <2>2, <2>3 DEF Next, vars, controlPlane, ToolResult, Checkpoint,
            CheckpointUnattributed, ReportQuotaReached, ReportTurnEnded, TickOverdue, Reject
<1>2. CASE TickOverdue
    <2>1. UNCHANGED promises /\ signalled' = signalled \cup {Measured} /\ legs # <<>>
        BY <1>2 DEF TickOverdue, Running
    <2>2. Measured \in {<<"checkpoint", k>> : k \in DOMAIN promises}
                        \cup {<<"started", n>> : n \in DOMAIN legs}
        <3>1. promises # <<>> => Len(promises) \in DOMAIN promises
            BY DEF WheelSound
        <3>2. Turn \in DOMAIN legs
            BY <2>1, TurnInRange
        <3> QED
            BY <3>1, <3>2 DEF Measured
    <2> QED
        BY <1>1, <2>1, <2>2 DEF WheelSound
<1>3. CASE Checkpoint \/ CheckpointUnattributed
    <2>1. promises' = Append(promises, Turn) /\ UNCHANGED signalled /\ legs # <<>>
        BY <1>3 DEF Checkpoint, CheckpointUnattributed, WorkerSound
    <2>2. Turn \in 1 .. MaxLegs
        BY <2>1, TurnInRange
    <2>3. promises' \in Seq(1 .. MaxLegs) /\ DOMAIN promises \subseteq DOMAIN promises'
        BY <2>1, <2>2 DEF WheelSound
    <2> QED
        BY <1>1, <2>1, <2>3 DEF WheelSound
<1>4. CASE UNCHANGED <<promises, signalled>>
    BY <1>1, <1>4 DEF WheelSound
<1> QED
    BY <1>2, <1>3, <1>4 DEF Next, vars, controlPlane, OpenLeg, EndLeg, Correlate, ToolResult,
        ReportQuotaReached, ReportTurnEnded, Accept, Reject, Drained, Restart

-----------------------------------------------------------------------------
(* The facts of the wheel.                                                 *)

LEMMA OverdueFinite ==
    ASSUME NEW q \in Seq(Facts)
    PROVE  IsFiniteSet(Overdue(q)) /\ Cardinality(Overdue(q)) \in Nat
<1>1. IsFiniteSet(1 .. Len(q))
    BY FS_Interval
<1>2. Overdue(q) \in SUBSET (1 .. Len(q))
    BY DEF Overdue
<1>3. IsFiniteSet(Overdue(q))
    BY <1>1, <1>2, FS_Subset
<1> QED
    BY <1>3, FS_CardinalityType

LEMMA OverdueAppended ==
    ASSUME NEW q \in Seq(Facts), NEW fact \in Facts
    PROVE  Cardinality(Overdue(Append(q, fact)))
            = Cardinality(Overdue(q)) + (IF fact.kind = "checkpoint_expired" THEN 1 ELSE 0)
<1> DEFINE r == Append(q, fact)
           last == Len(q) + 1
<1>1. /\ DOMAIN r = 1 .. last /\ r[last] = fact
      /\ \A i \in 1 .. Len(q) : r[i] = q[i]
      /\ DOMAIN q = 1 .. Len(q) /\ Len(q) \in Nat
    BY AppendProperties
<1>2. Overdue(q) \subseteq 1 .. Len(q) /\ last \notin Overdue(q)
    BY <1>1 DEF Overdue
<1>3. IsFiniteSet(Overdue(q)) /\ Cardinality(Overdue(q)) \in Nat
    BY OverdueFinite
<1>4. CASE fact.kind = "checkpoint_expired"
    <2>1. Overdue(r) = Overdue(q) \cup {last}
        BY <1>1, <1>4 DEF Overdue
    <2> HIDE DEF r, last
    <2>2. Cardinality(Overdue(q) \cup {last}) = Cardinality(Overdue(q)) + 1
        BY <1>2, <1>3, FS_AddElement
    <2> QED
        BY <1>4, <2>1, <2>2 DEF r
<1>5. CASE fact.kind # "checkpoint_expired"
    <2>1. Overdue(r) = Overdue(q)
        BY <1>1, <1>5 DEF Overdue
    <2> HIDE DEF r
    <2> QED
        BY <1>3, <1>5, <2>1 DEF r
<1> QED
    BY <1>4, <1>5

(* The head leaves the queue and the others move up.                       *)
LEMMA OverdueDrained ==
    ASSUME NEW q \in Seq(Facts), q # <<>>
    PROVE  Cardinality(Overdue(q))
            = Cardinality(Overdue(Tail(q)))
                + (IF Head(q).kind = "checkpoint_expired" THEN 1 ELSE 0)
<1> DEFINE r == Tail(q)
           rest == Overdue(q) \ {1}
           up == [i \in rest |-> i - 1]
<1>1. /\ Len(q) \in Nat /\ Len(q) # 0 /\ DOMAIN q = 1 .. Len(q)
      /\ Head(q) = q[1]
      /\ DOMAIN r = 1 .. Len(q) - 1 /\ r \in Seq(Facts)
      /\ \A i \in 1 .. Len(q) - 1 : r[i] = q[i + 1]
    BY HeadTailProperties
<1>2. IsFiniteSet(Overdue(q)) /\ Cardinality(Overdue(q)) \in Nat
    BY OverdueFinite
<1>3. IsFiniteSet(rest)
      /\ Cardinality(rest) = IF 1 \in Overdue(q) THEN Cardinality(Overdue(q)) - 1
                             ELSE Cardinality(Overdue(q))
    BY <1>2, FS_RemoveElement
<1>4. 1 \in Overdue(q) <=> Head(q).kind = "checkpoint_expired"
    BY <1>1 DEF Overdue
<1>5. up \in Bijection(rest, Overdue(r))
    <2>1. \A i \in rest : i \in 2 .. Len(q) /\ q[i].kind = "checkpoint_expired"
        BY <1>1 DEF Overdue
    <2>2. ASSUME NEW i \in rest
          PROVE  up[i] \in Overdue(r)
        <3>1. i - 1 \in 1 .. Len(q) - 1 /\ (i - 1) + 1 = i
            BY <1>1, <2>1
        <3>2. r[i - 1] = q[i]
            BY <1>1, <3>1
        <3> QED
            BY <1>1, <2>1, <3>1, <3>2 DEF Overdue
    <2>3. \A i, j \in rest : up[i] = up[j] => i = j
        BY <1>1, <2>1
    <2>4. ASSUME NEW k \in Overdue(r)
          PROVE  \E i \in rest : up[i] = k
        <3>1. k \in 1 .. Len(q) - 1 /\ r[k] = q[k + 1] /\ r[k].kind = "checkpoint_expired"
            <4> HIDE DEF r
            <4>1. k \in DOMAIN r /\ r[k].kind = "checkpoint_expired"
                BY DEF Overdue
            <4> QED
                BY <1>1, <4>1
        <3>2. k + 1 \in rest
            <4>1. k + 1 \in 1 .. Len(q) /\ k + 1 # 1
                BY <1>1, <3>1
            <4> QED
                BY <1>1, <3>1, <4>1 DEF Overdue
        <3>3. up[k + 1] = k
            BY <1>1, <3>1, <3>2
        <3> QED
            BY <3>2, <3>3
    <2> HIDE DEF rest, r
    <2>5. up \in [rest -> Overdue(r)]
        BY <2>2
    <2> HIDE DEF up
    <2> QED
        BY <2>3, <2>4, <2>5 DEF Bijection, Injection, Surjection, IsInjective
<1>6. Cardinality(Overdue(r)) = Cardinality(rest)
    <2> HIDE DEF rest, r, up
    <2>1. ExistsBijection(rest, Overdue(r))
        BY <1>5 DEF ExistsBijection
    <2> QED
        BY <1>3, <2>1, FS_Bijection
<1> HIDE DEF rest
<1> QED
    BY <1>2, <1>3, <1>4, <1>6

\* The signals and the facts of the wheel, as one invariant.
WheelAccounted ==
    /\ heard \in Nat
    /\ IsFiniteSet(signalled) /\ Cardinality(signalled) \in Nat
    /\ SignalIsAccountedFor

\* What is left to account for is at most what it was.
NoMoreDue ==
    /\ "restart" \in mishaps => "restart" \in mishaps'
    /\ "timer_wheel" \in recorded => "timer_wheel" \in recorded'

LEMMA OverdueElse ==
    ASSUME IInv, NEW by, by # "timer_wheel", Reported(by)
    PROVE  Cardinality(Overdue(queue')) = Cardinality(Overdue(queue))
<1>1. PICK fact \in Facts : fact.kind # "checkpoint_expired" /\ (Taken(by, fact) \/ Backlogged(by))
    BY DEF Reported
<1>2. CASE Taken(by, fact)
    <2>1. queue \in Seq(Facts) /\ queue' = Append(queue, fact)
        BY <1>2 DEF IInv, QueueSound, Taken
    <2>2. Cardinality(Overdue(queue)) \in Nat
        BY <2>1, OverdueFinite
    <2> QED
        BY <1>1, <2>1, <2>2, OverdueAppended
<1>3. CASE Backlogged(by)
    BY <1>3 DEF Backlogged
<1> QED
    BY <1>1, <1>2, <1>3

LEMMA WheelAccountedStep ==
    ASSUME IInv, [Next]_vars, WheelAccounted
    PROVE  WheelAccounted'
<1> USE DEF WheelAccounted
<1>q. queue \in Seq(Facts) /\ Cardinality(Overdue(queue)) \in Nat
    BY OverdueFinite DEF IInv, QueueSound
<1>1. ASSUME NoMoreDue, UNCHANGED <<signalled, heard>>,
             Cardinality(Overdue(queue')) = Cardinality(Overdue(queue))
      PROVE  WheelAccounted'
    BY <1>1 DEF NoMoreDue, SignalIsAccountedFor
<1>2. CASE Correlate \/ ToolResult \/ Checkpoint \/ ReportQuotaReached \/ ReportTurnEnded
    <2>1. PICK by \in {"worker", "checkpoint_tool"} : Reported(by)
        BY <1>2, TurnReports, ToolReports, CheckpointReports
    <2>2. UNCHANGED <<signalled, heard>>
        BY <1>2 DEF Correlate, ToolResult, Checkpoint, ReportQuotaReached, ReportTurnEnded
    <2>3. \E who, fact : Patient(who, fact)
        BY <1>2 DEF Correlate, ToolResult, Checkpoint, ReportQuotaReached, ReportTurnEnded,
            WorkerSays
    <2>4. NoMoreDue
        BY <2>3 DEF Patient, Taken, Backlogged, Mishap, NoMoreDue
    <2> QED
        BY <1>1, <2>1, <2>2, <2>4, OverdueElse
<1>3. CASE TickOverdue
    <2>1. Impatient("timer_wheel", FactOf(Last(legs).session, Observation("checkpoint_expired", "-")))
        BY <1>3 DEF TickOverdue, Attributed, Running
    <2>2. /\ Measured \notin signalled /\ signalled' = signalled \cup {Measured}
          /\ UNCHANGED heard
        BY <1>3, <2>1 DEF TickOverdue
    <2>3. /\ IsFiniteSet(signalled')
          /\ Cardinality(signalled') = Cardinality(signalled) + 1
        BY <2>2, FS_AddElement
    <2>4. PICK fact \in Facts :
            /\ fact.kind = "checkpoint_expired"
            /\ Taken("timer_wheel", fact) \/ Backlogged("timer_wheel")
        BY <1>3, WheelReports DEF Reported
    <2>5. CASE Taken("timer_wheel", fact)
        <3>1. queue' = Append(queue, fact) /\ UNCHANGED <<recorded, mishaps>>
            BY <2>5 DEF Taken
        <3>2. Cardinality(Overdue(queue')) = Cardinality(Overdue(queue)) + 1
            BY <1>q, <2>4, <3>1, OverdueAppended
        <3> QED
            BY <1>q, <2>2, <2>3, <3>1, <3>2 DEF SignalIsAccountedFor
    <2>6. CASE Backlogged("timer_wheel")
        <3>1. "timer_wheel" \in recorded'
            BY <2>6 DEF IInv, ReportersSound, Backlogged
        <3> QED
            BY <2>2, <2>3, <3>1 DEF SignalIsAccountedFor
    <2> QED
        BY <2>4, <2>5, <2>6
<1>4. CASE Accept \/ Reject
    <2>1. /\ queue # <<>> /\ queue' = Tail(queue)
          /\ heard' = heard + (IF Head(queue).kind = "checkpoint_expired" THEN 1 ELSE 0)
          /\ UNCHANGED <<signalled, recorded>>
        BY <1>4 DEF Accept, Reject, Drained
    <2>2. "restart" \in mishaps => "restart" \in mishaps'
        BY <1>4 DEF Accept, Reject, Mishap
    <2>3. Tail(queue) \in Seq(Facts)
        BY <1>q, <2>1, HeadTailProperties
    <2>4. Cardinality(Overdue(queue')) \in Nat
        BY <2>1, <2>3, OverdueFinite
    <2>5. Cardinality(Overdue(queue))
            = Cardinality(Overdue(queue')) + (IF Head(queue).kind = "checkpoint_expired" THEN 1 ELSE 0)
        BY <1>q, <2>1, OverdueDrained
    <2> QED
        BY <1>q, <2>1, <2>2, <2>4, <2>5 DEF SignalIsAccountedFor
<1>5. CASE Restart
    <2>1. "restart" \in mishaps' /\ UNCHANGED <<signalled, heard>>
        BY <1>5 DEF Restart, Mishap
    <2> QED
        BY <2>1 DEF SignalIsAccountedFor
<1>6. CASE OpenLeg \/ EndLeg \/ CheckpointUnattributed \/ UNCHANGED vars
    <2>1. UNCHANGED <<signalled, heard, queue, mishaps, recorded>>
        BY <1>6 DEF OpenLeg, EndLeg, CheckpointUnattributed, vars, controlPlane, process, history
    <2> QED
        BY <1>1, <2>1 DEF NoMoreDue
<1> QED
    BY <1>2, <1>3, <1>4, <1>5, <1>6 DEF Next

-----------------------------------------------------------------------------
(* The fold and the charges.                                               *)

(* What an accepted fact writes.                                           *)
LEMMA Accepting ==
    ASSUME IInv, Accept
    PROVE  /\ FoldSound'
           /\ journal'.ended =
                IF Head(queue).kind = "turn_ended"
                THEN [journal.ended EXCEPT ![Head(queue).leg] = @ + 1]
                ELSE journal.ended
<1> DEFINE fact == Head(queue)
           d == Digested(journal.fold, journal, fact)
<1>1. /\ journal \in JournalType /\ JournalSound(journal)
      /\ genesis = journal.paths /\ memo \in {<<>>, <<journal.fold>>}
    BY DEF IInv, FoldSound
<1>2. fact \in Facts /\ TouchedPaths \in SUBSET Paths
    BY TouchedInPaths DEF IInv, Accept, Drained, QueueSound
<1>3. Folds = {journal.fold}
    <2>1. CASE memo = <<>>
        <3>1. Range(memo) = {}
            BY <2>1 DEF Range
        <3> QED
            BY <3>1 DEF Folds
    <2>2. CASE memo = <<journal.fold>>
        <3>1. DOMAIN memo = {1} /\ memo[1] = journal.fold
            BY <2>2
        <3>2. Range(memo) = {journal.fold}
            BY <3>1 DEF Range
        <3> QED
            BY <3>2 DEF Folds
    <2> QED
        BY <1>1, <2>1, <2>2
<1>4. /\ journal' = d.journal /\ health' = Snapshot(d.state)
      /\ genesis' = (IF genesis = {} THEN d.frozen ELSE genesis)
      /\ memo' = <<d.state>>
    BY <1>3 DEF Accept
<1>d. d = Digested(journal.fold, journal, fact)
    OBVIOUS
<1> HIDE DEF d, fact
<1>5. /\ d.journal \in JournalType /\ d.state = d.journal.fold
      /\ JournalSound(d.journal)
      /\ d.journal.paths = journal.paths \cup d.frozen
      /\ d.frozen # {} => journal.paths = {}
      /\ d.journal.ended =
            IF fact.kind = "turn_ended" THEN [journal.ended EXCEPT ![fact.leg] = @ + 1]
            ELSE journal.ended
    BY <1>1, <1>2, <1>d, Replayed
<1>6. JournalSound(journal)'
    BY <1>4, <1>5 DEF JournalSound
<1>7. genesis' = journal'.paths
    BY <1>1, <1>4, <1>5
<1>8. FoldSound'
    BY <1>4, <1>5, <1>6, <1>7 DEF FoldSound
<1> QED
    BY <1>4, <1>5, <1>8 DEF fact

LEMMA FoldStep ==
    ASSUME IInv, [Next]_vars
    PROVE  FoldSound'
<1>1. CASE Accept
    BY <1>1, Accepting
<1>2. CASE Restart
    <2>1. UNCHANGED <<genesis, health, journal>> /\ memo' = <<>>
        BY <1>2 DEF Restart
    <2> QED
        BY <2>1 DEF IInv, FoldSound, JournalSound, Snapshot
<1>3. CASE UNCHANGED <<genesis, health, journal, memo>>
    BY <1>3 DEF IInv, FoldSound, JournalSound, Snapshot
<1> QED
    BY <1>1, <1>2, <1>3 DEF Next, vars, controlPlane, process, OpenLeg, EndLeg, Correlate,
        ToolResult, Checkpoint, CheckpointUnattributed, ReportQuotaReached, ReportTurnEnded,
        TickOverdue, Reject

(* The end of a turn that is accepted is of the run's last attempt.        *)
LEMMA AcceptedTurn ==
    ASSUME IInv, Accept, Head(queue).kind = "turn_ended"
    PROVE  legs # <<>> /\ Head(queue).leg = Turn
<1>1. Head(queue).leg # 0
    BY DEF IInv, QueueSound, Facts, Accept, Drained
<1>2. legs # <<>> /\ Last(legs).session = Head(queue).leg
    BY DEF Accept, Attributable
<1> QED
    BY <1>1, <1>2, TurnInRange DEF IInv

LEMMA ChargesStep ==
    ASSUME IInv, [Next]_vars
    PROVE  ChargesStayWithTheirLeg'
<1> USE DEF IInv, ChargesStayWithTheirLeg
<1>1. /\ DOMAIN legs \subseteq 1 .. MaxLegs
      /\ journal.ended \in [1 .. MaxLegs -> Nat]
      /\ \A n \in DOMAIN legs : legs[n] \in LegType /\ legs[n].tokens \in Nat
    <2>1. DOMAIN legs \subseteq 1 .. MaxLegs /\ \A n \in DOMAIN legs : legs[n] \in LegType
        BY HealthAssumption DEF LegsSound, HealthAssumption
    <2>2. journal.ended \in [1 .. MaxLegs -> Nat]
        BY DEF FoldSound, JournalType
    <2>3. \A leg \in LegType : leg.tokens \in Nat
        BY DEF LegType
    <2> QED
        BY <2>1, <2>2, <2>3
<1>2. CASE Accept
    <2>1. /\ legs' = Charged(Head(queue))
          /\ journal'.ended =
                IF Head(queue).kind = "turn_ended"
                THEN [journal.ended EXCEPT ![Head(queue).leg] = @ + 1]
                ELSE journal.ended
        BY <1>2, Accepting DEF Accept
    <2> SUFFICES ASSUME NEW n \in DOMAIN legs
                 PROVE  legs'[n].tokens <= journal'.ended[n]
        BY <2>1 DEF Charged
    <2>2. CASE Head(queue).kind = "turn_ended" /\ legs[n].open
        <3>1. n = Turn /\ Head(queue).leg = n
            BY <1>2, <2>2, AcceptedTurn DEF LegsSound
        <3>2. journal'.ended[n] = journal.ended[n] + 1
            BY <1>1, <2>1, <2>2, <3>1
        <3>3. legs'[n] = [legs[n] EXCEPT !.tokens = @ + 1]
            BY <2>1, <2>2 DEF Charged
        <3>4. legs'[n].tokens = legs[n].tokens + 1
            BY <1>1, <3>3, ChargedOnce
        <3>5. legs[n].tokens \in Nat /\ journal.ended[n] \in Nat
            BY <1>1
        <3>6. legs[n].tokens <= journal.ended[n]
            OBVIOUS
        <3> QED
            BY <3>2, <3>4, <3>5, <3>6
    <2>3. CASE ~(Head(queue).kind = "turn_ended" /\ legs[n].open)
        <3>1. legs'[n] = legs[n]
            BY <2>1, <2>3 DEF Charged
        <3>2. n \in 1 .. MaxLegs /\ journal.ended[n] \in Nat
            BY <1>1
        <3>3. journal'.ended[n] \in {journal.ended[n], journal.ended[n] + 1}
            BY <1>1, <2>1, <3>2
        <3> QED
            BY <1>1, <3>1, <3>2, <3>3
    <2> QED
        BY <2>2, <2>3
<1>3. CASE OpenLeg
    <2>1. /\ legs' = Append(legs, [session |-> 0, open |-> TRUE, tokens |-> 0])
          /\ UNCHANGED journal
        BY <1>3 DEF OpenLeg
    <2>2. /\ legs' \in Seq(LegType) /\ Len(legs') <= MaxLegs
          /\ DOMAIN legs' = 1 .. Len(legs) + 1
          /\ legs'[Len(legs) + 1].tokens = 0
          /\ \A n \in 1 .. Len(legs) : legs'[n] = legs[n]
        BY <2>1, LegsStep DEF LegsSound
    <2>3. journal.ended[Len(legs) + 1] \in Nat
        BY <1>1, <2>2, HealthAssumption DEF LegsSound, HealthAssumption
    <2>4. DOMAIN legs = 1 .. Len(legs) /\ Len(legs) \in Nat
        BY DEF LegsSound
    <2> SUFFICES ASSUME NEW n \in 1 .. Len(legs) + 1
                 PROVE  legs'[n].tokens <= journal.ended[n]
        BY <2>1, <2>2
    <2>5. CASE n = Len(legs) + 1
        BY <2>2, <2>3, <2>5
    <2>6. CASE n \in 1 .. Len(legs)
        BY <2>2, <2>4, <2>6
    <2> QED
        BY <2>4, <2>5, <2>6
<1>4. CASE EndLeg \/ Correlate \/ Restart
    <2>1. DOMAIN legs' = DOMAIN legs /\ UNCHANGED journal
        BY <1>4 DEF EndLeg, Correlate, Restart
    <2> SUFFICES ASSUME NEW n \in DOMAIN legs
                 PROVE  legs'[n].tokens = legs[n].tokens
        BY <2>1
    <2>2. \/ legs'[n] = legs[n]
          \/ legs'[n] = [legs[n] EXCEPT !.open = FALSE]
          \/ n = Turn /\ legs'[n] = [legs[n] EXCEPT !.session = Turn]
        BY <1>4 DEF EndLeg, Correlate, Restart
    <2>3. n = Turn => Turn \in 0 .. MaxLegs
        BY <1>1
    <2> QED
        BY <1>1, <2>2, <2>3, Closed, Named
<1>5. CASE UNCHANGED <<legs, journal>>
    BY <1>5
<1> QED
    BY <1>2, <1>3, <1>4, <1>5 DEF Next, vars, controlPlane, ToolResult, Checkpoint,
        CheckpointUnattributed, ReportQuotaReached, ReportTurnEnded, TickOverdue, Reject

-----------------------------------------------------------------------------
(* The theorems.                                                           *)

LEMMA InitInv == Init => IInv
<1> SUFFICES ASSUME Init PROVE IInv
    OBVIOUS
<1>1. LegsSound /\ WheelSound /\ ReportersSound /\ WorkerSound /\ QueueSound
      /\ ChargesStayWithTheirLeg
    BY HealthAssumption DEF Init, LegsSound, WheelSound, ReportersSound, WorkerSound, QueueSound,
        ChargesStayWithTheirLeg, HealthAssumption
<1>2. LedgerSound
    BY DEF Init, LedgerSound
<1>3. FoldSound
    <2>1. Fresh \in FoldType /\ Fresh.frozen = {}
        BY DEF Fresh, FoldType, Args
    <2>2. journal = Empty /\ journal.fold = Fresh
        BY DEF Init, Empty
    <2>3. Empty \in JournalType
        BY <2>1 DEF Empty, JournalType
    <2>4. JournalSound(Empty) /\ Empty.paths = {} /\ Empty.fold = Fresh
        BY <2>1 DEF Empty, JournalSound
    <2> QED
        BY <2>2, <2>3, <2>4 DEF Init, FoldSound
<1> QED
    BY <1>1, <1>2, <1>3 DEF IInv

LEMMA NextInv == IInv /\ [Next]_vars => IInv'
<1> SUFFICES ASSUME IInv, [Next]_vars PROVE IInv'
    OBVIOUS
<1>1. FoldSound'
    BY FoldStep
<1>2. genesis' \in SUBSET Paths
    BY <1>1 DEF FoldSound, JournalType
<1>3. LedgerSound'
    BY <1>2, TouchedStep DEF LedgerSound
<1> QED
    BY <1>1, <1>3, LegsStep, WheelStep, ReportersStep, WorkerStep, QueueStep, ChargesStep DEF IInv

LEMMA Invariance == Spec => []IInv
BY InitInv, NextInv, PTL DEF Spec

LEMMA WheelInit == Init => WheelAccounted
<1> SUFFICES ASSUME Init PROVE WheelAccounted
    OBVIOUS
<1>1. signalled = {} /\ heard = 0 /\ Overdue(queue) = {}
    BY DEF Init, Overdue
<1>2. IsFiniteSet({}) /\ Cardinality({}) = 0
    BY FS_EmptySet
<1> QED
    BY <1>1, <1>2 DEF WheelAccounted, SignalIsAccountedFor

(* The rows, the queue and the memo of a run keep their types for any      *)
(* number of attempts and reports and any size of queue.                   *)
THEOREM TypeCorrect == Spec => []TypeOK
<1>1. IInv => TypeOK
    <2> SUFFICES ASSUME IInv PROVE TypeOK
        OBVIOUS
    <2>1. Len(memo) <= 1
        <3>1. memo = <<>> \/ memo = <<journal.fold>>
            BY DEF IInv, FoldSound
        <3>2. CASE memo = <<>>
            BY <3>2
        <3>3. CASE memo = <<journal.fold>>
            BY <3>3
        <3> QED
            BY <3>1, <3>2, <3>3
    <2> QED
        BY <2>1 DEF IInv, LegsSound, LegType, LedgerSound, WheelSound, ReportersSound,
            WorkerSound, QueueSound, TypeOK
<1> QED
    BY <1>1, Invariance, PTL

(* The row and the memo are what a replay of the journal yields            *)
(* (ingest/mod.rs, replay and accept), for any facts, tools, legs, faults. *)
THEOREM RecomputableTheorem == Spec => []HealthIsRecomputable
<1>1. IInv => HealthIsRecomputable
    BY DEF IInv, FoldSound, HealthIsRecomputable
<1> QED
    BY <1>1, Invariance, PTL

(* Paths are frozen once, the row and the journal hold the same, and every *)
(* mutation outside of them has its divergence (accept, apply_ingest).     *)
THEOREM GenesisTheorem == Spec => []GenesisAgrees
<1>1. IInv => GenesisAgrees
    BY DEF IInv, FoldSound, JournalSound, JournalType, GenesisAgrees
<1> QED
    BY <1>1, Invariance, PTL

(* Between two reports of a loss there is progress, replayed or not        *)
(* (raise_signals, replay).                                                *)
THEOREM LostTheorem == Spec => []LostStandsUntilProgress
<1>1. IInv => LostStandsUntilProgress
    BY DEF IInv, FoldSound, JournalSound, LostStandsUntilProgress
<1> QED
    BY <1>1, Invariance, PTL

(* No attempt is charged for a turn of another (apply_ingest,              *)
(* check_attribution).                                                     *)
THEOREM ChargesTheorem == Spec => []ChargesStayWithTheirLeg
<1>1. IInv => ChargesStayWithTheirLeg
    BY DEF IInv
<1> QED
    BY <1>1, Invariance, PTL

(* Each overdue signal has one fact: waiting, drained, refused with a     *)
(* trace, or lost with the process (timer_loop, FactSender::report).       *)
THEOREM WheelTheorem == Spec => []SignalIsAccountedFor
<1>1. IInv /\ WheelAccounted /\ [Next]_vars => WheelAccounted'
    BY WheelAccountedStep
<1>2. WheelAccounted => SignalIsAccountedFor
    BY DEF WheelAccounted
<1> QED
    BY <1>1, <1>2, WheelInit, Invariance, PTL DEF Spec

(* A turn's end is folded only while its attempt is the last               *)
(* (check_attribution), however long it waited.                            *)
THEOREM StragglersTheorem == Spec => StragglersAreRefused
<1> DEFINE Refused == \A n \in 1 .. MaxLegs : journal'.ended[n] # journal.ended[n] => n = Turn
<1>1. ASSUME IInv, [Next]_vars
      PROVE  [Refused]_vars
    <2>1. CASE Accept
        <3>1. journal'.ended =
                IF Head(queue).kind = "turn_ended"
                THEN [journal.ended EXCEPT ![Head(queue).leg] = @ + 1]
                ELSE journal.ended
            BY <1>1, <2>1, Accepting
        <3>2. journal.ended \in [1 .. MaxLegs -> Nat]
            BY <1>1 DEF IInv, FoldSound, JournalType
        <3> QED
            BY <1>1, <2>1, <3>1, <3>2, AcceptedTurn
    <2>2. CASE UNCHANGED journal
        BY <2>2
    <2> QED
        BY <1>1, <2>1, <2>2 DEF Next, vars, controlPlane, OpenLeg, EndLeg, Correlate, ToolResult,
            Checkpoint, CheckpointUnattributed, ReportQuotaReached, ReportTurnEnded, TickOverdue,
            Reject, Restart
<1> QED
    BY <1>1, Invariance, PTL DEF Spec, StragglersAreRefused
=============================================================================
