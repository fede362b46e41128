---------------------------- MODULE MergeGateProofs ----------------------------
(***************************************************************************)
(* What holds of MergeGate for every value of its constants.               *)
(*                                                                         *)
(* The gate acts on what it derived steps ago, without the repository      *)
(* holding still.  The invariant says what survives of that: the approval  *)
(* it carries is still the one it read, because nobody else moves an       *)
(* approval while the lock is held; the tree it derived is still behind    *)
(* the branch's head, because commits are only added; and once integrated  *)
(* it is behind main, because main only grows.                             *)
(***************************************************************************)
EXTENDS MergeGate, TLAPS

\* The candidates of a pass are of distinct runs, and the authorization one of
\* them carries has no verdict yet.
Unjudged(c) ==
    c.work = "merge" =>
        /\ c.approval \in DOMAIN approvals[c.run]
        /\ ~approvals[c.run][c.approval].presented

CandidatesSound ==
    /\ \A c \in todo : Unjudged(c)
    /\ \A c, d \in todo : c.run = d.run => c = d
    /\ current # NoWork => Unjudged(current) /\ \A c \in todo : c.run # current.run

\* The gate works on the candidate at hand and on the approval it read.
GateSound ==
    gate # NoGate =>
        IF gate.step = "dispose"
        THEN current = NoWork
        ELSE /\ current # NoWork
             /\ current.work = "merge"
             /\ current.run = gate.run /\ current.approval = gate.approval
             /\ approvals[gate.run][gate.approval].state = "answered"
             /\ approvals[gate.run][gate.approval].tree = gate.tree
             /\ gate.tree <= head[gate.run]
             /\ gate.merged => gate.tree <= onMain[gate.run]

MainIsBehind == \A r \in Runs : onMain[r] <= head[r]

IntegratedIsLanded ==
    gate # NoGate /\ gate.step = "settle" => gate.tree <= onMain[gate.run]

IInv == TypeOK /\ CandidatesSound /\ GateSound /\ MainIsBehind

-----------------------------------------------------------------------------
(* One approval of one run is rewritten: the rest stay as they are.        *)
LEMMA OneApproval ==
    ASSUME TypeOK, NEW r \in Runs, NEW a \in DOMAIN approvals[r], NEW x \in Approval,
           approvals' = [approvals EXCEPT ![r][a] = x]
    PROVE  /\ approvals' \in [Runs -> Seq(Approval)]
           /\ \A o \in Runs : DOMAIN approvals'[o] = DOMAIN approvals[o]
           /\ approvals'[r][a] = x
           /\ \A o \in Runs : \A b \in DOMAIN approvals[o] :
                <<o, b>> # <<r, a>> => approvals'[o][b] = approvals[o][b]
<1>1. approvals \in [Runs -> Seq(Approval)]
    BY DEF TypeOK
<1>2. approvals[r] \in Seq(Approval)
    BY <1>1
<1>3. [approvals[r] EXCEPT ![a] = x] \in Seq(Approval)
    BY <1>2
<1>4. approvals' = [approvals EXCEPT ![r] = [approvals[r] EXCEPT ![a] = x]]
    OBVIOUS
<1>5. approvals' \in [Runs -> Seq(Approval)]
    BY <1>1, <1>3, <1>4
<1>6. QED
    BY <1>1, <1>2, <1>4, <1>5

(* The fields of an approval that a step rewrites keep their types.        *)
LEMMA FieldsKeepTheirType ==
    ASSUME NEW x \in Approval
    PROVE  /\ [x EXCEPT !.state = "answered"] \in Approval
           /\ [x EXCEPT !.state = "expired"] \in Approval
           /\ [x EXCEPT !.passed = TRUE] \in Approval
           /\ [x EXCEPT !.presented = TRUE] \in Approval
           /\ [x EXCEPT !.state = "delivered", !.presented = TRUE] \in Approval
           /\ [x EXCEPT !.state = "answered"].tree = x.tree
           /\ [x EXCEPT !.state = "expired"].tree = x.tree
           /\ [x EXCEPT !.passed = TRUE].tree = x.tree
           /\ [x EXCEPT !.presented = TRUE].tree = x.tree
           /\ [x EXCEPT !.passed = TRUE].state = x.state
           /\ [x EXCEPT !.presented = TRUE].state = x.state
           /\ [x EXCEPT !.state = "delivered", !.presented = TRUE].tree = x.tree
    BY DEF Approval

(* A candidate is made of its run and, for a merge, of the first           *)
(* authorization that is pending.                                          *)
LEMMA CandidatesType ==
    ASSUME TypeOK
    PROVE  /\ Candidates \subseteq Work
           /\ \A c \in Candidates : Unjudged(c)
           /\ \A c, d \in Candidates : c.run = d.run => c = d
<1>1. ASSUME NEW r \in Runs, NEW a \in Pending(r)
      PROVE  /\ a \in DOMAIN approvals[r] /\ ~approvals[r][a].presented
             /\ a \in Nat \ {0} /\ approvals[r][a].passed \in BOOLEAN
             /\ Candidate(r, "merge", a) =
                  [run |-> r, work |-> "merge", approval |-> a, late |-> approvals[r][a].passed]
    <2>1. approvals[r] \in Seq(Approval)
        BY DEF TypeOK
    <2>2. a \in DOMAIN approvals[r] /\ ~approvals[r][a].presented
        BY <1>1 DEF Pending
    <2>3. a \in Nat \ {0} /\ approvals[r][a] \in Approval
        BY <2>1, <2>2
    <2>4. approvals[r][a].passed \in BOOLEAN
        BY <2>3 DEF Approval
    <2>5. QED
        BY <2>2, <2>3, <2>4 DEF Candidate
<1>2. ASSUME NEW r \in Runs, NEW work \in {"release", "dispose"}
      PROVE  Candidate(r, work, 0) = [run |-> r, work |-> work, approval |-> 0, late |-> FALSE]
    BY DEF Candidate
<1>3. ASSUME NEW c \in Candidates
      PROVE  \E r \in Runs :
                \/ /\ worktree[r] = "active"
                   /\ \E a \in FirstPending(r) : c = Candidate(r, "merge", a)
                \/ worktree[r] = "active" /\ Pending(r) = {} /\ c = Candidate(r, "release", 0)
                \/ worktree[r] = "reclaimable" /\ c = Candidate(r, "dispose", 0)
    BY <1>3 DEF Candidates
<1>4. ASSUME NEW c \in Candidates
      PROVE  c \in Work /\ Unjudged(c)
    <2>1. PICK r \in Runs :
                \/ \E a \in FirstPending(r) : c = Candidate(r, "merge", a)
                \/ c = Candidate(r, "release", 0) \/ c = Candidate(r, "dispose", 0)
        BY <1>3
    <2>2. ASSUME NEW a \in FirstPending(r), c = Candidate(r, "merge", a)
          PROVE  c \in Work /\ Unjudged(c)
        <3>1. a \in Pending(r)
            BY <2>2 DEF FirstPending
        <3>2. QED
            BY <1>1, <2>2, <3>1 DEF Work, Unjudged
    <2>3. ASSUME NEW work \in {"release", "dispose"}, c = Candidate(r, work, 0)
          PROVE  c \in Work /\ Unjudged(c)
        <3>1. c = [run |-> r, work |-> work, approval |-> 0, late |-> FALSE]
            BY <1>2, <2>3
        <3>2. QED
            BY <3>1 DEF Work, Unjudged
    <2>4. QED
        BY <2>1, <2>2, <2>3
<1>5. ASSUME NEW c \in Candidates, NEW d \in Candidates, c.run = d.run
      PROVE  c = d
    <2> DEFINE Is(x, r) ==
                \/ /\ worktree[r] = "active"
                   /\ \E a \in FirstPending(r) : x = Candidate(r, "merge", a)
                \/ worktree[r] = "active" /\ Pending(r) = {} /\ x = Candidate(r, "release", 0)
                \/ worktree[r] = "reclaimable" /\ x = Candidate(r, "dispose", 0)
    <2>1. PICK r \in Runs : Is(c, r)
        BY <1>3
    <2>2. PICK o \in Runs : Is(d, o)
        BY <1>3
    <2>3. c.run = r /\ d.run = o
        <3>1. \A q, w, a : Candidate(q, w, a).run = q
            BY DEF Candidate
        <3>2. /\ \E w, a : c = Candidate(r, w, a)
              /\ \E w, a : d = Candidate(o, w, a)
            BY <2>1, <2>2
        <3>3. QED
            BY <3>1, <3>2
    <2>4. Is(c, r) /\ Is(d, r)
        BY <1>5, <2>1, <2>2, <2>3
    <2>5. CASE worktree[r] = "active" /\ Pending(r) # {}
        <3>1. PICK a \in FirstPending(r) : c = Candidate(r, "merge", a)
            BY <2>4, <2>5
        <3>2. PICK b \in FirstPending(r) : d = Candidate(r, "merge", b)
            BY <2>4, <2>5
        <3>3. a \in Nat /\ b \in Nat /\ a <= b /\ b <= a
            BY <1>1, <3>1, <3>2 DEF FirstPending
        <3>4. QED
            BY <3>1, <3>2, <3>3
    <2>6. CASE worktree[r] = "active" /\ Pending(r) = {}
        <3>1. FirstPending(r) = {}
            BY <2>6 DEF FirstPending
        <3>2. QED
            BY <2>4, <2>6, <3>1
    <2>7. CASE worktree[r] = "reclaimable"
        BY <2>4, <2>7
    <2>8. QED
        BY <2>4, <2>5, <2>6, <2>7
<1>6. QED
    BY <1>4, <1>5

(* What the sweep holds is work on a run of this daemon.                   *)
LEMMA HandsAreFull ==
    ASSUME TypeOK
    PROVE  /\ current # NoWork => /\ current \in Work /\ current.run \in Runs
                                  /\ current.approval \in Nat
                                  /\ [current EXCEPT !.work = "dispose"] \in Work
                                  /\ [current EXCEPT !.work = "reclaim"] \in Work
           /\ gate # NoGate => gate \in Gate /\ gate.run \in Runs /\ gate.tree \in Trees
           /\ NoWork \notin Work /\ NoGate \notin Gate
    BY GateAssumption DEF TypeOK, Work, NoWork, Gate, NoGate

-----------------------------------------------------------------------------
(* What somebody other than the sweep does leaves the sweep sound, if it   *)
(* only adds approvals and commits, rewrites no verdict, and leaves states *)
(* alone while a gate is under way.                                        *)
LEMMA Frame ==
    ASSUME IInv, UNCHANGED sweep,
           \A r \in Runs : \A a \in DOMAIN approvals[r] :
              /\ a \in DOMAIN approvals'[r]
              /\ approvals'[r][a].presented = approvals[r][a].presented
              /\ gate # NoGate =>
                    /\ approvals'[r][a].state = approvals[r][a].state
                    /\ approvals'[r][a].tree = approvals[r][a].tree,
           \A r \in Runs : /\ head[r] <= head'[r] /\ onMain[r] <= onMain'[r]
                           /\ onMain'[r] <= head'[r]
                           /\ head'[r] \in Trees /\ onMain'[r] \in Trees
    PROVE  CandidatesSound' /\ GateSound' /\ MainIsBehind'
<1>1. TypeOK /\ CandidatesSound /\ GateSound /\ UNCHANGED <<todo, current, gate>>
    BY DEF IInv, sweep
<1>2. ASSUME NEW c \in Work, Unjudged(c)
      PROVE  Unjudged(c)'
    <2>1. c.run \in Runs
        BY DEF Work
    <2>2. QED
        BY <1>2, <2>1 DEF Unjudged
<1>3. todo \subseteq Work /\ (current # NoWork => current \in Work)
    BY <1>1 DEF TypeOK
<1>4. CandidatesSound'
    BY <1>1, <1>2, <1>3 DEF CandidatesSound, Unjudged
<1>5. GateSound'
    <2>1. CASE gate = NoGate
        BY <1>1, <2>1 DEF GateSound
    <2>2. CASE gate # NoGate /\ gate.step = "dispose"
        BY <1>1, <2>2 DEF GateSound
    <2>3. CASE gate # NoGate /\ gate.step # "dispose"
        <3>1. gate.run \in Runs /\ gate.approval \in DOMAIN approvals[gate.run]
            BY <1>1, <2>3, HandsAreFull DEF GateSound, CandidatesSound, Unjudged
        <3>2. /\ approvals'[gate.run][gate.approval].state = "answered"
              /\ approvals'[gate.run][gate.approval].tree = gate.tree
            BY <1>1, <2>3, <3>1 DEF GateSound
        <3>3. gate.tree \in Int /\ head[gate.run] \in Int /\ onMain[gate.run] \in Int
            BY <1>1, <2>3, <3>1 DEF TypeOK, Gate, Trees
        <3>4. head'[gate.run] \in Int /\ onMain'[gate.run] \in Int
            BY <3>1 DEF Trees
        <3>5. /\ gate.tree <= head'[gate.run]
              /\ gate.merged => gate.tree <= onMain'[gate.run]
            BY <1>1, <2>3, <3>1, <3>3, <3>4 DEF GateSound
        <3>6. QED
            BY <1>1, <2>3, <3>2, <3>5 DEF GateSound
    <2>4. QED
        BY <2>1, <2>2, <2>3
<1>6. MainIsBehind'
    BY DEF MainIsBehind
<1>7. QED
    BY <1>4, <1>5, <1>6

(* What the sweep leaves in hand after a step on its candidate: nothing,   *)
(* or the same run under work that spends no authorization.                *)
HandsOn ==
    \/ current' = NoWork
    \/ current' = [current EXCEPT !.work = "dispose"]
    \/ current' = [current EXCEPT !.work = "reclaim"]

LEMMA Left ==
    ASSUME IInv, current # NoWork, UNCHANGED <<todo, head, onMain>>,
           gate' = NoGate \/ (gate' \in Gate /\ gate'.step = "dispose" /\ current' = NoWork),
           HandsOn,
           \A r \in Runs : \A a \in DOMAIN approvals[r] :
              /\ a \in DOMAIN approvals'[r]
              /\ r # current.run => approvals'[r][a] = approvals[r][a]
    PROVE  /\ current' \in Work \cup {NoWork}
           /\ CandidatesSound' /\ GateSound' /\ MainIsBehind'
<1>1. TypeOK /\ CandidatesSound /\ MainIsBehind
    BY DEF IInv
<1>2. current \in Work /\ todo \subseteq Work /\ NoWork \notin Work
    BY <1>1, HandsAreFull DEF TypeOK
<1>3. /\ current' \in Work \cup {NoWork}
      /\ current' # NoWork => current'.run = current.run /\ current'.work # "merge"
    BY <1>2 DEF Work, HandsOn
<1>4. ASSUME NEW c \in todo
      PROVE  Unjudged(c)' /\ c.run # current.run
    <2>1. c.run \in Runs /\ c.run # current.run /\ Unjudged(c)
        BY <1>1, <1>2 DEF Work, CandidatesSound
    <2>2. QED
        BY <2>1 DEF Unjudged
<1>5. Unjudged(current)' \/ current' = NoWork
    BY <1>3 DEF Unjudged
<1>6. CandidatesSound'
    BY <1>1, <1>3, <1>4, <1>5 DEF CandidatesSound
<1>7. GateSound' /\ MainIsBehind'
    BY <1>1 DEF GateSound, MainIsBehind
<1>8. QED
    BY <1>3, <1>6, <1>7

-----------------------------------------------------------------------------
(* Every action keeps the invariant.  The arguments differ in who moves:   *)
(* the branch, the run, a client, a timer, or the sweep itself.            *)

LEMMA BranchKeeps ==
    ASSUME IInv, NEW r \in Runs, Edit(r) \/ Commit(r) \/ LandByHand(r)
    PROVE  IInv'
<1>1. TypeOK /\ MainIsBehind
    BY DEF IInv
<1>2. head[r] \in Trees /\ onMain[r] \in Trees
    BY <1>1 DEF TypeOK
<1>3. \A o \in Runs : head[o] \in Int /\ onMain[o] \in Int /\ onMain[o] <= head[o]
    BY <1>1 DEF TypeOK, MainIsBehind, Trees
<1>4. MaxCommits \in Nat
    BY GateAssumption
<1>5. UNCHANGED sweep /\ UNCHANGED approvals
    BY DEF Edit, Commit, LandByHand, rows
<1>6. /\ head' \in [Runs -> Trees] /\ onMain' \in [Runs -> Trees]
      /\ \A o \in Runs : head[o] <= head'[o] /\ onMain[o] <= onMain'[o] /\ onMain'[o] <= head'[o]
    <2>1. CASE Edit(r)
        BY <1>1, <1>3, <2>1 DEF Edit, TypeOK
    <2>2. CASE Commit(r)
        <3>1. /\ head' = [head EXCEPT ![r] = head[r] + 1] /\ onMain' = onMain
              /\ head[r] + 1 \in Trees
            BY <1>2, <1>4, <2>2 DEF Commit, Trees
        <3>2. QED
            BY <1>1, <1>3, <3>1 DEF TypeOK
    <2>3. CASE LandByHand(r)
        <3>1. /\ onMain' = [onMain EXCEPT ![r] = head[r]] /\ head' = head
            BY <2>3 DEF LandByHand
        <3>2. QED
            BY <1>1, <1>2, <1>3, <3>1 DEF TypeOK
    <2>4. QED
        BY <2>1, <2>2, <2>3
<1>7. CandidatesSound' /\ GateSound' /\ MainIsBehind'
    <2>1. \A o \in Runs : head'[o] \in Trees /\ onMain'[o] \in Trees
        BY <1>6
    <2>2. QED
        BY <1>5, <1>6, <2>1, Frame
<1>8. dirty' \in [Runs -> BOOLEAN]
    BY <1>1 DEF TypeOK, Edit, Commit, LandByHand
<1>9. UNCHANGED <<rows, sweep, directory, failures>>
    BY DEF Edit, Commit, LandByHand
<1>10. TypeOK'
    BY <1>1, <1>6, <1>8, <1>9 DEF TypeOK, rows, sweep
<1>11. QED
    BY <1>7, <1>10 DEF IInv

\* A step that touches neither approvals nor the branch nor the sweep.
LEMMA ElsewhereKeeps ==
    ASSUME IInv, UNCHANGED <<approvals, branch, sweep>>, TypeOK'
    PROVE  IInv'
<1>1. UNCHANGED <<head, onMain>>
    BY DEF branch
<1>2. \A o \in Runs : /\ head[o] \in Int /\ onMain[o] \in Int /\ onMain[o] <= head[o]
                      /\ head[o] \in Trees /\ onMain[o] \in Trees
    BY DEF IInv, TypeOK, MainIsBehind, Trees
<1>3. CandidatesSound' /\ GateSound' /\ MainIsBehind'
    BY <1>1, <1>2, Frame
<1>4. QED
    BY <1>3 DEF IInv

LEMMA RunKeeps ==
    ASSUME IInv, NEW r \in Runs,
           StartRun(r) \/ EndRun(r) \/ CancelRun(r) \/ RetryRun(r)
    PROVE  IInv'
<1>1. TypeOK
    BY DEF IInv
<1>2. /\ UNCHANGED <<worktree, approvals, cleanupAsked, git, sweep, failures>>
      /\ \E to \in RunStates : run' = [run EXCEPT ![r] = to]
    BY DEF StartRun, EndRun, CancelRun, RetryRun, MoveRun, RunStates
<1>3. tries' \in [Runs -> Nat]
    BY <1>1 DEF TypeOK, StartRun, EndRun, CancelRun, RetryRun
<1>4. TypeOK'
    BY <1>1, <1>2, <1>3 DEF TypeOK, git, branch, sweep
<1>5. QED
    BY <1>2, <1>4, ElsewhereKeeps DEF git

LEMMA CleaningKeeps ==
    ASSUME IInv, NEW r \in Runs, ReclaimByHand(r) \/ DisposeByHand(r)
    PROVE  IInv'
<1>1. TypeOK
    BY DEF IInv
<1>2. /\ UNCHANGED <<run, tries, approvals, cleanupAsked, branch, sweep, failures>>
      /\ worktree' = [worktree EXCEPT ![r] = "cleaned"]
      /\ directory' = [directory EXCEPT ![r] = dirty[r]]
    BY DEF ReclaimByHand, DisposeByHand, RemoveDirectory
<1>3. dirty[r] \in BOOLEAN
    BY <1>1 DEF TypeOK
<1>4. directory' \in [Runs -> BOOLEAN] /\ worktree' \in [Runs -> {"active", "reclaimable", "cleaned"}]
    BY <1>1, <1>2, <1>3 DEF TypeOK
<1>5. TypeOK'
    BY <1>1, <1>2, <1>4 DEF TypeOK, branch, sweep
<1>6. QED
    BY <1>2, <1>5, ElsewhereKeeps

(* Rewriting one approval keeps the invariant's part on approvals if the   *)
(* verdict is not touched and, while a gate is under way, neither the      *)
(* state nor the tree.                                                     *)
LEMMA RewriteKeeps ==
    ASSUME IInv, NEW r \in Runs, NEW a \in DOMAIN approvals[r], NEW x \in Approval,
           SetApproval(r, a, x), UNCHANGED <<worktree, git, sweep, failures>>,
           x.presented = approvals[r][a].presented,
           gate # NoGate => x.state = approvals[r][a].state /\ x.tree = approvals[r][a].tree
    PROVE  IInv'
<1>1. TypeOK
    BY DEF IInv
<1>2. /\ approvals' = [approvals EXCEPT ![r][a] = x]
      /\ UNCHANGED <<run, tries, cleanupAsked, worktree, git, sweep, failures>>
    BY DEF SetApproval
<1>3. /\ approvals' \in [Runs -> Seq(Approval)]
      /\ \A o \in Runs : DOMAIN approvals'[o] = DOMAIN approvals[o]
      /\ approvals'[r][a] = x
      /\ \A o \in Runs : \A b \in DOMAIN approvals[o] :
            <<o, b>> # <<r, a>> => approvals'[o][b] = approvals[o][b]
    BY <1>1, <1>2, OneApproval
<1>4. TypeOK'
    BY <1>1, <1>2, <1>3 DEF TypeOK, git, branch, sweep
<1>5. \A o \in Runs : \A b \in DOMAIN approvals[o] :
              /\ b \in DOMAIN approvals'[o]
              /\ approvals'[o][b].presented = approvals[o][b].presented
              /\ gate # NoGate =>
                    /\ approvals'[o][b].state = approvals[o][b].state
                    /\ approvals'[o][b].tree = approvals[o][b].tree
    BY <1>3
<1>6. \A o \in Runs : /\ head[o] <= head'[o] /\ onMain[o] <= onMain'[o]
                      /\ onMain'[o] <= head'[o]
                      /\ head'[o] \in Trees /\ onMain'[o] \in Trees
    BY <1>1, <1>2 DEF IInv, TypeOK, MainIsBehind, Trees, git, branch
<1>7. CandidatesSound' /\ GateSound' /\ MainIsBehind'
    BY <1>2, <1>5, <1>6, Frame
<1>8. QED
    BY <1>4, <1>7 DEF IInv

LEMMA ApprovalKeeps ==
    ASSUME IInv, NEW r \in Runs,
           RequestMerge(r) \/ AuthorizeMerge(r) \/ DatePasses(r) \/ VoidExpired(r)
    PROVE  IInv'
<1>1. TypeOK
    BY DEF IInv
<1>2. approvals[r] \in Seq(Approval)
    BY <1>1 DEF TypeOK
<1>3. CASE RequestMerge(r)
    <2> DEFINE x == [state |-> "open", tree |-> head[r], base |-> MergeBase(r),
                     passed |-> FALSE, presented |-> FALSE]
    <2>1. x \in Approval
        BY <1>1 DEF TypeOK, Approval, MergeBase
    <2>2. /\ approvals' = [approvals EXCEPT ![r] = Append(approvals[r], x)]
          /\ UNCHANGED <<run, tries, worktree, cleanupAsked, git, sweep, failures>>
          /\ gate = NoGate
        BY <1>3 DEF RequestMerge, CoreFree
    <2> HIDE DEF x
    <2>3. Append(approvals[r], x) \in Seq(Approval)
        BY <1>2, <2>1
    <2>4. approvals' \in [Runs -> Seq(Approval)]
        BY <1>1, <2>2, <2>3 DEF TypeOK
    <2>5. \A b \in DOMAIN approvals[r] : /\ b \in DOMAIN Append(approvals[r], x)
                                         /\ Append(approvals[r], x)[b] = approvals[r][b]
        BY <1>2, <2>1
    <2>6. \A o \in Runs : \A b \in DOMAIN approvals[o] :
             b \in DOMAIN approvals'[o] /\ approvals'[o][b] = approvals[o][b]
        BY <1>1, <2>2, <2>5 DEF TypeOK
    <2>7. \A o \in Runs : /\ head[o] <= head'[o] /\ onMain[o] <= onMain'[o]
                          /\ onMain'[o] <= head'[o]
                          /\ head'[o] \in Trees /\ onMain'[o] \in Trees
        BY <1>1, <2>2 DEF IInv, TypeOK, MainIsBehind, Trees, git, branch
    <2>8. CandidatesSound' /\ GateSound' /\ MainIsBehind'
        BY <2>2, <2>6, <2>7, Frame
    <2>9. TypeOK'
        BY <1>1, <2>2, <2>4 DEF TypeOK, git, branch, sweep
    <2>10. QED
        BY <2>8, <2>9 DEF IInv
<1>4. ASSUME NEW a \in DOMAIN approvals[r]
      PROVE  approvals[r][a] \in Approval
    BY <1>2
<1>5. CASE AuthorizeMerge(r)
    <2>1. PICK a \in DOMAIN approvals[r] :
             SetApproval(r, a, [approvals[r][a] EXCEPT !.state = "answered"])
        BY <1>5 DEF AuthorizeMerge
    <2>2. [approvals[r][a] EXCEPT !.state = "answered"] \in Approval
        BY <1>4, FieldsKeepTheirType
    <2>3. [approvals[r][a] EXCEPT !.state = "answered"].presented = approvals[r][a].presented
        BY <1>4 DEF Approval
    <2>4. gate = NoGate /\ UNCHANGED <<worktree, git, sweep, failures>>
        BY <1>5 DEF AuthorizeMerge, CoreFree
    <2>5. QED
        BY <2>1, <2>2, <2>3, <2>4, RewriteKeeps
<1>6. CASE DatePasses(r)
    <2>1. PICK a \in DOMAIN approvals[r] :
             SetApproval(r, a, [approvals[r][a] EXCEPT !.passed = TRUE])
        BY <1>6 DEF DatePasses
    <2>2. [approvals[r][a] EXCEPT !.passed = TRUE] \in Approval
        BY <1>4, FieldsKeepTheirType
    <2>3. /\ [approvals[r][a] EXCEPT !.passed = TRUE].presented = approvals[r][a].presented
          /\ [approvals[r][a] EXCEPT !.passed = TRUE].state = approvals[r][a].state
          /\ [approvals[r][a] EXCEPT !.passed = TRUE].tree = approvals[r][a].tree
        BY <1>4 DEF Approval
    <2>4. UNCHANGED <<worktree, git, sweep, failures>>
        BY <1>6 DEF DatePasses
    <2>5. QED
        BY <2>1, <2>2, <2>3, <2>4, RewriteKeeps
<1>7. CASE VoidExpired(r)
    <2>1. PICK a \in DOMAIN approvals[r] :
             SetApproval(r, a, [approvals[r][a] EXCEPT !.state = "expired"])
        BY <1>7 DEF VoidExpired
    <2>2. [approvals[r][a] EXCEPT !.state = "expired"] \in Approval
        BY <1>4, FieldsKeepTheirType
    <2>3. [approvals[r][a] EXCEPT !.state = "expired"].presented = approvals[r][a].presented
        BY <1>4 DEF Approval
    <2>4. gate = NoGate /\ UNCHANGED <<worktree, git, sweep, failures>>
        BY <1>7 DEF VoidExpired, CoreFree
    <2>5. QED
        BY <2>1, <2>2, <2>3, <2>4, RewriteKeeps
<1>8. QED
    BY <1>3, <1>5, <1>6, <1>7

-----------------------------------------------------------------------------
(* The steps of the sweep.                                                 *)

LEMMA PassKeeps ==
    ASSUME IInv, BeginPass \/ TakeUp
    PROVE  IInv'
<1>1. TypeOK /\ CandidatesSound /\ GateSound /\ MainIsBehind
    BY DEF IInv
<1>2. UNCHANGED <<rows, git, gate, failures>> /\ gate = NoGate /\ current = NoWork
    BY DEF BeginPass, TakeUp, CoreFree
<1>3. NoWork \notin Work
    BY <1>1, HandsAreFull
<1>4. CASE BeginPass
    <2>1. todo' = Candidates /\ current' = NoWork
        BY <1>2, <1>4 DEF BeginPass
    <2>2. Candidates \subseteq Work /\ \A c, d \in Candidates : c.run = d.run => c = d
        BY <1>1, CandidatesType
    <2>3. ASSUME NEW c \in todo'
          PROVE  Unjudged(c)'
        <3>1. Unjudged(c)
            BY <1>1, <2>1, <2>3, CandidatesType
        <3>2. QED
            BY <1>2, <3>1 DEF Unjudged, rows
    <2>4. CandidatesSound'
        BY <2>1, <2>2, <2>3 DEF CandidatesSound
    <2>5. TypeOK'
        BY <1>1, <1>2, <2>1, <2>2 DEF TypeOK, rows, git, branch
    <2>6. QED
        BY <1>1, <1>2, <2>4, <2>5 DEF IInv, GateSound, MainIsBehind, git, branch
<1>5. CASE TakeUp
    <2>1. PICK c \in todo : current' = c /\ todo' = todo \ {c}
        BY <1>5 DEF TakeUp
    <2>2. TypeOK'
        BY <1>1, <1>2, <2>1 DEF TypeOK, rows, git, branch
    <2>3. \A d \in todo : Unjudged(d)'
        BY <1>1, <1>2 DEF CandidatesSound, Unjudged, rows
    <2>4. \A d \in todo \ {c} : d.run # c.run
        BY <1>1, <2>1 DEF CandidatesSound
    <2>5. Unjudged(current)'
        BY <2>1, <2>3 DEF Unjudged
    <2>6. CandidatesSound'
        BY <1>1, <2>1, <2>3, <2>4, <2>5 DEF CandidatesSound
    <2>7. QED
        BY <1>1, <1>2, <2>2, <2>6 DEF IInv, GateSound, MainIsBehind, git, branch
<1>6. QED
    BY <1>4, <1>5

(* A verdict written, or a write refused: the candidate's approval is the  *)
(* only one that changes.                                                  *)
LEMMA VerdictType ==
    ASSUME IInv, current # NoWork, current.work = "merge",
           LET r == current.run
               a == current.approval
           IN \/ /\ approvals' = [approvals EXCEPT ![r][a] = [@ EXCEPT !.presented = TRUE]]
                 /\ UNCHANGED <<run, tries, cleanupAsked>>
              \/ /\ approvals' = [approvals EXCEPT ![r][a] =
                                    [@ EXCEPT !.state = "delivered", !.presented = TRUE]]
                 /\ UNCHANGED <<run, tries, cleanupAsked>>
              \/ UNCHANGED <<run, tries, approvals, cleanupAsked>>
    PROVE  /\ run' \in [Runs -> RunStates] /\ tries' \in [Runs -> Nat]
           /\ approvals' \in [Runs -> Seq(Approval)] /\ cleanupAsked' \in [Runs -> BOOLEAN]
           /\ \A r \in Runs : \A a \in DOMAIN approvals[r] :
                /\ a \in DOMAIN approvals'[r]
                /\ r # current.run => approvals'[r][a] = approvals[r][a]
<1> DEFINE r == current.run
           a == current.approval
<1>1. TypeOK
    BY DEF IInv
<1>2. r \in Runs /\ a \in DOMAIN approvals[r]
    BY HandsAreFull DEF IInv, CandidatesSound, Unjudged
<1>3. approvals[r] \in Seq(Approval)
    BY <1>1, <1>2 DEF TypeOK
<1>4. approvals[r][a] \in Approval
    BY <1>2, <1>3
<1>5. \/ \E x \in Approval : approvals' = [approvals EXCEPT ![r][a] = x]
      \/ approvals' = approvals
    BY <1>4, FieldsKeepTheirType
<1>6. UNCHANGED <<run, tries, cleanupAsked>>
    OBVIOUS
<1>7. CASE \E x \in Approval : approvals' = [approvals EXCEPT ![r][a] = x]
    <2>1. PICK x \in Approval : approvals' = [approvals EXCEPT ![r][a] = x]
        BY <1>7
    <2>2. /\ approvals' \in [Runs -> Seq(Approval)]
          /\ \A o \in Runs : DOMAIN approvals'[o] = DOMAIN approvals[o]
          /\ \A o \in Runs : \A b \in DOMAIN approvals[o] :
                <<o, b>> # <<r, a>> => approvals'[o][b] = approvals[o][b]
        BY <1>1, <1>2, <2>1, OneApproval
    <2>3. QED
        BY <1>1, <1>6, <2>2 DEF TypeOK
<1>8. CASE approvals' = approvals
    BY <1>1, <1>6, <1>8 DEF TypeOK
<1>9. QED
    BY <1>5, <1>7, <1>8

\* The two ways an action speaks of a verdict, in the form of the lemma above.
LEMMA PresentIsVerdict ==
    ASSUME NEW r, NEW a, failures \in Nat, Present(r, a) \/ Named(r, a)
    PROVE  /\ UNCHANGED <<run, tries, cleanupAsked>>
           /\ \/ approvals' = [approvals EXCEPT ![r][a] = [@ EXCEPT !.presented = TRUE]]
              \/ approvals' = approvals
    BY DEF Present, Named, SetApproval

LEMMA RefusalKeeps ==
    ASSUME IInv, DerivationFails \/ RefuseMerge
    PROVE  IInv'
<1>1. TypeOK
    BY DEF IInv
<1>2. /\ gate = NoGate /\ current # NoWork /\ current.work = "merge"
      /\ current' = [current EXCEPT !.work = "dispose"] /\ todo' = todo
      /\ UNCHANGED <<worktree, git, gate>>
    BY DEF DerivationFails, RefuseMerge, On, CoreFree, ThenDispose, Leaves
<1>3. Present(current.run, current.approval) \/ Named(current.run, current.approval)
    BY DEF DerivationFails, RefuseMerge
<1>4. failures' \in Nat
    <2>1. failures \in Nat
        BY <1>1 DEF TypeOK
    <2>2. failures' = failures \/ failures' = failures + 1
        BY DEF DerivationFails, RefuseMerge, Present, Fails
    <2>3. QED
        BY <2>1, <2>2
<1>5. /\ run' \in [Runs -> RunStates] /\ tries' \in [Runs -> Nat]
      /\ approvals' \in [Runs -> Seq(Approval)] /\ cleanupAsked' \in [Runs -> BOOLEAN]
      /\ \A r \in Runs : \A a \in DOMAIN approvals[r] :
           /\ a \in DOMAIN approvals'[r]
           /\ r # current.run => approvals'[r][a] = approvals[r][a]
    <2>1. failures \in Nat
        BY <1>1 DEF TypeOK
    <2>2. /\ UNCHANGED <<run, tries, cleanupAsked>>
          /\ \/ approvals' = [approvals EXCEPT ![current.run][current.approval] =
                                 [@ EXCEPT !.presented = TRUE]]
             \/ approvals' = approvals
        BY <1>3, <2>1, PresentIsVerdict
    <2>3. QED
        BY <1>2, <2>2, VerdictType
<1>6. UNCHANGED <<todo, head, onMain>> /\ gate' = NoGate
    BY <1>2 DEF git, branch
<1>7. /\ current' \in Work \cup {NoWork}
      /\ CandidatesSound' /\ GateSound' /\ MainIsBehind'
    <2>1. HandsOn
        BY <1>2 DEF HandsOn
    <2>2. current # NoWork
        BY <1>2
    <2>3. QED
        BY <1>5, <1>6, <2>1, <2>2, Left
<1>8. TypeOK'
    BY <1>1, <1>2, <1>4, <1>5, <1>7 DEF TypeOK, git, branch
<1>9. QED
    BY <1>7, <1>8 DEF IInv

LEMMA PassPreMergeKeeps ==
    ASSUME IInv, PassPreMerge
    PROVE  IInv'
<1>1. TypeOK /\ CandidatesSound /\ MainIsBehind
    BY DEF IInv
<1> DEFINE r == current.run
           a == current.approval
<1>2. /\ gate = NoGate /\ current # NoWork /\ current.work = "merge"
      /\ gate' = [run |-> r, step |-> "integrate", approval |-> a,
                  tree |-> head[r], merged |-> Merged(r)]
      /\ UNCHANGED <<rows, git, todo, current, failures>>
      /\ Granted(current)
    BY DEF PassPreMerge, On, CoreFree
<1>3. r \in Runs /\ a \in Nat
    BY <1>1, <1>2, HandsAreFull
<1>4. head[r] \in Trees /\ head[r] \in Int /\ onMain[r] \in Int /\ Merged(r) \in BOOLEAN
    BY <1>1, <1>3 DEF TypeOK, Trees, Merged
<1>5. gate' \in Gate
    BY <1>2, <1>3, <1>4 DEF Gate
<1>6. TypeOK'
    BY <1>1, <1>2, <1>5 DEF TypeOK, rows, git, branch
<1>7. approvals[r][a].state = "answered" /\ approvals[r][a].tree = head[r]
    BY <1>2 DEF Granted, ReceiptHolds
<1>8. UNCHANGED <<approvals, head, onMain, current, todo>>
    BY <1>2 DEF rows, git, branch
<1>9. GateSound'
    <2>1. /\ gate'.step = "integrate" /\ gate'.run = r /\ gate'.approval = a
          /\ gate'.tree = head[r] /\ gate'.merged = Merged(r)
        BY <1>2
    <2>2. gate'.tree <= head[r] /\ (gate'.merged => gate'.tree <= onMain[r])
        <3>1. gate'.merged => Merged(r)
            BY <2>1, Zenon
        <3>2. QED
            BY <1>4, <2>1, <3>1 DEF Merged
    <2>3. current' # NoWork /\ current'.work = "merge"
        BY <1>2
    <2>4. QED
        BY <1>7, <1>8, <2>1, <2>2, <2>3 DEF GateSound
<1>10. CandidatesSound' /\ MainIsBehind'
    BY <1>1, <1>8 DEF CandidatesSound, Unjudged, MainIsBehind
<1>11. QED
    BY <1>6, <1>9, <1>10 DEF IInv

(* What a gate that is not yet disposing knows.                            *)
LEMMA GateAtWork ==
    ASSUME IInv, gate # NoGate, gate.step # "dispose"
    PROVE  /\ current # NoWork /\ current.work = "merge"
           /\ current.run = gate.run /\ current.approval = gate.approval
           /\ gate.run \in Runs /\ gate.approval \in DOMAIN approvals[gate.run]
           /\ approvals[gate.run][gate.approval].state = "answered"
           /\ ~approvals[gate.run][gate.approval].presented
           /\ approvals[gate.run][gate.approval].tree = gate.tree
           /\ gate.tree <= head[gate.run]
           /\ gate.merged => gate.tree <= onMain[gate.run]
    BY HandsAreFull DEF IInv, GateSound, CandidatesSound, Unjudged

LEMMA IntegrateKeeps ==
    ASSUME IInv, Integrate
    PROVE  IInv'
<1>1. TypeOK /\ CandidatesSound /\ MainIsBehind /\ GateSound
    BY DEF IInv
<1> DEFINE r == gate.run
<1>2. /\ gate # NoGate /\ gate.step = "integrate"
      /\ gate' = [gate EXCEPT !.step = "settle"]
      /\ UNCHANGED <<rows, head, dirty, directory, todo, current, failures>>
    BY DEF Integrate, Stepped
<1>3. r \in Runs /\ gate \in Gate
    BY <1>1, <1>2, HandsAreFull
<1>4. \/ onMain' = onMain
      \/ onMain' = [onMain EXCEPT ![r] = head[r]]
    BY DEF Integrate
<1>5. onMain' \in [Runs -> Trees]
    BY <1>1, <1>3, <1>4 DEF TypeOK
<1>6. /\ gate' \in Gate /\ gate' # NoGate /\ gate'.step = "settle" /\ gate'.run = gate.run
      /\ gate'.approval = gate.approval /\ gate'.tree = gate.tree /\ gate'.merged = gate.merged
    BY <1>1, <1>2, <1>3, HandsAreFull DEF Gate
<1>7. TypeOK'
    BY <1>1, <1>2, <1>5, <1>6 DEF TypeOK, rows
<1>8. MainIsBehind' /\ CandidatesSound'
    <2>1. \A o \in Runs : head[o] \in Int
        BY <1>1 DEF TypeOK, Trees
    <2>2. MainIsBehind'
        <3>1. CASE onMain' = onMain
            BY <1>1, <1>2, <3>1 DEF MainIsBehind
        <3>2. CASE onMain' = [onMain EXCEPT ![r] = head[r]]
            BY <1>1, <1>2, <1>3, <2>1, <3>2 DEF MainIsBehind, TypeOK
        <3>3. QED
            BY <1>4, <3>1, <3>2
    <2>3. CandidatesSound'
        BY <1>1, <1>2 DEF CandidatesSound, Unjudged, rows
    <2>4. QED
        BY <2>2, <2>3
<1>9. GateSound'
    <2>1. gate.merged => gate.tree <= onMain'[r]
        BY <1>1, <1>2, <1>3, <1>4, GateAtWork DEF TypeOK
    <2>2. UNCHANGED <<approvals, head, current>>
        BY <1>2 DEF rows
    <2>3. gate.step # "dispose"
        BY <1>2
    <2>4. QED
        BY <1>2, <1>6, <2>1, <2>2, <2>3, GateAtWork DEF GateSound
<1>10. QED
    BY <1>7, <1>8, <1>9 DEF IInv

LEMMA ConflictKeeps ==
    ASSUME IInv, Conflict \/ MergeFails \/ Settle
    PROVE  IInv'
<1>1. TypeOK /\ MainIsBehind
    BY DEF IInv
<1>2. /\ gate # NoGate /\ gate.step # "dispose"
      /\ current' = [current EXCEPT !.work = "dispose"] /\ gate' = NoGate
      /\ UNCHANGED <<git, todo>>
    BY DEF Conflict, MergeFails, Settle, Stepped, ThenDispose, Leaves
<1>3. /\ current # NoWork /\ current.work = "merge"
      /\ current.run = gate.run /\ current.approval = gate.approval /\ gate.run \in Runs
    BY <1>2, GateAtWork
<1>4. \/ /\ approvals' = [approvals EXCEPT ![gate.run][gate.approval] =
                             [@ EXCEPT !.presented = TRUE]]
         /\ UNCHANGED <<run, tries, cleanupAsked>>
      \/ /\ approvals' = [approvals EXCEPT ![gate.run][gate.approval] =
                             [@ EXCEPT !.state = "delivered", !.presented = TRUE]]
         /\ UNCHANGED <<run, tries, cleanupAsked>>
      \/ UNCHANGED <<run, tries, approvals, cleanupAsked>>
    BY DEF Conflict, MergeFails, Settle, Named, SetApproval, rows
<1>5. /\ run' \in [Runs -> RunStates] /\ tries' \in [Runs -> Nat]
      /\ approvals' \in [Runs -> Seq(Approval)] /\ cleanupAsked' \in [Runs -> BOOLEAN]
      /\ \A o \in Runs : \A b \in DOMAIN approvals[o] :
           /\ b \in DOMAIN approvals'[o]
           /\ o # current.run => approvals'[o][b] = approvals[o][b]
    BY <1>3, <1>4, VerdictType
<1>6. UNCHANGED <<todo, head, onMain>>
    BY <1>2 DEF git, branch
<1>7. /\ current' \in Work \cup {NoWork}
      /\ CandidatesSound' /\ GateSound' /\ MainIsBehind'
    <2>1. HandsOn
        BY <1>2 DEF HandsOn
    <2>2. gate' = NoGate
        BY <1>2
    <2>3. QED
        BY <1>3, <1>5, <1>6, <2>1, <2>2, Left
<1>8. failures' \in Nat
    BY <1>1 DEF TypeOK, Conflict, MergeFails, Settle, Fails
<1>9. worktree' \in [Runs -> {"active", "reclaimable", "cleaned"}]
    <2>1. \/ worktree' = worktree
          \/ worktree' = [worktree EXCEPT ![gate.run] = IF @ = "active" THEN "reclaimable" ELSE @]
        BY DEF Conflict, MergeFails, Settle, rows
    <2>2. QED
        BY <1>1, <1>3, <2>1 DEF TypeOK
<1>10. TypeOK'
    BY <1>1, <1>2, <1>5, <1>7, <1>8, <1>9 DEF TypeOK, git, branch
<1>11. QED
    BY <1>7, <1>10 DEF IInv

LEMMA LookKeeps ==
    ASSUME IInv, LookAtBranch \/ RefuseReclaim
    PROVE  IInv'
<1>1. TypeOK
    BY DEF IInv
<1>2. /\ current # NoWork /\ UNCHANGED <<todo, run, tries, worktree, approvals, git, gate>>
      /\ current' = NoWork \/ current' = [current EXCEPT !.work = "reclaim"]
    BY DEF LookAtBranch, RefuseReclaim, On, Leaves, rows
<1>3. gate = NoGate
    <2>1. current.work \in {"release", "reclaim"}
        BY DEF LookAtBranch, RefuseReclaim, On
    <2>2. QED
        BY <1>2, <2>1 DEF IInv, GateSound
<1>4. UNCHANGED <<todo, head, onMain>> /\ gate' = NoGate
    BY <1>2, <1>3 DEF git, branch
<1>5. /\ current' \in Work \cup {NoWork}
      /\ CandidatesSound' /\ GateSound' /\ MainIsBehind'
    <2>1. HandsOn
        BY <1>2 DEF HandsOn
    <2>2. current # NoWork /\ approvals' = approvals
        BY <1>2
    <2>3. QED
        BY <1>4, <2>1, <2>2, Left
<1>6. failures' \in Nat
    BY <1>1 DEF TypeOK, LookAtBranch, RefuseReclaim, Fails
<1>7. cleanupAsked' \in [Runs -> BOOLEAN]
    <2>1. \/ cleanupAsked' = cleanupAsked
          \/ \E b \in BOOLEAN : cleanupAsked' = [cleanupAsked EXCEPT ![current.run] = b]
        <3>1. current.run \in Runs
            BY <1>1, <1>2, HandsAreFull
        <3>2. /\ cleanupAsked[current.run] \in BOOLEAN /\ directory[current.run] \in BOOLEAN
              /\ dirty[current.run] \in BOOLEAN
            BY <1>1, <3>1 DEF TypeOK
        <3>3. QED
            BY <3>2 DEF LookAtBranch, RefuseReclaim, rows
    <2>2. QED
        BY <1>1, <2>1 DEF TypeOK
<1>8. TypeOK'
    BY <1>1, <1>2, <1>5, <1>6, <1>7 DEF TypeOK, git, branch
<1>9. QED
    BY <1>5, <1>8 DEF IInv

LEMMA ReclaimKeeps ==
    ASSUME IInv, Reclaim
    PROVE  IInv'
<1>1. TypeOK
    BY DEF IInv
<1> DEFINE r == current.run
<1>2. /\ current # NoWork /\ current' = NoWork /\ todo' = todo
      /\ UNCHANGED <<run, tries, approvals, cleanupAsked, git, failures>>
      /\ worktree' = [worktree EXCEPT ![r] = "reclaimable"]
      /\ gate' = [run |-> r, step |-> "dispose", approval |-> 0, tree |-> head[r], merged |-> TRUE]
    BY DEF Reclaim, On, Leaves
<1>3. r \in Runs
    BY <1>1, <1>2, HandsAreFull
<1>4. head[r] \in Trees
    BY <1>1, <1>3 DEF TypeOK
<1>5. gate' \in Gate /\ gate'.step = "dispose"
    BY <1>2, <1>3, <1>4 DEF Gate
<1>6. UNCHANGED <<todo, head, onMain>>
    BY <1>2 DEF git, branch
<1>7. CandidatesSound' /\ GateSound' /\ MainIsBehind'
    BY <1>2, <1>5, <1>6, Left DEF HandsOn
<1>8. TypeOK'
    BY <1>1, <1>2, <1>5 DEF TypeOK, git, branch
<1>9. QED
    BY <1>7, <1>8 DEF IInv

LEMMA DisposeKeeps ==
    ASSUME IInv, Dispose \/ Retain
    PROVE  IInv'
<1>1. TypeOK /\ CandidatesSound /\ GateSound /\ MainIsBehind
    BY DEF IInv
<1>2. PICK r \in Runs :
         /\ Disposing(r)
         /\ \/ worktree' = worktree
            \/ worktree' = [worktree EXCEPT ![r] = "cleaned"]
         /\ directory' = directory \/ directory' = [directory EXCEPT ![r] = FALSE]
    BY DEF Dispose, Retain, rows, git
<1>3. /\ gate' = NoGate /\ current' = NoWork
      /\ UNCHANGED <<todo, run, tries, approvals, cleanupAsked, branch>>
    BY DEF Dispose, Retain, EndsDisposal, Leaves, rows, git
<1>4. failures' \in Nat
    BY <1>1 DEF TypeOK, Dispose, Retain, Fails
<1>5. NoWork \notin Work
    BY <1>1, HandsAreFull
<1>6. TypeOK'
    BY <1>1, <1>2, <1>3, <1>4 DEF TypeOK, branch
<1>7. CandidatesSound'
    BY <1>1, <1>3 DEF CandidatesSound, Unjudged
<1>8. QED
    BY <1>1, <1>3, <1>6, <1>7 DEF IInv, GateSound, MainIsBehind, branch

LEMMA CrashKeeps ==
    ASSUME IInv, Crash
    PROVE  IInv'
<1>1. TypeOK /\ MainIsBehind
    BY DEF IInv
<1>2. /\ todo' = {} /\ current' = NoWork /\ gate' = NoGate /\ failures' = failures + 1
      /\ UNCHANGED <<tries, worktree, approvals, cleanupAsked, git>>
    BY DEF Crash, Fails
<1>3. run' \in [Runs -> RunStates]
    BY <1>1 DEF Crash, TypeOK, RunStates
<1>4. TypeOK'
    BY <1>1, <1>2, <1>3 DEF TypeOK, git, branch
<1>5. QED
    BY <1>1, <1>2, <1>4 DEF IInv, CandidatesSound, GateSound, MainIsBehind, git, branch

-----------------------------------------------------------------------------
LEMMA InitIInv == Init => IInv
<1>1. SUFFICES ASSUME Init PROVE IInv
    OBVIOUS
<1>2. 0 \in Trees
    BY GateAssumption DEF Trees
<1>3. TypeOK
    BY <1>1, <1>2 DEF Init, TypeOK, RunStates
<1>4. CandidatesSound /\ GateSound /\ MainIsBehind
    BY <1>1 DEF Init, CandidatesSound, GateSound, MainIsBehind
<1>5. QED
    BY <1>3, <1>4 DEF IInv

LEMMA NextIInv == IInv /\ [Next]_vars => IInv'
<1>1. SUFFICES ASSUME IInv, [Next]_vars PROVE IInv'
    OBVIOUS
<1>2. CASE BranchNext
    BY <1>1, <1>2, BranchKeeps DEF BranchNext
<1>4. CASE RunNext
    BY <1>1, <1>4, RunKeeps DEF RunNext
<1>5. CASE ApprovalNext
    BY <1>1, <1>5, ApprovalKeeps DEF ApprovalNext
<1>6. CASE CleaningNext
    BY <1>1, <1>6, CleaningKeeps DEF CleaningNext
<1>7. CASE SweepNext
    BY <1>1, <1>7, PassKeeps, RefusalKeeps, PassPreMergeKeeps, IntegrateKeeps, ConflictKeeps,
       LookKeeps, ReclaimKeeps, DisposeKeeps DEF SweepNext
<1>8. CASE Crash
    BY <1>1, <1>8, CrashKeeps
<1>9. CASE UNCHANGED vars
    <2>1. UNCHANGED <<rows, git, sweep, failures>>
        BY <1>9 DEF vars
    <2>2. TypeOK'
        BY <1>1, <2>1 DEF IInv, TypeOK, rows, git, branch, sweep
    <2>3. QED
        BY <1>1, <2>1, <2>2, ElsewhereKeeps DEF rows, git
<1>10. QED
    BY <1>1, <1>2, <1>4, <1>5, <1>6, <1>7, <1>8, <1>9 DEF Next

LEMMA InvariantHolds == Spec => []IInv
    BY InitIInv, NextIInv, PTL DEF Spec

(* Rows, approvals, what git holds and what the sweep has in hand keep     *)
(* their types, through every interleaving of the sweep with clients,      *)
(* timers, workers and restarts.                                           *)
THEOREM TypeCorrect == Spec => []TypeOK
<1>1. IInv => TypeOK
    BY DEF IInv
<1>2. QED
    BY <1>1, InvariantHolds, PTL

-----------------------------------------------------------------------------
(* git merges into whatever the repository has checked out.  As long as    *)
(* that is main, a gate about to settle stands on a merge that is in main. *)

OnMain == Checkout = "main" /\ IntegratedIsLanded

\* Nobody takes commits off main.
LEMMA MainOnlyGrows ==
    ASSUME IInv, [Next]_vars
    PROVE  \A r \in Runs : /\ onMain[r] \in Int /\ onMain'[r] \in Int
                           /\ onMain[r] <= onMain'[r]
<1>1. TypeOK /\ MainIsBehind /\ TypeOK'
    BY NextIInv DEF IInv
<1>2. \A r \in Runs : /\ onMain[r] \in Int /\ onMain'[r] \in Int /\ head[r] \in Int
                      /\ onMain[r] <= head[r]
    BY <1>1 DEF TypeOK, MainIsBehind, Trees
<1>3. \/ onMain' = onMain
      \/ \E o \in Runs : onMain' = [onMain EXCEPT ![o] = head[o]]
    <2>1. CASE BranchNext
        BY <2>1 DEF BranchNext, Edit, Commit, LandByHand
    <2>2. CASE Crash
        BY <2>2 DEF Crash, git, branch
    <2>3. CASE RunNext
        BY <2>3 DEF RunNext, StartRun, EndRun, CancelRun, RetryRun, MoveRun, git, branch
    <2>4. CASE ApprovalNext
        BY <2>4 DEF ApprovalNext, RequestMerge, AuthorizeMerge, DatePasses, VoidExpired, git, branch
    <2>5. CASE CleaningNext
        BY <2>5 DEF CleaningNext, ReclaimByHand, DisposeByHand, branch
    <2>6. CASE Integrate
        <3>1. gate.run \in Runs
            BY <1>1, <2>6, HandsAreFull DEF Integrate, Stepped
        <3>2. QED
            BY <2>6, <3>1 DEF Integrate
    <2>7. CASE SweepNext /\ ~Integrate
        BY <2>7 DEF SweepNext, BeginPass, TakeUp, DerivationFails, RefuseMerge, PassPreMerge,
           Conflict, MergeFails, Settle, LookAtBranch, Reclaim, RefuseReclaim, Dispose, Retain,
           git, branch
    <2>8. CASE UNCHANGED vars
        BY <2>8 DEF vars, git, branch
    <2>9. QED
        BY <2>1, <2>2, <2>3, <2>4, <2>5, <2>6, <2>7, <2>8 DEF Next
<1>4. QED
    <2>1. CASE onMain' = onMain
        BY <1>2, <2>1
    <2>2. ASSUME NEW o \in Runs, onMain' = [onMain EXCEPT ![o] = head[o]]
          PROVE  \A r \in Runs : onMain[r] <= onMain'[r]
        BY <1>1, <1>2, <2>2 DEF TypeOK
    <2>3. QED
        BY <1>2, <1>3, <2>1, <2>2

(* Who moves a gate: only the sweep's own steps and a crash.               *)
LEMMA GateMoves ==
    ASSUME IInv, [Next]_vars
    PROVE  \/ gate' = gate \/ gate' = NoGate
           \/ PassPreMerge \/ Integrate \/ Reclaim
<1>1. CASE BranchNext \/ RunNext
    BY <1>1 DEF BranchNext, Edit, Commit, LandByHand, RunNext, StartRun, EndRun,
       CancelRun, RetryRun, MoveRun, sweep
<1>2. CASE ApprovalNext \/ CleaningNext
    BY <1>2 DEF ApprovalNext, RequestMerge, AuthorizeMerge, DatePasses, VoidExpired,
       CleaningNext, ReclaimByHand, DisposeByHand, sweep
<1>3. CASE SweepNext
    BY <1>3 DEF SweepNext, BeginPass, TakeUp, DerivationFails, RefuseMerge, PassPreMerge,
       Conflict, MergeFails, Settle, LookAtBranch, RefuseReclaim, Dispose, Retain, EndsDisposal
<1>4. CASE Crash \/ UNCHANGED vars
    BY <1>4 DEF Crash, vars, sweep
<1>5. QED
    BY <1>1, <1>2, <1>3, <1>4 DEF Next

LEMMA OnMainHolds == Checkout = "main" => (Spec => []OnMain)
<1>1. SUFFICES ASSUME Checkout = "main" PROVE Spec => []OnMain
    OBVIOUS
<1>2. Init => OnMain
    BY <1>1 DEF Init, OnMain, IntegratedIsLanded
<1>3. IInv /\ OnMain /\ [Next]_vars => OnMain'
    <2>1. SUFFICES ASSUME IInv, OnMain, [Next]_vars PROVE OnMain'
        OBVIOUS
    <2>3. IntegratedIsLanded'
        <3>1. TypeOK /\ TypeOK'
            BY <2>1, NextIInv DEF IInv
        <3>2. CASE gate' = gate
            <4>1. CASE gate # NoGate /\ gate.step = "settle"
                <5>1. gate.run \in Runs /\ gate.tree \in Int
                    BY <3>1, <4>1, HandsAreFull DEF Trees
                <5>2. gate.tree <= onMain[gate.run]
                    BY <2>1, <4>1 DEF OnMain, IntegratedIsLanded
                <5>3. QED
                    BY <2>1, <3>2, <5>1, <5>2, MainOnlyGrows DEF IntegratedIsLanded
            <4>2. QED
                BY <3>2, <4>1 DEF IntegratedIsLanded
        <3>3. CASE gate' = NoGate
            BY <3>3 DEF IntegratedIsLanded
        <3>4. CASE PassPreMerge
            BY <3>4 DEF PassPreMerge, IntegratedIsLanded
        <3>5. CASE Reclaim
            BY <3>5 DEF Reclaim, IntegratedIsLanded
        <3>6. CASE Integrate
            <4>1. gate # NoGate /\ gate.step = "integrate" /\ gate \in Gate
                BY <3>1, <3>6, HandsAreFull DEF Integrate, Stepped
            <4>2. /\ gate'.run = gate.run /\ gate'.tree = gate.tree /\ gate.run \in Runs
                  /\ gate.tree <= head[gate.run] /\ (gate.merged => gate.tree <= onMain[gate.run])
                BY <2>1, <3>6, <4>1, GateAtWork DEF Integrate, Gate
            <4>3. \/ gate.merged /\ onMain' = onMain
                  \/ onMain' = [onMain EXCEPT ![gate.run] = head[gate.run]]
                BY <2>1, <3>6 DEF Integrate, OnMain
            <4>4. gate.tree <= onMain'[gate.run]
                BY <3>1, <4>2, <4>3 DEF TypeOK
            <4>5. QED
                BY <4>2, <4>4 DEF IntegratedIsLanded
        <3>7. QED
            BY <2>1, <3>2, <3>3, <3>4, <3>5, <3>6, GateMoves
    <2>4. QED
        BY <2>1, <2>3 DEF OnMain
<1>4. QED
    BY <1>2, <1>3, InvariantHolds, PTL DEF Spec

-----------------------------------------------------------------------------
(* A run whose row says active has its directory: every step that removes  *)
(* a directory finds the row past active or moves it there.                *)
THEOREM DirectoryTheorem == Spec => []ActiveHasDirectory
<1>1. Init => ActiveHasDirectory
    BY DEF Init, ActiveHasDirectory
<1>2. IInv /\ ActiveHasDirectory /\ [Next]_vars => ActiveHasDirectory'
    <2>1. SUFFICES ASSUME IInv, ActiveHasDirectory, [Next]_vars,
                          NEW r \in Runs, worktree'[r] = "active"
                   PROVE  directory'[r]
        BY DEF ActiveHasDirectory
    <2>2. TypeOK /\ (worktree[r] = "active" => directory[r])
        BY <2>1 DEF IInv, ActiveHasDirectory
    <2>3. CASE UNCHANGED <<worktree, directory>>
        BY <2>1, <2>2, <2>3
    <2>4. CASE CleaningNext
        <3>1. PICK o \in Runs : ReclaimByHand(o) \/ DisposeByHand(o)
            BY <2>4 DEF CleaningNext
        <3>2. /\ worktree' = [worktree EXCEPT ![o] = "cleaned"]
              /\ directory' = [directory EXCEPT ![o] = dirty[o]]
            BY <3>1 DEF ReclaimByHand, DisposeByHand, RemoveDirectory
        <3>3. r # o
            BY <2>1, <2>2, <3>2 DEF TypeOK
        <3>4. worktree[r] = "active" /\ directory'[r] = directory[r]
            BY <2>1, <2>2, <3>2, <3>3 DEF TypeOK
        <3>5. QED
            BY <2>2, <3>4
    <2>5. CASE Dispose
        <3>1. PICK o \in Runs : /\ worktree[o] = "reclaimable"
                                /\ directory' = [directory EXCEPT ![o] = FALSE]
                                /\ \/ worktree' = [worktree EXCEPT ![o] = "cleaned"]
                                   \/ worktree' = worktree
            BY <2>5 DEF Dispose
        <3>2. r # o
            BY <2>1, <2>2, <3>1 DEF TypeOK
        <3>3. worktree[r] = "active" /\ directory'[r] = directory[r]
            BY <2>1, <2>2, <3>1, <3>2 DEF TypeOK
        <3>4. QED
            BY <2>2, <3>3
    <2>6. CASE Settle \/ Reclaim
        <3>1. directory' = directory
            BY <2>6 DEF Settle, Reclaim, git
        <3>2. \/ worktree' = worktree
              \/ \E o \in Runs : worktree' = [worktree EXCEPT ![o] =
                                    IF @ = "active" THEN "reclaimable" ELSE @]
              \/ \E o \in Runs : worktree' = [worktree EXCEPT ![o] = "reclaimable"]
            <4>1. CASE Settle
                <5>1. gate.run \in Runs
                    BY <2>2, <4>1, HandsAreFull DEF Settle, Stepped
                <5>2. QED
                    BY <4>1, <5>1 DEF Settle, rows
            <4>2. CASE Reclaim
                <5>1. current.run \in Runs
                    BY <2>2, <4>2, HandsAreFull DEF Reclaim, On
                <5>2. QED
                    BY <4>2, <5>1 DEF Reclaim
            <4>3. QED
                BY <2>6, <4>1, <4>2
        <3>3. worktree[r] = "active"
            BY <2>1, <2>2, <3>2 DEF TypeOK
        <3>4. QED
            BY <2>2, <3>1, <3>3
    <2>7. CASE BranchNext \/ RunNext \/ ApprovalNext
        BY <2>3, <2>7 DEF BranchNext, Edit, Commit, LandByHand, RunNext, StartRun,
           EndRun, CancelRun, RetryRun, MoveRun, ApprovalNext, RequestMerge, AuthorizeMerge,
           DatePasses, VoidExpired, rows, git
    <2>8. CASE SweepNext /\ ~Dispose /\ ~Settle /\ ~Reclaim
        BY <2>3, <2>8 DEF SweepNext, BeginPass, TakeUp, DerivationFails, RefuseMerge, PassPreMerge,
           Integrate, Conflict, MergeFails, LookAtBranch, RefuseReclaim, Retain, rows, git
    <2>9. CASE Crash \/ UNCHANGED vars
        BY <2>3, <2>9 DEF Crash, vars, rows, git
    <2>10. QED
        BY <2>1, <2>4, <2>5, <2>6, <2>7, <2>8, <2>9 DEF Next
<1>3. QED
    BY <1>1, <1>2, InvariantHolds, PTL DEF Spec

(* No step takes a directory away while it holds uncommitted work.         *)
THEOREM WorkTheorem == Spec => UncommittedWorkSurvives
<1>1. TypeOK /\ [Next]_vars => \A r \in Runs : directory[r] /\ ~directory'[r] => ~dirty[r]
    <2>1. SUFFICES ASSUME TypeOK, [Next]_vars, NEW r \in Runs, directory[r], ~directory'[r]
                   PROVE  ~dirty[r]
        OBVIOUS
    <2>2. directory' # directory
        BY <2>1
    <2>3. CASE CleaningNext
        <3>1. PICK o \in Runs : directory' = [directory EXCEPT ![o] = dirty[o]]
            BY <2>3 DEF CleaningNext, ReclaimByHand, DisposeByHand, RemoveDirectory
        <3>2. directory \in [Runs -> BOOLEAN]
            BY <2>1 DEF TypeOK
        <3>3. r = o
            BY <2>1, <3>1, <3>2
        <3>4. directory'[o] = dirty[o]
            BY <3>1, <3>2
        <3>5. QED
            BY <2>1, <3>3, <3>4
    <2>4. CASE Dispose
        <3>1. PICK o \in Runs : /\ directory[o] => ~dirty[o]
                                /\ directory' = [directory EXCEPT ![o] = FALSE]
            BY <2>4 DEF Dispose
        <3>2. directory \in [Runs -> BOOLEAN]
            BY <2>1 DEF TypeOK
        <3>3. r = o
            BY <2>1, <3>1, <3>2
        <3>4. QED
            BY <2>1, <3>1, <3>3
    <2>5. CASE BranchNext \/ RunNext \/ ApprovalNext
        BY <2>2, <2>5 DEF BranchNext, Edit, Commit, LandByHand, RunNext, StartRun,
           EndRun, CancelRun, RetryRun, MoveRun, ApprovalNext, RequestMerge, AuthorizeMerge,
           DatePasses, VoidExpired, git
    <2>6. CASE SweepNext /\ ~Dispose
        BY <2>2, <2>6 DEF SweepNext, BeginPass, TakeUp, DerivationFails, RefuseMerge, PassPreMerge,
           Integrate, Conflict, MergeFails, Settle, LookAtBranch, Reclaim, RefuseReclaim, Retain, git
    <2>7. CASE Crash \/ UNCHANGED vars
        BY <2>2, <2>7 DEF Crash, vars, git
    <2>8. QED
        BY <2>1, <2>3, <2>4, <2>5, <2>6, <2>7 DEF Next
<1>2. QED
    BY <1>1, TypeCorrect, PTL DEF Spec, UncommittedWorkSurvives

(* How an approval may come to read as delivered, and what the settlement  *)
(* knows at that moment.                                                   *)
LEMMA OnlySettleDelivers ==
    ASSUME IInv, [Next]_vars, NEW r \in Runs, NEW a \in DOMAIN approvals[r],
           approvals'[r][a].state = "delivered", approvals[r][a].state # "delivered"
    PROVE  /\ Settle /\ gate # NoGate /\ gate.step = "settle"
           /\ r = gate.run /\ a = gate.approval
           /\ ~approvals[r][a].presented
           /\ approvals[r][a].tree = gate.tree
           /\ approvals'[r][a].tree = approvals[r][a].tree
           /\ UNCHANGED git
<1>1. TypeOK
    BY DEF IInv
<1>2. approvals[r] \in Seq(Approval) /\ approvals[r][a] \in Approval
    <2>1. approvals[r] \in Seq(Approval)
        BY <1>1 DEF TypeOK
    <2>2. QED
        BY <2>1
<1>3. ASSUME NEW o \in Runs, NEW b \in DOMAIN approvals[o], NEW x \in Approval,
             approvals' = [approvals EXCEPT ![o][b] = x], x.state = "delivered" => x.state = approvals[o][b].state
      PROVE  FALSE
    <2>1. /\ approvals'[o][b] = x
          /\ <<r, a>> # <<o, b>> => approvals'[r][a] = approvals[r][a]
        BY <1>1, <1>3, OneApproval
    <2>2. QED
        BY <1>3, <2>1
<1>4. ASSUME NEW o \in Runs, NEW b \in DOMAIN approvals[o]
      PROVE  approvals[o][b] \in Approval
    <2>1. approvals[o] \in Seq(Approval)
        BY <1>1 DEF TypeOK
    <2>2. QED
        BY <2>1
<1>5. ~ApprovalNext
    <2>1. SUFFICES ASSUME NEW o \in Runs,
                          RequestMerge(o) \/ AuthorizeMerge(o) \/ DatePasses(o) \/ VoidExpired(o)
                   PROVE  FALSE
        BY DEF ApprovalNext
    <2>2. CASE RequestMerge(o)
        <3> DEFINE x == [state |-> "open", tree |-> head[o], base |-> MergeBase(o),
                         passed |-> FALSE, presented |-> FALSE]
        <3>1. approvals' = [approvals EXCEPT ![o] = Append(approvals[o], x)]
            BY <2>2 DEF RequestMerge
        <3> HIDE DEF x
        <3>2. approvals[o] \in Seq(Approval)
            BY <1>1 DEF TypeOK
        <3>3. \A b \in DOMAIN approvals[o] : Append(approvals[o], x)[b] = approvals[o][b]
            BY <3>2
        <3>4. approvals'[r][a] = approvals[r][a]
            BY <1>1, <3>1, <3>3 DEF TypeOK
        <3>5. QED
            BY <3>4
    <2>3. CASE AuthorizeMerge(o)
        <3>1. PICK b \in DOMAIN approvals[o] :
                 approvals' = [approvals EXCEPT ![o][b] = [approvals[o][b] EXCEPT !.state = "answered"]]
            BY <2>3 DEF AuthorizeMerge, SetApproval
        <3>2. /\ [approvals[o][b] EXCEPT !.state = "answered"] \in Approval
              /\ [approvals[o][b] EXCEPT !.state = "answered"].state = "answered"
            BY <1>4 DEF Approval
        <3>3. QED
            BY <1>3, <3>1, <3>2
    <2>4. CASE DatePasses(o)
        <3>1. PICK b \in DOMAIN approvals[o] :
                 approvals' = [approvals EXCEPT ![o][b] = [approvals[o][b] EXCEPT !.passed = TRUE]]
            BY <2>4 DEF DatePasses, SetApproval
        <3>2. /\ [approvals[o][b] EXCEPT !.passed = TRUE] \in Approval
              /\ [approvals[o][b] EXCEPT !.passed = TRUE].state = approvals[o][b].state
            BY <1>4, FieldsKeepTheirType
        <3>3. QED
            BY <1>3, <3>1, <3>2
    <2>5. CASE VoidExpired(o)
        <3>1. PICK b \in DOMAIN approvals[o] :
                 approvals' = [approvals EXCEPT ![o][b] = [approvals[o][b] EXCEPT !.state = "expired"]]
            BY <2>5 DEF VoidExpired, SetApproval
        <3>2. /\ [approvals[o][b] EXCEPT !.state = "expired"] \in Approval
              /\ [approvals[o][b] EXCEPT !.state = "expired"].state = "expired"
            BY <1>4 DEF Approval
        <3>3. QED
            BY <1>3, <3>1, <3>2
    <2>6. QED
        BY <2>1, <2>2, <2>3, <2>4, <2>5
<1>6. ASSUME NEW o \in Runs, NEW b \in DOMAIN approvals[o],
             \/ approvals' = [approvals EXCEPT ![o][b] = [approvals[o][b] EXCEPT !.presented = TRUE]]
             \/ approvals' = approvals
      PROVE  FALSE
    <2>1. /\ [approvals[o][b] EXCEPT !.presented = TRUE] \in Approval
          /\ [approvals[o][b] EXCEPT !.presented = TRUE].state = approvals[o][b].state
        BY <1>4, FieldsKeepTheirType
    <2>2. QED
        BY <1>3, <1>6, <2>1
<1>7. ~(DerivationFails \/ RefuseMerge)
    <2>1. SUFFICES ASSUME DerivationFails \/ RefuseMerge PROVE FALSE
        OBVIOUS
    <2>2. /\ current # NoWork /\ current.work = "merge"
          /\ Present(current.run, current.approval) \/ Named(current.run, current.approval)
        BY <2>1 DEF DerivationFails, RefuseMerge, On
    <2>3. current.run \in Runs /\ current.approval \in DOMAIN approvals[current.run]
        BY <2>2, HandsAreFull DEF IInv, CandidatesSound, Unjudged
    <2>4. failures \in Nat
        BY <1>1 DEF TypeOK
    <2>5. \/ approvals' = [approvals EXCEPT ![current.run][current.approval] =
                  [approvals[current.run][current.approval] EXCEPT !.presented = TRUE]]
          \/ approvals' = approvals
        BY <2>2, <2>4, PresentIsVerdict
    <2>6. QED
        BY <1>6, <2>3, <2>5
<1>8. ~Conflict
    <2>1. SUFFICES ASSUME Conflict PROVE FALSE
        OBVIOUS
    <2>2. gate.run \in Runs /\ gate.approval \in DOMAIN approvals[gate.run]
        BY <2>1, GateAtWork DEF Conflict, Stepped
    <2>3. approvals' = [approvals EXCEPT ![gate.run][gate.approval] =
                          [approvals[gate.run][gate.approval] EXCEPT !.presented = TRUE]]
        BY <2>1 DEF Conflict, Named, SetApproval
    <2>4. QED
        BY <1>6, <2>2, <2>3
<1>9. CASE Settle
    <2>1. gate # NoGate /\ gate.step = "settle" /\ UNCHANGED git
        BY <1>9 DEF Settle, Stepped
    <2>2. /\ gate.run \in Runs /\ gate.approval \in DOMAIN approvals[gate.run]
          /\ ~approvals[gate.run][gate.approval].presented
          /\ approvals[gate.run][gate.approval].tree = gate.tree
        BY <2>1, GateAtWork
    <2> DEFINE y == approvals[gate.run][gate.approval]
               x == [y EXCEPT !.state = "delivered", !.presented = TRUE]
    <2>3. \/ approvals' = [approvals EXCEPT ![gate.run][gate.approval] = x]
          \/ approvals' = approvals
        BY <1>9 DEF Settle, SetApproval, rows
    <2>4. x \in Approval /\ x.tree = y.tree
        BY <1>4, <2>2, FieldsKeepTheirType
    <2>5. approvals' = [approvals EXCEPT ![gate.run][gate.approval] = x]
        BY <2>3
    <2> HIDE DEF x, y
    <2>6. /\ approvals'[gate.run][gate.approval] = x
          /\ <<r, a>> # <<gate.run, gate.approval>> => approvals'[r][a] = approvals[r][a]
        BY <1>1, <2>2, <2>4, <2>5, OneApproval
    <2>7. r = gate.run /\ a = gate.approval
        BY <2>6
    <2>8. QED
        BY <1>9, <2>1, <2>2, <2>4, <2>6, <2>7 DEF x, y
<1>10. approvals' # approvals
    OBVIOUS
<1>11. CASE BranchNext \/ RunNext \/ CleaningNext
    BY <1>10, <1>11 DEF BranchNext, Edit, Commit, LandByHand, RunNext, StartRun,
       EndRun, CancelRun, RetryRun, MoveRun, CleaningNext, ReclaimByHand, DisposeByHand, rows
<1>12. CASE SweepNext /\ ~DerivationFails /\ ~RefuseMerge /\ ~Conflict /\ ~Settle
    BY <1>10, <1>12 DEF SweepNext, BeginPass, TakeUp, PassPreMerge, Integrate, MergeFails,
       LookAtBranch, Reclaim, RefuseReclaim, Dispose, Retain, rows
<1>13. CASE Crash \/ UNCHANGED vars
    BY <1>10, <1>13 DEF Crash, vars, rows
<1>14. QED
    BY <1>5, <1>7, <1>8, <1>9, <1>11, <1>12, <1>13 DEF Next

(* An approval that a verdict names and that was not spent then is not     *)
(* spent later: the gate only ever carries an approval with no verdict.    *)
THEOREM VerdictTheorem == Spec => RefusedIsNeverSpent
<1>1. IInv /\ [Next]_vars =>
         \A r \in Runs : \A a \in DOMAIN approvals[r] :
            approvals[r][a].presented /\ approvals[r][a].state # "delivered" =>
               approvals'[r][a].state # "delivered"
    BY OnlySettleDelivers
<1>2. QED
    BY <1>1, InvariantHolds, PTL DEF Spec, RefusedIsNeverSpent

(* What the gate integrates was authorized, by an answered approval no     *)
(* verdict had named, over the tree the gate derived: between deriving and *)
(* merging only the date of the approval moves.                            *)
THEOREM AuthorityTheorem == Spec => MergesOnAuthority
<1>1. IInv /\ [Next]_vars =>
         \A r \in Runs :
            (gate # NoGate /\ gate' # gate /\ onMain'[r] # onMain[r]) =>
               LET a == approvals[gate.run][gate.approval] IN
               /\ r = gate.run
               /\ a.state = "answered" /\ ~a.presented
               /\ a.tree = gate.tree
    <2>1. SUFFICES ASSUME IInv, [Next]_vars, NEW r \in Runs,
                          gate # NoGate, gate' # gate, onMain'[r] # onMain[r]
                   PROVE  /\ r = gate.run
                          /\ approvals[gate.run][gate.approval].state = "answered"
                          /\ ~approvals[gate.run][gate.approval].presented
                          /\ approvals[gate.run][gate.approval].tree = gate.tree
        OBVIOUS
    <2>2. Integrate
        <3>1. CASE BranchNext \/ RunNext
            BY <2>1, <3>1 DEF BranchNext, Edit, Commit, LandByHand, RunNext, StartRun,
               EndRun, CancelRun, RetryRun, MoveRun, sweep
        <3>2. CASE ApprovalNext \/ CleaningNext
            BY <2>1, <3>2 DEF ApprovalNext, RequestMerge, AuthorizeMerge, DatePasses, VoidExpired,
               CleaningNext, ReclaimByHand, DisposeByHand, sweep
        <3>3. CASE SweepNext
            BY <2>1, <3>3 DEF SweepNext, BeginPass, TakeUp, DerivationFails, RefuseMerge,
               PassPreMerge, Conflict, MergeFails, Settle, LookAtBranch, Reclaim, RefuseReclaim,
               Dispose, Retain, git, branch
        <3>4. CASE Crash \/ UNCHANGED vars
            BY <2>1, <3>4 DEF Crash, vars, git, branch
        <3>5. QED
            BY <2>1, <3>1, <3>2, <3>3, <3>4 DEF Next
    <2>3. gate.step = "integrate"
        BY <2>2 DEF Integrate, Stepped
    <2>4. gate.run \in Runs
        BY <2>1, <2>3, GateAtWork
    <2>5. r = gate.run
        BY <2>1, <2>2, <2>4 DEF Integrate, IInv, TypeOK
    <2>6. QED
        BY <2>1, <2>3, <2>5, GateAtWork
<1>2. QED
    BY <1>1, InvariantHolds, PTL DEF Spec, MergesOnAuthority

(* While the repository has main checked out, a worktree is released only  *)
(* when the tree the gate derived is in main at that very step.            *)
THEOREM ReleaseTheorem == Checkout = "main" => (Spec => ReleasedOnlyLanded)
<1>1. IInv /\ OnMain /\ ActiveHasDirectory /\ [Next]_vars =>
         \A r \in Runs :
            worktree[r] = "active" /\ worktree'[r] = "reclaimable" =>
               /\ directory[r]
               /\ (IF gate = NoGate THEN head[r] ELSE gate.tree) <= onMain[r]
    <2>1. SUFFICES ASSUME IInv, OnMain, ActiveHasDirectory, [Next]_vars, NEW r \in Runs,
                          worktree[r] = "active", worktree'[r] = "reclaimable"
                   PROVE  /\ directory[r]
                          /\ (IF gate = NoGate THEN head[r] ELSE gate.tree) <= onMain[r]
        OBVIOUS
    <2>2. directory[r] /\ TypeOK
        BY <2>1 DEF ActiveHasDirectory, IInv
    <2>3. CASE Settle
        <3>1. gate # NoGate /\ gate.step = "settle"
            BY <2>3 DEF Settle, Stepped
        <3>2. gate.run \in Runs /\ gate.tree <= onMain[gate.run]
            BY <2>1, <2>2, <3>1, HandsAreFull DEF OnMain, IntegratedIsLanded
        <3>3. r = gate.run
            BY <2>1, <2>2, <2>3, <3>2 DEF Settle, TypeOK, rows
        <3>4. QED
            BY <2>2, <3>1, <3>2, <3>3
    <2>4. CASE Reclaim
        <3>1. gate = NoGate /\ current.run \in Runs /\ Merged(current.run)
            BY <2>2, <2>4, HandsAreFull DEF Reclaim, On, CoreFree
        <3>2. r = current.run
            BY <2>1, <2>2, <2>4, <3>1 DEF Reclaim, TypeOK
        <3>3. QED
            BY <2>2, <3>1, <3>2 DEF Merged
    <2>5. CASE CleaningNext
        <3>1. PICK o \in Runs : worktree' = [worktree EXCEPT ![o] = "cleaned"]
            BY <2>5 DEF CleaningNext, ReclaimByHand, DisposeByHand
        <3>2. QED
            BY <2>1, <2>2, <3>1 DEF TypeOK
    <2>6. CASE Dispose
        <3>1. PICK o \in Runs : \/ worktree' = [worktree EXCEPT ![o] = "cleaned"]
                                \/ worktree' = worktree
            BY <2>6 DEF Dispose
        <3>2. QED
            BY <2>1, <2>2, <3>1 DEF TypeOK
    <2>7. CASE BranchNext \/ RunNext \/ ApprovalNext
        BY <2>1, <2>7 DEF BranchNext, Edit, Commit, LandByHand, RunNext, StartRun,
           EndRun, CancelRun, RetryRun, MoveRun, ApprovalNext, RequestMerge, AuthorizeMerge,
           DatePasses, VoidExpired, rows, git
    <2>8. CASE SweepNext /\ ~Dispose /\ ~Settle /\ ~Reclaim
        BY <2>1, <2>8 DEF SweepNext, BeginPass, TakeUp, DerivationFails, RefuseMerge, PassPreMerge,
           Integrate, Conflict, MergeFails, LookAtBranch, RefuseReclaim, Retain, rows, git
    <2>9. CASE Crash \/ UNCHANGED vars
        BY <2>1, <2>9 DEF Crash, vars, rows, git
    <2>10. QED
        BY <2>1, <2>3, <2>4, <2>5, <2>6, <2>7, <2>8, <2>9 DEF Next
<1>2. SUFFICES ASSUME Checkout = "main" PROVE Spec => ReleasedOnlyLanded
    OBVIOUS
<1>3. Spec => []OnMain
    BY <1>2, OnMainHolds
<1>4. QED
    BY <1>1, <1>3, InvariantHolds, DirectoryTheorem, PTL DEF Spec, ReleasedOnlyLanded

(* An approval that reads as delivered was asked for before, over the same *)
(* tree: an approval is opened as open, and its tree is never rewritten.   *)
LEMMA TreesStay ==
    ASSUME IInv, [Next]_vars, NEW r \in Runs, NEW a \in DOMAIN approvals'[r],
           approvals'[r][a].state = "delivered"
    PROVE  a \in DOMAIN approvals[r] /\ approvals'[r][a].tree = approvals[r][a].tree
<1> DEFINE Goal == a \in DOMAIN approvals[r] /\ approvals'[r][a].tree = approvals[r][a].tree
<1>1. TypeOK
    BY DEF IInv
<1>2. CASE approvals' = approvals
    BY <1>2
<1>3. ASSUME NEW o \in Runs, NEW b \in DOMAIN approvals[o]
      PROVE  approvals[o][b] \in Approval
    <2>1. approvals[o] \in Seq(Approval)
        BY <1>1 DEF TypeOK
    <2>2. QED
        BY <2>1
<1>4. ASSUME NEW o \in Runs, NEW b \in DOMAIN approvals[o], NEW x \in Approval,
             approvals' = [approvals EXCEPT ![o][b] = x], x.tree = approvals[o][b].tree
      PROVE  Goal
    <2>1. /\ DOMAIN approvals'[r] = DOMAIN approvals[r]
          /\ approvals'[o][b] = x
          /\ \A c \in DOMAIN approvals[r] :
                <<r, c>> # <<o, b>> => approvals'[r][c] = approvals[r][c]
        BY <1>1, <1>4, OneApproval
    <2>2. QED
        BY <1>4, <2>1
<1>5. ASSUME NEW o \in Runs, RequestMerge(o)
      PROVE  Goal
    <2> DEFINE x == [state |-> "open", tree |-> head[o], base |-> MergeBase(o),
                     passed |-> FALSE, presented |-> FALSE]
    <2>1. approvals' = [approvals EXCEPT ![o] = Append(approvals[o], x)] /\ x.state = "open"
        BY <1>5 DEF RequestMerge
    <2> HIDE DEF x
    <2>2. approvals[o] \in Seq(Approval) /\ approvals \in [Runs -> Seq(Approval)]
        BY <1>1 DEF TypeOK
    <2>3. CASE r = o
        <3>1. approvals'[r] = Append(approvals[o], x)
            BY <2>1, <2>2, <2>3
        <3>2. \A c \in DOMAIN Append(approvals[o], x) :
                \/ c \in DOMAIN approvals[o] /\ Append(approvals[o], x)[c] = approvals[o][c]
                \/ Append(approvals[o], x)[c] = x
            BY <2>2
        <3>3. \/ a \in DOMAIN approvals[o] /\ approvals'[r][a] = approvals[o][a]
              \/ approvals'[r][a] = x
            BY <3>1, <3>2
        <3>4. QED
            BY <2>1, <2>3, <3>3
    <2>4. CASE r # o
        <3>1. approvals'[r] = approvals[r]
            BY <2>1, <2>2, <2>4
        <3>2. QED
            BY <3>1
    <2>5. QED
        BY <2>3, <2>4
<1>6. CASE ApprovalNext
    <2>1. PICK o \in Runs : RequestMerge(o) \/ AuthorizeMerge(o) \/ DatePasses(o) \/ VoidExpired(o)
        BY <1>6 DEF ApprovalNext
    <2>2. CASE RequestMerge(o)
        BY <1>5, <2>2
    <2>3. CASE AuthorizeMerge(o) \/ DatePasses(o) \/ VoidExpired(o)
        <3>1. PICK b \in DOMAIN approvals[o] :
                 \/ approvals' = [approvals EXCEPT ![o][b] = [approvals[o][b] EXCEPT !.state = "answered"]]
                 \/ approvals' = [approvals EXCEPT ![o][b] = [approvals[o][b] EXCEPT !.passed = TRUE]]
                 \/ approvals' = [approvals EXCEPT ![o][b] = [approvals[o][b] EXCEPT !.state = "expired"]]
            BY <2>3 DEF AuthorizeMerge, DatePasses, VoidExpired, SetApproval
        <3>2. approvals[o][b] \in Approval
            BY <1>3
        <3>3. /\ [approvals[o][b] EXCEPT !.state = "answered"].tree = approvals[o][b].tree
              /\ [approvals[o][b] EXCEPT !.passed = TRUE].tree = approvals[o][b].tree
              /\ [approvals[o][b] EXCEPT !.state = "expired"].tree = approvals[o][b].tree
            BY <3>2, FieldsKeepTheirType
        <3>4. /\ [approvals[o][b] EXCEPT !.state = "answered"] \in Approval
              /\ [approvals[o][b] EXCEPT !.passed = TRUE] \in Approval
              /\ [approvals[o][b] EXCEPT !.state = "expired"] \in Approval
            BY <3>2, FieldsKeepTheirType
        <3>5. \E x \in Approval : /\ approvals' = [approvals EXCEPT ![o][b] = x]
                                  /\ x.tree = approvals[o][b].tree
            BY <3>1, <3>3, <3>4
        <3>6. QED
            BY <1>4, <3>5
    <2>4. QED
        BY <2>1, <2>2, <2>3
<1>7. ASSUME NEW o \in Runs, NEW b \in DOMAIN approvals[o],
             \/ approvals' = [approvals EXCEPT ![o][b] = [approvals[o][b] EXCEPT !.presented = TRUE]]
             \/ approvals' = [approvals EXCEPT ![o][b] =
                    [approvals[o][b] EXCEPT !.state = "delivered", !.presented = TRUE]]
             \/ approvals' = approvals
      PROVE  Goal
    <2>1. approvals[o][b] \in Approval
        BY <1>3
    <2>2. /\ [approvals[o][b] EXCEPT !.presented = TRUE] \in Approval
          /\ [approvals[o][b] EXCEPT !.presented = TRUE].tree = approvals[o][b].tree
          /\ [approvals[o][b] EXCEPT !.state = "delivered", !.presented = TRUE] \in Approval
          /\ [approvals[o][b] EXCEPT !.state = "delivered", !.presented = TRUE].tree =
                approvals[o][b].tree
        BY <2>1, FieldsKeepTheirType
    <2>3. \/ approvals' = approvals
          \/ \E x \in Approval : /\ approvals' = [approvals EXCEPT ![o][b] = x]
                                 /\ x.tree = approvals[o][b].tree
        BY <1>7, <2>2
    <2>4. QED
        BY <1>2, <1>4, <2>3
<1>8. CASE DerivationFails \/ RefuseMerge
    <2>1. /\ current # NoWork /\ current.work = "merge"
          /\ Present(current.run, current.approval) \/ Named(current.run, current.approval)
        BY <1>8 DEF DerivationFails, RefuseMerge, On
    <2>2. current.run \in Runs /\ current.approval \in DOMAIN approvals[current.run]
        BY <2>1, HandsAreFull DEF IInv, CandidatesSound, Unjudged
    <2>3. failures \in Nat
        BY <1>1 DEF TypeOK
    <2>4. \/ approvals' = [approvals EXCEPT ![current.run][current.approval] =
                  [approvals[current.run][current.approval] EXCEPT !.presented = TRUE]]
          \/ approvals' = approvals
        BY <2>1, <2>3, PresentIsVerdict
    <2>5. QED
        BY <1>7, <2>2, <2>4
<1>9. CASE Conflict \/ Settle
    <2>1. gate.run \in Runs /\ gate.approval \in DOMAIN approvals[gate.run]
        BY <1>9, GateAtWork DEF Conflict, Settle, Stepped
    <2>2. \/ approvals' = [approvals EXCEPT ![gate.run][gate.approval] =
                  [approvals[gate.run][gate.approval] EXCEPT !.presented = TRUE]]
          \/ approvals' = [approvals EXCEPT ![gate.run][gate.approval] =
                  [approvals[gate.run][gate.approval] EXCEPT !.state = "delivered", !.presented = TRUE]]
          \/ approvals' = approvals
        BY <1>9 DEF Conflict, Settle, Named, SetApproval, rows
    <2>3. QED
        BY <1>7, <2>1, <2>2
<1>10. CASE BranchNext \/ RunNext \/ CleaningNext
    BY <1>2, <1>10 DEF BranchNext, Edit, Commit, LandByHand, RunNext, StartRun,
       EndRun, CancelRun, RetryRun, MoveRun, CleaningNext, ReclaimByHand, DisposeByHand, rows
<1>11. CASE SweepNext /\ ~DerivationFails /\ ~RefuseMerge /\ ~Conflict /\ ~Settle
    BY <1>2, <1>11 DEF SweepNext, BeginPass, TakeUp, PassPreMerge, Integrate, MergeFails,
       LookAtBranch, Reclaim, RefuseReclaim, Dispose, Retain, rows
<1>12. CASE Crash \/ UNCHANGED vars
    BY <1>2, <1>12 DEF Crash, vars, rows
<1>13. QED
    BY <1>6, <1>8, <1>9, <1>10, <1>11, <1>12 DEF Next

(* While the repository has main checked out, an authorization reads as    *)
(* spent only when the bytes it covers are in main.                        *)
THEOREM SpentTheorem == Checkout = "main" => (Spec => []SpentMeansLanded)
<1>1. SUFFICES ASSUME Checkout = "main" PROVE Spec => []SpentMeansLanded
    OBVIOUS
<1>2. Init => SpentMeansLanded
    BY DEF Init, SpentMeansLanded
<1>3. IInv /\ OnMain /\ SpentMeansLanded /\ [Next]_vars => SpentMeansLanded'
    <2>1. SUFFICES ASSUME IInv, OnMain, SpentMeansLanded, [Next]_vars,
                          NEW r \in Runs, NEW a \in DOMAIN approvals'[r],
                          approvals'[r][a].state = "delivered"
                   PROVE  approvals'[r][a].tree <= onMain'[r]
        BY DEF SpentMeansLanded
    <2>2. /\ a \in DOMAIN approvals[r] /\ approvals'[r][a].tree = approvals[r][a].tree
          /\ approvals[r][a].tree <= onMain[r]
        <3>1. a \in DOMAIN approvals[r] /\ approvals'[r][a].tree = approvals[r][a].tree
            BY <2>1, TreesStay
        <3>2. CASE approvals[r][a].state = "delivered"
            BY <2>1, <3>1, <3>2 DEF SpentMeansLanded
        <3>3. CASE approvals[r][a].state # "delivered"
            <4>1. /\ gate # NoGate /\ gate.step = "settle" /\ r = gate.run
                  /\ approvals[r][a].tree = gate.tree
                BY <2>1, <3>1, <3>3, OnlySettleDelivers
            <4>2. QED
                BY <2>1, <3>1, <4>1 DEF OnMain, IntegratedIsLanded
        <3>4. QED
            BY <3>1, <3>2, <3>3
    <2>3. approvals[r][a].tree \in Int
        <3>1. approvals[r] \in Seq(Approval)
            BY <2>1 DEF IInv, TypeOK
        <3>2. approvals[r][a] \in Approval
            BY <2>2, <3>1
        <3>3. QED
            BY <3>2 DEF Approval, Trees
    <2>4. QED
        BY <2>1, <2>2, <2>3, MainOnlyGrows
<1>4. Spec => []OnMain
    BY <1>1, OnMainHolds
<1>5. QED
    BY <1>2, <1>3, <1>4, InvariantHolds, PTL DEF Spec

-----------------------------------------------------------------------------
(* The contract with the coordinator.  A pass acts on runs it read as      *)
(* ended; by the time it does they may have been retried, which is what    *)
(* tries remembers.                                                        *)

EndedOnce(r) == run[r] \in Finished \/ tries[r] > 1

ActsOnEnded ==
    /\ \A r \in Runs : tries[r] >= 1
    /\ \A c \in todo : EndedOnce(c.run)
    /\ current # NoWork => EndedOnce(current.run)
    /\ gate # NoGate => EndedOnce(gate.run)

\* The runs of the pass are the ones it read, one at a time.
LEMMA HandedDown ==
    ASSUME IInv, [Next]_vars
    PROVE  /\ \A c \in todo' : c \in todo \/ c \in Candidates
           /\ current' # NoWork => \/ current' \in todo
                                   \/ current # NoWork /\ current'.run = current.run
           /\ gate' # NoGate => \/ gate # NoGate /\ gate'.run = gate.run
                                \/ current # NoWork /\ gate'.run = current.run
<1> USE DEF sweep
<1> TypeOK
    BY DEF IInv
<1>1. CASE UNCHANGED sweep
    BY <1>1
<1>2. CASE BranchNext \/ RunNext \/ ApprovalNext \/ CleaningNext
    BY <1>1, <1>2 DEF BranchNext, RunNext, ApprovalNext, CleaningNext, Edit, Commit, LandByHand,
        StartRun, EndRun, CancelRun, RetryRun, MoveRun, RequestMerge, AuthorizeMerge, DatePasses,
        VoidExpired, ReclaimByHand, DisposeByHand
<1>3. CASE BeginPass \/ TakeUp
    BY <1>3 DEF BeginPass, TakeUp
<1>4. CASE DerivationFails \/ RefuseMerge \/ PassPreMerge
    BY <1>4, HandsAreFull DEF DerivationFails, RefuseMerge, PassPreMerge, ThenDispose, Leaves, On,
        Work
<1>5. CASE Integrate
    BY <1>5, HandsAreFull DEF Integrate, Stepped, Gate
<1>6. CASE Conflict \/ MergeFails \/ Settle
    <2>1. current # NoWork
        BY <1>6 DEF Conflict, MergeFails, Settle, Stepped, IInv, GateSound
    <2>2. gate' = NoGate /\ ThenDispose
        BY <1>6 DEF Conflict, MergeFails, Settle
    <2> QED
        BY <2>1, <2>2, HandsAreFull DEF ThenDispose, Leaves, Work
<1>7. CASE LookAtBranch
    BY <1>7, HandsAreFull DEF LookAtBranch, Leaves, Work
<1>8. CASE Reclaim \/ RefuseReclaim
    BY <1>8 DEF Reclaim, RefuseReclaim, Leaves, On
<1>9. CASE Dispose \/ Retain
    BY <1>9 DEF Dispose, Retain, EndsDisposal, Leaves
<1>10. CASE Crash
    BY <1>10 DEF Crash
<1> QED
    BY <1>1, <1>2, <1>3, <1>4, <1>5, <1>6, <1>7, <1>8, <1>9, <1>10 DEF Next, SweepNext, vars

\* Who moves a run, and who leaves them all.
LEMMA RunMovers ==
    ASSUME TypeOK, [Next]_vars
    PROVE  RunNext \/ Crash \/ UNCHANGED <<run, tries>>
<1>1. CASE UNCHANGED vars \/ BranchNext
    BY <1>1 DEF vars, rows, BranchNext, Edit, Commit, LandByHand
<1>2. CASE ApprovalNext
    BY <1>2 DEF ApprovalNext, RequestMerge, AuthorizeMerge, DatePasses, VoidExpired, SetApproval
<1>3. CASE CleaningNext
    BY <1>3 DEF CleaningNext, ReclaimByHand, DisposeByHand
<1>4. CASE SweepNext
    BY <1>4 DEF SweepNext, BeginPass, TakeUp, DerivationFails, RefuseMerge, PassPreMerge, Integrate,
        Conflict, MergeFails, Settle, LookAtBranch, Reclaim, RefuseReclaim, Dispose, Retain,
        Present, Named, SetApproval, rows
<1> QED
    BY <1>1, <1>2, <1>3, <1>4 DEF Next

LEMMA EndedStays ==
    ASSUME TypeOK, [Next]_vars, NEW r \in Runs, tries[r] >= 1
    PROVE  tries'[r] >= 1 /\ (EndedOnce(r) => EndedOnce(r)')
<1>1. tries[r] \in Nat /\ tries \in [Runs -> Nat] /\ run \in [Runs -> RunStates]
    BY DEF TypeOK
<1>2. CASE UNCHANGED <<run, tries>>
    BY <1>2 DEF EndedOnce
<1>3. CASE Crash
    BY <1>3 DEF Crash, EndedOnce, Finished
<1>4. ASSUME NEW o \in Runs, StartRun(o) \/ EndRun(o) \/ CancelRun(o)
      PROVE  tries'[r] >= 1 /\ (EndedOnce(r) => EndedOnce(r)')
    <2>1. UNCHANGED tries /\ \E to \in {"running", "done", "failed", "cancelled"} :
                               run' = [run EXCEPT ![o] = to]
        BY <1>4 DEF StartRun, EndRun, CancelRun, MoveRun
    <2>2. run[o] \in {"queued", "running"}
        BY <1>4 DEF StartRun, EndRun, CancelRun
    <2> QED
        BY <1>1, <2>1, <2>2 DEF EndedOnce, Finished
<1>5. ASSUME NEW o \in Runs, RetryRun(o)
      PROVE  tries'[r] >= 1 /\ (EndedOnce(r) => EndedOnce(r)')
    <2>1. tries' = [tries EXCEPT ![o] = tries[o] + 1] /\ run' = [run EXCEPT ![o] = "queued"]
        BY <1>5 DEF RetryRun, MoveRun
    <2>2. CASE r = o
        <3>1. tries'[r] = tries[r] + 1
            BY <1>1, <2>1, <2>2
        <3> QED
            BY <1>1, <3>1 DEF EndedOnce
    <2>3. CASE r # o
        BY <1>1, <2>1, <2>3 DEF EndedOnce
    <2> QED
        BY <2>2, <2>3
<1> QED
    BY <1>2, <1>3, <1>4, <1>5, RunMovers DEF RunNext

LEMMA ActsOnEndedNext ==
    ASSUME IInv, ActsOnEnded, [Next]_vars
    PROVE  ActsOnEnded'
<1> TypeOK
    BY DEF IInv
<1>1. \A r \in Runs : tries'[r] >= 1 /\ (EndedOnce(r) => EndedOnce(r)')
    BY EndedStays DEF ActsOnEnded
<1>2. \A c \in Candidates : c.run \in Runs /\ EndedOnce(c.run)
    <2> SUFFICES ASSUME NEW c \in Candidates
                 PROVE  c.run \in Runs /\ EndedOnce(c.run)
        OBVIOUS
    <2> DEFINE Ended(status) == {r \in Runs : run[r] \in Swept /\ worktree[r] = status}
    <2>1. CASE c \in UNION {{Candidate(r, "merge", a) : a \in FirstPending(r)} : r \in Ended("active")}
        <3>1. PICK r \in Ended("active") : \E a \in FirstPending(r) : c = Candidate(r, "merge", a)
            BY <2>1
        <3> QED
            BY <3>1 DEF Candidate, EndedOnce, Swept, Finished
    <2>2. CASE c \in {Candidate(r, "release", 0) : r \in {r \in Ended("active") : Pending(r) = {}}}
        BY <2>2 DEF Candidate, EndedOnce, Swept, Finished
    <2>3. CASE c \in {Candidate(r, "dispose", 0) : r \in Ended("reclaimable")}
        BY <2>3 DEF Candidate, EndedOnce, Swept, Finished
    <2> QED
        BY <2>1, <2>2, <2>3, Zenon DEF Candidates
<1>3. \A c \in todo : c.run \in Runs /\ EndedOnce(c.run)
    BY DEF ActsOnEnded, TypeOK, Work
<1>4. /\ current # NoWork => current.run \in Runs /\ EndedOnce(current.run)
      /\ gate # NoGate => gate.run \in Runs /\ EndedOnce(gate.run)
    BY HandsAreFull DEF ActsOnEnded
<1>5. \A c \in todo' : EndedOnce(c.run)'
    BY <1>1, <1>2, <1>3, HandedDown
<1>6. current' # NoWork => EndedOnce(current.run)'
    BY <1>1, <1>3, <1>4, HandedDown
<1>7. gate' # NoGate => EndedOnce(gate.run)'
    BY <1>1, <1>4, HandedDown
<1> QED
    BY <1>1, <1>5, <1>6, <1>7 DEF ActsOnEnded

\* What the gates write in the worktree column.
Released(r) ==
    /\ EndedOnce(r) /\ worktree[r] = "active"
    /\ worktree' = [worktree EXCEPT ![r] = "reclaimable"]

Cleaned(r) ==
    /\ worktree[r] \in {"active", "reclaimable"}
    /\ worktree' = [worktree EXCEPT ![r] = "cleaned"]

LEMMA WorktreeColumn ==
    ASSUME IInv, ActsOnEnded, [Next]_vars
    PROVE  UNCHANGED worktree \/ \E r \in Runs : Released(r) \/ Cleaned(r)
<1> TypeOK /\ worktree \in [Runs -> {"active", "reclaimable", "cleaned"}]
    BY DEF IInv, TypeOK
<1>1. CASE UNCHANGED vars \/ BranchNext \/ RunNext \/ ApprovalNext \/ Crash
    BY <1>1 DEF vars, rows, BranchNext, Edit, Commit, LandByHand, RunNext, StartRun, EndRun,
        CancelRun, RetryRun, MoveRun, ApprovalNext, RequestMerge, AuthorizeMerge, DatePasses,
        VoidExpired, Crash
<1>2. CASE CleaningNext
    BY <1>2 DEF CleaningNext, ReclaimByHand, DisposeByHand, Cleaned
<1>3. CASE Settle
    <2>1. gate # NoGate /\ gate.run \in Runs /\ EndedOnce(gate.run)
        BY <1>3, HandsAreFull DEF Settle, Stepped, ActsOnEnded
    <2>2. \/ UNCHANGED worktree
          \/ worktree' = [worktree EXCEPT ![gate.run] =
                            IF worktree[gate.run] = "active" THEN "reclaimable"
                            ELSE worktree[gate.run]]
        BY <1>3 DEF Settle, rows
    <2>3. CASE worktree[gate.run] = "active"
        BY <2>1, <2>2, <2>3 DEF Released
    <2>4. CASE worktree[gate.run] # "active"
        BY <2>2, <2>4
    <2> QED
        BY <2>3, <2>4
<1>4. CASE Reclaim
    <2>1. current # NoWork /\ current.run \in Runs /\ EndedOnce(current.run)
        BY <1>4, HandsAreFull DEF Reclaim, On, ActsOnEnded
    <2> QED
        BY <1>4, <2>1 DEF Reclaim, Released
<1>5. CASE Dispose
    BY <1>5 DEF Dispose, Cleaned
<1>6. CASE SweepNext /\ ~Settle /\ ~Reclaim /\ ~Dispose
    BY <1>6 DEF SweepNext, BeginPass, TakeUp, DerivationFails, RefuseMerge, PassPreMerge, Integrate,
        Conflict, MergeFails, LookAtBranch, RefuseReclaim, Retain, rows
<1> QED
    BY <1>1, <1>2, <1>3, <1>4, <1>5, <1>6 DEF Next, SweepNext

LEMMA SharedStep ==
    ASSUME IInv, ActsOnEnded, [Next]_vars
    PROVE  Shared!Next \/ UNCHANGED Shared!vars
<1> DEFINE ended == [n \in Runs |-> run[n] \in {"done", "failed"} \/ tries[n] > 1]
<1>1. \A r, to, ends : Shared!Moves(r, to, ends) <=>
        /\ run' = [run EXCEPT ![r] = to]
        /\ ended' = [ended EXCEPT ![r] = @ \/ ends]
        /\ UNCHANGED worktree
    BY Zenon DEF Shared!Moves
<1>2. (UNCHANGED Shared!vars) <=> UNCHANGED <<run, ended, worktree>>
    BY Zenon DEF Shared!vars
<1>3. \A r :
        /\ Shared!Start(r) <=>
             /\ run[r] = "queued" /\ worktree[r] = "active"
             /\ DependsOn[r] # 0 => worktree[DependsOn[r]] = "reclaimable"
             /\ Shared!Moves(r, "running", FALSE)
        /\ Shared!End(r) <=>
             run[r] = "running" /\ \E to \in {"done", "failed"} : Shared!Moves(r, to, TRUE)
        /\ Shared!Cancel(r) <=>
             run[r] \in {"queued", "running"} /\ Shared!Moves(r, "cancelled", FALSE)
        /\ Shared!Retry(r) <=>
             /\ run[r] \in {"done", "failed"} /\ worktree[r] = "active"
             /\ Shared!Moves(r, "queued", FALSE)
    BY Zenon DEF Shared!Start, Shared!End, Shared!Cancel, Shared!Retry
<1>4. \A r :
        /\ Shared!Release(r) <=>
             /\ run[r] \in {"done", "failed", "cancelled"} \/ ended[r]
             /\ worktree[r] = "active"
             /\ worktree' = [worktree EXCEPT ![r] = "reclaimable"]
             /\ UNCHANGED <<run, ended>>
        /\ Shared!Clean(r) <=>
             /\ worktree[r] \in {"active", "reclaimable"}
             /\ worktree' = [worktree EXCEPT ![r] = "cleaned"]
             /\ UNCHANGED <<run, ended>>
    BY Zenon DEF Shared!Release, Shared!Clean, Shared!Finished
<1>5. Shared!Restart <=>
        /\ run' = [r \in Runs |-> IF run[r] = "running" THEN "queued" ELSE run[r]]
        /\ UNCHANGED <<ended, worktree>>
    BY Zenon DEF Shared!Restart
<1>6. ASSUME NEW r \in Runs,
             \/ Shared!Start(r) \/ Shared!End(r) \/ Shared!Cancel(r) \/ Shared!Retry(r)
             \/ Shared!Release(r) \/ Shared!Clean(r)
      PROVE  Shared!Next
    BY <1>6, Zenon DEF Shared!Next, Shared!RunNext, Shared!WorktreeNext
<1>7. Shared!Restart => Shared!Next
    BY Zenon DEF Shared!Next
<1>8. \A r \in Runs : /\ ended[r] = (run[r] \in {"done", "failed"} \/ tries[r] > 1)
                      /\ ended'[r] = (run'[r] \in {"done", "failed"} \/ tries'[r] > 1)
    OBVIOUS
<1>9. ended = [n \in Runs |-> ended[n]] /\ ended' = [n \in Runs |-> ended'[n]]
    OBVIOUS
<1>10. TypeOK /\ run \in [Runs -> RunStates] /\ tries \in [Runs -> Nat]
    BY DEF IInv, TypeOK
<1> HIDE DEF ended
<1>11. CASE UNCHANGED <<run, tries>>
    <2>1. UNCHANGED ended
        BY <1>8, <1>9, <1>11
    <2>2. CASE UNCHANGED worktree
        BY <1>2, <1>11, <2>1, <2>2
    <2>3. ASSUME NEW r \in Runs, Released(r) \/ Cleaned(r)
          PROVE  Shared!Next
        <3>1. CASE Released(r)
            BY <1>4, <1>6, <1>8, <1>11, <2>1, <3>1 DEF Released, EndedOnce, Finished
        <3>2. CASE Cleaned(r)
            BY <1>4, <1>6, <1>11, <2>1, <3>2 DEF Cleaned
        <3> QED
            BY <2>3, <3>1, <3>2
    <2> QED
        BY <2>2, <2>3, WorktreeColumn
<1>12. CASE Crash
    <2>1. run' = [r \in Runs |-> IF run[r] = "running" THEN "queued" ELSE run[r]]
          /\ UNCHANGED <<tries, worktree>>
        BY <1>12 DEF Crash
    <2>2. \A r \in Runs : ended'[r] = ended[r]
        BY <1>8, <2>1
    <2> QED
        BY <1>5, <1>7, <1>9, <2>1, <2>2
<1>13. ASSUME NEW r \in Runs, NEW to, NEW ends \in BOOLEAN,
              run' = [run EXCEPT ![r] = to],
              \A o \in Runs \ {r} : tries'[o] = tries[o],
              ended'[r] = (ended[r] \/ ends), UNCHANGED worktree
       PROVE  Shared!Moves(r, to, ends)
    <2>1. \A o \in Runs \ {r} : ended'[o] = ended[o]
        BY <1>8, <1>10, <1>13
    <2>2. ended' = [ended EXCEPT ![r] = ended[r] \/ ends]
        BY <1>9, <1>13, <2>1
    <2> QED
        BY <1>1, <1>13, <2>2
<1>14. ASSUME NEW r \in Runs, StartRun(r) \/ CancelRun(r)
       PROVE  Shared!Next
    <2>1. PICK to \in {"running", "cancelled"} : run' = [run EXCEPT ![r] = to]
        BY <1>14 DEF StartRun, CancelRun, MoveRun
    <2>2. UNCHANGED <<tries, worktree>> /\ run[r] \in {"queued", "running"}
        BY <1>14 DEF StartRun, CancelRun, MoveRun
    <2>3. run'[r] = to
        BY <1>10, <2>1
    <2>4. ended'[r] = (ended[r] \/ FALSE)
        BY <1>8, <2>1, <2>2, <2>3
    <2>5. Shared!Moves(r, to, FALSE)
        BY <1>13, <2>1, <2>2, <2>4
    <2>6. CASE StartRun(r)
        <3>1. run' = [run EXCEPT ![r] = "running"] /\ to = "running"
            BY <1>10, <2>3, <2>6 DEF StartRun, MoveRun
        <3> QED
            BY <1>3, <1>6, <2>5, <2>6, <3>1 DEF StartRun, NoRun
    <2>7. CASE CancelRun(r)
        <3>1. run' = [run EXCEPT ![r] = "cancelled"] /\ to = "cancelled"
            BY <1>10, <2>3, <2>7 DEF CancelRun, MoveRun
        <3> QED
            BY <1>3, <1>6, <2>2, <2>5, <3>1
    <2> QED
        BY <1>14, <2>6, <2>7
<1>15. ASSUME NEW r \in Runs, EndRun(r)
       PROVE  Shared!Next
    <2>1. PICK to \in {"done", "failed"} : run' = [run EXCEPT ![r] = to]
        BY <1>15 DEF EndRun, MoveRun
    <2>2. UNCHANGED <<tries, worktree>> /\ run[r] = "running" /\ run'[r] = to
        BY <1>10, <1>15, <2>1 DEF EndRun, MoveRun
    <2>3. ended'[r] = (ended[r] \/ TRUE)
        BY <1>8, <2>2
    <2>4. Shared!Moves(r, to, TRUE)
        BY <1>13, <2>1, <2>2, <2>3
    <2> QED
        BY <1>3, <1>6, <2>2, <2>4
<1>16. ASSUME NEW r \in Runs, RetryRun(r)
       PROVE  Shared!Next
    <2>1. /\ run' = [run EXCEPT ![r] = "queued"] /\ tries' = [tries EXCEPT ![r] = tries[r] + 1]
          /\ run[r] \in {"done", "failed"} /\ worktree[r] = "active" /\ UNCHANGED worktree
        BY <1>16 DEF RetryRun, MoveRun
    <2>2. tries'[r] > 1
        BY <1>10, <2>1 DEF ActsOnEnded
    <2>3. ended'[r] = (ended[r] \/ FALSE)
        BY <1>8, <2>1, <2>2
    <2>4. \A o \in Runs \ {r} : tries'[o] = tries[o]
        BY <1>10, <2>1
    <2>5. Shared!Moves(r, "queued", FALSE)
        BY <1>13, <2>1, <2>3, <2>4
    <2> QED
        BY <1>3, <1>6, <2>1, <2>5
<1> QED
    BY <1>10, <1>11, <1>12, <1>14, <1>15, <1>16, RunMovers DEF RunNext

(* The gates keep to what the coordinator relies on: a worktree is         *)
(* released only once its run has ended, although a pass acts on           *)
(* candidates it read before the run was retried, and cleaned for good.    *)
(* What stands for the coordinator in MergeGate keeps to its own part      *)
(* (gates/mod.rs, settle_merge and reclaim).                               *)
THEOREM GatesContract == Spec => SharesTheRows
<1>1. Init => Shared!Init /\ ActsOnEnded
    <2> SUFFICES ASSUME Init PROVE Shared!Init /\ ActsOnEnded
        OBVIOUS
    <2>1. \A r \in Runs : (run[r] \in {"done", "failed"} \/ tries[r] > 1) = FALSE
        BY DEF Init
    <2>2. Shared!Init
        BY <2>1 DEF Init, Shared!Init
    <2> QED
        BY <2>2 DEF Init, ActsOnEnded
<1>2. ASSUME IInv, ActsOnEnded, [Next]_vars
      PROVE  ActsOnEnded' /\ (Shared!Next \/ UNCHANGED Shared!vars)
    BY <1>2, ActsOnEndedNext, SharedStep
<1> QED
    BY <1>1, <1>2, InvariantHolds, PTL DEF Spec, SharesTheRows, Shared!Spec

(* What stands for the coordinator here is no tamer than the contract:     *)
(* whatever the contract lets it do to a run while it has the core's lock  *)
(* is a step of MergeGate, as long as the bound on tries and the choice of *)
(* operations leave room.  So nothing the gates are shown to keep depends  *)
(* on a coordinator that holds back (fsm/runs.rs).                         *)
THEOREM CoordinatorIsFree ==
    ASSUME TypeOK, CoreFree, {"cancel", "retry"} \subseteq Operations, NEW r \in Runs,
           tries[r] < MaxTries,
           Shared!Start(r) \/ Shared!End(r) \/ Shared!Cancel(r) \/ Shared!Retry(r),
           tries' = [tries EXCEPT ![r] = IF run'[r] = "queued" THEN @ + 1 ELSE @],
           UNCHANGED <<approvals, cleanupAsked, git, sweep, failures>>
    PROVE  RunNext
<1>1. \/ /\ run[r] = "queued" /\ worktree[r] = "active"
         /\ DependsOn[r] # 0 => worktree[DependsOn[r]] = "reclaimable"
         /\ run' = [run EXCEPT ![r] = "running"]
      \/ run[r] = "running" /\ \E to \in {"done", "failed"} : run' = [run EXCEPT ![r] = to]
      \/ run[r] \in {"queued", "running"} /\ run' = [run EXCEPT ![r] = "cancelled"]
      \/ /\ run[r] \in {"done", "failed"} /\ worktree[r] = "active"
         /\ run' = [run EXCEPT ![r] = "queued"]
    BY Zenon DEF Shared!Start, Shared!End, Shared!Cancel, Shared!Retry, Shared!Moves
<1>2. UNCHANGED worktree
    BY Zenon DEF Shared!Start, Shared!End, Shared!Cancel, Shared!Retry, Shared!Moves
<1>3. run \in [Runs -> RunStates] /\ tries \in [Runs -> Nat]
    BY DEF TypeOK
<1>4. \A to : run' = [run EXCEPT ![r] = to] => MoveRun(r, to) /\ run'[r] = to
    BY <1>2, <1>3 DEF MoveRun
<1>5. run'[r] # "queued" => UNCHANGED tries
    BY <1>3
<1>6. run'[r] = "queued" => tries' = [tries EXCEPT ![r] = tries[r] + 1]
    OBVIOUS
<1>7. CASE /\ run[r] = "queued" /\ worktree[r] = "active"
           /\ DependsOn[r] # 0 => worktree[DependsOn[r]] = "reclaimable"
           /\ run' = [run EXCEPT ![r] = "running"]
    BY <1>4, <1>5, <1>7 DEF RunNext, StartRun, NoRun
<1>8. CASE run[r] = "running" /\ \E to \in {"done", "failed"} : run' = [run EXCEPT ![r] = to]
    <2>1. (MoveRun(r, "done") \/ MoveRun(r, "failed")) /\ run'[r] \in {"done", "failed"}
        BY <1>4, <1>8
    <2> QED
        BY <1>5, <1>8, <2>1 DEF RunNext, EndRun
<1>9. CASE run[r] \in {"queued", "running"} /\ run' = [run EXCEPT ![r] = "cancelled"]
    BY <1>4, <1>5, <1>9 DEF RunNext, CancelRun
<1>10. CASE /\ run[r] \in {"done", "failed"} /\ worktree[r] = "active"
            /\ run' = [run EXCEPT ![r] = "queued"]
    BY <1>4, <1>6, <1>10 DEF RunNext, RetryRun
<1> QED
    BY <1>1, <1>7, <1>8, <1>9, <1>10
===============================================================================
