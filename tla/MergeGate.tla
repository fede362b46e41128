------------------------------- MODULE MergeGate -------------------------------
(***************************************************************************)
(* The git gates of the coordinator: how a merge authorization is asked    *)
(* for, granted and spent, how a landed branch releases its run's          *)
(* worktree, and how a released worktree is removed.                       *)
(*                                                                         *)
(* The sweep reads its candidates under the core's lock, gives the lock    *)
(* back, and takes it again for each; clients, timers and the scheduler    *)
(* run in between.  A gate asks git while it holds the lock, and the       *)
(* repository changes under it all the same: git is nobody's lock.         *)
(*                                                                         *)
(* Abstractions.  A branch is the number of its commits; the commits of    *)
(* one branch are linear, so the tree of a worktree's HEAD is that number, *)
(* main holds a prefix of the branch, and the paths changed since the      *)
(* merge base are told by the two ends.  The checks over data the model    *)
(* does not carry (attempts against the cap, the genesis paths, a detached *)
(* head, unrelated histories) are the fault "scope", a refusal like any    *)
(* other.  The attested path has no caller in the daemon and is left out.  *)
(***************************************************************************)
EXTENDS Integers, Sequences, FiniteSets

CONSTANTS
    Runs,         \* the ids of the run rows
    DependsOn,    \* the dep_run_id column: a run, or NoRun
    Checkout,     \* the branch the repository's own checkout is on
    Operations,   \* bound: what clients and the timers do
    Faults,       \* what the environment may do, see AllFaults
    MaxCommits,   \* bound: commits of a branch
    MaxApprovals, \* bound: approvals asked for of a run
    MaxTries,     \* bound: times a run is queued
    MaxFailures   \* bound: faults that happen

NoRun == 0

AllOperations == {"expiry", "retry", "cancel", "cleaning", "lands"}

(* "crash": the daemon dies and comes back.  "store": a write is refused.  *)
(* "git": git cannot be asked.  "scope": a check over unmodelled data      *)
(* refuses.  "conflict": the merge does not apply.  "hands": somebody other *)
(* than the run's worker changes the worktree.                             *)
AllFaults == {"crash", "store", "git", "scope", "conflict", "hands"}

ASSUME GateAssumption ==
    /\ Runs \subseteq Nat \ {NoRun}
    /\ DependsOn \in [Runs -> Runs \cup {NoRun}]
    /\ Checkout \in {"main", "another"}
    /\ Operations \subseteq AllOperations
    /\ Faults \subseteq AllFaults
    /\ {MaxCommits, MaxApprovals, MaxTries, MaxFailures} \subseteq Nat

VARIABLES
    run,          \* state column of each run
    tries,        \* how often the run was queued
    worktree,     \* worktree_status column of each run
    approvals,    \* the approval questions of each run, in order of id
    cleanupAsked, \* a sub_agent_requested entry of kind cleanup is in the journal
    head,         \* the tree the worktree's HEAD stands at
    onMain,       \* how far the branch is contained in main
    dirty,        \* uncommitted changes in the worktree
    directory,    \* the worktree's directory exists
    todo,         \* candidates the pass under way has not taken up
    current,      \* the candidate it is on, or NoWork
    gate,         \* the gate under way, which holds the core's lock, or NoGate
    failures      \* faults that happened

rows == <<run, tries, worktree, approvals, cleanupAsked>>
branch == <<head, onMain, dirty>>
git == <<branch, directory>>
sweep == <<todo, current, gate>>
vars == <<rows, git, sweep, failures>>

RunStates == {"queued", "running", "done", "failed", "cancelled"}

Finished == {"done", "failed", "cancelled"}

Trees == 0..MaxCommits

\* presented: a gate_result entry names the approval.
Approval == [state : {"open", "answered", "delivered", "expired"},
             tree : Trees, base : Trees, passed : BOOLEAN, presented : BOOLEAN]

\* late: the date of the approval had passed when the pass read the clock.
Work == [run : Runs, work : {"merge", "release", "reclaim", "dispose"},
         approval : Nat, late : BOOLEAN]

NoWork == [run |-> NoRun]

\* What pre_merge derived, carried from one of its git calls to the next.
Gate == [run : Runs, step : {"integrate", "settle", "dispose"},
         approval : Nat, tree : Trees, merged : BOOLEAN]

NoGate == [run |-> NoRun]

TypeOK ==
    /\ run \in [Runs -> RunStates]
    /\ tries \in [Runs -> Nat]
    /\ worktree \in [Runs -> {"active", "reclaimable", "cleaned"}]
    /\ approvals \in [Runs -> Seq(Approval)]
    /\ cleanupAsked \in [Runs -> BOOLEAN]
    /\ head \in [Runs -> Trees]
    /\ onMain \in [Runs -> Trees]
    /\ dirty \in [Runs -> BOOLEAN]
    /\ directory \in [Runs -> BOOLEAN]
    /\ todo \subseteq Work
    /\ current \in Work \cup {NoWork}
    /\ gate \in Gate \cup {NoGate}
    /\ failures \in Nat

Init ==
    /\ run = [r \in Runs |-> "queued"]
    /\ tries = [r \in Runs |-> 1]
    /\ worktree = [r \in Runs |-> "active"]
    /\ approvals = [r \in Runs |-> <<>>]
    /\ cleanupAsked = [r \in Runs |-> FALSE]
    /\ head = [r \in Runs |-> 0]
    /\ onMain = [r \in Runs |-> 0]
    /\ dirty = [r \in Runs |-> FALSE]
    /\ directory = [r \in Runs |-> TRUE]
    /\ todo = {}
    /\ current = NoWork
    /\ gate = NoGate
    /\ failures = 0

CoreFree == gate = NoGate

Fails(fault) ==
    /\ fault \in Faults
    /\ failures < MaxFailures
    /\ failures' = failures + 1

-----------------------------------------------------------------------------
(* What git answers, at the moment it is asked.                            *)

Merged(r) == head[r] <= onMain[r]

MergeBase(r) == IF Merged(r) THEN head[r] ELSE onMain[r]

\* The tree alone, whether or not the branch has landed.
ReceiptHolds_AnyTree(a, r) == Merged(r) \/ a.base = MergeBase(r)

\* The tree always; the paths only while the branch has yet to land.
ReceiptHolds(a, r) ==
    /\ a.tree = head[r]
    /\ Merged(r) \/ a.base = MergeBase(r)

-----------------------------------------------------------------------------
(* Work on the branch, which takes no lock of the coordinator.             *)

Touches(r) ==
    /\ directory[r]
    /\ run[r] = "running" \/ "hands" \in Faults

Edit(r) ==
    /\ Touches(r) /\ ~dirty[r]
    /\ dirty' = [dirty EXCEPT ![r] = TRUE]
    /\ UNCHANGED <<rows, head, onMain, directory, sweep, failures>>

Commit(r) ==
    /\ Touches(r) /\ head[r] < MaxCommits
    /\ head' = [head EXCEPT ![r] = @ + 1]
    /\ dirty' = [dirty EXCEPT ![r] = FALSE]
    /\ UNCHANGED <<rows, onMain, directory, sweep, failures>>

LandByHand(r) ==
    /\ "lands" \in Operations /\ ~Merged(r)
    /\ onMain' = [onMain EXCEPT ![r] = head[r]]
    /\ UNCHANGED <<rows, head, dirty, directory, sweep, failures>>

-----------------------------------------------------------------------------
(* The run, as far as the gates see it.                                    *)

MoveRun(r, to) ==
    /\ run' = [run EXCEPT ![r] = to]
    /\ UNCHANGED <<worktree, approvals, cleanupAsked, git, sweep, failures>>

StartRun(r) ==
    /\ CoreFree
    /\ run[r] = "queued" /\ worktree[r] = "active"
    /\ DependsOn[r] # NoRun => worktree[DependsOn[r]] = "reclaimable"
    /\ MoveRun(r, "running")
    /\ UNCHANGED tries

EndRun(r) ==
    /\ CoreFree
    /\ run[r] = "running"
    /\ MoveRun(r, "done") \/ MoveRun(r, "failed")
    /\ UNCHANGED tries

CancelRun(r) ==
    /\ CoreFree /\ "cancel" \in Operations
    /\ run[r] \in {"queued", "running"}
    /\ MoveRun(r, "cancelled")
    /\ UNCHANGED tries

RetryRun(r) ==
    /\ CoreFree /\ "retry" \in Operations
    /\ run[r] \in {"done", "failed"} /\ worktree[r] = "active"
    /\ tries[r] < MaxTries
    /\ MoveRun(r, "queued")
    /\ tries' = [tries EXCEPT ![r] = @ + 1]

-----------------------------------------------------------------------------
(* The authorization of a merge.                                           *)

SetApproval(r, a, approval) ==
    /\ approvals' = [approvals EXCEPT ![r][a] = approval]
    /\ UNCHANGED <<run, tries, cleanupAsked>>

\* open_approval: the receipt of the worktree as git has it right now.
RequestMerge(r) ==
    /\ CoreFree
    /\ Len(approvals[r]) < MaxApprovals
    /\ directory[r] /\ ~dirty[r]
    /\ approvals' = [approvals EXCEPT ![r] =
         Append(@, [state |-> "open", tree |-> head[r], base |-> MergeBase(r),
                    passed |-> FALSE, presented |-> FALSE])]
    /\ UNCHANGED <<run, tries, worktree, cleanupAsked, git, sweep, failures>>

AuthorizeMerge(r) ==
    /\ CoreFree
    /\ \E a \in DOMAIN approvals[r] :
         /\ approvals[r][a].state = "open" /\ ~approvals[r][a].passed
         /\ SetApproval(r, a, [approvals[r][a] EXCEPT !.state = "answered"])
    /\ UNCHANGED <<worktree, git, sweep, failures>>

\* The clock reaches the date an approval expires at.
DatePasses(r) ==
    /\ "expiry" \in Operations
    /\ \E a \in DOMAIN approvals[r] :
         /\ approvals[r][a].state \in {"open", "answered"} /\ ~approvals[r][a].passed
         /\ SetApproval(r, a, [approvals[r][a] EXCEPT !.passed = TRUE])
    /\ UNCHANGED <<worktree, git, sweep, failures>>

\* The third stage of the timer wheel, on an approval.
VoidExpired(r) ==
    /\ CoreFree
    /\ \E a \in DOMAIN approvals[r] :
         /\ approvals[r][a].state \in {"open", "answered"} /\ approvals[r][a].passed
         /\ SetApproval(r, a, [approvals[r][a] EXCEPT !.state = "expired"])
    /\ UNCHANGED <<worktree, git, sweep, failures>>

-----------------------------------------------------------------------------
(* The cleaning operation: the row moves, and the directory goes after it. *)

\* git removes a worktree that is clean, and refuses one that is not.
RemoveDirectory(r) == directory' = [directory EXCEPT ![r] = dirty[r]]

ReclaimByHand(r) ==
    /\ CoreFree /\ "cleaning" \in Operations
    /\ worktree[r] = "reclaimable"
    /\ directory[r] /\ ~dirty[r]
    /\ worktree' = [worktree EXCEPT ![r] = "cleaned"]
    /\ RemoveDirectory(r)
    /\ UNCHANGED <<run, tries, approvals, cleanupAsked, branch, sweep, failures>>

\* The disposition with a status of its own, which no reader of the row knows.
DisposeByHand_NewStatus(r) ==
    /\ CoreFree /\ "cleaning" \in Operations
    /\ worktree[r] = "active" /\ directory[r]
    /\ worktree' = [worktree EXCEPT ![r] = "discarded"]
    /\ RemoveDirectory(r)
    /\ UNCHANGED <<run, tries, approvals, cleanupAsked, branch, sweep, failures>>

\* A confirmed manual disposition, whatever the run is doing.
DisposeByHand(r) ==
    /\ CoreFree /\ "cleaning" \in Operations
    /\ worktree[r] = "active" /\ directory[r]
    /\ worktree' = [worktree EXCEPT ![r] = "cleaned"]
    /\ RemoveDirectory(r)
    /\ UNCHANGED <<run, tries, approvals, cleanupAsked, branch, sweep, failures>>

-----------------------------------------------------------------------------
(* The sweep: candidates, read in one piece.                               *)

\* Every authorization the user granted, a refused one again and again.
Pending_Forgetful(r) == {a \in DOMAIN approvals[r] : approvals[r][a].state = "answered"}

\* Granted by the user, and not presented to a gate yet.
Pending(r) ==
    {a \in DOMAIN approvals[r] :
        approvals[r][a].state = "answered" /\ ~approvals[r][a].presented}

\* A cancelled run keeps its worktree, and the sweep that forgets it.
Swept_SkipsCancelled == {"done", "failed"}

\* The states whose runs the sweep looks at.
Swept == {"done", "failed", "cancelled"}

Candidate(r, work, a) ==
    [run |-> r, work |-> work, approval |-> a,
     late |-> IF a = 0 THEN FALSE ELSE approvals[r][a].passed]

\* The authorization the sweep takes first.
FirstPending(r) == {a \in Pending(r) : \A o \in Pending(r) : a <= o}

Candidates ==
    LET Ended(status) == {r \in Runs : run[r] \in Swept /\ worktree[r] = status} IN
    (UNION {{Candidate(r, "merge", a) : a \in FirstPending(r)} : r \in Ended("active")})
    \cup {Candidate(r, "release", 0) : r \in {r \in Ended("active") : Pending(r) = {}}}
    \cup {Candidate(r, "dispose", 0) : r \in Ended("reclaimable")}

BeginPass ==
    /\ CoreFree /\ todo = {} /\ current = NoWork
    /\ Candidates # {}
    /\ todo' = Candidates
    /\ UNCHANGED <<rows, git, current, gate, failures>>

TakeUp ==
    /\ CoreFree /\ current = NoWork
    /\ \E c \in todo :
         /\ current' = c
         /\ todo' = todo \ {c}
    /\ UNCHANGED <<rows, git, gate, failures>>

\* How a step of the sweep leaves its candidate: the work still to do on it.
Leaves(next) == current' = next /\ UNCHANGED todo

ThenDispose == Leaves([current EXCEPT !.work = "dispose"])

On(work) == CoreFree /\ current # NoWork /\ current.work = work

-----------------------------------------------------------------------------
(* The pre-merge gate.                                                     *)

\* A verdict of the gate is journaled, unless the store refuses the entry.
Present(r, a) ==
    \/ SetApproval(r, a, [approvals[r][a] EXCEPT !.presented = TRUE]) /\ UNCHANGED failures
    \/ Fails("store") /\ UNCHANGED <<run, tries, approvals, cleanupAsked>>

\* The entry written, where the fault of the step is another one.
Named(r, a) == SetApproval(r, a, [approvals[r][a] EXCEPT !.presented = TRUE])

\* The date as the pass read it, and the tree as git has it now.
Granted(c) ==
    LET a == approvals[c.run][c.approval] IN
    /\ a.state = "answered"
    /\ c.late => Merged(c.run)
    /\ ReceiptHolds(a, c.run)

\* git cannot derive the worktree: journaled against the approval all the same.
DerivationFails ==
    /\ On("merge")
    /\ \/ ~directory[current.run] /\ Present(current.run, current.approval)
       \/ Fails("git") /\ Named(current.run, current.approval)
    /\ ThenDispose
    /\ UNCHANGED <<worktree, git, gate>>

\* The refusal that leaves no entry naming the approval.
RefuseMerge_Unjournaled ==
    /\ On("merge")
    /\ directory[current.run]
    /\ dirty[current.run] \/ ~Granted(current)
    /\ ThenDispose
    /\ UNCHANGED <<rows, git, gate, failures>>

RefuseMerge ==
    /\ On("merge")
    /\ directory[current.run]
    /\ \/ /\ dirty[current.run] \/ ~Granted(current)
          /\ Present(current.run, current.approval)
       \/ /\ ~Merged(current.run)
          /\ Fails("scope") /\ Named(current.run, current.approval)
    /\ ThenDispose
    /\ UNCHANGED <<worktree, git, gate>>

PassPreMerge ==
    /\ On("merge")
    /\ directory[current.run] /\ ~dirty[current.run]
    /\ Granted(current)
    /\ gate' = [run |-> current.run, step |-> "integrate", approval |-> current.approval,
                tree |-> head[current.run], merged |-> Merged(current.run)]
    /\ UNCHANGED <<rows, git, todo, current, failures>>

Stepped(step) == gate # NoGate /\ gate.step = step

\* git merge takes whatever the branch holds into whatever is checked out.
Integrate ==
    /\ Stepped("integrate")
    /\ onMain' = IF gate.merged \/ Checkout # "main"
                 THEN onMain
                 ELSE [onMain EXCEPT ![gate.run] = head[gate.run]]
    /\ gate' = [gate EXCEPT !.step = "settle"]
    /\ UNCHANGED <<rows, head, dirty, directory, todo, current, failures>>

\* Aborted and handed to an integration sub-agent, with a verdict in the journal.
Conflict ==
    /\ Stepped("integrate") /\ ~gate.merged
    /\ Fails("conflict") /\ Named(gate.run, gate.approval)
    /\ gate' = NoGate
    /\ ThenDispose
    /\ UNCHANGED <<worktree, git>>

\* The failed invocation taken for a merge that landed.
MergeFails_GoesOn ==
    /\ Stepped("integrate") /\ ~gate.merged
    /\ Fails("git")
    /\ gate' = [gate EXCEPT !.step = "settle"]
    /\ UNCHANGED <<rows, git, todo, current>>

\* The invocation itself fails, and nothing is journaled.
MergeFails ==
    /\ Stepped("integrate") /\ ~gate.merged
    /\ Fails("git")
    /\ gate' = NoGate
    /\ ThenDispose
    /\ UNCHANGED <<rows, git>>

\* settle_merge: the verdict, the authorization spent and the worktree released
\* in one write, or none of them.
Settle ==
    /\ Stepped("settle")
    /\ \/ /\ SetApproval(gate.run, gate.approval,
                [approvals[gate.run][gate.approval]
                    EXCEPT !.state = "delivered", !.presented = TRUE])
          /\ worktree' = [worktree EXCEPT ![gate.run] =
                            IF @ = "active" THEN "reclaimable" ELSE @]
          /\ UNCHANGED failures
       \/ Fails("store") /\ UNCHANGED rows
    /\ gate' = NoGate
    /\ ThenDispose
    /\ UNCHANGED git

-----------------------------------------------------------------------------
(* The reclaim gate.                                                       *)

\* Looks at the branch without the lock, to decide whether it is worth asking.
LookAtBranch ==
    /\ current # NoWork /\ current.work = "release"
    /\ LET r == current.run
           ask == directory[r] /\ Merged(r) /\ ~(dirty[r] /\ cleanupAsked[r])
       IN \/ Leaves(IF ask THEN [current EXCEPT !.work = "reclaim"] ELSE NoWork)
             /\ UNCHANGED failures
          \/ Fails("git") /\ Leaves(NoWork)
    /\ UNCHANGED <<rows, git, gate>>

\* The release that takes the first look for good.
Reclaim_TrustsTheLook ==
    /\ On("reclaim")
    /\ worktree' = [worktree EXCEPT ![current.run] = "reclaimable"]
    /\ gate' = [run |-> current.run, step |-> "dispose", approval |-> 0,
                tree |-> head[current.run], merged |-> TRUE]
    /\ Leaves(NoWork)
    /\ UNCHANGED <<run, tries, approvals, cleanupAsked, git, failures>>

\* Derives again, under the lock, and disposes of what it releases.
Reclaim ==
    /\ On("reclaim")
    /\ LET r == current.run IN
         /\ directory[r] /\ Merged(r) /\ ~dirty[r]
         /\ worktree[r] = "active"
         /\ worktree' = [worktree EXCEPT ![r] = "reclaimable"]
         /\ gate' = [run |-> r, step |-> "dispose", approval |-> 0,
                     tree |-> head[r], merged |-> TRUE]
    /\ Leaves(NoWork)
    /\ UNCHANGED <<run, tries, approvals, cleanupAsked, git, failures>>

\* Anything that keeps the worktree from being released; a dirty one asks for a
\* cleanup sub-agent.
RefuseReclaim ==
    /\ On("reclaim")
    /\ LET r == current.run IN
         \/ /\ directory[r] => ~Merged(r) \/ dirty[r] \/ worktree[r] # "active"
            /\ cleanupAsked' = [cleanupAsked EXCEPT ![r] =
                                  @ \/ (directory[r] /\ Merged(r) /\ dirty[r])]
            /\ UNCHANGED failures
         \/ (Fails("git") \/ Fails("store")) /\ UNCHANGED cleanupAsked
    /\ Leaves(NoWork)
    /\ UNCHANGED <<run, tries, worktree, approvals, git, gate>>

Disposing(r) ==
    \/ Stepped("dispose") /\ r = gate.run
    \/ On("dispose") /\ r = current.run

EndsDisposal == gate' = NoGate /\ Leaves(NoWork)

\* The removal that forces a worktree out whatever it holds.
Dispose_Forced ==
    /\ \E r \in Runs :
         /\ Disposing(r)
         /\ worktree[r] = "reclaimable"
         /\ directory' = [directory EXCEPT ![r] = FALSE]
         /\ worktree' = [worktree EXCEPT ![r] = "cleaned"]
    /\ EndsDisposal
    /\ UNCHANGED <<run, tries, approvals, cleanupAsked, branch, failures>>

\* The disposal that does not look at the row before it removes.
Dispose_AnyStatus ==
    /\ \E r \in Runs :
         /\ Disposing(r)
         /\ directory[r] => ~dirty[r]
         /\ directory' = [directory EXCEPT ![r] = FALSE]
         /\ worktree' = [worktree EXCEPT ![r] = IF @ = "reclaimable" THEN "cleaned" ELSE @]
    /\ EndsDisposal
    /\ UNCHANGED <<run, tries, approvals, cleanupAsked, branch, failures>>

\* The directory first and the row second; a directory already gone is no error.
Dispose ==
    /\ \E r \in Runs :
         /\ Disposing(r)
         /\ worktree[r] = "reclaimable"
         /\ directory[r] => ~dirty[r]
         /\ directory' = [directory EXCEPT ![r] = FALSE]
         /\ \/ worktree' = [worktree EXCEPT ![r] = "cleaned"] /\ UNCHANGED failures
            \/ Fails("store") /\ UNCHANGED worktree
    /\ EndsDisposal
    /\ UNCHANGED <<run, tries, approvals, cleanupAsked, branch>>

\* Not released, or git will not let the directory go: tried again next pass.
Retain ==
    /\ \E r \in Runs :
         /\ Disposing(r)
         /\ \/ /\ worktree[r] = "reclaimable" => directory[r] /\ dirty[r]
               /\ UNCHANGED failures
            \/ worktree[r] = "reclaimable" /\ directory[r] /\ Fails("git")
    /\ EndsDisposal
    /\ UNCHANGED <<rows, git>>

\* The daemon dies; its boot takes the runs that were executing up again.
Crash ==
    /\ Fails("crash")
    /\ todo' = {} /\ current' = NoWork /\ gate' = NoGate
    /\ run' = [r \in Runs |-> IF run[r] = "running" THEN "queued" ELSE run[r]]
    /\ UNCHANGED <<tries, worktree, approvals, cleanupAsked, git>>

-----------------------------------------------------------------------------
BranchNext == \E r \in Runs : Edit(r) \/ Commit(r) \/ LandByHand(r)

RunNext ==
    \E r \in Runs :
        StartRun(r) \/ EndRun(r) \/ CancelRun(r) \/ RetryRun(r)

ApprovalNext ==
    \E r \in Runs :
        RequestMerge(r) \/ AuthorizeMerge(r) \/ DatePasses(r) \/ VoidExpired(r)

CleaningNext == \E r \in Runs : ReclaimByHand(r) \/ DisposeByHand(r)

\* The sweep's own steps, all taken by the thread of gates_loop.
SweepNext ==
    \/ BeginPass \/ TakeUp
    \/ DerivationFails \/ RefuseMerge \/ PassPreMerge
    \/ Integrate \/ Conflict \/ MergeFails \/ Settle
    \/ LookAtBranch \/ Reclaim \/ RefuseReclaim
    \/ Dispose \/ Retain

Next ==
    \/ BranchNext \/ RunNext \/ ApprovalNext \/ CleaningNext
    \/ SweepNext
    \/ Crash

Spec == Init /\ [][Next]_vars

\* The sweep is a loop and the admission tick another: each goes on while it has
\* something to do.  Nothing is assumed of clients, workers or git's other users.
FairSpec ==
    /\ Spec
    /\ WF_vars(SweepNext)
    /\ \A r \in Runs : WF_vars(StartRun(r))

-----------------------------------------------------------------------------
(* Safety.                                                                 *)

(* An authorization is spent only on a merge that is in main: whatever     *)
(* crash, refused write or conflict comes between git's merge and the      *)
(* settlement, no approval reads as consumed for bytes that never landed.  *)
SpentMeansLanded ==
    \A r \in Runs : \A a \in DOMAIN approvals[r] :
        approvals[r][a].state = "delivered" => approvals[r][a].tree <= onMain[r]

(* A run that may still execute has a directory to execute in: the row     *)
(* leaves active no later than the directory goes, in the sweep, in the    *)
(* cleaning operation, and across a refused write or a crash between.      *)
ActiveHasDirectory ==
    \A r \in Runs : worktree[r] = "active" => directory[r]

(* What the gate integrates was authorized: by an approval the user        *)
(* answered and no verdict had named, in date, over the very tree the gate *)
(* derived.                                                                *)
MergesOnAuthority ==
    [][\A r \in Runs :
         (gate # NoGate /\ gate' # gate /\ onMain'[r] # onMain[r]) =>
            LET a == approvals[gate.run][gate.approval] IN
            /\ r = gate.run
            /\ a.state = "answered" /\ ~a.presented
            /\ a.tree = gate.tree]_vars

(* A verdict is final for the approval it names: one the gate refused is   *)
(* never spent later, by this pass or by any other.                        *)
RefusedIsNeverSpent ==
    [][\A r \in Runs : \A a \in DOMAIN approvals[r] :
         approvals[r][a].presented /\ approvals[r][a].state # "delivered" =>
            approvals'[r][a].state # "delivered"]_vars

(* A worktree is released on what git says when it is released: the tree   *)
(* the gate derived is in main, though the sweep chose its candidates and  *)
(* looked at the branch in earlier moments.                                *)
ReleasedOnlyLanded ==
    [][\A r \in Runs :
         worktree[r] = "active" /\ worktree'[r] = "reclaimable" =>
            /\ directory[r]
            /\ (IF gate = NoGate THEN head[r] ELSE gate.tree) <= onMain[r]]_vars

(* No removal takes uncommitted work with it, whoever touched the worktree *)
(* after it was derived clean.                                             *)
UncommittedWorkSurvives ==
    [][\A r \in Runs : directory[r] /\ ~directory'[r] => ~dirty[r]]_vars

(* Every step of the gates, and of what stands for the coordinator here,   *)
(* is one the coordinator expects of the rows they share, or one they take *)
(* of it: see SharedRows.  A pass acts on runs it read as ended, which may *)
(* have been retried since (gates/mod.rs, settle_merge, reclaim).          *)
Shared == INSTANCE SharedRows WITH
    settled <- [r \in Runs |-> run[r] \in {"done", "failed"} \/ tries[r] > 1]

SharesTheRows == Shared!Spec

-----------------------------------------------------------------------------
(* Liveness.                                                               *)

Awaits(r, a) ==
    /\ run[r] \in Finished /\ worktree[r] = "active"
    /\ a \in Pending(r)

(* An authorization granted over a finished run is presented to the gate,  *)
(* unless the run, its worktree or the authorization moved on first.       *)
AuthorizationIsJudged ==
    \A r \in Runs : \A a \in 1..MaxApprovals : Awaits(r, a) ~> ~Awaits(r, a)

GivenBack(r) ==
    \/ worktree[r] = "cleaned"
    \/ run[r] \notin Finished \/ dirty[r] \/ ~Merged(r)

(* A finished run whose branch landed gives its directory and its place in *)
(* the ceiling back without a person, through failures and restarts.       *)
FinishedIsGivenBack == \A r \in Runs : ~GivenBack(r) ~> GivenBack(r)

(* queue.rs says a dependent waits for a run that has not been merged and  *)
(* reclaimed yet, and scheduler/mod.rs that a deferral passes on its own.  *)
DependentIsAdmitted ==
    \A r \in {r \in Runs : DependsOn[r] # NoRun} :
        (/\ run[r] = "queued" /\ worktree[r] = "active"
         /\ run[DependsOn[r]] = "done" /\ worktree[DependsOn[r]] # "active"
         /\ Merged(DependsOn[r])) ~> run[r] # "queued"
=============================================================================
