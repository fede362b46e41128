------------------------------- MODULE ChatProofs -------------------------------
(***************************************************************************)
(* What holds of ChatSessions for every value of its constants.            *)
(*                                                                         *)
(* Three invariants that have little to do with each other: what everyone  *)
(* who follows a chat was told (ToldAsListed), where a command is that its *)
(* caller waits for (Commanded), and, while opens do not overlap, whose    *)
(* channels a session is reached by (Reached).                             *)
(***************************************************************************)
EXTENDS ChatSessions, FiniteSetTheorems, SequenceTheorems, TLAPS

Types ==
    /\ call \in [Openers -> Calls]
    /\ session \in [Openers -> Sessions \cup {None}]
    /\ open \in [Sessions -> Openers \cup {None}]
    /\ live \in [Sessions -> Openers \cup {None}]
    /\ loop \in [Openers -> Serving \cup {"none", "returned", "gone"}]
    /\ inbox \in [Openers -> Seq({"prompt"} \cup Commands)]
    /\ command \in [Commands -> [stage : Stages, at : Openers \cup {None}]]
    /\ ask \in [Openers -> [Askers -> Question]]
    /\ follows \in [Subs -> Openers \cup {None}]
    /\ told \in [Subs -> [Askers -> Nat]]

\* What a follower was told of what each asker is stopped on.
ToldAsListed ==
    /\ \A o \in Openers, a \in Askers :
         /\ ask[o][a].stage = "none" => ask[o][a].kind = "none"
         /\ ask[o][a].stage = "listed" => ask[o][a].kind = "permission"
    /\ \A o \in Openers, a \in Askers, u \in Subs : follows[u] = o =>
         /\ ask[o][a].stage = "none" => told[u][a] = 0
         /\ Listed(o, a) /\ ask[o][a].kind = "ask_user" => told[u][a] = 1

\* A loop is what an open that succeeded has started.
Started == \A o \in Openers : loop[o] # "none" => call[o] = "opened"

\* While at most one open is under way, the session it names is on record for
\* it, or for nobody once a client closed it; and the registry and the map
\* agree on whose loop a session's is.
Reached ==
    /\ \A o \in Openers : call[o] \in {"recorded", "unstarted", "opened"} => session[o] \in Sessions
    /\ \A o, p \in Openers : UnderWay(o) /\ UnderWay(p) => o = p
    /\ \A o \in Openers : UnderWay(o) =>
         \/ open[session[o]] = o
         \/ o \in closed /\ open[session[o]] = None
    /\ \A o \in Openers : loop[o] \in Serving \cup {"returned"} => live[session[o]] = o
    /\ OpenChatIsReachable

\* What a loop that may still take the command k finds in its inbox.
Queued(o, k) ==
    /\ command[k].at = o
    /\ command[k].stage \in {"waiting", "leaving", "busy"}
    /\ k \notin ran

InboxesHold ==
    \A o \in Openers : Receives(o) =>
        \A i \in DOMAIN inbox[o] : inbox[o][i] \in Commands =>
            /\ Queued(o, inbox[o][i])
            /\ \A j \in DOMAIN inbox[o] : inbox[o][j] = inbox[o][i] => j = i

\* What the caller of k was told so far is so.
StageHolds(k) ==
    /\ command[k].stage \in {"none", "looking", "sending", "unknown"} => k \notin ran
    /\ command[k].stage = "answered" => k \in ran
    /\ command[k].stage = "waiting" /\ k \in ran =>
         command[k].at \in Openers /\ loop[command[k].at] = "command"

Commanded ==
    /\ \A o \in Openers : call[o] = "none" => inbox[o] = <<>>
    /\ InboxesHold
    /\ \A k \in Commands : StageHolds(k)

-----------------------------------------------------------------------------
(* The types.                                                              *)

LEMMA PublishType ==
    ASSUME Types, NEW o \in Openers, NEW about, Publish(o, about)
    PROVE  /\ follows' \in [Subs -> Openers \cup {None}]
           /\ told' \in [Subs -> [Askers -> Nat]]
BY DEF Publish, Types, Untold

LEMMA ForgetType ==
    ASSUME Types, NEW o \in Openers, NEW a \in Askers, Forget(o, a)
    PROVE  told' \in [Subs -> [Askers -> Nat]]
BY DEF Forget, Types

\* One field of one question changes.
LEMMA QuestionChanges ==
    ASSUME Types, NEW o \in Openers, NEW a \in Askers, NEW q \in Question,
           ask' = [ask EXCEPT ![o][a] = q]
    PROVE  /\ ask' \in [Openers -> [Askers -> Question]]
           /\ ask'[o][a] = q
           /\ \A p \in Openers, b \in Askers :
                p # o \/ b # a => ask'[p][b] = ask[p][b]
BY DEF Types

LEMMA OpeningType ==
    ASSUME Types, NEW o \in Openers, Opening(o)
    PROVE  Types'
<1> USE DEF opening, serving, calling, hearing
<1>1. ASSUME NEW s \in Sessions, BeginOpen(o, s) PROVE Types'
    <2>1. Kept \in [Sessions -> Openers \cup {None}]
        BY DEF Kept, Types
    <2>2. open' \in [Sessions -> Openers \cup {None}]
        BY <1>1, <2>1 DEF BeginOpen
    <2>3. session' \in [Openers -> Sessions \cup {None}] /\ call' \in [Openers -> Calls]
        BY <1>1 DEF BeginOpen, Types, Calls
    <2>4. QED
        BY <1>1, <2>2, <2>3 DEF BeginOpen, Types
<1>2. CASE StartLoop(o)
    BY <1>2 DEF StartLoop, Types, Calls, Serving
<1>3. CASE StartFails(o)
    BY <1>3 DEF StartFails, Types, Calls, Stages
<1>4. CASE TakeBack(o)
    BY <1>4 DEF TakeBack, Types, Calls
<1>5. QED
    BY <1>1, <1>2, <1>3, <1>4 DEF Opening

LEMMA LoopType ==
    ASSUME Types, NEW o \in Openers, Loop(o)
    PROVE  Types'
<1> USE DEF opening, serving, calling, hearing, Moves, Serving
<1>1. CASE Look(o) \/ Poll(o)
    BY <1>1 DEF Look, Poll, Types
<1>2. CASE Return(o)
    BY <1>2, PublishType DEF Return, Types, Stages
<1>3. CASE RecordEnd(o)
    BY <1>3 DEF RecordEnd, Types
<1>4. ASSUME NEW k \in Commands, TakeCommand(o, k) PROVE Types'
    <2>1. inbox[o] \in Seq({"prompt"} \cup Commands) /\ inbox[o] # <<>>
        BY <1>4 DEF TakeCommand, Finds, Types
    <2>2. inbox' \in [Openers -> Seq({"prompt"} \cup Commands)]
        BY <1>4, <2>1 DEF TakeCommand, Types
    <2>3. loop' \in [Openers -> Serving \cup {"none", "returned", "gone"}]
        BY <1>4 DEF TakeCommand, Types
    <2>4. QED
        BY <1>4, <2>2, <2>3 DEF TakeCommand, Types
<1>5. CASE CommandEnds(o)
    BY <1>5 DEF CommandEnds, Types, Stages
<1>6. CASE TakePrompt(o)
    BY <1>6 DEF TakePrompt, Finds, Types
<1>7. QED
    BY <1>1, <1>2, <1>3, <1>4, <1>5, <1>6 DEF Loop

LEMMA QuestionType ==
    ASSUME Types, NEW o \in Openers, NEW a \in Askers, Asking(o, a) \/ Awaiting(o, a)
    PROVE  Types'
<1> USE DEF opening, serving, calling, hearing
<1>1. CASE ListPermission(o, a)
    BY <1>1 DEF ListPermission, Types, Stops, Question
<1>2. CASE AskUser(o, a)
    BY <1>2, PublishType DEF AskUser, Types, Stops, Question
<1>3. CASE PublishPermission(o, a)
    <2>1. ask[o][a] \in Question
        BY DEF Types
    <2>2. [ask[o][a] EXCEPT !.stage = "waiting"] \in Question
        BY <2>1 DEF Question
    <2>3. ask' \in [Openers -> [Askers -> Question]]
        BY <1>3, <2>2 DEF PublishPermission, Types
    <2>4. QED
        BY <1>3, <2>3, PublishType DEF PublishPermission, Types
<1>4. CASE Hear(o, a)
    BY <1>4, ForgetType DEF Hear, Types, Question, NoQuestion
<1>5. CASE GiveUp(o, a)
    <2>1. ask[o][a] \in Question
        BY DEF Types
    <2>2. [ask[o][a] EXCEPT !.stage = "leaving"] \in Question
        BY <2>1 DEF Question
    <2>3. ask' \in [Openers -> [Askers -> Question]]
        BY <1>5, <2>2 DEF GiveUp, Types
    <2>4. QED
        BY <1>5, <2>3 DEF GiveUp, Types
<1>6. CASE Unlist(o, a)
    BY <1>6, ForgetType DEF Unlist, Types, Question, NoQuestion
<1>7. QED
    BY <1>1, <1>2, <1>3, <1>4, <1>5, <1>6 DEF Asking, Awaiting

\* One call of a command goes on to its next stage.
LEMMA GoesType ==
    ASSUME Types, NEW k \in Commands, NEW stage \in Stages, Goes(k, stage)
    PROVE  command' \in [Commands -> [stage : Stages, at : Openers \cup {None}]]
<1>1. command \in [Commands -> [stage : Stages, at : Openers \cup {None}]]
    BY DEF Types
<1>2. [command[k] EXCEPT !.stage = stage] \in [stage : Stages, at : Openers \cup {None}]
    BY <1>1
<1>3. QED
    BY <1>1, <1>2 DEF Goes

LEMMA CommandType ==
    ASSUME Types, NEW k \in Commands, Commanding(k)
    PROVE  Types'
<1> USE DEF opening, serving, calling, hearing
<1>0. {"looking", "sending", "waiting", "leaving", "busy", "unknown"} \subseteq Stages
    BY DEF Stages, Holding
<1>1. ASSUME NEW s \in Sessions, CallCommand(k, s) PROVE Types'
    <2>1. [stage |-> "looking", at |-> open[s]] \in [stage : Stages, at : Openers \cup {None}]
        BY <1>0 DEF Types
    <2>2. QED
        BY <1>1, <2>1 DEF CallCommand, Types
<1>2. CASE LookAtTurn(k)
    <2>1. \E stage \in Stages : Goes(k, stage)
        BY <1>0, <1>2 DEF LookAtTurn
    <2>2. command' \in [Commands -> [stage : Stages, at : Openers \cup {None}]]
        BY <2>1, GoesType
    <2>3. QED
        BY <1>2, <2>2 DEF LookAtTurn, Types
<1>3. CASE SendCommand(k)
    <2>1. \E stage \in Stages : Goes(k, stage)
        BY <1>0, <1>3 DEF SendCommand
    <2>3. command' \in [Commands -> [stage : Stages, at : Openers \cup {None}]]
        BY <2>1, GoesType
    <2>4. \/ inbox' = inbox
          \/ inbox' = [inbox EXCEPT ![command[k].at] = Append(inbox[command[k].at], k)]
        BY <1>3 DEF SendCommand
    <2>5. inbox' \in [Openers -> Seq({"prompt"} \cup Commands)]
        <3>1. CASE command[k].at \in Openers
            <4>1. Append(inbox[command[k].at], k) \in Seq({"prompt"} \cup Commands)
                BY <3>1 DEF Types
            <4>2. QED
                BY <2>4, <4>1 DEF Types
        <3>2. CASE command[k].at \notin Openers
            BY <2>4, <3>2 DEF Types
        <3>3. QED
            BY <3>1, <3>2
    <2>6. QED
        BY <1>3, <2>3, <2>5 DEF SendCommand, Types
<1>4. CASE CommandTimesOut(k) \/ Withdraw(k)
    <2>1. \E stage \in Stages : Goes(k, stage)
        BY <1>0, <1>4 DEF CommandTimesOut, Withdraw
    <2>2. command' \in [Commands -> [stage : Stages, at : Openers \cup {None}]]
        BY <2>1, GoesType
    <2>3. QED
        BY <1>4, <2>2 DEF CommandTimesOut, Withdraw, Types
<1>5. QED
    BY <1>1, <1>2, <1>3, <1>4 DEF Commanding

LEMMA ClientType ==
    ASSUME Types, NEW s \in Sessions, Client(s)
    PROVE  Types'
<1> USE DEF opening, serving, calling, hearing
<1>1. CASE Prompt(s)
    BY <1>1 DEF Prompt, Types
<1>2. CASE Cancel(s) \/ Close(s)
    BY <1>2 DEF Cancel, Close, Types
<1>3. ASSUME NEW a \in Askers, Answer(s, a) PROVE Types'
    <2>1. PICK o \in Openers : ask' = [ask EXCEPT ![o][a].answered = TRUE]
        BY <1>3 DEF Answer, Types
    <2>2. ask[o][a] \in Question
        BY DEF Types
    <2>3. PICK q \in Question : q = [ask[o][a] EXCEPT !.answered = TRUE]
        BY <2>2 DEF Question
    <2>4. ask' = [ask EXCEPT ![o][a] = q]
        BY <2>1, <2>3
    <2>5. ask' \in [Openers -> [Askers -> Question]]
        BY <2>4, QuestionChanges
    <2>6. QED
        BY <1>3, <2>5 DEF Answer, Types
<1>4. QED
    BY <1>1, <1>2, <1>3 DEF Client

LEMMA FollowingType ==
    ASSUME Types, NEW u \in Subs, Following(u)
    PROVE  Types'
<1> USE DEF opening, serving, calling, hearing
<1>1. ASSUME NEW s \in Sessions, Subscribe(u, s) PROVE Types'
    BY <1>1 DEF Subscribe, Types
<1>2. CASE Read(u)
    BY <1>2 DEF Read, Types
<1>3. CASE Leave(u)
    BY <1>3 DEF Leave, Types, Untold
<1>4. QED
    BY <1>1, <1>2, <1>3 DEF Following

LEMMA TypesKept == Types /\ [Next]_vars => Types'
<1> SUFFICES ASSUME Types, [Next]_vars PROVE Types'
    OBVIOUS
<1>1. CASE UNCHANGED vars
    BY <1>1 DEF vars, opening, serving, calling, hearing, Types
<1>2. ASSUME NEW o \in Openers, Turn(o) PROVE Types'
    <2>1. CASE Progress(o)
        BY <2>1, PublishType DEF Progress, Types, opening, serving, calling
    <2>2. CASE TurnEnds(o)
        BY <2>2, PublishType DEF TurnEnds, Types, opening, calling, Moves, Serving
    <2>3. QED
        BY <1>2, <2>1, <2>2 DEF Turn
<1>3. CASE CancelAll
    BY <1>3 DEF CancelAll, Types, opening, calling, hearing
<1>4. QED
    BY <1>1, <1>2, <1>3, OpeningType, LoopType, QuestionType, CommandType, ClientType,
       FollowingType DEF Next

LEMMA InitTypes == Init => Types
BY DEF Init, Types, Calls, Serving, Stages, Holding, Question, NoQuestion, Askers, Untold

LEMMA TypesHold == Spec => []Types
BY InitTypes, TypesKept, PTL DEF Spec

-----------------------------------------------------------------------------
(* What is counted, and where the counts end.                              *)

Bounds ==
    /\ closed \subseteq Openers /\ signalled \subseteq Openers /\ tasked \subseteq Openers
    /\ ran \subseteq Commands
    /\ running \in [Openers -> {"none", "running", "cancelled"}]
    /\ \A o \in Openers : Len(inbox[o]) <= Waiting
    /\ backlog \in [Subs -> 0..Backlog]

(* A loop takes an input from the head of its inbox, and a client puts one *)
(* at its end only where it fits.                                          *)
LEMMA InboxSteps ==
    ASSUME [Next]_vars
    PROVE  \/ inbox' = inbox
           \/ \E o \in Openers :
                inbox[o] # <<>> /\ inbox' = [inbox EXCEPT ![o] = Tail(inbox[o])]
           \/ \E o, input : Len(inbox[o]) < Waiting
                            /\ inbox' = [inbox EXCEPT ![o] = Append(inbox[o], input)]
<1> USE DEF serving
<1>1. ASSUME NEW o \in Openers, Opening(o) PROVE inbox' = inbox
    BY <1>1 DEF Opening, BeginOpen, StartLoop, StartFails, TakeBack
<1>2. ASSUME NEW o \in Openers, Loop(o)
      PROVE  \/ inbox' = inbox
             \/ inbox[o] # <<>> /\ inbox' = [inbox EXCEPT ![o] = Tail(inbox[o])]
    BY <1>2 DEF Loop, Look, Poll, Return, RecordEnd, TakeCommand, CommandEnds, TakePrompt, Finds
<1>3. ASSUME NEW o \in Openers, Turn(o) PROVE inbox' = inbox
    BY <1>3 DEF Turn, Progress, TurnEnds
<1>4. ASSUME NEW o \in Openers, NEW a \in Askers, Asking(o, a) \/ Awaiting(o, a)
      PROVE  inbox' = inbox
    BY <1>4 DEF Asking, Awaiting, ListPermission, AskUser, PublishPermission, Hear, GiveUp, Unlist
<1>5. ASSUME NEW k \in Commands, Commanding(k)
      PROVE  \/ inbox' = inbox
             \/ \E o, input : Len(inbox[o]) < Waiting
                              /\ inbox' = [inbox EXCEPT ![o] = Append(inbox[o], input)]
    BY <1>5 DEF Commanding, CallCommand, LookAtTurn, SendCommand, CommandTimesOut, Withdraw
<1>6. ASSUME NEW s \in Sessions, Client(s)
      PROVE  \/ inbox' = inbox
             \/ \E o, input : Len(inbox[o]) < Waiting
                              /\ inbox' = [inbox EXCEPT ![o] = Append(inbox[o], input)]
    BY <1>6 DEF Client, Prompt, Cancel, Close, Answer
<1>7. ASSUME NEW u \in Subs, Following(u) PROVE inbox' = inbox
    BY <1>7 DEF Following, Subscribe, Read, Leave
<1>8. CASE CancelAll \/ UNCHANGED vars
    BY <1>8 DEF CancelAll, vars
<1>9. QED
    BY <1>1, <1>2, <1>3, <1>4, <1>5, <1>6, <1>7, <1>8 DEF Next

LEMMA InboxFits ==
    ASSUME Types, Bounds, [Next]_vars, NEW p \in Openers
    PROVE  Len(inbox'[p]) <= Waiting
<1>1. /\ inbox \in [Openers -> Seq({"prompt"} \cup Commands)]
      /\ Len(inbox[p]) \in Nat /\ Len(inbox[p]) <= Waiting
    BY DEF Types, Bounds
<1>2. Waiting \in Nat
    BY ChatAssumption DEF ChatAssumption
<1>3. ASSUME NEW o \in Openers, inbox[o] # <<>>,
             inbox' = [inbox EXCEPT ![o] = Tail(inbox[o])]
      PROVE  Len(inbox'[p]) <= Waiting
    <2>1. CASE p = o
        <3>1. inbox[o] \in Seq({"prompt"} \cup Commands) /\ inbox'[p] = Tail(inbox[o])
            BY <1>1, <1>3, <2>1
        <3>2. Len(Tail(inbox[o])) = Len(inbox[o]) - 1
            BY <1>3, <3>1
        <3>3. QED
            BY <1>1, <1>2, <2>1, <3>1, <3>2
    <2>2. CASE p # o
        BY <1>1, <1>3, <2>2
    <2>3. QED
        BY <2>1, <2>2
<1>4. ASSUME NEW o, NEW input, Len(inbox[o]) < Waiting,
             inbox' = [inbox EXCEPT ![o] = Append(inbox[o], input)]
      PROVE  Len(inbox'[p]) <= Waiting
    <2>1. CASE p = o
        <3>1. inbox[o] \in Seq({"prompt"} \cup Commands) /\ inbox'[p] = Append(inbox[o], input)
            BY <1>1, <1>4, <2>1
        <3>2. Len(Append(inbox[o], input)) = Len(inbox[o]) + 1
            BY <3>1
        <3>3. QED
            BY <1>1, <1>2, <1>4, <2>1, <3>1, <3>2
    <2>2. CASE p # o
        BY <1>1, <1>4, <2>2
    <2>3. QED
        BY <2>1, <2>2
<1>5. QED
    BY <1>1, <1>3, <1>4, InboxSteps

(* A subscriber is greeted with less than fills its backlog.               *)
LEMMA GreetingFits ==
    ASSUME NEW pending \in SUBSET Askers
    PROVE  Cardinality(pending) \in 0..Backlog
<1>1. IsFiniteSet(Askers) /\ Cardinality(Askers) = 2
    <2>1. IsFiniteSet({"turn"}) /\ Cardinality({"turn"}) = 1
        BY FS_Singleton
    <2>2. Askers = {"turn"} \cup {"task"} /\ "task" \notin {"turn"}
        BY DEF Askers
    <2>3. QED
        BY <2>1, <2>2, FS_AddElement
<1>2. IsFiniteSet(pending) /\ Cardinality(pending) <= 2
    BY <1>1, FS_Subset
<1>3. Cardinality(pending) \in Nat
    BY <1>2, FS_CardinalityType
<1>4. Backlog \in Nat /\ Backlog >= 2
    BY ChatAssumption DEF ChatAssumption
<1>5. QED
    BY <1>2, <1>3, <1>4

LEMMA BacklogFits ==
    ASSUME Bounds, [Next]_vars
    PROVE  backlog' \in [Subs -> 0..Backlog]
<1> USE DEF hearing
<1>0. backlog \in [Subs -> 0..Backlog] /\ Backlog \in Nat
    BY ChatAssumption DEF ChatAssumption, Bounds
<1>1. ASSUME NEW o, NEW about, Publish(o, about) PROVE backlog' \in [Subs -> 0..Backlog]
    <2>1. ASSUME NEW u \in Subs
          PROVE  (IF follows[u] # o THEN backlog[u]
                  ELSE IF backlog[u] = Backlog THEN 0 ELSE backlog[u] + 1) \in 0..Backlog
        BY <1>0
    <2>2. QED
        BY <1>1, <2>1 DEF Publish
<1>2. ASSUME NEW u \in Subs, Following(u) PROVE backlog' \in [Subs -> 0..Backlog]
    <2>1. ASSUME NEW s \in Sessions, Subscribe(u, s) PROVE backlog' \in [Subs -> 0..Backlog]
        <3>1. PICK pending \in SUBSET Askers :
                backlog' = [backlog EXCEPT ![u] = Cardinality(pending)]
            BY <2>1 DEF Subscribe
        <3>2. Cardinality(pending) \in 0..Backlog
            BY GreetingFits
        <3>3. QED
            BY <1>0, <3>1, <3>2
    <2>2. CASE Read(u)
        <3>1. backlog[u] - 1 \in 0..Backlog
            BY <1>0, <2>2 DEF Read
        <3>2. QED
            BY <1>0, <2>2, <3>1 DEF Read
    <2>3. CASE Leave(u)
        BY <1>0, <2>3 DEF Leave
    <2>4. QED
        BY <1>2, <2>1, <2>2, <2>3 DEF Following
<1>3. ASSUME NEW o \in Openers, Opening(o) PROVE UNCHANGED backlog
    BY <1>3 DEF Opening, BeginOpen, StartLoop, StartFails, TakeBack
<1>4. ASSUME NEW o \in Openers, Loop(o) PROVE UNCHANGED backlog \/ Publish(o, {})
    BY <1>4 DEF Loop, Look, Poll, Return, RecordEnd, TakeCommand, CommandEnds, TakePrompt
<1>5. ASSUME NEW o \in Openers, Turn(o) PROVE Publish(o, {})
    BY <1>5 DEF Turn, Progress, TurnEnds
<1>6. ASSUME NEW o \in Openers, NEW a \in Askers, Asking(o, a) \/ Awaiting(o, a)
      PROVE  UNCHANGED backlog \/ Publish(o, {a})
    BY <1>6 DEF Asking, Awaiting, ListPermission, AskUser, PublishPermission, Hear, GiveUp, Unlist
<1>7. ASSUME NEW k \in Commands, Commanding(k) PROVE UNCHANGED backlog
    BY <1>7 DEF Commanding, CallCommand, LookAtTurn, SendCommand, CommandTimesOut, Withdraw
<1>8. ASSUME NEW s \in Sessions, Client(s) PROVE UNCHANGED backlog
    BY <1>8 DEF Client, Prompt, Cancel, Close, Answer
<1>9. CASE CancelAll \/ UNCHANGED vars
    BY <1>0, <1>9 DEF CancelAll, vars
<1>10. QED
    BY <1>0, <1>1, <1>2, <1>3, <1>4, <1>5, <1>6, <1>7, <1>8, <1>9 DEF Next

\* What no step but these touches.
LEMMA HistoriesFit ==
    ASSUME Types, Bounds, [Next]_vars
    PROVE  /\ closed' \subseteq Openers /\ signalled' \subseteq Openers
           /\ tasked' \subseteq Openers /\ ran' \subseteq Commands
           /\ running' \in [Openers -> {"none", "running", "cancelled"}]
<1> DEFINE Same == UNCHANGED <<closed, signalled, tasked, ran, running>>
<1> USE DEF opening, serving, calling
<1>1. ASSUME NEW o \in Openers, Opening(o) PROVE Same
    BY <1>1 DEF Opening, BeginOpen, StartLoop, StartFails, TakeBack
<1>2. ASSUME NEW o \in Openers, Loop(o)
      PROVE  /\ UNCHANGED <<closed, signalled>>
             /\ tasked' \in {tasked, tasked \cup (Tasks \cap {o})}
             /\ ran' = ran \/ \E k \in Commands : ran' = ran \cup {k}
             /\ running' \in {running, [running EXCEPT ![o] = "running"]}
    BY <1>2 DEF Loop, Look, Poll, Return, RecordEnd, TakeCommand, CommandEnds, TakePrompt
<1>3. ASSUME NEW o \in Openers, Turn(o)
      PROVE  /\ UNCHANGED <<closed, signalled, tasked, ran>>
             /\ running' \in {running, [running EXCEPT ![o] = "none"]}
    BY <1>3 DEF Turn, Progress, TurnEnds
<1>4. ASSUME NEW o \in Openers, NEW a \in Askers, Asking(o, a) \/ Awaiting(o, a) PROVE Same
    BY <1>4 DEF Asking, Awaiting, ListPermission, AskUser, PublishPermission, Hear, GiveUp, Unlist
<1>5. ASSUME NEW k \in Commands, Commanding(k) PROVE Same
    BY <1>5 DEF Commanding, CallCommand, LookAtTurn, SendCommand, CommandTimesOut, Withdraw
<1>6. ASSUME NEW s \in Sessions, Client(s)
      PROVE  /\ UNCHANGED <<signalled, tasked, ran>>
             /\ closed' = closed \/ (open[s] # None /\ closed' = closed \cup {open[s]})
             /\ running' \in {running, [running EXCEPT ![open[s]] = "cancelled"]}
    BY <1>6 DEF Client, Prompt, Cancel, Close, Answer
<1>7. ASSUME NEW u \in Subs, Following(u) PROVE Same
    BY <1>7 DEF Following, Subscribe, Read, Leave
<1>8. CASE CancelAll
    BY <1>8 DEF CancelAll, Bounds
<1>9. CASE UNCHANGED vars
    BY <1>9 DEF vars, Bounds
<1>10. CASE Same
    BY <1>10 DEF Bounds
<1>11. ASSUME NEW o \in Openers, Loop(o) \/ Turn(o)
       PROVE  /\ closed' \subseteq Openers /\ signalled' \subseteq Openers
              /\ tasked' \subseteq Openers /\ ran' \subseteq Commands
              /\ running' \in [Openers -> {"none", "running", "cancelled"}]
    BY <1>2, <1>3, <1>11 DEF Bounds
<1>12. ASSUME NEW s \in Sessions, Client(s)
       PROVE  /\ closed' \subseteq Openers /\ signalled' \subseteq Openers
              /\ tasked' \subseteq Openers /\ ran' \subseteq Commands
              /\ running' \in [Openers -> {"none", "running", "cancelled"}]
    <2>1. closed' \subseteq Openers
        <3>1. open[s] \in Openers \cup {None} /\ closed \subseteq Openers
            BY DEF Types, Bounds
        <3>2. closed' = closed \/ (open[s] # None /\ closed' = closed \cup {open[s]})
            BY <1>6, <1>12
        <3>3. QED
            BY <3>1, <3>2
    <2>2. running' \in [Openers -> {"none", "running", "cancelled"}]
        BY <1>6, <1>12 DEF Bounds
    <2>3. QED
        BY <1>6, <1>12, <2>1, <2>2 DEF Bounds
<1> HIDE DEF Same
<1>13. QED
    BY <1>1, <1>4, <1>5, <1>7, <1>8, <1>9, <1>10, <1>11, <1>12 DEF Next

(* Every variable keeps its type, no inbox holds more than PROMPT_BACKLOG  *)
(* inputs and no subscriber's backlog more than SUBSCRIBER_BACKLOG events, *)
(* the greeting it subscribed with included (prompt, publish, subscribe).  *)
THEOREM ChatTypeCorrect == Spec => []TypeOK
<1>1. Init => Bounds
    <2>1. Backlog \in Nat /\ Waiting \in Nat
        BY ChatAssumption DEF ChatAssumption
    <2>2. QED
        BY <2>1 DEF Init, Bounds
<1>2. Types /\ Bounds /\ [Next]_vars => Bounds'
    <2> SUFFICES ASSUME Types, Bounds, [Next]_vars PROVE Bounds'
        OBVIOUS
    <2>2. \A o \in Openers : Len(inbox'[o]) <= Waiting
        BY InboxFits
    <2>3. backlog' \in [Subs -> 0..Backlog]
        BY BacklogFits
    <2>4. QED
        BY <2>2, <2>3, HistoriesFit DEF Bounds
<1>3. Types /\ Bounds => TypeOK
    BY DEF Types, Bounds, TypeOK
<1>4. QED
    BY <1>1, <1>2, <1>3, TypesHold, PTL DEF Spec

-----------------------------------------------------------------------------
(* What followers were told.                                               *)

\* The steps that leave the questions, who follows and what it heard alone.
LEMMA HearingSteps ==
    ASSUME [Next]_vars
    PROVE  \/ UNCHANGED <<ask, follows, told>>
           \/ \E o \in Openers : Publish(o, {}) /\ UNCHANGED ask
           \/ \E o \in Openers, a \in Askers : Asking(o, a) \/ Awaiting(o, a)
           \/ \E s \in Sessions, a \in Askers : Answer(s, a)
           \/ \E u \in Subs : (\E s \in Sessions : Subscribe(u, s)) \/ Leave(u)
<1> USE DEF hearing
<1>1. CASE UNCHANGED vars
    BY <1>1 DEF vars
<1>2. ASSUME NEW o \in Openers, Opening(o) PROVE UNCHANGED <<ask, follows, told>>
    BY <1>2 DEF Opening, BeginOpen, StartLoop, StartFails, TakeBack
<1>3. ASSUME NEW o \in Openers, Loop(o)
      PROVE  UNCHANGED <<ask, follows, told>> \/ (Publish(o, {}) /\ UNCHANGED ask)
    BY <1>3 DEF Loop, Look, Poll, Return, RecordEnd, TakeCommand, CommandEnds, TakePrompt
<1>4. ASSUME NEW o \in Openers, Turn(o) PROVE Publish(o, {}) /\ UNCHANGED ask
    BY <1>4 DEF Turn, Progress, TurnEnds
<1>5. ASSUME NEW k \in Commands, Commanding(k) PROVE UNCHANGED <<ask, follows, told>>
    BY <1>5 DEF Commanding, CallCommand, LookAtTurn, SendCommand, CommandTimesOut, Withdraw
<1>6. ASSUME NEW s \in Sessions, Client(s)
      PROVE  UNCHANGED <<ask, follows, told>> \/ \E a \in Askers : Answer(s, a)
    BY <1>6 DEF Client, Prompt, Cancel, Close
<1>7. ASSUME NEW u \in Subs, Read(u) PROVE UNCHANGED <<ask, follows, told>>
    BY <1>7 DEF Read
<1>8. CASE CancelAll
    BY <1>8 DEF CancelAll
<1>9. QED
    BY <1>1, <1>2, <1>3, <1>4, <1>5, <1>6, <1>7, <1>8 DEF Next, Following

\* An event tells those who stay of the askers it is about, and nobody else.
LEMMA PublishTells ==
    ASSUME Types, NEW o \in Openers, NEW about, Publish(o, about), NEW u \in Subs,
           follows'[u] # None, None \notin Openers
    PROVE  /\ follows'[u] = follows[u]
           /\ \A a \in Askers :
                told'[u][a] = IF follows[u] = o /\ a \in about THEN told[u][a] + 1
                              ELSE told[u][a]
BY DEF Publish, Types

LEMMA ForgetTells ==
    ASSUME Types, NEW o \in Openers, NEW a \in Askers, Forget(o, a), NEW u \in Subs, NEW b \in Askers
    PROVE  told'[u][b] = IF follows[u] = o /\ b = a THEN 0 ELSE told[u][b]
BY DEF Forget, Types

LEMMA AskingTells ==
    ASSUME Types, ToldAsListed, NEW o \in Openers, NEW a \in Askers, Asking(o, a)
    PROVE  ToldAsListed'
<1>0. None \notin Openers /\ ask[o][a] = NoQuestion /\ ask[o][a].stage = "none"
    BY ChatAssumption DEF Asking, ListPermission, AskUser, MayAsk, NoQuestion
<1>1. CASE ListPermission(o, a)
    <2>1. PICK q \in Question : /\ q.kind = "permission" /\ q.stage = "listed"
                               /\ ask' = [ask EXCEPT ![o][a] = q]
        BY <1>1 DEF ListPermission, Stops, Question
    <2>2. UNCHANGED <<follows, told>>
        BY <1>1 DEF ListPermission, hearing
    <2>3. QED
        BY <2>1, <2>2, QuestionChanges DEF ToldAsListed, Listed
<1>2. CASE AskUser(o, a)
    <2>1. PICK q \in Question : /\ q.kind = "ask_user" /\ q.stage = "waiting"
                               /\ ask' = [ask EXCEPT ![o][a] = q]
        BY <1>2 DEF AskUser, Stops, Question
    <2>2. Publish(o, {a})
        BY <1>2 DEF AskUser
    <2>3. \A p \in Openers, b \in Askers : p # o \/ b # a => ask'[p][b] = ask[p][b]
        BY <2>1, QuestionChanges
    <2>4. ask'[o][a] = q
        BY <2>1, QuestionChanges
    <2>5. \A u \in Subs : follows'[u] = o => told'[u][a] = 1
        <3>1. SUFFICES ASSUME NEW u \in Subs, follows'[u] = o PROVE told'[u][a] = 1
            OBVIOUS
        <3>2. follows[u] = o /\ told'[u][a] = told[u][a] + 1
            BY <2>2, <1>0, <3>1, PublishTells
        <3>3. told[u][a] = 0
            BY <1>0, <3>2 DEF ToldAsListed
        <3>4. QED
            BY <3>2, <3>3
    <2>6. \A p \in Openers, b \in Askers, u \in Subs :
            (p # o \/ b # a) /\ follows'[u] = p => follows[u] = p /\ told'[u][b] = told[u][b]
        BY <2>2, <1>0, PublishTells
    <2>7. QED
        BY <2>1, <2>3, <2>4, <2>5, <2>6 DEF ToldAsListed, Listed
<1>3. QED
    BY <1>1, <1>2 DEF Asking

LEMMA AwaitingTells ==
    ASSUME Types, ToldAsListed, NEW o \in Openers, NEW a \in Askers, Awaiting(o, a)
    PROVE  ToldAsListed'
<1>0. None \notin Openers /\ ask[o][a] \in Question
    BY ChatAssumption DEF Types
<1>1. CASE PublishPermission(o, a)
    <2>1. PICK q \in Question : q = [ask[o][a] EXCEPT !.stage = "waiting"]
        BY <1>0 DEF Question
    <2>2. ask' = [ask EXCEPT ![o][a] = q] /\ q.stage = "waiting" /\ q.kind = "permission"
        BY <1>0, <1>1, <2>1 DEF PublishPermission, Question, ToldAsListed
    <2>3. Publish(o, {a})
        BY <1>1 DEF PublishPermission
    <2>4. \A p \in Openers, b \in Askers : p # o \/ b # a => ask'[p][b] = ask[p][b]
        BY <2>2, QuestionChanges
    <2>5. ask'[o][a] = q
        BY <2>2, QuestionChanges
    <2>6. \A p \in Openers, b \in Askers, u \in Subs :
            (p # o \/ b # a) /\ follows'[u] = p => follows[u] = p /\ told'[u][b] = told[u][b]
        BY <2>3, <1>0, PublishTells
    <2>7. QED
        BY <2>2, <2>4, <2>5, <2>6 DEF ToldAsListed, Listed
<1>2. CASE GiveUp(o, a)
    <2>1. PICK q \in Question : q = [ask[o][a] EXCEPT !.stage = "leaving"]
        BY <1>0 DEF Question
    <2>2. /\ ask' = [ask EXCEPT ![o][a] = q]
          /\ q.stage = "leaving" /\ q.kind = ask[o][a].kind /\ q.answered = ask[o][a].answered
        BY <1>0, <1>2, <2>1 DEF GiveUp, Question
    <2>3. UNCHANGED <<follows, told>> /\ ask[o][a].stage = "waiting"
        BY <1>2 DEF GiveUp, hearing
    <2>4. \A p \in Openers, b \in Askers : p # o \/ b # a => ask'[p][b] = ask[p][b]
        BY <2>2, QuestionChanges
    <2>5. ask'[o][a] = q
        BY <2>2, QuestionChanges
    <2>6. QED
        BY <2>2, <2>3, <2>4, <2>5 DEF ToldAsListed, Listed
<1>3. CASE Hear(o, a) \/ Unlist(o, a)
    <2>1. /\ ask' = [ask EXCEPT ![o][a] = NoQuestion]
          /\ Forget(o, a) /\ UNCHANGED follows
        BY <1>3 DEF Hear, Unlist
    <2>2. NoQuestion \in Question
        BY DEF NoQuestion, Question
    <2>3. ask'[o][a] = NoQuestion
        BY <2>1, <2>2, QuestionChanges
    <2>4. \A p \in Openers, b \in Askers : p # o \/ b # a => ask'[p][b] = ask[p][b]
        BY <2>1, <2>2, QuestionChanges
    <2>5. \A p \in Openers, b \in Askers, u \in Subs :
            (p # o \/ b # a) /\ follows'[u] = p => follows[u] = p /\ told'[u][b] = told[u][b]
        BY <2>1, ForgetTells
    <2>6. \A u \in Subs : follows'[u] = o => told'[u][a] = 0
        BY <2>1, ForgetTells
    <2>7. QED
        BY <2>3, <2>4, <2>5, <2>6 DEF ToldAsListed, Listed, NoQuestion
<1>4. QED
    BY <1>1, <1>2, <1>3 DEF Awaiting

LEMMA AnswerTells ==
    ASSUME Types, ToldAsListed, NEW s \in Sessions, NEW a \in Askers, Answer(s, a)
    PROVE  ToldAsListed'
<1>1. PICK o \in Openers : ask' = [ask EXCEPT ![o][a].answered = TRUE]
    BY DEF Answer, Types
<1>2. ask[o][a] \in Question
    BY DEF Types
<1>3. PICK q \in Question : q = [ask[o][a] EXCEPT !.answered = TRUE]
    BY <1>2 DEF Question
<1>4. /\ ask' = [ask EXCEPT ![o][a] = q]
      /\ q.answered /\ q.stage = ask[o][a].stage /\ q.kind = ask[o][a].kind
    BY <1>1, <1>2, <1>3 DEF Question
<1>5. \A p \in Openers, b \in Askers : p # o \/ b # a => ask'[p][b] = ask[p][b]
    BY <1>4, QuestionChanges
<1>6. ask'[o][a] = q
    BY <1>4, QuestionChanges
<1>7. UNCHANGED <<follows, told>>
    BY DEF Answer, hearing
<1>8. QED
    BY <1>4, <1>5, <1>6, <1>7 DEF ToldAsListed, Listed

LEMMA SubscribeTells ==
    ASSUME Types, ToldAsListed, NEW u \in Subs, NEW s \in Sessions, Subscribe(u, s)
    PROVE  ToldAsListed'
<1>1. open[s] \in Openers /\ UNCHANGED ask
    BY DEF Subscribe, Types
<1>2. follows' = [follows EXCEPT ![u] = open[s]]
    BY DEF Subscribe
<1>3. \A v \in Subs, a \in Askers : v # u => told'[v][a] = told[v][a]
    BY DEF Subscribe
<1>4. \A a \in Askers :
        told'[u][a] = IF Listed(open[s], a) /\ ask[open[s]][a].kind = "ask_user" THEN 1 ELSE 0
    BY DEF Subscribe, Types
<1>5. QED
    BY <1>1, <1>2, <1>3, <1>4 DEF ToldAsListed, Listed, Types

LEMMA ToldKept == Types /\ ToldAsListed /\ [Next]_vars => ToldAsListed'
<1> SUFFICES ASSUME Types, ToldAsListed, [Next]_vars PROVE ToldAsListed'
    OBVIOUS
<1>0. None \notin Openers
    BY ChatAssumption
<1>1. CASE UNCHANGED <<ask, follows, told>>
    BY <1>1 DEF ToldAsListed, Listed
<1>2. ASSUME NEW o \in Openers, Publish(o, {}), UNCHANGED ask PROVE ToldAsListed'
    <2>1. \A u \in Subs, p \in Openers, b \in Askers :
            follows'[u] = p => follows[u] = p /\ told'[u][b] = told[u][b]
        BY <1>0, <1>2, PublishTells
    <2>2. QED
        BY <1>2, <2>1 DEF ToldAsListed, Listed
<1>3. ASSUME NEW u \in Subs, Leave(u) PROVE ToldAsListed'
    <2>1. /\ UNCHANGED ask /\ follows' = [follows EXCEPT ![u] = None]
          /\ told' = [told EXCEPT ![u] = Untold]
        BY <1>3 DEF Leave
    <2>2. QED
        BY <1>0, <2>1 DEF ToldAsListed, Listed, Types
<1>4. QED
    BY <1>1, <1>2, <1>3, HearingSteps, AskingTells, AwaitingTells, AnswerTells, SubscribeTells

LEMMA InitTold == Init => ToldAsListed
BY ChatAssumption DEF Init, ToldAsListed, Listed, NoQuestion, Untold

(* Every follower of a chat was told once of the question of the user's a  *)
(* turn is stopped on, for any number of followers, chats and questions    *)
(* (subscribe, ask_user: both under the lock on the chat's channels).      *)
THEOREM AskUserTheorem == Spec => []AskUserIsToldOnce
<1>1. ToldAsListed => AskUserIsToldOnce
    BY DEF ToldAsListed, AskUserIsToldOnce
<1>2. QED
    BY <1>1, InitTold, ToldKept, TypesHold, PTL DEF Spec

-----------------------------------------------------------------------------
(* The channels a session is reached by.                                   *)

\* What the steps do to a loop, and which of them touch the rest.
LEMMA ReachingSteps ==
    ASSUME Types, [Next]_vars
    PROVE  \/ /\ UNCHANGED <<call, session, open, closed, live>>
              /\ \A o \in Openers : \/ loop'[o] = loop[o]
                                    \/ loop[o] \in Serving /\ loop'[o] \in Serving \cup {"returned"}
           \/ \E o \in Openers : Opening(o) \/ RecordEnd(o)
           \/ \E s \in Sessions : Close(s)
<1> USE DEF opening, serving
<1> DEFINE Quiet == UNCHANGED <<call, session, open, closed, live, loop>>
<1>1. CASE UNCHANGED vars
    BY <1>1 DEF vars
<1>2. ASSUME NEW o \in Openers, Loop(o)
      PROVE  \/ RecordEnd(o)
             \/ /\ UNCHANGED <<call, session, open, closed, live>> /\ loop[o] \in Serving
                /\ \E place \in Serving \cup {"returned"} : loop' = [loop EXCEPT ![o] = place]
    BY <1>2 DEF Loop, Look, Poll, Return, TakeCommand, CommandEnds, TakePrompt, Moves, Finds, Serving
<1>3. ASSUME NEW o \in Openers, Turn(o)
      PROVE  \/ Quiet
             \/ /\ UNCHANGED <<call, session, open, closed, live>> /\ loop[o] \in Serving
                /\ \E place \in Serving : loop' = [loop EXCEPT ![o] = place]
    BY <1>3 DEF Turn, Progress, TurnEnds, Moves, Serving
<1>4. ASSUME NEW o \in Openers, NEW a \in Askers, Asking(o, a) \/ Awaiting(o, a) PROVE Quiet
    BY <1>4 DEF Asking, Awaiting, ListPermission, AskUser, PublishPermission, Hear, GiveUp, Unlist
<1>5. ASSUME NEW k \in Commands, Commanding(k) PROVE Quiet
    BY <1>5 DEF Commanding, CallCommand, LookAtTurn, SendCommand, CommandTimesOut, Withdraw
<1>6. ASSUME NEW s \in Sessions, Client(s) PROVE Quiet \/ Close(s)
    BY <1>6 DEF Client, Prompt, Cancel, Answer
<1>7. ASSUME NEW u \in Subs, Following(u) PROVE Quiet
    BY <1>7 DEF Following, Subscribe, Read, Leave
<1>8. CASE CancelAll
    BY <1>8 DEF CancelAll
<1>9. QED
    BY <1>1, <1>2, <1>3, <1>4, <1>5, <1>6, <1>7, <1>8 DEF Next, Types

LEMMA StartedKept == Types /\ Started /\ [Next]_vars => Started'
<1> SUFFICES ASSUME Types, Started, [Next]_vars PROVE Started'
    OBVIOUS
<1>1. ASSUME NEW o \in Openers, Opening(o) PROVE Started'
    BY <1>1 DEF Opening, BeginOpen, StartLoop, StartFails, TakeBack, Started, Types, serving
<1>2. ASSUME NEW o \in Openers, RecordEnd(o) PROVE Started'
    BY <1>2 DEF RecordEnd, Moves, Started, Types, opening
<1>3. ASSUME NEW s \in Sessions, Close(s) PROVE Started'
    BY <1>3 DEF Close, Started, serving
<1>4. QED
    BY <1>1, <1>2, <1>3, ReachingSteps DEF Started, Serving

LEMMA InitStarted == Init => Started
BY DEF Init, Started

LEMMA StartedHolds == Spec => []Started
BY InitStarted, StartedKept, TypesHold, PTL DEF Spec

LEMMA OpeningReached ==
    ASSUME ~Overlap, Types, Started, Reached, NEW o \in Openers, Opening(o)
    PROVE  Reached'
<1> USE DEF serving
<1>0. None \notin Openers
    BY ChatAssumption
<1>1. ASSUME NEW s \in Sessions, BeginOpen(o, s) PROVE Reached'
    <2>1. /\ call[o] = "none" /\ loop[o] = "none"
          /\ \A p \in Openers : ~UnderWay(p)
          /\ session' = [session EXCEPT ![o] = s]
          /\ UNCHANGED <<closed, live, loop>>
        BY <1>1 DEF BeginOpen, Started
    <2>2. /\ \A p \in Openers : p # o => call'[p] = call[p] /\ session'[p] = session[p]
          /\ call'[o] \in {"recorded", "rejoined", "refused"} /\ session'[o] = s
          /\ call'[o] = "recorded" => open'[s] = o
        BY <1>1, <2>1 DEF BeginOpen, Types, Kept
    <2>3. ASSUME NEW p \in Openers, call'[p] = "opened", loop'[p] \in Serving, p \notin closed'
          PROVE  open'[session'[p]] = p
        <3>1. p # o /\ call[p] = "opened" /\ loop[p] \in Serving /\ p \notin closed
            BY <2>1, <2>2, <2>3 DEF Serving
        <3>2. /\ session'[p] = session[p] /\ session[p] \in Sessions
              /\ open[session[p]] = p /\ live[session[p]] = p
            BY <2>2, <3>1 DEF Reached, OpenChatIsReachable
        <3>3. Kept[session[p]] = p
            BY <1>0, <3>2 DEF Kept
        <3>4. \/ open' = [Kept EXCEPT ![s] = o] /\ Kept[s] = None
              \/ open' = Kept
            BY <1>1 DEF BeginOpen
        <3>5. QED
            BY <1>0, <3>2, <3>3, <3>4 DEF Kept
    <2>4. QED
        BY <2>1, <2>2, <2>3 DEF Reached, UnderWay, OpenChatIsReachable, Serving
<1>2. CASE StartLoop(o)
    <2>1. /\ UnderWay(o) /\ session[o] \in Sessions /\ live[session[o]] = None
          /\ loop[o] = "none"
        BY <1>2 DEF StartLoop, UnderWay, Reached, Started
    <2>2. /\ live' = [live EXCEPT ![session[o]] = o] /\ loop' = [loop EXCEPT ![o] = "top"]
          /\ call' = [call EXCEPT ![o] = "opened"] /\ UNCHANGED <<session, open, closed>>
        BY <1>2 DEF StartLoop
    <2>3. \A p \in Openers : loop[p] \in Serving \cup {"returned"} => session[p] # session[o]
        BY <1>0, <2>1 DEF Reached
    <2>4. open'[session'[o]] = o \/ o \in closed'
        BY <2>1, <2>2 DEF Reached
    <2>5. QED
        BY <2>1, <2>2, <2>3, <2>4 DEF Reached, UnderWay, OpenChatIsReachable, Types, Serving, Started
<1>3. CASE StartFails(o)
    BY <1>3 DEF StartFails, Reached, UnderWay, OpenChatIsReachable, Types
<1>4. CASE TakeBack(o)
    <2>1. UnderWay(o) /\ session[o] \in Sessions
        BY <1>4 DEF TakeBack, UnderWay, Reached
    <2>2. /\ open' = [open EXCEPT ![session[o]] = None]
          /\ call' = [call EXCEPT ![o] = "refused"]
          /\ UNCHANGED <<session, closed, live, loop>>
        BY <1>4 DEF TakeBack
    <2>3. \A p \in Openers : open[session[o]] = p => p = o
        BY <1>0, <2>1 DEF Reached
    <2>4. loop[o] = "none"
        BY <1>4 DEF TakeBack, Started
    <2>5. QED
        BY <2>1, <2>2, <2>3, <2>4 DEF Reached, UnderWay, OpenChatIsReachable, Types, Serving
<1>5. QED
    BY <1>1, <1>2, <1>3, <1>4 DEF Opening

LEMMA ReachedKept ==
    ASSUME ~Overlap
    PROVE  Types /\ Started /\ Reached /\ [Next]_vars => Reached'
<1> SUFFICES ASSUME Types, Started, Reached, [Next]_vars PROVE Reached'
    OBVIOUS
<1>0. None \notin Openers
    BY ChatAssumption
<1>1. CASE /\ UNCHANGED <<call, session, open, closed, live>>
           /\ \A o \in Openers : \/ loop'[o] = loop[o]
                                 \/ loop[o] \in Serving /\ loop'[o] \in Serving \cup {"returned"}
    BY <1>1 DEF Reached, UnderWay, OpenChatIsReachable
<1>2. ASSUME NEW o \in Openers, RecordEnd(o) PROVE Reached'
    <2>1. /\ loop[o] = "returned" /\ call[o] = "opened" /\ session[o] \in Sessions
          /\ live[session[o]] = o
        BY <1>2 DEF RecordEnd, Started, Reached
    <2>2. /\ live' = [live EXCEPT ![session[o]] = None]
          /\ loop' = [loop EXCEPT ![o] = "gone"]
          /\ UNCHANGED <<call, session, open, closed>>
        BY <1>2 DEF RecordEnd, Moves, opening
    <2>3. \A p \in Openers : p # o /\ loop[p] \in Serving \cup {"returned"} => session[p] # session[o]
        BY <2>1 DEF Reached
    <2>4. \A p \in Openers : loop'[p] \in Serving \cup {"returned"} => p # o /\ loop'[p] = loop[p]
        BY <2>2 DEF Types, Serving
    <2>5. \A p \in Openers : loop'[p] \in Serving \cup {"returned"} => live'[session[p]] = p
        BY <2>2, <2>3, <2>4 DEF Reached, Types
    <2>6. QED
        BY <2>2, <2>4, <2>5 DEF Reached, UnderWay, OpenChatIsReachable
<1>3. ASSUME NEW s \in Sessions, Close(s) PROVE Reached'
    <2>1. /\ open' = [open EXCEPT ![s] = None] /\ closed' = closed \cup {open[s]}
          /\ UNCHANGED <<call, session, live, loop>>
        BY <1>3 DEF Close, serving
    <2>2. QED
        BY <2>1 DEF Reached, UnderWay, OpenChatIsReachable, Types
<1>4. QED
    BY <1>1, <1>2, <1>3, OpeningReached, ReachingSteps

LEMMA InitReached == Init => Reached
BY DEF Init, Reached, UnderWay, OpenChatIsReachable, Serving

(* While opens do not overlap, a chat that was opened and that nobody      *)
(* closed is on record under the channels its loop reads, for any number   *)
(* of opens, sessions and clients (open, close, prune, record_end).        *)
THEOREM ReachTheorem == ASSUME ~Overlap PROVE Spec => []OpenChatIsReachable
<1>1. Reached => OpenChatIsReachable
    BY DEF Reached
<1>2. Types /\ Started /\ Reached /\ [Next]_vars => Reached'
    BY ReachedKept
<1>3. QED
    BY <1>1, <1>2, InitReached, TypesHold, StartedHolds, PTL DEF Spec

-----------------------------------------------------------------------------
(* What the caller of a command is told.                                   *)

LEMMA CommandSteps ==
    ASSUME Types, [Next]_vars
    PROVE  \/ /\ UNCHANGED <<call, inbox, command, ran>>
              /\ \A o \in Openers : /\ loop'[o] \in Serving => loop[o] \in Serving
                                    /\ loop[o] = "command" => loop'[o] = "command"
           \/ \E o \in Openers : \/ Opening(o) \/ Return(o) \/ CommandEnds(o) \/ TakePrompt(o)
                                 \/ \E k \in Commands : TakeCommand(o, k)
           \/ \E s \in Sessions : Prompt(s)
           \/ \E k \in Commands : Commanding(k)
<1> USE DEF opening, serving, calling
<1> DEFINE Quiet == /\ UNCHANGED <<call, inbox, command, ran>>
                    /\ \A o \in Openers : /\ loop'[o] \in Serving => loop[o] \in Serving
                                          /\ loop[o] = "command" => loop'[o] = "command"
<1>1. CASE UNCHANGED vars
    BY <1>1 DEF vars
<1>2. ASSUME NEW o \in Openers, Loop(o)
      PROVE  \/ Quiet
             \/ Return(o) \/ CommandEnds(o) \/ TakePrompt(o)
             \/ \E k \in Commands : TakeCommand(o, k)
    <2>1. CASE Look(o) \/ Poll(o) \/ RecordEnd(o)
        BY <2>1 DEF Look, Poll, RecordEnd, Moves, Serving, Types
    <2>2. QED
        BY <1>2, <2>1 DEF Loop
<1>3. ASSUME NEW o \in Openers, Turn(o) PROVE Quiet
    BY <1>3 DEF Turn, Progress, TurnEnds, Moves, Serving, Types
<1>4. ASSUME NEW o \in Openers, NEW a \in Askers, Asking(o, a) \/ Awaiting(o, a) PROVE Quiet
    BY <1>4 DEF Asking, Awaiting, ListPermission, AskUser, PublishPermission, Hear, GiveUp, Unlist
<1>5. ASSUME NEW s \in Sessions, Client(s) PROVE Quiet \/ Prompt(s)
    BY <1>5 DEF Client, Cancel, Close, Answer
<1>6. ASSUME NEW u \in Subs, Following(u) PROVE Quiet
    BY <1>6 DEF Following, Subscribe, Read, Leave
<1>7. CASE CancelAll
    BY <1>7 DEF CancelAll
<1>8. QED
    BY <1>1, <1>2, <1>3, <1>4, <1>5, <1>6, <1>7 DEF Next

\* Steps that put nothing before a loop and start none.
LEMMA CommandedStays ==
    ASSUME Commanded, UNCHANGED <<inbox, command, ran>>,
           \A p \in Openers : /\ call'[p] = "recorded" \/ loop'[p] \in Serving => Receives(p)
                              /\ loop[p] = "command" => loop'[p] = "command"
                              /\ call'[p] = "none" => call[p] = "none"
    PROVE  Commanded'
<1>1. InboxesHold'
    BY DEF Commanded, InboxesHold, Queued, Receives
<1>2. \A k \in Commands : StageHolds(k)'
    BY DEF Commanded, StageHolds
<1>3. QED
    BY <1>1, <1>2 DEF Commanded

\* A command that waits for the loop o, and is left to another verdict.
LEMMA LeftUnknown ==
    ASSUME Types, NEW o \in Openers,
           command' = [k \in Commands |-> IF command[k] = [stage |-> "waiting", at |-> o]
                                           THEN [command[k] EXCEPT !.stage = "unknown"]
                                           ELSE command[k]]
    PROVE  \A k \in Commands :
             /\ command'[k].at = command[k].at
             /\ \/ command'[k].stage = command[k].stage
                \/ /\ command[k].stage = "waiting" /\ command[k].at = o
                   /\ command'[k].stage = "unknown"
BY DEF Types

LEMMA OpeningCommanded ==
    ASSUME Types, Started, Commanded, NEW o \in Openers, Opening(o)
    PROVE  Commanded'
<1> USE DEF serving, calling
<1>1. ASSUME NEW s \in Sessions, BeginOpen(o, s) PROVE Commanded'
    <2>1. /\ call[o] = "none" /\ inbox[o] = <<>> /\ UNCHANGED <<loop, inbox, command, ran>>
        BY <1>1 DEF BeginOpen, Commanded
    <2>2. /\ \A p \in Openers : p # o => call'[p] = call[p]
          /\ call'[o] # "none"
        BY <1>1 DEF BeginOpen, Types
    <2>3. QED
        BY <2>1, <2>2 DEF Commanded, InboxesHold, StageHolds, Receives, Queued
<1>2. CASE StartLoop(o)
    <2>1. /\ call[o] = "recorded" /\ loop[o] = "none"
          /\ call' = [call EXCEPT ![o] = "opened"] /\ loop' = [loop EXCEPT ![o] = "top"]
          /\ UNCHANGED <<inbox, command, ran>>
        BY <1>2 DEF StartLoop, Started
    <2>2. \A p \in Openers : /\ Receives(p)' => Receives(p)
                             /\ loop[p] = "command" => loop'[p] = "command"
                             /\ call'[p] = "none" => call[p] = "none"
        BY <2>1 DEF Receives, Types
    <2>3. QED
        BY <2>1, <2>2, CommandedStays DEF Receives
<1>3. CASE StartFails(o)
    <2>1. /\ call[o] = "recorded" /\ loop[o] = "none"
          /\ call' = [call EXCEPT ![o] = "unstarted"] /\ UNCHANGED <<loop, inbox, ran>>
        BY <1>3 DEF StartFails, Started
    <2>2. \A k \in Commands :
             /\ command'[k].at = command[k].at
             /\ \/ command'[k].stage = command[k].stage
                \/ /\ command[k].stage = "waiting" /\ command[k].at = o
                   /\ command'[k].stage = "unknown"
        BY <1>3, LeftUnknown DEF StartFails
    <2>3. \A p \in Openers : Receives(p)' => Receives(p) /\ p # o
        BY <2>1 DEF Receives, Types, Serving
    <2>4. \A k \in Commands : command[k].stage = "waiting" /\ command[k].at = o => k \notin ran
        BY <2>1 DEF Commanded, StageHolds
    <2>5. InboxesHold'
        BY <2>1, <2>2, <2>3 DEF Commanded, InboxesHold, Queued
    <2>6. \A k \in Commands : StageHolds(k)'
        BY <2>1, <2>2, <2>4 DEF Commanded, StageHolds
    <2>7. QED
        BY <2>1, <2>5, <2>6 DEF Commanded, Types
<1>4. CASE TakeBack(o)
    BY <1>4 DEF TakeBack, Commanded, InboxesHold, StageHolds, Receives, Queued, Types
<1>5. QED
    BY <1>1, <1>2, <1>3, <1>4 DEF Opening

\* A loop takes the input it found first, and the rest moves up.
LEMMA HeadTaken ==
    ASSUME Types, NEW o \in Openers, NEW input, Finds(o, input),
           inbox' = [inbox EXCEPT ![o] = Tail(@)]
    PROVE  /\ \A p \in Openers : p # o => inbox'[p] = inbox[p]
           /\ \A i \in DOMAIN inbox'[o] :
                \E j \in DOMAIN inbox[o] : j = i + 1 /\ j # 1 /\ inbox'[o][i] = inbox[o][j]
           /\ 1 \in DOMAIN inbox[o] /\ inbox[o][1] = input
           /\ Receives(o)
<1>1. loop[o] = "receiving" /\ inbox[o] # <<>> /\ Head(inbox[o]) = input
    BY DEF Finds
<1>2. inbox[o] \in Seq({"prompt"} \cup Commands) /\ inbox'[o] = Tail(inbox[o])
    BY DEF Types
<1>3. /\ \A i \in DOMAIN Tail(inbox[o]) :
            /\ i + 1 \in DOMAIN inbox[o] /\ i + 1 # 1
            /\ Tail(inbox[o])[i] = inbox[o][i + 1]
      /\ 1 \in DOMAIN inbox[o] /\ inbox[o][1] = input
    BY <1>1, <1>2
<1>4. QED
    BY <1>1, <1>2, <1>3 DEF Receives, Serving, Types

LEMMA LoopCommanded ==
    ASSUME Types, Started, Commanded, NEW o \in Openers,
           \/ Return(o) \/ CommandEnds(o) \/ TakePrompt(o)
           \/ \E k \in Commands : TakeCommand(o, k)
    PROVE  Commanded'
<1> USE DEF opening, serving, calling
<1>0. call[o] # "none" /\ UNCHANGED call
    BY DEF Started, Return, CommandEnds, TakePrompt, TakeCommand, Finds, Serving
<1>1. CASE Return(o)
    <2>1. /\ loop[o] \in {"top", "receiving"} /\ call[o] = "opened"
          /\ loop' = [loop EXCEPT ![o] = "returned"] /\ UNCHANGED <<inbox, ran>>
        BY <1>1 DEF Return, Moves, Started
    <2>2. \A k \in Commands :
             /\ command'[k].at = command[k].at
             /\ \/ command'[k].stage = command[k].stage
                \/ /\ command[k].stage = "waiting" /\ command[k].at = o
                   /\ command'[k].stage = "unknown"
        BY <1>1, LeftUnknown DEF Return
    <2>3. \A p \in Openers : /\ Receives(p)' => Receives(p) /\ p # o
                             /\ loop[p] = "command" => loop'[p] = "command"
        BY <1>0, <2>1 DEF Receives, Types, Serving
    <2>4. \A k \in Commands : command[k].stage = "waiting" /\ command[k].at = o => k \notin ran
        BY <2>1 DEF Commanded, StageHolds
    <2>5. InboxesHold'
        BY <2>1, <2>2, <2>3 DEF Commanded, InboxesHold, Queued
    <2>6. \A k \in Commands : StageHolds(k)'
        BY <2>1, <2>2, <2>3, <2>4 DEF Commanded, StageHolds
    <2>7. QED
        BY <1>0, <2>1, <2>5, <2>6 DEF Commanded
<1>2. CASE CommandEnds(o)
    <2>1. /\ loop[o] = "command" /\ loop' = [loop EXCEPT ![o] = "top"] /\ UNCHANGED <<inbox, ran>>
        BY <1>2 DEF CommandEnds, Moves
    <2>2. \A k \in Commands :
             /\ command'[k].at = command[k].at
             /\ IF command[k].stage = "waiting" /\ command[k].at = o /\ k \in ran
                THEN command'[k].stage = "answered" ELSE command'[k].stage = command[k].stage
        BY <1>2 DEF CommandEnds, Types
    <2>3. \A p \in Openers : /\ Receives(p)' => Receives(p)
                             /\ p # o => loop'[p] = loop[p]
        BY <1>0, <2>1 DEF Receives, Types, Serving
    <2>5. InboxesHold'
        BY <2>1, <2>2, <2>3 DEF Commanded, InboxesHold, Queued
    <2>6. \A k \in Commands : StageHolds(k)'
        BY <2>1, <2>2, <2>3 DEF Commanded, StageHolds
    <2>7. QED
        BY <1>0, <2>1, <2>5, <2>6 DEF Commanded
<1>3. CASE TakePrompt(o)
    <2>1. /\ Finds(o, "prompt") /\ inbox' = [inbox EXCEPT ![o] = Tail(@)]
          /\ loop' = [loop EXCEPT ![o] = "turn"] /\ UNCHANGED <<command, ran>>
        BY <1>3 DEF TakePrompt, Moves
    <2>2. \A p \in Openers : /\ Receives(p)' => Receives(p)
                             /\ loop[p] = "command" => loop'[p] = "command"
        BY <1>0, <2>1 DEF Receives, Finds, Types, Serving
    <2>3. InboxesHold'
        BY HeadTaken, <2>1, <2>2 DEF Commanded, InboxesHold, Queued, Types
    <2>4. \A k \in Commands : StageHolds(k)'
        BY HeadTaken, <2>1, <2>2 DEF Commanded, StageHolds
    <2>5. QED
        BY <1>0, <2>1, <2>3, <2>4 DEF Commanded
<1>4. ASSUME NEW k \in Commands, TakeCommand(o, k) PROVE Commanded'
    <2>1. /\ Finds(o, k) /\ inbox' = [inbox EXCEPT ![o] = Tail(@)]
          /\ loop[o] = "receiving" /\ UNCHANGED command
          /\ \/ command[k].stage = "busy" /\ ran' = ran /\ loop' = [loop EXCEPT ![o] = "top"]
             \/ /\ command[k].stage # "busy" /\ ran' = ran \cup {k}
                /\ loop' = [loop EXCEPT ![o] = "command"]
        BY <1>4 DEF TakeCommand, Moves, Finds
    <2>2. \A p \in Openers : /\ Receives(p)' => Receives(p)
                             /\ loop[p] = "command" => loop'[p] = "command"
        BY <1>0, <2>1 DEF Receives, Finds, Types, Serving
    <2>3. /\ 1 \in DOMAIN inbox[o] /\ inbox[o][1] = k /\ Receives(o)
          /\ \A i \in DOMAIN inbox'[o] :
               \E j \in DOMAIN inbox[o] : j = i + 1 /\ j # 1 /\ inbox'[o][i] = inbox[o][j]
        BY <2>1, HeadTaken
    <2>4. /\ Queued(o, k)
          /\ \A j \in DOMAIN inbox[o] : inbox[o][j] = k => j = 1
        BY <2>3 DEF Commanded, InboxesHold
    <2>5. \A p \in Openers : Receives(p)' =>
            \A i \in DOMAIN inbox'[p] : inbox'[p][i] \in Commands => inbox'[p][i] # k
        <3>1. \A i \in DOMAIN inbox'[o] : inbox'[o][i] # k
            BY <2>3, <2>4
        <3>2. \A p \in Openers : Receives(p)' /\ p # o => Receives(p) /\ inbox'[p] = inbox[p]
            BY <2>1, <2>2, HeadTaken
        <3>3. \A p \in Openers : p # o /\ Receives(p) =>
                \A i \in DOMAIN inbox[p] : inbox[p][i] \in Commands => inbox[p][i] # k
            BY <2>4 DEF Commanded, InboxesHold, Queued
        <3>4. QED
            BY <3>1, <3>2, <3>3
    <2>6. InboxesHold'
        BY HeadTaken, <2>1, <2>2, <2>5 DEF Commanded, InboxesHold, Queued, Types
    <2>7. \A j \in Commands : StageHolds(j)'
        BY <2>1, <2>2, <2>4 DEF Commanded, StageHolds, Queued, Types
    <2>8. QED
        BY <1>0, <2>1, <2>6, <2>7 DEF Commanded
<1>5. QED
    BY <1>1, <1>2, <1>3, <1>4

LEMMA InputAppended ==
    ASSUME Types, NEW o \in Openers, NEW input \in {"prompt"} \cup Commands,
           inbox' = [inbox EXCEPT ![o] = Append(@, input)]
    PROVE  /\ \A p \in Openers : p # o => inbox'[p] = inbox[p]
           /\ \A i \in DOMAIN inbox'[o] :
                \/ inbox'[o][i] = input /\ i = Len(inbox[o]) + 1
                \/ i \in DOMAIN inbox[o] /\ inbox'[o][i] = inbox[o][i]
<1>1. inbox[o] \in Seq({"prompt"} \cup Commands) /\ inbox'[o] = Append(inbox[o], input)
    BY DEF Types
<1>2. \A i \in DOMAIN Append(inbox[o], input) :
        \/ Append(inbox[o], input)[i] = input /\ i = Len(inbox[o]) + 1
        \/ i \in DOMAIN inbox[o] /\ Append(inbox[o], input)[i] = inbox[o][i]
    BY <1>1
<1>3. QED
    BY <1>1, <1>2 DEF Types

LEMMA PromptCommanded ==
    ASSUME Types, Started, Commanded, NEW s \in Sessions, Prompt(s)
    PROVE  Commanded'
<1>1. PICK o \in Openers : /\ Receives(o)
                          /\ inbox' = [inbox EXCEPT ![o] = Append(@, "prompt")]
    BY DEF Prompt, Types
<1>2. UNCHANGED <<call, loop, command, ran>>
    BY DEF Prompt, opening, calling
<1>3. call[o] # "none"
    BY <1>1 DEF Receives, Started, Serving
<1>4. "prompt" \notin Commands
    BY ChatAssumption
<1>5. InboxesHold'
    <2>1. /\ \A p \in Openers : p # o => inbox'[p] = inbox[p]
          /\ \A i \in DOMAIN inbox'[o] : inbox'[o][i] \in Commands =>
                i \in DOMAIN inbox[o] /\ inbox'[o][i] = inbox[o][i]
        BY <1>1, <1>4, InputAppended
    <2>2. QED
        BY <1>1, <1>2, <2>1 DEF Commanded, InboxesHold, Queued, Receives
<1>6. \A k \in Commands : StageHolds(k)'
    BY <1>2 DEF Commanded, StageHolds
<1>7. QED
    BY <1>1, <1>2, <1>3, <1>5, <1>6, InputAppended DEF Commanded

\* A call whose command no loop holds moves on, or one that is held gives up.
LEMMA StageMoves ==
    ASSUME Types, Commanded, NEW k \in Commands, UNCHANGED <<call, loop, inbox, ran>>,
           NEW c, command' = [command EXCEPT ![k] = c],
           \/ command[k].stage \in {"none", "looking"} /\ c.stage \in {"looking", "sending", "busy"}
           \/ /\ command[k].stage \in {"waiting", "leaving"} /\ c.stage \in {"leaving", "busy"}
              /\ c.at = command[k].at
    PROVE  Commanded'
<1>1. command'[k] = c /\ \A j \in Commands : j # k => command'[j] = command[j]
    BY DEF Types
<1>2. InboxesHold'
    BY <1>1 DEF Commanded, InboxesHold, Queued, Receives
<1>3. \A j \in Commands : StageHolds(j)'
    BY <1>1 DEF Commanded, StageHolds
<1>4. QED
    BY <1>2, <1>3 DEF Commanded

LEMMA CallerCommanded ==
    ASSUME Types, Started, Commanded, NEW k \in Commands, Commanding(k)
    PROVE  Commanded'
<1> USE DEF opening, serving, calling
<1>1. ASSUME NEW s \in Sessions, CallCommand(k, s) PROVE Commanded'
    <2>1. PICK c : c = [stage |-> "looking", at |-> open[s]]
        OBVIOUS
    <2>2. /\ command' = [command EXCEPT ![k] = c] /\ c.stage = "looking"
          /\ command[k].stage = "none" /\ UNCHANGED <<call, loop, inbox, ran>>
        BY <1>1, <2>1 DEF CallCommand
    <2>3. QED
        BY <2>2, StageMoves
<1>2. CASE LookAtTurn(k) \/ CommandTimesOut(k) \/ Withdraw(k)
    <2>1. PICK stage \in {"sending", "leaving", "busy"} :
            /\ command' = [command EXCEPT ![k].stage = stage]
            /\ \/ command[k].stage = "looking" /\ stage \in {"sending", "busy"}
               \/ command[k].stage \in {"waiting", "leaving"} /\ stage \in {"leaving", "busy"}
        BY <1>2 DEF LookAtTurn, CommandTimesOut, Withdraw, Goes
    <2>2. command[k] \in [stage : Stages, at : Openers \cup {None}]
        BY DEF Types
    <2>3. PICK c : c = [command[k] EXCEPT !.stage = stage]
        OBVIOUS
    <2>4. command' = [command EXCEPT ![k] = c] /\ c.stage = stage /\ c.at = command[k].at
        BY <2>1, <2>2, <2>3
    <2>5. UNCHANGED <<call, loop, inbox, ran>>
        BY <1>2 DEF LookAtTurn, CommandTimesOut, Withdraw
    <2>6. QED
        BY <2>1, <2>4, <2>5, StageMoves
<1>3. CASE SendCommand(k)
    <2>1. PICK stage \in {"waiting", "busy", "unknown"} :
            /\ command' = [command EXCEPT ![k].stage = stage]
            /\ IF stage = "waiting"
               THEN /\ Receives(command[k].at)
                    /\ inbox' = [inbox EXCEPT ![command[k].at] = Append(@, k)]
               ELSE inbox' = inbox
        BY <1>3 DEF SendCommand, Goes
    <2>2. /\ command[k].stage = "sending" /\ k \notin ran /\ UNCHANGED <<call, loop, ran>>
          /\ command[k] \in [stage : Stages, at : Openers \cup {None}]
        BY <1>3 DEF SendCommand, Commanded, StageHolds, Types
    <2>3. /\ command'[k].stage = stage /\ command'[k].at = command[k].at
          /\ \A j \in Commands : j # k => command'[j] = command[j]
        BY <2>1, <2>2 DEF Types
    <2>4. \A p \in Openers : Receives(p) =>
            \A i \in DOMAIN inbox[p] : inbox[p][i] # k
        BY <2>2 DEF Commanded, InboxesHold, Queued
    <2>5. \A j \in Commands : StageHolds(j)'
        BY <2>1, <2>2, <2>3 DEF Commanded, StageHolds
    <2>6. \A p \in Openers : Receives(p)' <=> Receives(p)
        BY <2>2 DEF Receives
    <2>7. CASE inbox' = inbox
        <3>1. InboxesHold'
            BY <2>2, <2>3, <2>4, <2>6, <2>7 DEF Commanded, InboxesHold, Queued
        <3>2. QED
            BY <2>2, <2>5, <2>7, <3>1 DEF Commanded
    <2>8. CASE command[k].at \in Openers /\ stage = "waiting"
        <3> DEFINE o == command[k].at
        <3>1. /\ \A p \in Openers : p # o => inbox'[p] = inbox[p]
              /\ \A i \in DOMAIN inbox'[o] :
                   \/ inbox'[o][i] = k /\ i = Len(inbox[o]) + 1
                   \/ /\ i \in DOMAIN inbox[o] /\ inbox'[o][i] = inbox[o][i]
            BY <2>1, <2>8, InputAppended
        <3>2. call[o] # "none" /\ Receives(o)
            BY <2>1, <2>8 DEF Started, Receives, Serving
        <3>3. InboxesHold'
            <4>1. ASSUME NEW p \in Openers, Receives(p), NEW i \in DOMAIN inbox'[p],
                         NEW x \in Commands, inbox'[p][i] = x
                  PROVE  /\ Queued(p, x)'
                         /\ \A j \in DOMAIN inbox'[p] : inbox'[p][j] = x => j = i
                <5>1. CASE p # o \/ x # k
                    <6>1. /\ i \in DOMAIN inbox[p] /\ inbox[p][i] = x
                          /\ \A j \in DOMAIN inbox'[p] : inbox'[p][j] = x =>
                               j \in DOMAIN inbox[p] /\ inbox[p][j] = x
                        BY <3>1, <4>1, <5>1
                    <6>2. /\ Queued(p, x)
                          /\ \A j \in DOMAIN inbox[p] : inbox[p][j] = x => j = i
                        BY <4>1, <6>1 DEF Commanded, InboxesHold
                    <6>3. QED
                        BY <2>2, <2>3, <2>4, <4>1, <6>1, <6>2 DEF Queued
                <5>2. CASE p = o /\ x = k
                    <6>1. \A j \in DOMAIN inbox'[p] : inbox'[p][j] = x => j = Len(inbox[o]) + 1
                        BY <2>4, <3>1, <3>2, <2>8, <5>2
                    <6>2. Queued(p, x)'
                        BY <2>2, <2>3, <2>8, <5>2 DEF Queued
                    <6>3. i = Len(inbox[o]) + 1
                        BY <4>1, <6>1
                    <6>4. QED
                        BY <6>1, <6>2, <6>3
                <5>3. QED
                    BY <5>1, <5>2
            <4>2. QED
                BY <2>6, <4>1 DEF InboxesHold
        <3>4. QED
            BY <2>2, <2>5, <2>8, <3>1, <3>2, <3>3 DEF Commanded
    <2>9. CASE command[k].at \notin Openers
        BY <2>1, <2>7, <2>9 DEF Types
    <2>10. QED
        BY <2>1, <2>7, <2>8, <2>9
<1>4. QED
    BY <1>1, <1>2, <1>3 DEF Commanding

LEMMA CommandedKept == Types /\ Started /\ Commanded /\ [Next]_vars => Commanded'
<1> SUFFICES ASSUME Types, Started, Commanded, [Next]_vars PROVE Commanded'
    OBVIOUS
<1>1. CASE /\ UNCHANGED <<call, inbox, command, ran>>
           /\ \A o \in Openers : /\ loop'[o] \in Serving => loop[o] \in Serving
                                 /\ loop[o] = "command" => loop'[o] = "command"
    BY <1>1, CommandedStays DEF Receives
<1>2. QED
    BY <1>1, CommandSteps, OpeningCommanded, LoopCommanded, PromptCommanded, CallerCommanded

LEMMA InitCommanded == Init => Commanded
BY DEF Init, Commanded, InboxesHold, StageHolds, Receives, Serving

LEMMA VerdictsOfStep ==
    ASSUME Types, Started, Commanded, Commanded', [Next]_vars, NEW k \in Commands
    PROVE  /\ command'[k].stage = "answered" => k \in ran'
           /\ command'[k].stage = "unknown" => k \notin ran'
           /\ command[k].stage = "busy" => (k \in ran' <=> k \in ran)
<1>1. /\ command'[k].stage = "answered" => k \in ran'
      /\ command'[k].stage = "unknown" => k \notin ran'
    BY DEF Commanded, StageHolds
<1>2. ran' = ran \/ \E j \in Commands : command[j].stage # "busy" /\ ran' = ran \cup {j}
    <2> USE DEF serving, calling
    <2>1. ASSUME NEW o \in Openers, Opening(o) PROVE ran' = ran
        BY <2>1 DEF Opening, BeginOpen, StartLoop, StartFails, TakeBack
    <2>2. ASSUME NEW o \in Openers, Return(o) \/ CommandEnds(o) \/ TakePrompt(o) PROVE ran' = ran
        BY <2>2 DEF Return, CommandEnds, TakePrompt
    <2>3. ASSUME NEW o \in Openers, NEW j \in Commands, TakeCommand(o, j)
          PROVE  ran' = ran \/ (command[j].stage # "busy" /\ ran' = ran \cup {j})
        BY <2>3 DEF TakeCommand
    <2>4. ASSUME NEW s \in Sessions, Prompt(s) PROVE ran' = ran
        BY <2>4 DEF Prompt
    <2>5. ASSUME NEW j \in Commands, Commanding(j) PROVE ran' = ran
        BY <2>5 DEF Commanding, CallCommand, LookAtTurn, SendCommand, CommandTimesOut, Withdraw
    <2>6. QED
        BY <2>1, <2>2, <2>3, <2>4, <2>5, CommandSteps
<1>3. QED
    BY <1>1, <1>2

(* What the caller of a command is told of it is so and stays so, for any  *)
(* number of commands, chats and clients (command, serve_prompts).         *)
THEOREM VerdictsTheorem == Spec => VerdictsHold
<1>1. Types /\ Started /\ Commanded /\ Commanded' /\ [Next]_vars
        => \A k \in Commands :
             /\ command'[k].stage = "answered" => k \in ran'
             /\ command'[k].stage = "unknown" => k \notin ran'
             /\ command[k].stage = "busy" => (k \in ran' <=> k \in ran)
    BY VerdictsOfStep
<1>2. QED
    BY <1>1, InitCommanded, CommandedKept, TypesHold, StartedHolds, PTL DEF Spec, VerdictsHold
=============================================================================
