------------------------------ MODULE ChatSessions ------------------------------
(***************************************************************************)
(* The chats a daemon hosts: agens-server/src/chat.rs.                     *)
(*                                                                         *)
(* A member of Openers is one `open` request, the channels it made and,    *)
(* once started, the loop that serves them.  The map from sessions to      *)
(* channels, the registry and each loop's channels are under locks of      *)
(* their own, and a loop under none: an action is what happens under one   *)
(* of them.  What a turn is made of is left to the turn: it reports        *)
(* progress, stops on questions and ends.                                  *)
(***************************************************************************)
EXTENDS Naturals, Sequences, FiniteSets

CONSTANTS
    Openers,   \* requests to open a chat, each made once
    Sessions,  \* the sessions they name
    Subs,      \* clients that follow a chat
    Tasks,     \* the opens whose chat leaves a background task running
    Commands,  \* calls of a command, each made once
    Waiting,   \* PROMPT_BACKLOG: inputs that may wait for a loop
    Backlog,   \* SUBSCRIBER_BACKLOG: events that may wait for a subscriber
    Overlap,   \* whether two opens may be under way at once
    None

ASSUME ChatAssumption ==
    /\ None \notin Openers \cup Commands
    /\ "prompt" \notin Commands
    /\ IsFiniteSet(Subs)
    /\ Tasks \subseteq Openers
    /\ Waiting \in Nat \ {0}
    /\ Backlog \in Nat \ {0, 1}
    /\ Overlap \in BOOLEAN

VARIABLES
    call,      \* where each open is
    session,   \* the session it is for
    open,      \* ChatSessions::open: the channels a session is reached by
    closed,    \* history: the channels a client closed
    live,      \* the registry: the loop of a session that has not ended
    signalled, \* the session's own cancellation
    loop,      \* serve_prompts
    inbox,     \* its inputs: "prompt" or a command
    running,   \* the turn's cancellation, while there is a turn
    tasked,    \* HostedChat::task_runtime: made by the first turn
    command,   \* each call of a command: [stage, at]
    ran,       \* history: the commands that were executed
    ask,       \* what the turn and a background task of it are stopped on
    follows,   \* the chat a subscriber is in the fan-out of
    backlog,   \* events waiting for it
    told       \* how often it was told of the question each asker is stopped on

opening == <<call, session, open, closed>>
serving == <<live, signalled, loop, inbox, running, tasked>>
calling == <<command, ran>>
hearing == <<follows, backlog, told>>
vars == <<opening, serving, calling, ask, hearing>>

\* A turn asks in its own name; a task it left running asks beside it.
Askers == {"turn", "task"}

Question == [kind : {"none", "permission", "ask_user"},
             stage : {"none", "listed", "waiting", "leaving"},
             answered : BOOLEAN]

NoQuestion == [kind |-> "none", stage |-> "none", answered |-> FALSE]

Untold == [a \in Askers |-> 0]

Calls == {"none", "recorded", "unstarted", "opened", "rejoined", "refused"}

\* The places a loop can be in, from its start to the end of its closure.
Serving == {"top", "receiving", "command", "turn"}

Holding == {"looking", "sending", "waiting", "leaving"}

Stages == Holding \cup {"none", "busy", "answered", "unknown"}

TypeOK ==
    /\ call \in [Openers -> Calls]
    /\ session \in [Openers -> Sessions \cup {None}]
    /\ open \in [Sessions -> Openers \cup {None}]
    /\ closed \subseteq Openers
    /\ live \in [Sessions -> Openers \cup {None}]
    /\ signalled \subseteq Openers
    /\ loop \in [Openers -> Serving \cup {"none", "returned", "gone"}]
    /\ inbox \in [Openers -> Seq({"prompt"} \cup Commands)]
    /\ \A o \in Openers : Len(inbox[o]) <= Waiting
    /\ running \in [Openers -> {"none", "running", "cancelled"}]
    /\ tasked \subseteq Openers
    /\ command \in [Commands -> [stage : Stages, at : Openers \cup {None}]]
    /\ ran \subseteq Commands
    /\ ask \in [Openers -> [Askers -> Question]]
    /\ follows \in [Subs -> Openers \cup {None}]
    /\ backlog \in [Subs -> 0..Backlog]
    /\ told \in [Subs -> [Askers -> Nat]]

Init ==
    /\ call = [o \in Openers |-> "none"]
    /\ session = [o \in Openers |-> None]
    /\ open = [s \in Sessions |-> None]
    /\ closed = {}
    /\ live = [s \in Sessions |-> None]
    /\ signalled = {}
    /\ loop = [o \in Openers |-> "none"]
    /\ inbox = [o \in Openers |-> <<>>]
    /\ running = [o \in Openers |-> "none"]
    /\ tasked = {}
    /\ command = [k \in Commands |-> [stage |-> "none", at |-> None]]
    /\ ran = {}
    /\ ask = [o \in Openers |-> [a \in Askers |-> NoQuestion]]
    /\ follows = [u \in Subs |-> None]
    /\ backlog = [u \in Subs |-> 0]
    /\ told = [u \in Subs |-> Untold]

-----------------------------------------------------------------------------
(* The fan-out.                                                            *)

Listeners(o) == {u \in Subs : follows[u] = o}

\* publish: a subscriber whose backlog is full is dropped; the others get the
\* event, which is the question of the askers in `about`.
Publish(o, about) ==
    LET full(u) == backlog[u] = Backlog IN
    /\ follows' = [u \in Subs |-> IF follows[u] = o /\ full(u) THEN None ELSE follows[u]]
    /\ backlog' = [u \in Subs |-> IF follows[u] # o THEN backlog[u]
                                  ELSE IF full(u) THEN 0 ELSE backlog[u] + 1]
    /\ told' = [u \in Subs |-> IF follows[u] # o THEN told[u]
                               ELSE IF full(u) THEN Untold
                               ELSE [a \in Askers |-> IF a \in about THEN told[u][a] + 1
                                                      ELSE told[u][a]]]

\* Once a question is over nobody is counted as told of it.
Forget(o, a) ==
    told' = [u \in Subs |-> IF follows[u] = o THEN [told[u] EXCEPT ![a] = 0] ELSE told[u]]

\* A question an answer can still name: one in `asked`.
Listed(o, a) == ask[o][a].stage # "none" /\ ~ask[o][a].answered

Subscribe(u, s) ==
    LET o == open[s]
        pending == {a \in Askers : Listed(o, a) /\ ask[o][a].kind = "ask_user"} IN
    /\ follows[u] = None
    /\ o # None
    /\ follows' = [follows EXCEPT ![u] = o]
    /\ backlog' = [backlog EXCEPT ![u] = Cardinality(pending)]
    /\ told' = [told EXCEPT ![u] = [a \in Askers |-> IF a \in pending THEN 1 ELSE 0]]
    /\ UNCHANGED <<opening, serving, calling, ask>>

Read(u) ==
    /\ backlog[u] > 0
    /\ backlog' = [backlog EXCEPT ![u] = @ - 1]
    /\ UNCHANGED <<opening, serving, calling, ask, follows, told>>

\* The subscription is dropped, and its guard no longer counts.
Leave(u) ==
    /\ follows[u] # None
    /\ follows' = [follows EXCEPT ![u] = None]
    /\ backlog' = [backlog EXCEPT ![u] = 0]
    /\ told' = [told EXCEPT ![u] = Untold]
    /\ UNCHANGED <<opening, serving, calling, ask>>

-----------------------------------------------------------------------------
(* Opening and closing.                                                    *)

UnderWay(o) == call[o] \in {"recorded", "unstarted"}

\* What `retain` leaves of the map: the records of sessions that are running.
Kept == [s \in Sessions |-> IF live[s] = None THEN None ELSE open[s]]

\* Mutant: a session on record gets a fresh record all the same.
BeginOpen_Afresh(o, s) ==
    /\ call[o] = "none"
    /\ Overlap \/ \A p \in Openers : ~UnderWay(p)
    /\ session' = [session EXCEPT ![o] = s]
    /\ open' = [Kept EXCEPT ![s] = o]
    /\ call' = [call EXCEPT ![o] = "recorded"]
    /\ UNCHANGED <<closed, serving, calling, ask, hearing>>

\* A session on record is joined by its own checkout and refused to another.
BeginOpen(o, s) ==
    /\ call[o] = "none"
    /\ Overlap \/ \A p \in Openers : ~UnderWay(p)
    /\ session' = [session EXCEPT ![o] = s]
    /\ \/ /\ Kept[s] = None
          /\ open' = [Kept EXCEPT ![s] = o]
          /\ call' = [call EXCEPT ![o] = "recorded"]
       \/ /\ Kept[s] # None
          /\ open' = Kept
          /\ \E end \in {"rejoined", "refused"} : call' = [call EXCEPT ![o] = end]
    /\ UNCHANGED <<closed, serving, calling, ask, hearing>>

StartLoop(o) ==
    /\ call[o] = "recorded"
    /\ live[session[o]] = None
    /\ live' = [live EXCEPT ![session[o]] = o]
    /\ loop' = [loop EXCEPT ![o] = "top"]
    /\ call' = [call EXCEPT ![o] = "opened"]
    /\ UNCHANGED <<session, open, closed, signalled, inbox, running, tasked, calling, ask, hearing>>

\* The session is live already, or the registry, which workers share, is full.
StartFails(o) ==
    /\ call[o] = "recorded"
    /\ call' = [call EXCEPT ![o] = "unstarted"]
    /\ command' = [k \in Commands |-> IF command[k] = [stage |-> "waiting", at |-> o]
                                      THEN [command[k] EXCEPT !.stage = "unknown"]
                                      ELSE command[k]]
    /\ UNCHANGED <<session, open, closed, serving, ran, ask, hearing>>

TakeBack(o) ==
    /\ call[o] = "unstarted"
    /\ open' = [open EXCEPT ![session[o]] = None]
    /\ call' = [call EXCEPT ![o] = "refused"]
    /\ UNCHANGED <<session, closed, serving, calling, ask, hearing>>

Close(s) ==
    /\ open[s] # None
    /\ open' = [open EXCEPT ![s] = None]
    /\ closed' = closed \cup {open[s]}
    /\ UNCHANGED <<call, session, serving, calling, ask, hearing>>

-----------------------------------------------------------------------------
(* What clients send.                                                      *)

\* The receiver is in the closure of the open, then in its loop.
Receives(o) == call[o] = "recorded" \/ loop[o] \in Serving

\* Mutant: prompts queue without a bound.
Prompt_Unbounded(s) ==
    LET o == open[s] IN
    /\ o # None
    /\ Receives(o)
    /\ inbox' = [inbox EXCEPT ![o] = Append(@, "prompt")]
    /\ UNCHANGED <<opening, live, signalled, loop, running, tasked, calling, ask, hearing>>

Prompt(s) ==
    LET o == open[s] IN
    /\ o # None
    /\ Receives(o)
    /\ Len(inbox[o]) < Waiting
    /\ inbox' = [inbox EXCEPT ![o] = Append(@, "prompt")]
    /\ UNCHANGED <<opening, live, signalled, loop, running, tasked, calling, ask, hearing>>

Goes(k, stage) == command' = [command EXCEPT ![k].stage = stage]

CallCommand(k, s) ==
    /\ command[k].stage = "none"
    /\ open[s] # None
    /\ command' = [command EXCEPT ![k] = [stage |-> "looking", at |-> open[s]]]
    /\ UNCHANGED <<opening, serving, ran, ask, hearing>>

LookAtTurn(k) ==
    /\ command[k].stage = "looking"
    /\ Goes(k, IF running[command[k].at] = "none" THEN "sending" ELSE "busy")
    /\ UNCHANGED <<opening, serving, ran, ask, hearing>>

SendCommand(k) ==
    LET o == command[k].at IN
    /\ command[k].stage = "sending"
    /\ \/ /\ Receives(o) /\ Len(inbox[o]) < Waiting
          /\ inbox' = [inbox EXCEPT ![o] = Append(@, k)]
          /\ Goes(k, "waiting")
       \/ /\ Receives(o) /\ Len(inbox[o]) >= Waiting
          /\ Goes(k, "busy") /\ UNCHANGED inbox
       \/ /\ ~Receives(o)
          /\ Goes(k, "unknown") /\ UNCHANGED inbox
    /\ UNCHANGED <<opening, live, signalled, loop, running, tasked, ran, ask, hearing>>

\* COMMAND_ANSWER passes; the flag that withdraws the command is set after it.
CommandTimesOut(k) ==
    /\ command[k].stage = "waiting"
    /\ Goes(k, "leaving")
    /\ UNCHANGED <<opening, serving, ran, ask, hearing>>

Withdraw(k) ==
    /\ command[k].stage = "leaving"
    /\ Goes(k, "busy")
    /\ UNCHANGED <<opening, serving, ran, ask, hearing>>

\* The turn's own cancellation, and nothing when there is no turn.
Cancel(s) ==
    LET o == open[s] IN
    /\ o # None
    /\ running[o] = "running"
    /\ running' = [running EXCEPT ![o] = "cancelled"]
    /\ UNCHANGED <<opening, live, signalled, loop, inbox, tasked, calling, ask, hearing>>

\* The daemon stops: every live session is signalled.
CancelAll ==
    /\ signalled' = signalled \cup {o \in Openers : \E s \in Sessions : live[s] = o}
    /\ signalled' # signalled
    /\ UNCHANGED <<opening, live, loop, inbox, running, tasked, calling, ask, hearing>>

\* The answer takes the question off the list it was found on.
Answer(s, a) ==
    LET o == open[s] IN
    /\ o # None
    /\ Listed(o, a) /\ ask[o][a].stage # "listed"
    /\ ask' = [ask EXCEPT ![o][a].answered = TRUE]
    /\ UNCHANGED <<opening, serving, calling, hearing>>

-----------------------------------------------------------------------------
(* The loop.                                                               *)

Moves(o, place) == loop' = [loop EXCEPT ![o] = place]

\* Every sender is gone: the record's, and those commands took along.
Disconnected(o) ==
    /\ \A s \in Sessions : open[s] # o
    /\ \A k \in Commands : command[k].at = o => command[k].stage \notin Holding

Look(o) ==
    /\ loop[o] = "top" /\ o \notin signalled
    /\ Moves(o, "receiving")
    /\ UNCHANGED <<opening, live, signalled, inbox, running, tasked, calling, ask, hearing>>

Poll(o) ==
    /\ loop[o] = "receiving" /\ inbox[o] = <<>> /\ ~Disconnected(o)
    /\ Moves(o, "top")
    /\ UNCHANGED <<opening, live, signalled, inbox, running, tasked, calling, ask, hearing>>

\* The inbox goes with the loop, and with it the hope of an answer.
Return(o) ==
    /\ \/ loop[o] = "top" /\ o \in signalled
       \/ loop[o] = "receiving" /\ inbox[o] = <<>> /\ Disconnected(o)
    /\ Moves(o, "returned")
    /\ Publish(o, {})
    /\ command' = [k \in Commands |-> IF command[k] = [stage |-> "waiting", at |-> o]
                                      THEN [command[k] EXCEPT !.stage = "unknown"]
                                      ELSE command[k]]
    /\ UNCHANGED <<opening, live, signalled, inbox, running, tasked, ran, ask>>

RecordEnd(o) ==
    /\ loop[o] = "returned"
    /\ live' = [live EXCEPT ![session[o]] = None]
    /\ Moves(o, "gone")
    /\ UNCHANGED <<opening, signalled, inbox, running, tasked, calling, ask, hearing>>

Finds(o, input) == loop[o] = "receiving" /\ inbox[o] # <<>> /\ Head(inbox[o]) = input

\* Mutant: the flag of a caller that gave up is not looked at.
TakeCommand_Heedless(o, k) ==
    /\ Finds(o, k)
    /\ inbox' = [inbox EXCEPT ![o] = Tail(@)]
    /\ Moves(o, "command") /\ ran' = ran \cup {k}
    /\ UNCHANGED <<opening, live, signalled, running, tasked, command, ask, hearing>>

\* A command whose caller was told the chat is busy is passed over.
TakeCommand(o, k) ==
    /\ Finds(o, k)
    /\ inbox' = [inbox EXCEPT ![o] = Tail(@)]
    /\ IF command[k].stage = "busy"
       THEN Moves(o, "top") /\ UNCHANGED ran
       ELSE Moves(o, "command") /\ ran' = ran \cup {k}
    /\ UNCHANGED <<opening, live, signalled, running, tasked, command, ask, hearing>>

\* The answer reaches a caller that still waits for it.
CommandEnds(o) ==
    /\ loop[o] = "command"
    /\ Moves(o, "top")
    /\ command' = [k \in Commands |->
                     IF command[k] = [stage |-> "waiting", at |-> o] /\ k \in ran
                     THEN [command[k] EXCEPT !.stage = "answered"] ELSE command[k]]
    /\ UNCHANGED <<opening, live, signalled, inbox, running, tasked, ran, ask, hearing>>

TakePrompt(o) ==
    /\ Finds(o, "prompt")
    /\ inbox' = [inbox EXCEPT ![o] = Tail(@)]
    /\ Moves(o, "turn")
    /\ running' = [running EXCEPT ![o] = "running"]
    /\ tasked' = tasked \cup (Tasks \cap {o})
    /\ UNCHANGED <<opening, live, signalled, calling, ask, hearing>>

Progress(o) ==
    /\ loop[o] = "turn"
    /\ Publish(o, {})
    /\ UNCHANGED <<opening, serving, calling, ask>>

TurnEnds(o) ==
    /\ loop[o] = "turn"
    /\ ask[o]["turn"] = NoQuestion
    /\ running' = [running EXCEPT ![o] = "none"]
    /\ Moves(o, "top")
    /\ Publish(o, {})
    /\ UNCHANGED <<opening, live, signalled, inbox, tasked, calling, ask>>

-----------------------------------------------------------------------------
(* Questions.                                                              *)

\* A turn asks while it runs, a task for as long as the loop is there.
MayAsk(o, a) ==
    /\ ask[o][a] = NoQuestion
    /\ IF a = "turn" THEN loop[o] = "turn" ELSE o \in tasked /\ loop[o] \in Serving

Stops(o, a, kind, stage) ==
    ask' = [ask EXCEPT ![o][a] = [kind |-> kind, stage |-> stage, answered |-> FALSE]]

\* A permission question is listed first, and published under no lock.
ListPermission(o, a) ==
    /\ MayAsk(o, a)
    /\ Stops(o, a, "permission", "listed")
    /\ UNCHANGED <<opening, serving, calling, hearing>>

PublishPermission(o, a) ==
    /\ ask[o][a].stage = "listed"
    /\ ask' = [ask EXCEPT ![o][a].stage = "waiting"]
    /\ Publish(o, {a})
    /\ UNCHANGED <<opening, serving, calling>>

\* Mutant: it is published after the lock is given back, as a permission is.
AskUser_UnderNoLock(o, a) ==
    /\ MayAsk(o, a)
    /\ Stops(o, a, "ask_user", "listed")
    /\ UNCHANGED <<opening, serving, calling, hearing>>

\* The other kind is listed and published under the lock subscribing takes.
AskUser(o, a) ==
    /\ MayAsk(o, a)
    /\ Stops(o, a, "ask_user", "waiting")
    /\ Publish(o, {a})
    /\ UNCHANGED <<opening, serving, calling>>

\* Mutant: only the end of the session calls a question off.
CalledOff_BySession(o) == o \in signalled

\* asking_turn_ended: also when a turn other than the asker's is running now.
CalledOff(o) == o \in signalled \/ running[o] # "running"

\* Looked at between two waits.  A permission question waits for as long as
\* anybody listens; the other kind until the turn is called off.
Hopeless(o, a) ==
    IF ask[o][a].kind = "permission" THEN Listeners(o) = {} ELSE CalledOff(o)

Hear(o, a) ==
    /\ ask[o][a].stage = "waiting" /\ ask[o][a].answered
    /\ ask' = [ask EXCEPT ![o][a] = NoQuestion]
    /\ Forget(o, a)
    /\ UNCHANGED <<opening, serving, calling, follows, backlog>>

GiveUp(o, a) ==
    /\ ask[o][a].stage = "waiting" /\ ~ask[o][a].answered
    /\ Hopeless(o, a)
    /\ ask' = [ask EXCEPT ![o][a].stage = "leaving"]
    /\ UNCHANGED <<opening, serving, calling, hearing>>

\* The question comes off the list; an answer that came meanwhile is lost.
Unlist(o, a) ==
    /\ ask[o][a].stage = "leaving"
    /\ ask' = [ask EXCEPT ![o][a] = NoQuestion]
    /\ Forget(o, a)
    /\ UNCHANGED <<opening, serving, calling, follows, backlog>>

-----------------------------------------------------------------------------
Opening(o) ==
    \/ \E s \in Sessions : BeginOpen(o, s)
    \/ StartLoop(o)
    \/ StartFails(o)
    \/ TakeBack(o)

Commanding(k) ==
    \/ \E s \in Sessions : CallCommand(k, s)
    \/ LookAtTurn(k)
    \/ SendCommand(k)
    \/ CommandTimesOut(k)
    \/ Withdraw(k)

Loop(o) ==
    \/ Look(o)
    \/ Poll(o)
    \/ Return(o)
    \/ RecordEnd(o)
    \/ \E k \in Commands : TakeCommand(o, k)
    \/ CommandEnds(o)
    \/ TakePrompt(o)

Turn(o) == Progress(o) \/ TurnEnds(o)

Asking(o, a) == ListPermission(o, a) \/ AskUser(o, a)

Awaiting(o, a) ==
    \/ PublishPermission(o, a)
    \/ Hear(o, a)
    \/ GiveUp(o, a)
    \/ Unlist(o, a)

Client(s) ==
    \/ Prompt(s)
    \/ Cancel(s)
    \/ Close(s)
    \/ \E a \in Askers : Answer(s, a)

Following(u) == (\E s \in Sessions : Subscribe(u, s)) \/ Read(u) \/ Leave(u)

Next ==
    \/ \E o \in Openers : Opening(o) \/ Loop(o) \/ Turn(o)
    \/ \E o \in Openers, a \in Askers : Asking(o, a) \/ Awaiting(o, a)
    \/ \E k \in Commands : Commanding(k)
    \/ \E s \in Sessions : Client(s)
    \/ \E u \in Subs : Following(u)
    \/ CancelAll

Spec == Init /\ [][Next]_vars

\* Threads go on.  A turn is bounded by nothing, but one that was told to stop
\* looks at that between any two of its steps.
Fairness ==
    /\ \A o \in Openers :
         /\ WF_vars(Loop(o))
         /\ SF_vars(running[o] = "cancelled" /\ TurnEnds(o))
         /\ \A a \in Askers : WF_vars(Awaiting(o, a))
    /\ \A k \in Commands : WF_vars(LookAtTurn(k) \/ SendCommand(k) \/ CommandTimesOut(k) \/ Withdraw(k))

FairSpec == Spec /\ Fairness

-----------------------------------------------------------------------------
(* A chat a client was told is open, and that nobody closed, is reached by *)
(* the channels its loop reads (open: "recorded as open before started").  *)
OpenChatIsReachable ==
    \A o \in Openers :
        call[o] = "opened" /\ loop[o] \in Serving /\ o \notin closed
          => open[session[o]] = o

(* A question of the user's a turn is stopped on was told once to everyone *)
(* who follows the chat, whenever they came: never both greeted and told,  *)
(* and never neither (subscribe, ask_user).                                *)
AskUserIsToldOnce ==
    \A o \in Openers, a \in Askers, u \in Subs :
        Listed(o, a) /\ ask[o][a].kind = "ask_user" /\ follows[u] = o => told[u][a] = 1

(* What the caller of a command is told is so: answered, it was executed;  *)
(* unknown, it never is; busy, it is not executed behind its back later.   *)
VerdictsHold ==
    [][\A k \in Commands :
         /\ command'[k].stage = "answered" => k \in ran'
         /\ command'[k].stage = "unknown" => k \notin ran'
         /\ command[k].stage = "busy" => (k \in ran' <=> k \in ran)]_vars

\* Stopped on a permission question that somebody might answer.
HeldByPermission(o) == ask[o]["turn"].kind = "permission" /\ Listeners(o) # {}

(* A turn that was told to stop ends, whatever it was stopped on, unless   *)
(* there is always again somebody to hear its permission question; and so  *)
(* does a closed or signalled chat, once nothing runs in it that was not   *)
(* told (cancel, close, ask_user, wait_for).                               *)
WhatIsStoppedEnds ==
    \A o \in Openers :
        /\ <>[](running[o] = "cancelled") => []<>HeldByPermission(o)
        /\ <>[](o \in closed \cup signalled /\ loop[o] \in Serving)
             => []<>(running[o] = "running" \/ HeldByPermission(o))
=============================================================================
