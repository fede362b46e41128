------------------------------ MODULE JournalFeed ------------------------------
(***************************************************************************)
(* The live fan-out of the coordinator's journal: one publisher reads the  *)
(* tail of the journal for everybody, the fan-out offers each entry to the *)
(* subscribers that asked for it, and a forwarder per subscription carries *)
(* what it was offered to a client that may stop reading or hang up.       *)
(*                                                                         *)
(* Three kinds of thread meet here.  The publisher reads the head, counts  *)
(* the subscribers and reads the tail in three separate moments; a client  *)
(* may subscribe between any two of them.  The fan-out never waits for a   *)
(* subscriber.  A forwarder does, for as long as its patience lasts.       *)
(*                                                                         *)
(* Abstractions.  An entry is the run it belongs to and its id is its      *)
(* position; a filter is the set of runs whose entries it lets through,    *)
(* and a filter by repository lets them through only when the publisher    *)
(* knows the run's repository.  Time is left out: a wait that may run out  *)
(* is a step that may be taken.                                            *)
(***************************************************************************)
EXTENDS Integers, Sequences, FiniteSets, SequencesExt

CONSTANTS
    Runs,          \* the runs journal entries belong to
    Subs,          \* bound: subscriptions, each opened once
    Filter,        \* the runs each subscription asks for
    ByRepository,  \* the subscriptions that ask for them by repository
    Diagnostics,   \* whether the diagnostics log captures the journal
    Batch,         \* PUBLISH_BATCH
    Memo,          \* PUBLISH_MEMO
    Backlog,       \* SUBSCRIBER_BACKLOG
    Buffer,        \* SUBSCRIPTION_BUFFER
    Ceiling,       \* LIVE_SUBSCRIPTIONS
    Faults,        \* what may fail, see AllFaults
    MaxEntries,    \* bound: entries journaled
    MaxFailures    \* bound: failures that happen

(* "head", "tail": the publisher cannot read the journal.  "lookup": it    *)
(* cannot read a run's row.  "call": the core refuses the subscription.    *)
AllFaults == {"head", "tail", "lookup", "call"}

ASSUME FeedAssumption ==
    /\ IsFiniteSet(Subs)
    /\ Filter \in [Subs -> SUBSET Runs]
    /\ ByRepository \subseteq Subs
    /\ Diagnostics \in BOOLEAN
    /\ {Batch, Memo, Backlog, Buffer, Ceiling} \subseteq Nat \ {0}
    /\ Faults \subseteq AllFaults
    /\ {MaxEntries, MaxFailures} \subseteq Nat

VARIABLES
    journal,    \* the runs of the entries, in commit order
    watermark,  \* the entry the publisher published last
    seen,       \* the head as the publisher read it, 0 once used
    upto,       \* the last entry of the batch it read, 0 once used
    phase,      \* what it does next
    memo,       \* the repositories it remembers, least recently used first
    unresolved, \* entries published without knowing their repository
    registered, \* the subscriptions the fan-out holds
    queue,      \* entries offered to each and not taken by its forwarder
    stage,      \* how far each subscription has come
    held,       \* the entry its forwarder is handing over, if any
    buffer,     \* entries handed over and not read by the client
    received,   \* entries the client read, while there is one
    gone,       \* the clients that hung up
    since,      \* the head of the journal when each was registered
    slots,      \* slots taken against the ceiling
    failures    \* failures that happened

known == <<memo, unresolved>>
publisher == <<watermark, seen, upto, phase, known>>
forwarder == <<held, buffer, received>>
vars == <<journal, publisher, registered, queue, stage, forwarder, gone, since,
          slots, failures>>

Positions == Seq(1..MaxEntries)

(* "calling": a slot is taken and the core has not been asked.  "orphaned": *)
(* the client gave up, and the core will be asked all the same.  "opening": *)
(* registered, on the way back to the task that asked.                     *)
Stages == {"none", "calling", "orphaned", "opening", "live", "ended"}

TypeOK ==
    /\ journal \in Seq(Runs)
    /\ {watermark, seen, upto, slots, failures} \subseteq Nat
    /\ phase \in {"head", "count", "tail", "publish"}
    /\ memo \in Seq([run : Runs, found : BOOLEAN]) /\ Len(memo) <= Memo
    /\ unresolved \subseteq Nat
    /\ registered \subseteq Subs
    /\ queue \in [Subs -> Positions]
    /\ stage \in [Subs -> Stages]
    /\ held \in [Subs -> Positions]
    /\ buffer \in [Subs -> Positions]
    /\ received \in [Subs -> Positions]
    /\ gone \subseteq Subs
    /\ since \in [Subs -> Nat]
    /\ \A s \in Subs :
         Len(queue[s]) <= Backlog /\ Len(held[s]) <= 1 /\ Len(buffer[s]) <= Buffer

Nothing == [s \in Subs |-> <<>>]

Init ==
    /\ journal = <<>>
    /\ watermark = 0 /\ seen = 0 /\ upto = 0
    /\ phase = "head"
    /\ memo = <<>>
    /\ unresolved = {}
    /\ registered = {}
    /\ queue = Nothing /\ held = Nothing /\ buffer = Nothing /\ received = Nothing
    /\ stage = [s \in Subs |-> "none"]
    /\ gone = {}
    /\ since = [s \in Subs |-> 0]
    /\ slots = 0
    /\ failures = 0

Fails(fault) ==
    /\ fault \in Faults
    /\ failures < MaxFailures
    /\ failures' = failures + 1

\* Any writer of the control plane; ids are given in commit order.
Journal(r) ==
    /\ Len(journal) < MaxEntries
    /\ journal' = Append(journal, r)
    /\ UNCHANGED <<publisher, registered, queue, stage, forwarder, gone, since,
                   slots, failures>>

-----------------------------------------------------------------------------
(* The publisher.                                                          *)

\* A head that cannot be read is taken to be where the publisher stands.
ReadHead ==
    /\ phase = "head"
    /\ \/ seen' = Len(journal) /\ UNCHANGED failures
       \/ seen' = watermark /\ Fails("head")
    /\ phase' = "count"
    /\ UNCHANGED <<journal, watermark, upto, known, registered, queue, stage, forwarder,
                   gone, since, slots>>

\* A count of forwarders, which misses a subscription on its way to one.
CountSubscribers_ByForwarder ==
    /\ phase = "count"
    /\ IF (\A s \in Subs : stage[s] # "live") /\ ~Diagnostics
         THEN watermark' = seen /\ phase' = "head"
         ELSE phase' = "tail" /\ UNCHANGED watermark
    /\ seen' = 0
    /\ UNCHANGED <<journal, upto, known, registered, queue, stage, forwarder, gone,
                   since, slots, failures>>

\* With nobody to publish for, the watermark moves to the head as it was read.
CountSubscribers ==
    /\ phase = "count"
    /\ IF registered = {} /\ ~Diagnostics
         THEN watermark' = seen /\ phase' = "head"
         ELSE phase' = "tail" /\ UNCHANGED watermark
    /\ seen' = 0
    /\ UNCHANGED <<journal, upto, known, registered, queue, stage, forwarder, gone,
                   since, slots, failures>>

ReadTail ==
    /\ phase = "tail"
    /\ \/ /\ Len(journal) > watermark
          /\ upto' = IF Len(journal) < watermark + Batch
                       THEN Len(journal) ELSE watermark + Batch
          /\ phase' = "publish"
          /\ UNCHANGED failures
       \/ /\ Len(journal) = watermark
          /\ phase' = "head"
          /\ UNCHANGED <<upto, failures>>
       \/ phase' = "head" /\ Fails("tail") /\ UNCHANGED upto
    /\ UNCHANGED <<journal, watermark, seen, known, registered, queue, stage, forwarder,
                   gone, since, slots>>

\* The places of the memo that hold the run: one, if any.
Places(r) == {i \in DOMAIN memo : memo[i].run = r}

\* The memo that keeps a run's repository for the life of the daemon.
Remember_Unbounded(r, found) ==
    LET entry == [run |-> r, found |-> found] IN
    \/ \E i \in Places(r) : memo' = Append(RemoveAt(memo, i), entry)
    \/ Places(r) = {} /\ memo' = Append(memo, entry)

\* A run just used moves to the end of the memo; a full one drops its first.
Remember(r, found) ==
    LET entry == [run |-> r, found |-> found] IN
    \/ \E i \in Places(r) : memo' = Append(RemoveAt(memo, i), entry)
    \/ /\ Places(r) = {}
       /\ memo' = Append(IF Len(memo) = Memo THEN Tail(memo) ELSE memo, entry)

\* repository_of: a lookup that failed is remembered like one that answered.
RepositoryOf(r, found) ==
    LET remembered == {memo[i].found : i \in Places(r)} IN
    /\ IF remembered # {} THEN found \in remembered /\ UNCHANGED failures
       ELSE IF found THEN UNCHANGED failures
       ELSE Fails("lookup")
    /\ Remember(r, found)

Wants(s, r, found) == r \in Filter[s] /\ (s \in ByRepository => found)

\* Whether anything will ever take an entry out of the subscription's queue.
Listens(s) == stage[s] \in {"opening", "live"}

\* The entry that does not fit is skipped, and the subscription goes on.
Publish_SkipsWhenFull(i, found) ==
    LET asked == {s \in registered : Wants(s, journal[i], found)}
        taken == {s \in asked : Listens(s) /\ Len(queue[s]) < Backlog} IN
    /\ queue' = [s \in Subs |-> IF s \in taken THEN Append(queue[s], i) ELSE queue[s]]
    /\ registered' = {s \in registered : s \in asked => Listens(s)}

\* A subscriber that cannot take the entry, full or hung up, is dropped.
Publish(i, found) ==
    LET asked == {s \in registered : Wants(s, journal[i], found)}
        taken == {s \in asked : Listens(s) /\ Len(queue[s]) < Backlog} IN
    /\ queue' = [s \in Subs |-> IF s \in taken THEN Append(queue[s], i) ELSE queue[s]]
    /\ registered' = (registered \ asked) \cup taken

PublishNext ==
    /\ phase = "publish"
    /\ \E found \in BOOLEAN :
         /\ RepositoryOf(journal[watermark + 1], found)
         /\ Publish(watermark + 1, found)
         /\ unresolved' = IF found THEN unresolved ELSE unresolved \cup {watermark + 1}
    /\ watermark' = watermark + 1
    /\ IF watermark' < upto THEN UNCHANGED <<phase, upto>>
       ELSE phase' = "head" /\ upto' = 0
    /\ UNCHANGED <<journal, seen, stage, forwarder, gone, since, slots>>

-----------------------------------------------------------------------------
(* A subscription, from the request to the end of its forwarder.           *)

Stage(s, next) == stage' = [stage EXCEPT ![s] = next]

\* The receiver is dropped, and with it whatever the forwarder had not taken.
Ends(s) ==
    /\ Stage(s, "ended")
    /\ queue' = [queue EXCEPT ![s] = <<>>]
    /\ held' = [held EXCEPT ![s] = <<>>]

\* Past the ceiling a client is refused, and nothing changes.
TakeSlot(s) ==
    /\ stage[s] = "none" /\ slots < Ceiling
    /\ slots' = slots + 1
    /\ Stage(s, "calling")
    /\ UNCHANGED <<journal, publisher, registered, queue, forwarder, gone, since, failures>>

\* The core registers the subscription, whether or not its client is there yet.
Register(s) ==
    /\ stage[s] \in {"calling", "orphaned"}
    /\ registered' = registered \cup {s}
    /\ since' = [since EXCEPT ![s] = Len(journal)]
    /\ Stage(s, IF stage[s] = "calling" THEN "opening" ELSE "ended")
    /\ UNCHANGED <<journal, publisher, queue, forwarder, gone, slots, failures>>

CallFails(s) ==
    /\ stage[s] \in {"calling", "orphaned"}
    /\ Fails("call")
    /\ Stage(s, "ended")
    /\ slots' = IF stage[s] = "calling" THEN slots - 1 ELSE slots
    /\ UNCHANGED <<journal, publisher, registered, queue, forwarder, gone, since>>

StartForwarder(s) ==
    /\ stage[s] = "opening"
    /\ Stage(s, "live")
    /\ UNCHANGED <<journal, publisher, registered, queue, forwarder, gone, since, slots,
                   failures>>

\* A hang-up that gives its slot back whenever it comes, forwarder or not.
HangUp_FreesTheSlot(s) ==
    /\ stage[s] \in {"calling", "opening", "live"} /\ s \notin gone
    /\ gone' = gone \cup {s}
    /\ slots' = slots - 1
    /\ buffer' = [buffer EXCEPT ![s] = <<>>]
    /\ received' = [received EXCEPT ![s] = <<>>]
    /\ \/ stage[s] = "calling" /\ Stage(s, "orphaned") /\ UNCHANGED <<queue, held>>
       \/ stage[s] = "opening" /\ Ends(s)
       \/ stage[s] = "live" /\ UNCHANGED <<stage, queue, held>>
    /\ UNCHANGED <<journal, publisher, registered, since, failures>>

\* Before there is a forwarder the request's task holds the slot and drops it.
HangUp(s) ==
    /\ stage[s] \in {"calling", "opening", "live"} /\ s \notin gone
    /\ gone' = gone \cup {s}
    /\ buffer' = [buffer EXCEPT ![s] = <<>>]
    /\ received' = [received EXCEPT ![s] = <<>>]
    /\ \/ /\ stage[s] = "calling" /\ Stage(s, "orphaned")
          /\ slots' = slots - 1 /\ UNCHANGED <<queue, held>>
       \/ /\ stage[s] = "opening" /\ Ends(s)
          /\ slots' = slots - 1
       \/ stage[s] = "live" /\ UNCHANGED <<stage, queue, held, slots>>
    /\ UNCHANGED <<journal, publisher, registered, since, failures>>

-----------------------------------------------------------------------------
(* The forwarder.                                                          *)

Take(s) ==
    /\ stage[s] = "live" /\ held[s] = <<>> /\ queue[s] # <<>>
    /\ held' = [held EXCEPT ![s] = <<Head(queue[s])>>]
    /\ queue' = [queue EXCEPT ![s] = Tail(@)]
    /\ UNCHANGED <<journal, publisher, registered, stage, buffer, received, gone, since,
                   slots, failures>>

HandOver(s) ==
    /\ stage[s] = "live" /\ held[s] # <<>>
    /\ s \notin gone /\ Len(buffer[s]) < Buffer
    /\ buffer' = [buffer EXCEPT ![s] = @ \o held[s]]
    /\ held' = [held EXCEPT ![s] = <<>>]
    /\ UNCHANGED <<journal, publisher, registered, queue, stage, received, gone, since,
                   slots, failures>>

\* The forwarder that waits on a quiet filter without looking at its client.
ForwarderEnds_OnAnEntry(s) ==
    /\ stage[s] = "live"
    /\ IF held[s] # <<>> THEN s \in gone \/ Len(buffer[s]) = Buffer
       ELSE queue[s] = <<>> /\ s \notin registered
    /\ Ends(s)
    /\ slots' = slots - 1
    /\ UNCHANGED <<journal, publisher, registered, buffer, received, gone, since, failures>>

(* With an entry in hand: the client hung up, or had no room for as long as *)
(* the forwarder waits.  Without one: the client is seen to be gone when    *)
(* the wait runs out, or the fan-out dropped the subscription.              *)
ForwarderEnds(s) ==
    /\ stage[s] = "live"
    /\ IF held[s] # <<>> THEN s \in gone \/ Len(buffer[s]) = Buffer
       ELSE queue[s] = <<>> /\ (s \in gone \/ s \notin registered)
    /\ Ends(s)
    /\ slots' = slots - 1
    /\ UNCHANGED <<journal, publisher, registered, buffer, received, gone, since, failures>>

\* What is in the buffer can be read after the forwarder has ended.
ClientReads(s) ==
    /\ s \notin gone /\ buffer[s] # <<>>
    /\ received' = [received EXCEPT ![s] = Append(@, Head(buffer[s]))]
    /\ buffer' = [buffer EXCEPT ![s] = Tail(@)]
    /\ UNCHANGED <<journal, publisher, registered, queue, stage, held, gone, since, slots,
                   failures>>

-----------------------------------------------------------------------------
PublisherNext == ReadHead \/ CountSubscribers \/ ReadTail \/ PublishNext

CallNext(s) == Register(s) \/ CallFails(s) \/ StartForwarder(s)

ForwarderNext(s) == Take(s) \/ HandOver(s) \/ ForwarderEnds(s)

ClientNext(s) == TakeSlot(s) \/ HangUp(s) \/ ClientReads(s)

Next ==
    \/ \E r \in Runs : Journal(r)
    \/ PublisherNext
    \/ \E s \in Subs : CallNext(s) \/ ForwarderNext(s) \/ ClientNext(s)

Spec == Init /\ [][Next]_vars

\* The publisher is a loop, a call is a task of the runtime and a forwarder a
\* thread whose waits run out.  Nothing is assumed of clients: one may stop
\* reading, or never hang up.
FairSpec ==
    /\ Spec
    /\ WF_vars(PublisherNext)
    /\ \A s \in Subs : WF_vars(CallNext(s)) /\ WF_vars(ForwarderNext(s))

-----------------------------------------------------------------------------
(* Safety.                                                                 *)

\* What the client has or may still get, in the order it gets it.
Stream(s) == received[s] \o buffer[s] \o held[s] \o queue[s]

Streamed(s) == {Stream(s)[i] : i \in DOMAIN Stream(s)}

\* The entries a client that subscribed is entitled to, up to position n.
Due(s, n) ==
    {i \in since[s] + 1..n :
        journal[i] \in Filter[s] /\ (s \in ByRepository => i \notin unresolved)}

\* The stream has every entry due up to the last one it has, each once and in order.
HasNoHole(s) ==
    LET stream == Stream(s) IN
    /\ \A i \in 1..Len(stream) - 1 : stream[i] < stream[i + 1]
    /\ stream # <<>> => Due(s, stream[Len(stream)]) \subseteq Streamed(s)
    /\ s \in registered /\ Listens(s) => Due(s, watermark) \subseteq Streamed(s)

(* A stream is an unbroken section of the journal from the moment the core *)
(* registered it: no race of the subscription with the publisher's reads,  *)
(* no full backlog, no forgotten repository and no failed read of the      *)
(* journal leaves an entry out of its middle.  Only the entries published  *)
(* while their run's row could not be read escape a filter by repository.  *)
StreamHasNoHole == \A s \in Subs \ gone : HasNoHole(s)

(* A slot is held for as long as something forwards or is about to, and    *)
(* given back once: the daemon neither leaks the ceiling away nor spawns   *)
(* more forwarders than it.                                                *)
SlotsAreThreads ==
    /\ slots = Cardinality({s \in Subs : stage[s] \in {"calling", "opening", "live"}})
    /\ slots <= Ceiling

-----------------------------------------------------------------------------
(* Liveness.                                                               *)

(* A client that hung up gives its slot back without the journal having to *)
(* move: the forwarder of a quiet filter notices on its own wait.          *)
HungUpFreesItsSlot ==
    \A s \in Subs : s \in gone /\ stage[s] # "ended" ~> stage[s] = "ended"

\* Entries due that have not reached the client's end of the stream.
Owed(s) ==
    LET arrived == received[s] \o buffer[s] IN
    Due(s, Len(journal)) \ {arrived[i] : i \in DOMAIN arrived}

(* The entries due reach the client's end of the stream or the stream      *)
(* ends: a client that falls behind is told by the end, and is never left  *)
(* waiting on a subscription the fan-out has dropped.                      *)
EntriesArriveOrStreamEnds ==
    \A s \in Subs :
        stage[s] = "live" /\ Owed(s) # {} ~> stage[s] = "ended" \/ Owed(s) = {}
=============================================================================
