--------------------------- MODULE JournalFeedProofs ---------------------------
(***************************************************************************)
(* What holds of JournalFeed for every value of its constants.             *)
(*                                                                         *)
(* A stream is four sequences in a row: what the client read, what it has  *)
(* not read yet, what the forwarder holds, what the fan-out offered.  A    *)
(* step hands an entry from one to the next, which leaves the stream as it *)
(* is; drops its end; or, when an entry is published, makes it one longer. *)
(* That the end of a stream may be lost at any time without leaving a hole *)
(* is why the invariant speaks of every entry of a stream and not only of  *)
(* the last one.                                                           *)
(***************************************************************************)
EXTENDS JournalFeed, SequenceTheorems, FiniteSetTheorems, TLAPS

Types ==
    /\ journal \in Seq(Runs)
    /\ watermark \in Nat /\ seen \in Nat /\ upto \in Nat
    /\ registered \subseteq Subs
    /\ gone \subseteq Subs
    /\ stage \in [Subs -> Stages]
    /\ since \in [Subs -> Nat]
    /\ queue \in [Subs -> Seq(Nat)]
    /\ held \in [Subs -> Seq(Nat)]
    /\ buffer \in [Subs -> Seq(Nat)]
    /\ received \in [Subs -> Seq(Nat)]

\* The publisher is never ahead of the journal, nor ahead of what it read of it.
Behind ==
    /\ watermark <= Len(journal)
    /\ phase = "count" => watermark <= seen /\ seen <= Len(journal)
    /\ phase = "publish" => watermark < upto /\ upto <= Len(journal)

\* A section of what s asks for: in order, and everything due before each entry.
Section(s, t) ==
    /\ \A j, k \in DOMAIN t : j < k => t[j] < t[k]
    /\ \A j \in DOMAIN t : Due(s, t[j]) \subseteq {t[k] : k \in DOMAIN t}

Unstarted(s) == stage[s] \in {"none", "calling", "orphaned"}

StreamSound(s) ==
    /\ Unstarted(s) => Stream(s) = <<>>
    /\ \A j \in DOMAIN Stream(s) : Stream(s)[j] <= watermark
    /\ Section(s, Stream(s))
    /\ s \in registered /\ Listens(s) => Due(s, watermark) \subseteq Streamed(s)

StreamsSound == \A s \in Subs \ gone : StreamSound(s)

IInv == Types /\ Behind /\ StreamsSound

-----------------------------------------------------------------------------
(* Four sequences in a row.                                                *)

\* A row of four, and what it means to bracket three.
Row(t, u, v, w) == t \o u \o v \o w

Associate(t, u, v) == (t \o u) \o v = t \o (u \o v)

LEMMA Brackets ==
    ASSUME NEW t \in Seq(Nat), NEW u \in Seq(Nat), NEW v \in Seq(Nat)
    PROVE  Associate(t, u, v)
BY DEF Associate

(* A row of sequences is one sequence, however it is bracketed.            *)
LEMMA RowIsSequence ==
    ASSUME NEW t \in Seq(Nat), NEW u \in Seq(Nat), NEW v \in Seq(Nat), NEW w \in Seq(Nat)
    PROVE  /\ t \o u \o v \o w \in Seq(Nat)
           /\ t \o u \o v \o w = (t \o u) \o (v \o w)
           /\ t \o u \o v \o w = t \o (u \o (v \o w))
<1> DEFINE tu == t \o u
           vw == v \o w
<1>1. /\ tu \in Seq(Nat) /\ tu = t \o u
      /\ vw \in Seq(Nat) /\ vw = v \o w
    BY ConcatProperties
<1> HIDE DEF tu, vw
<1>2. (tu \o v) \o w \in Seq(Nat)
    <2>1. tu \o v \in Seq(Nat)
        BY <1>1, ConcatProperties
    <2> QED
        BY <2>1, ConcatProperties
<1>3. Associate(tu, v, w) /\ Associate(t, u, vw)
    BY <1>1, Brackets
<1>4. (tu \o v) \o w = tu \o vw /\ tu \o vw = t \o (u \o vw)
    BY <1>1, <1>3 DEF Associate
<1>5. QED
    BY <1>1, <1>2, <1>4

(* An entry of a sequence is the sequence of its head and its tail.        *)
LEMMA HeadFirst ==
    ASSUME NEW t \in Seq(Nat), t # <<>>
    PROVE  <<Head(t)>> \in Seq(Nat) /\ Tail(t) \in Seq(Nat) /\ <<Head(t)>> \o Tail(t) = t
OBVIOUS

LEMMA AppendedIsLonger ==
    ASSUME NEW t \in Seq(Nat), NEW i \in Nat
    PROVE  Append(t, i) = t \o <<i>> /\ <<i>> \in Seq(Nat) /\ Append(t, i) \in Seq(Nat)
OBVIOUS

(* The forwarder takes the first entry of its queue.                       *)
LEMMA TakenStaysInTheRow ==
    ASSUME NEW t \in Seq(Nat), NEW u \in Seq(Nat), NEW w \in Seq(Nat), w # <<>>
    PROVE  Row(t, u, <<Head(w)>>, Tail(w)) = Row(t, u, <<>>, w)
<1>1. t \o u \in Seq(Nat)
    BY ConcatProperties
<1>2. <<Head(w)>> \in Seq(Nat) /\ Tail(w) \in Seq(Nat) /\ <<Head(w)>> \o Tail(w) = w
    BY HeadFirst
<1>3. Associate(t \o u, <<Head(w)>>, Tail(w))
    BY <1>1, <1>2, Brackets
<1>4. (t \o u) \o <<>> = t \o u
    BY <1>1, ConcatEmptySeq
<1>5. QED
    BY <1>2, <1>3, <1>4 DEF Associate, Row

(* The forwarder hands over the entry it holds.                            *)
LEMMA HandedStaysInTheRow ==
    ASSUME NEW t \in Seq(Nat), NEW u \in Seq(Nat), NEW v \in Seq(Nat)
    PROVE  \A w : Row(t, u \o v, <<>>, w) = Row(t, u, v, w)
<1>1. u \o v \in Seq(Nat) /\ Associate(t, u, v)
    BY ConcatProperties, Brackets
<1>2. t \o (u \o v) \in Seq(Nat)
    BY <1>1, ConcatProperties
<1>3. (t \o (u \o v)) \o <<>> = t \o (u \o v)
    BY <1>2, ConcatEmptySeq
<1>4. QED
    BY <1>1, <1>3 DEF Row, Associate

(* The client reads the first entry of its buffer.                         *)
LEMMA ReadStaysInTheRow ==
    ASSUME NEW t \in Seq(Nat), NEW u \in Seq(Nat), u # <<>>
    PROVE  \A v, w : Row(Append(t, Head(u)), Tail(u), v, w) = Row(t, u, v, w)
<1>1. <<Head(u)>> \in Seq(Nat) /\ Tail(u) \in Seq(Nat) /\ <<Head(u)>> \o Tail(u) = u
    BY HeadFirst
<1>2. Append(t, Head(u)) = t \o <<Head(u)>>
    BY <1>1, AppendedIsLonger
<1>3. Associate(t, <<Head(u)>>, Tail(u))
    BY <1>1, Brackets
<1>4. QED
    BY <1>1, <1>2, <1>3 DEF Associate, Row

(* The fan-out offers one more entry.                                      *)
LEMMA OfferedEndsTheRow ==
    ASSUME NEW t \in Seq(Nat), NEW w \in Seq(Nat), NEW i \in Nat
    PROVE  t \o Append(w, i) = Append(t \o w, i)
<1>1. Append(w, i) = w \o <<i>> /\ <<i>> \in Seq(Nat) /\ t \o w \in Seq(Nat)
    BY AppendedIsLonger
<1>2. Associate(t, w, <<i>>)
    BY <1>1, Brackets
<1>3. Append(t \o w, i) = (t \o w) \o <<i>>
    BY <1>1, AppendedIsLonger
<1>4. QED
    BY <1>1, <1>2, <1>3 DEF Associate

LEMMA StreamIsSequence ==
    ASSUME Types, NEW s \in Subs
    PROVE  /\ Stream(s) \in Seq(Nat)
           /\ received[s] \in Seq(Nat) /\ buffer[s] \in Seq(Nat)
           /\ held[s] \in Seq(Nat) /\ queue[s] \in Seq(Nat)
BY RowIsSequence DEF Types, Stream

-----------------------------------------------------------------------------
(* What keeps a stream sound.                                              *)

(* The past does not come to owe more: entries stay what they were, and    *)
(* only a subscription on its way in is given a new beginning.             *)
LEMMA DuesOnlyShrink ==
    ASSUME Types, Types', Behind, NEW s \in Subs,
           journal' = journal \/ \E r \in Runs : journal' = Append(journal, r),
           unresolved \subseteq unresolved', since'[s] = since[s]
    PROVE  \A n \in 0..watermark : Due(s, n)' \subseteq Due(s, n)
<1>1. \A i \in 1..Len(journal) : journal'[i] = journal[i]
    <2>1. CASE journal' = journal
        BY <2>1
    <2>2. ASSUME NEW r \in Runs, journal' = Append(journal, r)
          PROVE  \A i \in 1..Len(journal) : journal'[i] = journal[i]
        BY <2>2 DEF Types
    <2>3. QED
        BY <2>1, <2>2
<1>2. watermark \in Nat /\ Len(journal) \in Nat /\ watermark <= Len(journal)
    BY DEF Types, Behind
<1>3. since[s] \in Nat
    BY DEF Types
<1>4. ASSUME NEW n \in 0..watermark, NEW i \in Due(s, n)'
      PROVE  i \in Due(s, n)
    <2>1. i \in since[s] + 1..n
        BY <1>4 DEF Due
    <2>2. journal'[i] = journal[i]
        BY <1>1, <1>2, <1>3, <2>1
    <2>3. QED
        BY <1>4, <2>1, <2>2 DEF Due
<1>5. QED
    BY <1>4

(* A stream that stays as it is stays sound, also when the publisher moves *)
(* on, as long as what it passed over was not due.                         *)
LEMMA Unmoved ==
    ASSUME IInv, NEW s \in Subs, s \notin gone,
           Stream(s)' = Stream(s),
           watermark' \in Nat, watermark <= watermark',
           Unstarted(s)' => Unstarted(s),
           \A n \in 0..watermark : Due(s, n)' \subseteq Due(s, n),
           s \in registered' /\ Listens(s)' => Due(s, watermark)' \subseteq Streamed(s)
    PROVE  StreamSound(s)'
<1>1. StreamSound(s) /\ watermark \in Nat
    BY DEF IInv, StreamsSound, Types
<1>2. Stream(s) \in Seq(Nat)
    BY StreamIsSequence DEF IInv
<1>3. \A j \in DOMAIN Stream(s) : Stream(s)[j] \in 0..watermark
    BY <1>1, <1>2 DEF StreamSound
<1>4. Streamed(s)' = Streamed(s)
    BY DEF Streamed
<1>5. (Unstarted(s)' => Stream(s)' = <<>>)
    BY <1>1 DEF StreamSound
<1>6. \A j \in DOMAIN Stream(s)' : Stream(s)'[j] <= watermark'
    BY <1>1, <1>3
<1>7. Section(s, Stream(s))'
    BY <1>1, <1>3 DEF StreamSound, Section
<1>8. QED
    BY <1>4, <1>5, <1>6, <1>7 DEF StreamSound

(* The end of a stream is lost with its forwarder.                         *)
LEMMA Cut ==
    ASSUME IInv, NEW s \in Subs, s \notin gone,
           NEW t \in Seq(Nat), NEW u \in Seq(Nat),
           Stream(s) = t \o u, Stream(s)' = t, watermark' = watermark,
           ~Unstarted(s)', ~Listens(s)',
           \A n \in 0..watermark : Due(s, n)' \subseteq Due(s, n)
    PROVE  StreamSound(s)'
<1>1. StreamSound(s) /\ watermark \in Nat
    BY DEF IInv, StreamsSound, Types
<1>2. /\ DOMAIN t = 1..Len(t) /\ Len(t) \in Nat
      /\ DOMAIN t \subseteq DOMAIN Stream(s) /\ DOMAIN Stream(s) \subseteq Nat
      /\ \A j \in DOMAIN t : Stream(s)[j] = t[j] /\ t[j] \in Nat
    OBVIOUS
<1>3. \A j \in DOMAIN t : t[j] \in 0..watermark
    BY <1>1, <1>2 DEF StreamSound
<1>4. \A j, k \in DOMAIN t : j < k => t[j] < t[k]
    BY <1>1, <1>2 DEF StreamSound, Section
<1>5. ASSUME NEW j \in DOMAIN t, NEW i \in Due(s, t[j])'
      PROVE  i \in {t[k] : k \in DOMAIN t}
    <2>1. i \in Due(s, t[j])
        BY <1>3, <1>5
    <2>2. i <= t[j]
        BY <2>1, <1>2 DEF Due, IInv, Types
    <2>3. PICK k \in DOMAIN Stream(s) : Stream(s)[k] = i
        BY <1>1, <1>2, <2>1 DEF StreamSound, Section
    <2>4. ~(j < k)
        BY <1>1, <1>2, <2>2, <2>3, <1>3 DEF StreamSound, Section
    <2>5. k \in DOMAIN t
        BY <1>2, <2>3, <2>4
    <2>6. QED
        BY <1>2, <2>3, <2>5
<1>6. Section(s, Stream(s))'
    BY <1>4, <1>5 DEF Section
<1>7. QED
    BY <1>3, <1>6 DEF StreamSound

(* An entry offered makes the stream longer by what was due.               *)
LEMMA Longer ==
    ASSUME IInv, NEW s \in Subs, s \notin gone,
           NEW t \in Seq(Nat), NEW w \in Nat, w = watermark + 1,
           Stream(s) = t, Stream(s)' = Append(t, w), watermark' = w,
           s \in registered, Listens(s), ~Unstarted(s)',
           \A n \in 0..watermark : Due(s, n)' \subseteq Due(s, n),
           Due(s, w)' \subseteq Due(s, watermark) \cup {w}
    PROVE  StreamSound(s)'
<1>1. StreamSound(s) /\ watermark \in Nat
    BY DEF IInv, StreamsSound, Types
<1>2. \A j \in DOMAIN t : t[j] \in 0..watermark
    BY <1>1 DEF StreamSound
<1>3. PICK v \in Seq(Nat) : v = Append(t, w)
    OBVIOUS
<1>4. /\ DOMAIN v = 1..Len(t) + 1 /\ DOMAIN t = 1..Len(t) /\ Len(t) \in Nat
      /\ v[Len(t) + 1] = w
      /\ \A j \in 1..Len(t) : v[j] = t[j]
    BY <1>3
<1>5. \A j, k \in DOMAIN v : j < k => v[j] < v[k]
    <2>1. \A j, k \in DOMAIN t : j < k => t[j] < t[k]
        BY <1>1 DEF StreamSound, Section
    <2>2. ASSUME NEW j \in DOMAIN v, NEW k \in DOMAIN v, j < k
          PROVE  v[j] < v[k]
        <3>1. j \in DOMAIN t /\ v[j] = t[j] /\ t[j] \in Nat /\ t[j] < w
            BY <1>1, <1>2, <1>4, <2>2
        <3>2. CASE k \in DOMAIN t
            BY <1>4, <2>1, <2>2, <3>1, <3>2
        <3>3. CASE k = Len(t) + 1
            BY <1>4, <3>1, <3>3
        <3>4. QED
            BY <1>4, <3>2, <3>3
    <2>3. QED
        BY <2>2
<1>6. {t[k] : k \in DOMAIN t} \subseteq {v[k] : k \in DOMAIN v} /\ w \in {v[k] : k \in DOMAIN v}
    BY <1>4
<1>7. Due(s, w)' \subseteq {v[k] : k \in DOMAIN v}
    BY <1>1, <1>6 DEF StreamSound, Streamed
<1>8. ASSUME NEW j \in DOMAIN v
      PROVE  Due(s, v[j])' \subseteq {v[k] : k \in DOMAIN v}
    <2>1. CASE j \in DOMAIN t
        <3>1. v[j] = t[j] /\ t[j] \in 0..watermark
            BY <1>2, <1>4, <2>1
        <3>2. Due(s, t[j])' \subseteq Due(s, t[j])
            BY <3>1
        <3>3. Due(s, t[j]) \subseteq {t[k] : k \in DOMAIN t}
            BY <1>1, <2>1 DEF StreamSound, Section
        <3>4. QED
            BY <1>6, <3>1, <3>2, <3>3
    <2>2. CASE j = Len(t) + 1
        BY <1>4, <1>7, <2>2
    <2>3. QED
        BY <1>4, <2>1, <2>2
<1>9. Section(s, v)'
    BY <1>5, <1>8 DEF Section
<1>10. \A j \in DOMAIN v : v[j] <= w
    <2>1. \A j \in DOMAIN t : v[j] <= w
        BY <1>1, <1>2, <1>4
    <2>2. \A j \in DOMAIN v : j \in DOMAIN t \/ j = Len(t) + 1
        BY <1>4
    <2>3. v[Len(t) + 1] <= w
        BY <1>4
    <2>4. QED
        BY <2>1, <2>2, <2>3
<1>11. Streamed(s)' = {v[k] : k \in DOMAIN v}
    BY <1>3 DEF Streamed
<1>12. QED
    BY <1>3, <1>7, <1>9, <1>10, <1>11 DEF StreamSound

-----------------------------------------------------------------------------
(* Each step.                                                              *)

\* The part of a step that is the same for every stream it does not touch.
Untouched(s) ==
    /\ received'[s] = received[s] /\ buffer'[s] = buffer[s]
    /\ held'[s] = held[s] /\ queue'[s] = queue[s]

LEMMA UntouchedStream ==
    ASSUME NEW s \in Subs, Untouched(s)
    PROVE  Stream(s)' = Stream(s)
BY DEF Untouched, Stream

(* A stream is sound after a step of somebody else, or after one that only *)
(* hands its entries on.                                                   *)
LEMMA OthersStep ==
    ASSUME IInv, Types', NEW s \in Subs, s \notin gone, s \notin gone',
           Stream(s)' = Stream(s),
           journal' = journal \/ \E r \in Runs : journal' = Append(journal, r),
           watermark' = watermark, unresolved' = unresolved, since'[s] = since[s],
           s \in registered' => s \in registered,
           Listens(s)' => Listens(s), Unstarted(s)' => Unstarted(s)
    PROVE  StreamSound(s)'
<1>1. \A n \in 0..watermark : Due(s, n)' \subseteq Due(s, n)
    BY DuesOnlyShrink DEF IInv
<1>2. watermark \in Nat /\ StreamSound(s)
    BY DEF IInv, Types, StreamsSound
<1>3. Due(s, watermark)' \subseteq Due(s, watermark)
    BY <1>1, <1>2
<1>4. s \in registered' /\ Listens(s)' => Due(s, watermark)' \subseteq Streamed(s)
    BY <1>2, <1>3 DEF StreamSound
<1>5. QED
    BY <1>1, <1>2, <1>4, Unmoved

LEMMA InitIInv == Init => IInv
<1>. SUFFICES ASSUME Init PROVE IInv
    OBVIOUS
<1>1. Types
    BY DEF Init, Types, Nothing, Stages
<1>2. Behind
    BY DEF Init, Behind
<1>3. ASSUME NEW s \in Subs
      PROVE  StreamSound(s)
    <2>1. Stream(s) = <<>>
        BY DEF Init, Stream, Nothing
    <2>2. s \notin registered
        BY DEF Init
    <2>3. QED
        BY <2>1, <2>2 DEF StreamSound, Section
<1>4. QED
    BY <1>1, <1>2, <1>3 DEF IInv, StreamsSound

LEMMA JournalKeeps ==
    ASSUME IInv, NEW r \in Runs, Journal(r)
    PROVE  IInv'
<1>1. Types'
    BY DEF IInv, Types, Journal, publisher, forwarder, known
<1>2. Len(journal') = Len(journal) + 1 /\ Len(journal) \in Nat
    BY DEF IInv, Types, Journal
<1>3. Behind'
    BY <1>2 DEF IInv, Types, Behind, Journal, publisher
<1>4. ASSUME NEW s \in Subs \ gone'
      PROVE  StreamSound(s)'
    <2>1. Stream(s)' = Stream(s)
        BY DEF Journal, forwarder, Stream
    <2>2. QED
        BY <1>1, <2>1, OthersStep
        DEF Journal, publisher, forwarder, known, Listens, Unstarted
<1>5. QED
    BY <1>1, <1>3, <1>4 DEF IInv, StreamsSound

(* With nobody registered the publisher may move on: nothing is due of the *)
(* entries it passes over.                                                 *)
LEMMA ReadingKeeps ==
    ASSUME IInv, ReadHead \/ CountSubscribers \/ ReadTail
    PROVE  IInv'
<1>1. /\ UNCHANGED <<journal, known, registered, queue, stage, forwarder, gone, since>>
      /\ watermark' = watermark \/ (watermark' = seen /\ phase = "count" /\ registered = {})
    BY DEF ReadHead, CountSubscribers, ReadTail
<1>2. Types'
    <2>1. seen' \in Nat
        BY DEF IInv, Types, ReadHead, CountSubscribers, ReadTail, Fails
    <2>2. upto' \in Nat
        <3>1. CASE ReadTail
            BY <3>1, FeedAssumption DEF IInv, Types, ReadTail
        <3>2. QED
            BY <3>1 DEF IInv, Types, ReadHead, CountSubscribers
    <2>3. QED
        BY <1>1, <2>1, <2>2 DEF IInv, Types, forwarder
<1>3. Behind'
    <2>1. CASE ReadHead
        BY <2>1 DEF IInv, Types, Behind, ReadHead
    <2>2. CASE CountSubscribers
        BY <2>2 DEF IInv, Types, Behind, CountSubscribers
    <2>3. CASE ReadTail
        BY <2>3, FeedAssumption DEF IInv, Types, Behind, ReadTail
    <2>4. QED
        BY <2>1, <2>2, <2>3
<1>4. watermark' \in Nat /\ watermark <= watermark'
    BY <1>1, <1>2 DEF IInv, Types, Behind
<1>5. ASSUME NEW s \in Subs \ gone'
      PROVE  StreamSound(s)'
    <2>1. Stream(s)' = Stream(s)
        BY <1>1 DEF forwarder, Stream
    <2>2. Due(s, watermark)' = Due(s, watermark) \/ registered' = {}
        BY <1>1 DEF Due, known
    <2>3. \A n \in 0..watermark : Due(s, n)' = Due(s, n)
        BY <1>1 DEF Due, known
    <2>4. s \in registered' /\ Listens(s)' => Due(s, watermark)' \subseteq Streamed(s)
        BY <1>1, <2>2 DEF IInv, StreamsSound, StreamSound, Listens
    <2>5. Unstarted(s)' => Unstarted(s)
        BY <1>1 DEF Unstarted
    <2>6. QED
        BY <1>1, <1>4, <2>1, <2>3, <2>4, <2>5, Unmoved
<1>6. QED
    BY <1>2, <1>3, <1>5 DEF IInv, StreamsSound

(* An entry published is at the end of every stream that is owed it, or    *)
(* its subscription is registered no longer.                               *)
LEMMA PublishKeeps ==
    ASSUME IInv, PublishNext
    PROVE  IInv'
<1>. DEFINE i == watermark + 1
<1>1. PICK found \in BOOLEAN :
        /\ Publish(i, found)
        /\ unresolved' = IF found THEN unresolved ELSE unresolved \cup {i}
    BY DEF PublishNext
<1>. DEFINE asked == {s \in registered : Wants(s, journal[i], found)}
            taken == {s \in asked : Listens(s) /\ Len(queue[s]) < Backlog}
<1>2. /\ queue' = [s \in Subs |-> IF s \in taken THEN Append(queue[s], i) ELSE queue[s]]
      /\ registered' = (registered \ asked) \cup taken
    BY <1>1 DEF Publish
<1>3. /\ watermark' = i /\ watermark \in Nat /\ i \in Nat
      /\ watermark < upto /\ upto <= Len(journal) /\ upto \in Nat /\ Len(journal) \in Nat
      /\ UNCHANGED <<journal, seen, stage, held, buffer, received, gone, since>>
    BY DEF IInv, Types, Behind, PublishNext, forwarder
<1>4. Types'
    <2>1. queue' \in [Subs -> Seq(Nat)]
        <3>1. \A s \in Subs : queue[s] \in Seq(Nat) /\ Append(queue[s], i) \in Seq(Nat)
            BY <1>3 DEF IInv, Types
        <3>2. QED
            BY <1>2, <3>1
    <2>2. upto' \in Nat
        BY DEF IInv, Types, PublishNext
    <2>3. registered' \subseteq Subs
        BY <1>2 DEF IInv, Types
    <2>4. QED
        BY <1>3, <2>1, <2>2, <2>3 DEF IInv, Types
<1>5. Behind'
    <2>1. phase' = "publish" => watermark' < upto /\ upto' = upto
        BY <1>3 DEF PublishNext
    <2>2. phase' # "count"
        BY DEF PublishNext
    <2>3. QED
        BY <1>3, <2>1, <2>2 DEF Behind
<1>6. ASSUME NEW s \in Subs \ gone'
      PROVE  StreamSound(s)'
    <2>1. unresolved \subseteq unresolved'
        BY <1>1
    <2>2. \A n \in 0..watermark : Due(s, n)' \subseteq Due(s, n)
        BY <1>3, <1>4, <2>1, DuesOnlyShrink DEF IInv
    <2>3. Stream(s) \in Seq(Nat) /\ StreamSound(s)
        BY <1>3, StreamIsSequence DEF IInv, StreamsSound
    <2>4. PICK w \in Nat : w = i
        BY <1>3
    <2>5. Due(s, w)' \subseteq Due(s, watermark) \cup {w}
        <3>1. ASSUME NEW k \in Due(s, w)', k # w
              PROVE  k \in Due(s, watermark)
            <4>1. since[s] \in Nat /\ k \in since[s] + 1..w
                BY <1>3, <3>1 DEF Due, IInv, Types
            <4>2. k \in since[s] + 1..watermark
                BY <1>3, <2>4, <3>1, <4>1
            <4>3. QED
                BY <1>3, <2>1, <3>1, <4>2 DEF Due
        <3>2. QED
            BY <3>1
    <2>6. CASE s \in taken
        <3>1. queue'[s] = Append(queue[s], w)
            BY <1>2, <2>4, <2>6
        <3>2. Stream(s)' = Append(Stream(s), w)
            <4>1. /\ received[s] \in Seq(Nat) /\ buffer[s] \in Seq(Nat)
                  /\ held[s] \in Seq(Nat) /\ queue[s] \in Seq(Nat)
                BY <1>3, StreamIsSequence DEF IInv
            <4>2. PICK t \in Seq(Nat) : t = received[s] \o buffer[s] \o held[s]
                BY <4>1, ConcatProperties
            <4>3. t \o Append(queue[s], w) = Append(t \o queue[s], w)
                BY <4>1, OfferedEndsTheRow
            <4>4. QED
                BY <1>3, <3>1, <4>2, <4>3 DEF Stream
        <3>3. s \in registered /\ Listens(s) /\ ~Unstarted(s)'
            BY <1>3, <2>6 DEF Listens, Unstarted
        <3>. HIDE DEF taken, asked
        <3>4. QED
            BY <1>3, <2>2, <2>3, <2>4, <2>5, <3>2, <3>3, Longer
    <2>7. CASE s \notin taken
        <3>1. Untouched(s)
            BY <1>2, <1>3, <2>7 DEF Untouched
        <3>2. s \in registered' => s \in registered /\ ~Wants(s, journal[i], found)
            BY <1>2, <2>7
        <3>3. s \in registered' => w \notin Due(s, w)'
            BY <1>1, <1>3, <2>4, <3>2 DEF Due, Wants
        <3>4. s \in registered' /\ Listens(s)' => Due(s, watermark)' \subseteq Streamed(s)
            <4>1. Listens(s)' <=> Listens(s)
                BY <1>3 DEF Listens
            <4>2. Due(s, watermark)' = Due(s, w)'
                BY <1>3, <2>4 DEF Due
            <4>3. QED
                BY <2>3, <2>5, <3>2, <3>3, <4>1, <4>2 DEF StreamSound
        <3>5. Unstarted(s)' => Unstarted(s)
            BY <1>3 DEF Unstarted
        <3>. HIDE DEF taken, asked
        <3>6. QED
            BY <1>3, <2>2, <3>1, <3>4, <3>5, UntouchedStream, Unmoved
    <2>8. QED
        BY <2>6, <2>7
<1>7. QED
    BY <1>4, <1>5, <1>6 DEF IInv, StreamsSound

(* On its way in: nothing is due before the core registered it.            *)
LEMMA CallKeeps ==
    ASSUME IInv, NEW s \in Subs, TakeSlot(s) \/ CallNext(s)
    PROVE  IInv'
<1>1. /\ UNCHANGED <<journal, publisher, queue, forwarder, gone>>
      /\ stage[s] \in {"none", "calling", "orphaned", "opening"}
      /\ \E next \in Stages : Stage(s, next)
      /\ \/ UNCHANGED <<registered, since>>
         \/ Register(s)
    BY DEF TakeSlot, CallNext, Register, CallFails, StartForwarder, Stage, Stages
<1>2. Types'
    <2>1. Len(journal) \in Nat
        BY DEF IInv, Types
    <2>2. since' \in [Subs -> Nat] /\ registered' \subseteq Subs
        BY <1>1, <2>1 DEF IInv, Types, Register
    <2>3. QED
        BY <1>1, <2>2 DEF IInv, Types, publisher, forwarder, Stage
<1>3. Behind'
    BY <1>1 DEF IInv, Behind, publisher
<1>4. \A o \in Subs : Stream(o)' = Stream(o)
    BY <1>1 DEF forwarder, Stream
<1>5. ASSUME NEW o \in Subs \ gone', o # s
      PROVE  StreamSound(o)'
    <2>1. stage'[o] = stage[o] /\ since'[o] = since[o]
        BY <1>1, <1>5 DEF IInv, Types, Stage, Register
    <2>2. o \in registered' => o \in registered
        BY <1>1, <1>5 DEF Register
    <2>3. QED
        BY <1>1, <1>2, <1>4, <2>1, <2>2, OthersStep
        DEF publisher, known, Listens, Unstarted
<1>6. ASSUME s \notin gone'
      PROVE  StreamSound(s)'
    <2>1. StreamSound(s)
        BY <1>1, <1>6 DEF IInv, StreamsSound
    <2>2. CASE Unstarted(s)
        <3>1. Stream(s)' = <<>>
            BY <1>4, <2>1, <2>2 DEF StreamSound
        <3>2. Due(s, watermark)' = {} \/ ~(s \in registered' /\ Listens(s)')
            <4>1. CASE Register(s)
                <5>1. since'[s] = Len(journal)
                    BY <4>1 DEF Register, IInv, Types
                <5>2. watermark \in Nat /\ Len(journal) \in Nat /\ watermark <= Len(journal)
                    BY DEF IInv, Types, Behind
                <5>3. watermark' = watermark
                    BY <1>1 DEF publisher
                <5>4. QED
                    BY <5>1, <5>2, <5>3 DEF Due
            <4>2. CASE ~Register(s)
                <5>1. ~Listens(s)'
                    BY <1>6, <2>2, <4>2
                    DEF TakeSlot, CallNext, CallFails, StartForwarder, Stage, IInv, Types,
                        Unstarted, Listens
                <5>2. QED
                    BY <5>1
            <4>3. QED
                BY <4>1, <4>2
        <3>3. QED
            BY <3>1, <3>2 DEF StreamSound, Section
    <2>3. CASE ~Unstarted(s)
        <3>1. StartForwarder(s)
            BY <2>3 DEF TakeSlot, CallNext, Register, CallFails, Unstarted
        <3>2. /\ stage[s] = "opening" /\ stage'[s] = "live"
              /\ UNCHANGED <<registered, since>>
            BY <3>1 DEF StartForwarder, Stage, IInv, Types
        <3>3. QED
            BY <1>1, <1>2, <1>4, <1>6, <3>2, OthersStep
            DEF publisher, known, Listens, Unstarted
    <2>4. QED
        BY <2>2, <2>3
<1>7. QED
    BY <1>2, <1>3, <1>5, <1>6 DEF IInv, StreamsSound

(* An entry goes from one sequence of the row to the next.                 *)
LEMMA HandingOnKeeps ==
    ASSUME IInv, NEW s \in Subs, Take(s) \/ HandOver(s) \/ ClientReads(s)
    PROVE  IInv'
<1>1. UNCHANGED <<journal, publisher, registered, stage, gone, since>>
    BY DEF Take, HandOver, ClientReads
<1>2. /\ received[s] \in Seq(Nat) /\ buffer[s] \in Seq(Nat)
      /\ held[s] \in Seq(Nat) /\ queue[s] \in Seq(Nat)
    BY StreamIsSequence DEF IInv
<1>3. /\ queue' \in [Subs -> Seq(Nat)] /\ held' \in [Subs -> Seq(Nat)]
      /\ buffer' \in [Subs -> Seq(Nat)] /\ received' \in [Subs -> Seq(Nat)]
      /\ \A o \in Subs \ {s} : Untouched(o)
      /\ Stream(s)' = Stream(s)
    <2>1. CASE Take(s)
        <3>1. /\ queue[s] # <<>> /\ held[s] = <<>>
              /\ held' = [held EXCEPT ![s] = <<Head(queue[s])>>]
              /\ queue' = [queue EXCEPT ![s] = Tail(queue[s])]
              /\ UNCHANGED <<buffer, received>>
            BY <2>1 DEF Take
        <3>2. <<Head(queue[s])>> \in Seq(Nat) /\ Tail(queue[s]) \in Seq(Nat)
            BY <1>2, <3>1, HeadFirst
        <3>3. Row(received[s], buffer[s], <<Head(queue[s])>>, Tail(queue[s]))
                = Row(received[s], buffer[s], <<>>, queue[s])
            BY <1>2, <3>1, TakenStaysInTheRow
        <3>4. held'[s] = <<Head(queue[s])>> /\ queue'[s] = Tail(queue[s])
            BY <3>1 DEF IInv, Types
        <3>5. Stream(s)' = Stream(s)
            BY <3>1, <3>3, <3>4 DEF Stream, Row
        <3>6. QED
            BY <3>1, <3>2, <3>5 DEF IInv, Types, Untouched
    <2>2. CASE HandOver(s)
        <3>1. /\ buffer' = [buffer EXCEPT ![s] = buffer[s] \o held[s]]
              /\ held' = [held EXCEPT ![s] = <<>>]
              /\ UNCHANGED <<queue, received>>
            BY <2>2 DEF HandOver
        <3>2. buffer[s] \o held[s] \in Seq(Nat)
            BY <1>2, ConcatProperties
        <3>3. Row(received[s], buffer[s] \o held[s], <<>>, queue[s])
                = Row(received[s], buffer[s], held[s], queue[s])
            BY <1>2, HandedStaysInTheRow
        <3>4. buffer'[s] = buffer[s] \o held[s] /\ held'[s] = <<>>
            BY <3>1 DEF IInv, Types
        <3>5. Stream(s)' = Stream(s)
            BY <3>1, <3>3, <3>4 DEF Stream, Row
        <3>6. QED
            BY <3>1, <3>2, <3>5 DEF IInv, Types, Untouched
    <2>3. CASE ClientReads(s)
        <3>1. /\ buffer[s] # <<>>
              /\ received' = [received EXCEPT ![s] = Append(received[s], Head(buffer[s]))]
              /\ buffer' = [buffer EXCEPT ![s] = Tail(buffer[s])]
              /\ UNCHANGED <<queue, held>>
            BY <2>3 DEF ClientReads
        <3>2. Append(received[s], Head(buffer[s])) \in Seq(Nat) /\ Tail(buffer[s]) \in Seq(Nat)
            BY <1>2, <3>1
        <3>3. Row(Append(received[s], Head(buffer[s])), Tail(buffer[s]), held[s], queue[s])
                = Row(received[s], buffer[s], held[s], queue[s])
            BY <1>2, <3>1, ReadStaysInTheRow
        <3>4. /\ received'[s] = Append(received[s], Head(buffer[s]))
              /\ buffer'[s] = Tail(buffer[s])
            BY <3>1 DEF IInv, Types
        <3>5. Stream(s)' = Stream(s)
            BY <3>1, <3>3, <3>4 DEF Stream, Row
        <3>6. QED
            BY <3>1, <3>2, <3>5 DEF IInv, Types, Untouched
    <2>4. QED
        BY <2>1, <2>2, <2>3
<1>4. Types'
    BY <1>1, <1>3 DEF IInv, Types, publisher
<1>5. Behind'
    BY <1>1 DEF IInv, Behind, publisher
<1>6. ASSUME NEW o \in Subs \ gone'
      PROVE  StreamSound(o)'
    <2>1. Stream(o)' = Stream(o)
        BY <1>3, UntouchedStream
    <2>2. QED
        BY <1>1, <1>4, <2>1, OthersStep DEF publisher, known, Listens, Unstarted
<1>7. QED
    BY <1>4, <1>5, <1>6 DEF IInv, StreamsSound

(* A stream loses its end with its forwarder, and all of itself with its   *)
(* client.                                                                 *)
LEMMA EndingKeeps ==
    ASSUME IInv, NEW s \in Subs, HangUp(s) \/ ForwarderEnds(s)
    PROVE  IInv'
<1>1. /\ UNCHANGED <<journal, publisher, registered, since>>
      /\ \/ UNCHANGED stage \/ \E next \in Stages : Stage(s, next)
      /\ UNCHANGED queue \/ queue' = [queue EXCEPT ![s] = <<>>]
      /\ UNCHANGED held \/ held' = [held EXCEPT ![s] = <<>>]
      /\ UNCHANGED buffer \/ buffer' = [buffer EXCEPT ![s] = <<>>]
      /\ UNCHANGED received \/ received' = [received EXCEPT ![s] = <<>>]
      /\ gone \subseteq gone' /\ gone' \subseteq gone \cup {s}
    BY DEF HangUp, ForwarderEnds, Ends, Stage, Stages
<1>2. Types'
    <2>1. <<>> \in Seq(Nat)
        OBVIOUS
    <2>2. queue' \in [Subs -> Seq(Nat)] /\ held' \in [Subs -> Seq(Nat)]
        <3>1. queue' \in [Subs -> Seq(Nat)]
            BY <1>1, <2>1 DEF IInv, Types
        <3>2. held' \in [Subs -> Seq(Nat)]
            BY <1>1, <2>1 DEF IInv, Types
        <3> QED
            BY <3>1, <3>2
    <2>3. buffer' \in [Subs -> Seq(Nat)] /\ received' \in [Subs -> Seq(Nat)]
        <3>1. buffer' \in [Subs -> Seq(Nat)]
            BY <1>1, <2>1 DEF IInv, Types
        <3>2. received' \in [Subs -> Seq(Nat)]
            BY <1>1, <2>1 DEF IInv, Types
        <3> QED
            BY <3>1, <3>2
    <2>4. stage' \in [Subs -> Stages]
        BY <1>1 DEF IInv, Types, Stage
    <2>5. gone' \subseteq Subs
        BY <1>1 DEF IInv, Types
    <2>6. QED
        BY <1>1, <2>2, <2>3, <2>4, <2>5 DEF IInv, Types, publisher
<1>3. Behind'
    BY <1>1 DEF IInv, Behind, publisher
<1>4. ASSUME NEW o \in Subs \ gone', o # s
      PROVE  StreamSound(o)'
    <2>1. Untouched(o)
        BY <1>1, <1>4 DEF IInv, Types, Untouched
    <2>2. stage'[o] = stage[o]
        BY <1>1, <1>4 DEF IInv, Types, Stage
    <2>3. QED
        BY <1>1, <1>2, <1>4, <2>1, <2>2, UntouchedStream, OthersStep
        DEF publisher, known, Listens, Unstarted
<1>5. ASSUME s \notin gone'
      PROVE  StreamSound(s)'
    <2>1. /\ ForwarderEnds(s) /\ s \notin gone
          /\ stage'[s] = "ended"
          /\ queue'[s] = <<>> /\ held'[s] = <<>>
          /\ buffer'[s] = buffer[s] /\ received'[s] = received[s]
        BY <1>5 DEF HangUp, ForwarderEnds, Ends, Stage, IInv, Types
    <2>2. /\ received[s] \in Seq(Nat) /\ buffer[s] \in Seq(Nat)
          /\ held[s] \in Seq(Nat) /\ queue[s] \in Seq(Nat)
        BY StreamIsSequence DEF IInv
    <2>3. PICK t \in Seq(Nat) : t = received[s] \o buffer[s]
        BY <2>2, ConcatProperties
    <2>4. PICK u \in Seq(Nat) : u = held[s] \o queue[s]
        BY <2>2, ConcatProperties
    <2>5. Stream(s) = t \o u
        <3>1. Associate(t, held[s], queue[s])
            BY <2>2, <2>4, Brackets
        <3>2. QED
            BY <2>3, <2>4, <3>1 DEF Stream, Associate
    <2>6. Stream(s)' = t
        <3>1. t \o <<>> = t /\ (t \o <<>>) \o <<>> = t
            BY ConcatEmptySeq
        <3>2. QED
            BY <2>1, <2>3, <3>1 DEF Stream
    <2>7. \A n \in 0..watermark : Due(s, n)' \subseteq Due(s, n)
        BY <1>1, <1>2, DuesOnlyShrink DEF IInv, publisher, known
    <2>8. QED
        BY <1>1, <2>1, <2>5, <2>6, <2>7, Cut DEF publisher, Unstarted, Listens
<1>6. QED
    BY <1>2, <1>3, <1>4, <1>5 DEF IInv, StreamsSound

LEMMA StutterKeeps ==
    ASSUME IInv, UNCHANGED vars
    PROVE  IInv'
<1>1. Types'
    BY DEF IInv, Types, vars, publisher, forwarder
<1>2. Behind'
    BY DEF IInv, Behind, vars, publisher
<1>3. ASSUME NEW s \in Subs \ gone'
      PROVE  StreamSound(s)'
    <2>1. Stream(s)' = Stream(s)
        BY DEF vars, forwarder, Stream
    <2>2. QED
        BY <1>1, <2>1, OthersStep DEF vars, publisher, known, Listens, Unstarted
<1>4. QED
    BY <1>1, <1>2, <1>3 DEF IInv, StreamsSound

LEMMA InvariantHolds == Spec => []IInv
<1>1. IInv /\ [Next]_vars => IInv'
    <2>. SUFFICES ASSUME IInv, [Next]_vars PROVE IInv'
        OBVIOUS
    <2>1. CASE \E r \in Runs : Journal(r)
        BY <2>1, JournalKeeps
    <2>2. CASE PublisherNext
        BY <2>2, ReadingKeeps, PublishKeeps DEF PublisherNext
    <2>3. ASSUME NEW s \in Subs, CallNext(s) \/ ForwarderNext(s) \/ ClientNext(s)
          PROVE  IInv'
        BY <2>3, CallKeeps, HandingOnKeeps, EndingKeeps DEF ForwarderNext, ClientNext
    <2>4. CASE UNCHANGED vars
        BY <2>4, StutterKeeps
    <2>5. QED
        BY <2>1, <2>2, <2>3, <2>4 DEF Next
<1>2. QED
    BY <1>1, InitIInv, PTL DEF Spec

-----------------------------------------------------------------------------
(* What a client may rely on.                                              *)

(* A stream is an unbroken section of the journal: whatever a subscription *)
(* races with, whatever fails or overflows, for any number of              *)
(* subscriptions and entries and any sizes of the queues.                  *)
THEOREM StreamTheorem == Spec => []StreamHasNoHole
<1>1. ASSUME IInv, NEW s \in Subs \ gone
      PROVE  HasNoHole(s)
    <2>1. StreamSound(s) /\ Stream(s) \in Seq(Nat)
        BY <1>1, StreamIsSequence DEF IInv, StreamsSound
    <2>2. PICK t \in Seq(Nat) : t = Stream(s)
        BY <2>1
    <2>3. \A i \in 1..Len(t) - 1 : t[i] < t[i + 1]
        BY <2>1, <2>2 DEF StreamSound, Section
    <2>4. t # <<>> => Len(t) \in DOMAIN t
        OBVIOUS
    <2>5. t # <<>> => Due(s, t[Len(t)]) \subseteq Streamed(s)
        BY <2>1, <2>2, <2>4 DEF StreamSound, Section, Streamed
    <2>6. QED
        BY <2>1, <2>2, <2>3, <2>5 DEF HasNoHole, StreamSound
<1>2. IInv => StreamHasNoHole
    BY <1>1 DEF StreamHasNoHole
<1>3. QED
    BY <1>2, InvariantHolds, PTL

Holding == {s \in Subs : stage[s] \in {"calling", "opening", "live"}}

\* What a step does to the slots, and to the subscriptions that hold one.
SlotStep ==
    \/ slots' = slots /\ Holding' = Holding
    \/ \E s \in Subs \ Holding :
         slots < Ceiling /\ slots' = slots + 1 /\ Holding' = Holding \cup {s}
    \/ \E s \in Holding : slots' = slots - 1 /\ Holding' = Holding \ {s}

(* A subscription that changes its stage, and no other.                    *)
LEMMA StageMoves ==
    ASSUME Types, NEW s \in Subs, NEW next \in Stages, Stage(s, next)
    PROVE  /\ next \in {"calling", "opening", "live"} => Holding' = Holding \cup {s}
           /\ next \notin {"calling", "opening", "live"} => Holding' = Holding \ {s}
<1>1. stage'[s] = next /\ \A o \in Subs \ {s} : stage'[o] = stage[o]
    BY DEF Types, Stage
<1>2. QED
    BY <1>1 DEF Holding

LEMMA StepOfTheSlots ==
    ASSUME Types, [Next]_vars
    PROVE  SlotStep
<1>1. CASE UNCHANGED <<stage, slots>>
    BY <1>1 DEF SlotStep, Holding
<1>2. ASSUME NEW s \in Subs, TakeSlot(s)
      PROVE  SlotStep
    <2>1. s \notin Holding /\ slots < Ceiling /\ slots' = slots + 1 /\ Stage(s, "calling")
        BY <1>2 DEF TakeSlot, Holding
    <2>2. Holding' = Holding \cup {s}
        BY <2>1, StageMoves DEF Stages
    <2>3. QED
        BY <2>1, <2>2 DEF SlotStep
<1>3. ASSUME NEW s \in Subs, Register(s)
      PROVE  SlotStep
    <2>1. CASE stage[s] = "calling"
        <3>1. Stage(s, "opening") /\ s \in Holding /\ slots' = slots
            BY <1>3, <2>1 DEF Register, Holding
        <3>2. Holding' = Holding \cup {s}
            BY <3>1, StageMoves DEF Stages
        <3>3. QED
            BY <3>1, <3>2 DEF SlotStep
    <2>2. CASE stage[s] = "orphaned"
        <3>1. Stage(s, "ended") /\ s \notin Holding /\ slots' = slots
            BY <1>3, <2>2 DEF Register, Holding
        <3>2. Holding' = Holding \ {s}
            BY <3>1, StageMoves DEF Stages
        <3>3. QED
            BY <3>1, <3>2 DEF SlotStep
    <2>3. QED
        BY <1>3, <2>1, <2>2 DEF Register
<1>4. ASSUME NEW s \in Subs, CallFails(s)
      PROVE  SlotStep
    <2>1. Stage(s, "ended")
        BY <1>4 DEF CallFails
    <2>2. Holding' = Holding \ {s}
        BY <2>1, StageMoves DEF Stages
    <2>3. IF s \in Holding THEN slots' = slots - 1 ELSE slots' = slots
        BY <1>4 DEF CallFails, Holding
    <2>4. QED
        BY <2>2, <2>3 DEF SlotStep
<1>5. ASSUME NEW s \in Subs, StartForwarder(s)
      PROVE  SlotStep
    <2>1. Stage(s, "live") /\ s \in Holding /\ slots' = slots
        BY <1>5 DEF StartForwarder, Holding
    <2>2. Holding' = Holding \cup {s}
        BY <2>1, StageMoves DEF Stages
    <2>3. QED
        BY <2>1, <2>2 DEF SlotStep
<1>6. ASSUME NEW s \in Subs, HangUp(s)
      PROVE  SlotStep
    <2>1. CASE stage[s] = "live"
        BY <1>1, <1>6, <2>1 DEF HangUp
    <2>2. CASE stage[s] # "live"
        <3>1. s \in Holding /\ slots' = slots - 1 /\ (Stage(s, "orphaned") \/ Stage(s, "ended"))
            BY <1>6, <2>2 DEF HangUp, Ends, Holding
        <3>2. Holding' = Holding \ {s}
            BY <3>1, StageMoves DEF Stages
        <3>3. QED
            BY <3>1, <3>2 DEF SlotStep
    <2>3. QED
        BY <2>1, <2>2
<1>7. ASSUME NEW s \in Subs, ForwarderEnds(s)
      PROVE  SlotStep
    <2>1. s \in Holding /\ slots' = slots - 1 /\ Stage(s, "ended")
        BY <1>7 DEF ForwarderEnds, Ends, Holding
    <2>2. Holding' = Holding \ {s}
        BY <2>1, StageMoves DEF Stages
    <2>3. QED
        BY <2>1, <2>2 DEF SlotStep
<1>8. ASSUME NEW s \in Subs, CallNext(s) \/ ForwarderNext(s) \/ ClientNext(s)
      PROVE  SlotStep
    <2>1. Take(s) \/ HandOver(s) \/ ClientReads(s) => UNCHANGED <<stage, slots>>
        BY DEF Take, HandOver, ClientReads
    <2>2. QED
        BY <1>1, <1>2, <1>3, <1>4, <1>5, <1>6, <1>7, <1>8, <2>1
        DEF CallNext, ForwarderNext, ClientNext
<1>9. (\E r \in Runs : Journal(r)) \/ PublisherNext => UNCHANGED <<stage, slots>>
    BY DEF Journal, PublisherNext, ReadHead, CountSubscribers, ReadTail, PublishNext
<1>10. UNCHANGED vars => UNCHANGED <<stage, slots>>
    BY DEF vars
<1>11. QED
    BY <1>1, <1>8, <1>9, <1>10 DEF Next

(* The ceiling is a ceiling of threads: each slot is one request or one    *)
(* forwarder, taken once and given back once, for any number of            *)
(* subscriptions and any ceiling.                                          *)
THEOREM SlotsTheorem == Spec => []SlotsAreThreads
<1>. DEFINE Count == slots = Cardinality(Holding) /\ slots <= Ceiling
<1>1. \A H \in SUBSET Subs : IsFiniteSet(H) /\ Cardinality(H) \in Nat
    BY FS_Subset, FS_CardinalityType, FeedAssumption
<1>2. Holding \in SUBSET Subs
    BY DEF Holding
<1>3. Init => Count
    <2>1. Init => Holding = {}
        BY DEF Init, Holding
    <2>2. Cardinality({}) = 0
        BY FS_EmptySet
    <2>3. Init => slots = 0 /\ 0 <= Ceiling
        BY FeedAssumption DEF Init
    <2>4. QED
        BY <2>1, <2>2, <2>3
<1>4. IInv /\ Count /\ [Next]_vars => Count'
    <2>. SUFFICES ASSUME IInv, Count, [Next]_vars PROVE Count'
        OBVIOUS
    <2>1. IsFiniteSet(Holding) /\ slots \in Nat /\ Ceiling \in Nat
        BY <1>1, <1>2, FeedAssumption
    <2>2. CASE slots' = slots /\ Holding' = Holding
        BY <2>2
    <2>3. ASSUME NEW s \in Subs \ Holding, slots < Ceiling, slots' = slots + 1,
                 Holding' = Holding \cup {s}
          PROVE  Count'
        BY <2>1, <2>3, FS_AddElement
    <2>4. ASSUME NEW s \in Holding, slots' = slots - 1, Holding' = Holding \ {s}
          PROVE  Count'
        BY <2>1, <2>4, FS_RemoveElement
    <2>5. QED
        BY <2>2, <2>3, <2>4, StepOfTheSlots DEF IInv, SlotStep
<1>5. Count => SlotsAreThreads
    BY DEF SlotsAreThreads, Holding
<1>6. QED
    BY <1>3, <1>4, <1>5, InvariantHolds, PTL DEF Spec

-----------------------------------------------------------------------------
(* What each place holds, and how much of it.                              *)

Memory == [run : Runs, found : BOOLEAN]

\* At most n entries of the journal.
Few(t, n) == t \in Positions /\ Len(t) <= n

Remembers == memo \in Seq(Memory) /\ Len(memo) <= Memo

Reads ==
    /\ Len(journal) <= MaxEntries
    /\ phase \in {"head", "count", "tail", "publish"}
    /\ unresolved \subseteq Nat
    /\ failures \in Nat

Holds(s) ==
    /\ Few(queue[s], Backlog)
    /\ Few(held[s], 1)
    /\ Few(buffer[s], Buffer)
    /\ received[s] \in Positions

Bounds == Remembers /\ Reads /\ \A s \in Subs : Holds(s)

(* A use of the memo takes the run's entry out, or makes room for one.     *)
LEMMA Remembered ==
    ASSUME Remembers, NEW r \in Runs, NEW found \in BOOLEAN, Remember(r, found)
    PROVE  Remembers'
<1> DEFINE entry == [run |-> r, found |-> found]
<1>1. entry \in Memory /\ Memo \in Nat \ {0}
    BY FeedAssumption DEF Memory, FeedAssumption
<1>2. memo \in Seq(Memory) /\ Len(memo) \in Nat /\ Len(memo) <= Memo /\ DOMAIN memo = 1..Len(memo)
    BY DEF Remembers
<1> HIDE DEF entry
<1>3. ASSUME NEW t \in Seq(Memory), Len(t) < Memo, memo' = Append(t, entry)
      PROVE  Remembers'
    <2>1. Append(t, entry) \in Seq(Memory) /\ Len(Append(t, entry)) = Len(t) + 1 /\ Len(t) \in Nat
        BY <1>1
    <2>2. QED
        BY <1>1, <1>3, <2>1 DEF Remembers
<1>4. ASSUME NEW i \in DOMAIN memo
      PROVE  RemoveAt(memo, i) \in Seq(Memory) /\ Len(RemoveAt(memo, i)) < Memo
    <2> DEFINE before == SubSeq(memo, 1, i - 1)
               after == SubSeq(memo, i + 1, Len(memo))
    <2>1. i \in 1..Len(memo)
        BY <1>2
    <2>2. before \in Seq(Memory) /\ Len(before) = i - 1
        <3>1. \A j \in 1 .. i - 1 : memo[j] \in Memory
            BY <1>2, <2>1
        <3>2. QED
            BY <1>2, <2>1, <3>1, SubSeqProperties
    <2>3. after \in Seq(Memory) /\ Len(after) = Len(memo) - i
        <3>1. \A j \in i + 1 .. Len(memo) : memo[j] \in Memory
            BY <1>2, <2>1
        <3>2. QED
            BY <1>2, <2>1, <3>1, SubSeqProperties
    <2>4. RemoveAt(memo, i) = before \o after
        BY DEF RemoveAt
    <2> HIDE DEF before, after
    <2>5. before \o after \in Seq(Memory) /\ Len(before \o after) = Len(before) + Len(after)
        BY <2>2, <2>3, ConcatProperties
    <2>6. QED
        BY <1>1, <1>2, <2>1, <2>2, <2>3, <2>4, <2>5
<1>5. ASSUME NEW i \in Places(r), memo' = Append(RemoveAt(memo, i), entry)
      PROVE  Remembers'
    <2>1. i \in DOMAIN memo
        BY <1>5 DEF Places
    <2>2. QED
        BY <1>3, <1>4, <1>5, <2>1
<1>6. ASSUME memo' = Append(IF Len(memo) = Memo THEN Tail(memo) ELSE memo, entry)
      PROVE  Remembers'
    <2>1. CASE Len(memo) = Memo
        <3>1. Tail(memo) \in Seq(Memory) /\ Len(Tail(memo)) < Memo
            BY <1>1, <1>2, <2>1
        <3>2. QED
            BY <1>3, <1>6, <2>1, <3>1
    <2>2. CASE Len(memo) # Memo
        <3>1. memo' = Append(memo, entry)
            BY <1>6, <2>2
        <3>2. Len(memo) < Memo
            <4>1. \A m, n \in Nat : m <= n /\ m # n => m < n
                OBVIOUS
            <4>2. Len(memo) \in Nat /\ Memo \in Nat /\ Len(memo) <= Memo
                BY <1>1, <1>2
            <4>3. QED
                BY <2>2, <4>1, <4>2
        <3>3. QED
            BY <1>2, <1>3, <3>1, <3>2
    <2>3. QED
        BY <2>1, <2>2
<1>7. QED
    BY <1>5, <1>6 DEF Remember, entry

LEMMA PublishBounds ==
    ASSUME IInv, Bounds, PublishNext
    PROVE  Bounds'
<1>1. PICK found \in BOOLEAN :
        /\ RepositoryOf(journal[watermark + 1], found)
        /\ Publish(watermark + 1, found)
        /\ unresolved' = IF found THEN unresolved ELSE unresolved \cup {watermark + 1}
    BY DEF PublishNext
<1>2. /\ watermark \in Nat /\ watermark + 1 \in 1..Len(journal)
      /\ watermark + 1 \in 1..MaxEntries /\ journal[watermark + 1] \in Runs
    BY FeedAssumption DEF IInv, Types, Behind, Bounds, Reads, PublishNext, FeedAssumption
<1>3. Remembers'
    BY <1>1, <1>2, Remembered DEF RepositoryOf, Bounds
<1>4. Reads'
    <2>1. UNCHANGED journal /\ phase' \in {phase, "head"}
        BY DEF PublishNext
    <2>2. unresolved' \subseteq Nat
        BY <1>1, <1>2 DEF Bounds, Reads
    <2>3. failures' \in Nat
        BY <1>1 DEF RepositoryOf, Fails, Bounds, Reads
    <2>4. QED
        BY <2>1, <2>2, <2>3 DEF Bounds, Reads
<1>5. ASSUME NEW s \in Subs
      PROVE  Holds(s)'
    <2>1. UNCHANGED <<held, buffer, received>>
        BY DEF PublishNext, forwarder
    <2>2. \/ queue'[s] = queue[s]
          \/ Len(queue[s]) < Backlog /\ queue'[s] = Append(queue[s], watermark + 1)
        BY <1>1 DEF Publish
    <2>3. queue[s] \in Seq(1..MaxEntries) /\ Len(queue[s]) \in Nat /\ Backlog \in Nat
        BY FeedAssumption DEF FeedAssumption, Bounds, Holds, Few, Positions
    <2>4. CASE Len(queue[s]) < Backlog /\ queue'[s] = Append(queue[s], watermark + 1)
        <3>1. queue'[s] \in Seq(1..MaxEntries) /\ Len(queue'[s]) = Len(queue[s]) + 1
            BY <1>2, <2>3, <2>4
        <3>2. Few(queue'[s], Backlog)
            BY <2>3, <2>4, <3>1 DEF Few, Positions
        <3>3. QED
            BY <2>1, <3>2 DEF Bounds, Holds
    <2>5. CASE queue'[s] = queue[s]
        BY <2>1, <2>5 DEF Bounds, Holds
    <2>6. QED
        BY <2>2, <2>4, <2>5
<1>6. QED
    BY <1>3, <1>4, <1>5 DEF Bounds

(* What is left of a row when its first entry is taken.                    *)
LEMMA TakingOne ==
    ASSUME NEW S, NEW t \in Seq(S), t # <<>>
    PROVE  /\ Head(t) \in S /\ Tail(t) \in Seq(S)
           /\ Len(t) \in Nat /\ Len(Tail(t)) \in Nat /\ Len(Tail(t)) < Len(t)
OBVIOUS

(* What is handed on goes from one place to the next, which has room.      *)
LEMMA ForwarderBounds ==
    ASSUME IInv, Bounds, NEW s \in Subs, Take(s) \/ HandOver(s) \/ ClientReads(s)
    PROVE  \A o \in Subs : Holds(o)'
<1>1. /\ queue[s] \in Seq(1..MaxEntries) /\ held[s] \in Seq(1..MaxEntries)
      /\ buffer[s] \in Seq(1..MaxEntries) /\ received[s] \in Seq(1..MaxEntries)
      /\ Len(queue[s]) <= Backlog /\ Len(held[s]) <= 1 /\ Len(buffer[s]) <= Buffer
      /\ Backlog \in Nat /\ Buffer \in Nat
    BY FeedAssumption DEF FeedAssumption, Bounds, Holds, Few, Positions
<1>2. \A o \in Subs \ {s} : Untouched(o)
    BY DEF Take, HandOver, ClientReads, IInv, Types, Untouched
<1>3. \A o \in Subs \ {s} : Holds(o)'
    BY <1>2 DEF Untouched, Bounds, Holds
<1>4. CASE Take(s)
    <2>1. /\ queue[s] # <<>> /\ queue'[s] = Tail(queue[s]) /\ held'[s] = <<Head(queue[s])>>
          /\ buffer'[s] = buffer[s] /\ received'[s] = received[s]
        BY <1>4 DEF Take, IInv, Types
    <2>2. /\ Head(queue[s]) \in 1..MaxEntries /\ Tail(queue[s]) \in Seq(1..MaxEntries)
          /\ Len(queue[s]) \in Nat /\ Len(Tail(queue[s])) \in Nat
          /\ Len(Tail(queue[s])) < Len(queue[s])
        BY <1>1, <2>1, TakingOne
    <2>3. Few(<<Head(queue[s])>>, 1)
        <3>1. PICK i \in 1..MaxEntries : i = Head(queue[s])
            BY <2>2
        <3>2. Few(<<i>>, 1)
            BY DEF Few, Positions
        <3>3. QED
            BY <3>1, <3>2
    <2>4. Few(queue'[s], Backlog) /\ Few(held'[s], 1)
        <3>1. Len(Tail(queue[s])) <= Backlog
            BY <1>1, <2>2
        <3>2. QED
            BY <2>1, <2>2, <2>3, <3>1 DEF Few, Positions
    <2>5. Holds(s)'
        BY <2>1, <2>4 DEF Bounds, Holds
    <2>6. QED
        BY <1>3, <2>5
<1>5. CASE HandOver(s)
    <2>1. /\ Len(buffer[s]) < Buffer /\ buffer'[s] = buffer[s] \o held[s] /\ held'[s] = <<>>
          /\ queue'[s] = queue[s] /\ received'[s] = received[s]
        BY <1>5 DEF HandOver, IInv, Types
    <2>2. /\ buffer[s] \o held[s] \in Seq(1..MaxEntries)
          /\ Len(buffer[s] \o held[s]) = Len(buffer[s]) + Len(held[s])
        BY <1>1, ConcatProperties
    <2>3. Few(buffer'[s], Buffer)
        <3>1. Len(buffer[s]) \in Nat /\ Len(held[s]) \in Nat
            BY <1>1
        <3>2. \A m, n \in Nat : m < Buffer /\ n <= 1 => m + n <= Buffer
            BY <1>1
        <3>3. QED
            BY <1>1, <2>1, <2>2, <3>1, <3>2 DEF Few, Positions
    <2>4. Few(held'[s], 1)
        BY <2>1 DEF Few, Positions
    <2>5. Holds(s)'
        BY <2>1, <2>3, <2>4 DEF Bounds, Holds
    <2>6. QED
        BY <1>3, <2>5
<1>6. CASE ClientReads(s)
    <2>1. /\ buffer[s] # <<>> /\ buffer'[s] = Tail(buffer[s])
          /\ received'[s] = Append(received[s], Head(buffer[s]))
          /\ queue'[s] = queue[s] /\ held'[s] = held[s]
        BY <1>6 DEF ClientReads, IInv, Types
    <2>2. /\ Head(buffer[s]) \in 1..MaxEntries /\ Tail(buffer[s]) \in Seq(1..MaxEntries)
          /\ Len(buffer[s]) \in Nat /\ Len(Tail(buffer[s])) \in Nat
          /\ Len(Tail(buffer[s])) < Len(buffer[s])
        BY <1>1, <2>1, TakingOne
    <2>3. Append(received[s], Head(buffer[s])) \in Seq(1..MaxEntries)
        BY <1>1, <2>2
    <2>4. Few(buffer'[s], Buffer) /\ received'[s] \in Positions
        <3>1. Len(Tail(buffer[s])) <= Buffer
            BY <1>1, <2>2
        <3>2. QED
            BY <2>1, <2>2, <2>3, <3>1 DEF Few, Positions
    <2>5. Holds(s)'
        BY <2>1, <2>4 DEF Bounds, Holds
    <2>6. QED
        BY <1>3, <2>5
<1>7. QED
    BY <1>4, <1>5, <1>6

(* Nothing is left of what is dropped.                                     *)
LEMMA EndingBounds ==
    ASSUME IInv, Bounds, NEW s \in Subs, HangUp(s) \/ ForwarderEnds(s)
    PROVE  \A o \in Subs : Holds(o)'
<1>1. ASSUME NEW o \in Subs
      PROVE  /\ queue'[o] \in {queue[o], <<>>} /\ held'[o] \in {held[o], <<>>}
             /\ buffer'[o] \in {buffer[o], <<>>} /\ received'[o] \in {received[o], <<>>}
    BY DEF HangUp, ForwarderEnds, Ends, IInv, Types
<1>2. Few(<<>>, Backlog) /\ Few(<<>>, 1) /\ Few(<<>>, Buffer) /\ <<>> \in Positions
    <2>1. Backlog \in Nat /\ Buffer \in Nat
        BY FeedAssumption DEF FeedAssumption
    <2>2. QED
        BY <2>1 DEF Few, Positions
<1>3. QED
    BY <1>1, <1>2 DEF Bounds, Holds

LEMMA BoundsKept ==
    ASSUME IInv, Bounds, [Next]_vars
    PROVE  Bounds'
<1> USE DEF publisher, known, forwarder
<1>1. CASE UNCHANGED vars
    BY <1>1 DEF vars, Bounds, Remembers, Reads, Holds
<1>2. ASSUME NEW r \in Runs, Journal(r)
      PROVE  Bounds'
    <2>1. Len(journal') <= MaxEntries
        BY <1>2, FeedAssumption DEF Journal, IInv, Types, Bounds, Reads, FeedAssumption
    <2>2. Reads'
        BY <1>2, <2>1 DEF Journal, Bounds, Reads
    <2>3. QED
        BY <1>2, <2>2 DEF Journal, Bounds, Remembers, Holds
<1>3. CASE ReadHead \/ CountSubscribers \/ ReadTail
    <2>1. Reads'
        <3>1. UNCHANGED <<journal, unresolved>> /\ phase' \in {phase, "head", "count", "tail", "publish"}
            BY <1>3 DEF ReadHead, CountSubscribers, ReadTail
        <3>2. failures' = failures \/ failures' = failures + 1
            BY <1>3 DEF ReadHead, CountSubscribers, ReadTail, Fails
        <3>3. QED
            BY <3>1, <3>2 DEF Bounds, Reads
    <2>2. UNCHANGED <<memo, queue, held, buffer, received>>
        BY <1>3 DEF ReadHead, CountSubscribers, ReadTail
    <2>3. QED
        BY <2>1, <2>2 DEF Bounds, Remembers, Holds
<1>4. CASE PublishNext
    BY <1>4, PublishBounds
<1>5. ASSUME NEW s \in Subs, CallNext(s) \/ ForwarderNext(s) \/ ClientNext(s)
      PROVE  Bounds'
    <2>1. /\ UNCHANGED <<journal, phase, unresolved, memo>>
          /\ failures' = failures \/ failures' = failures + 1
        BY <1>5 DEF CallNext, ForwarderNext, ClientNext, Register, CallFails, Fails,
            StartForwarder, Take, HandOver, ForwarderEnds, TakeSlot, HangUp, ClientReads
    <2>2. Remembers' /\ Reads'
        BY <2>1 DEF Bounds, Remembers, Reads
    <2>3. CASE UNCHANGED <<queue, held, buffer, received>>
        BY <2>2, <2>3 DEF Bounds, Holds
    <2>4. \/ UNCHANGED <<queue, held, buffer, received>>
          \/ Take(s) \/ HandOver(s) \/ ClientReads(s) \/ HangUp(s) \/ ForwarderEnds(s)
        BY <1>5 DEF CallNext, ForwarderNext, ClientNext, Register, CallFails,
            StartForwarder, TakeSlot
    <2>5. QED
        BY <2>2, <2>3, <2>4, ForwarderBounds, EndingBounds DEF Bounds
<1>6. QED
    BY <1>1, <1>2, <1>3, <1>4, <1>5 DEF Next, PublisherNext

(* No place an entry passes on its way to a client ever holds more than it *)
(* was made for, the publisher's memo never more runs than it was made     *)
(* for, and every entry is one of the journal's (JournalFeed::publish,     *)
(* RunCache::insert, forward).                                             *)
THEOREM TypeCorrect == Spec => []TypeOK
<1>1. Init => Bounds
    <2> SUFFICES ASSUME Init PROVE Bounds
        OBVIOUS
    <2>1. {Memo, Backlog, Buffer, MaxEntries} \subseteq Nat
        BY FeedAssumption DEF FeedAssumption
    <2>2. Remembers /\ Reads
        BY <2>1 DEF Init, Remembers, Reads
    <2>3. ASSUME NEW s \in Subs PROVE Holds(s)
        <3>1. queue[s] = <<>> /\ held[s] = <<>> /\ buffer[s] = <<>> /\ received[s] = <<>>
            BY DEF Init, Nothing
        <3>2. QED
            BY <2>1, <3>1 DEF Holds, Few, Positions
    <2>4. QED
        BY <2>2, <2>3 DEF Bounds
<1>2. IInv /\ Bounds /\ [Next]_vars => Bounds'
    BY BoundsKept
<1>3. IInv /\ Bounds /\ SlotsAreThreads => TypeOK
    <2> SUFFICES ASSUME IInv, Bounds, SlotsAreThreads PROVE TypeOK
        OBVIOUS
    <2>1. slots \in Nat
        <3>1. IsFiniteSet(Holding) /\ slots = Cardinality(Holding)
            BY FS_Subset, FeedAssumption DEF FeedAssumption, Holding, SlotsAreThreads
        <3>2. QED
            BY <3>1, FS_CardinalityType
    <2>2. /\ queue \in [Subs -> Positions] /\ held \in [Subs -> Positions]
          /\ buffer \in [Subs -> Positions] /\ received \in [Subs -> Positions]
        BY DEF IInv, Types, Bounds, Holds, Few
    <2>3. QED
        BY <2>1, <2>2 DEF IInv, Types, Bounds, Remembers, Reads, Holds, Few, Memory, TypeOK
<1>4. QED
    BY <1>1, <1>2, <1>3, InvariantHolds, SlotsTheorem, PTL DEF Spec
===============================================================================
