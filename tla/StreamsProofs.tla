--------------------------- MODULE StreamsProofs ---------------------------
(***************************************************************************)
(* Answers that come piece by piece.                                       *)
(*                                                                         *)
(*   Streaming responses: any number of streams and of workers that create *)
(*   them, any limits, channel sizes, batches and iterators.               *)
(*                                                                         *)
(*   Pages: any table with unique keys, any page sizes and writes.         *)
(***************************************************************************)
EXTENDS MCStreams, Walks, FiniteSetTheorems, SequenceTheorems, TLAPS

Places == {"none", "checked", "retry", "done"} \cup Owning

\* The places before anything is pulled or sent.
Early == {"none", "checked", "counted", "retry"}

\* The three pieces of a stream in the order they are met, as one sequence.
Joined(a, b, c) == a \o b \o c

Out(s) == Joined(got[s], chan[s], batch[s])

AsDeclared(s) == Increasing(Out(s)) /\ Shown(Out(s)) = (1..yielded[s]) \ Unsendable

\* The variables the proofs reason about have their types.
Typed ==
  /\ active \in Nat
  /\ pc \in [Streams -> Places]
  /\ batch \in [Streams -> Seq(Nat)]
  /\ chan \in [Streams -> Seq(Nat)]
  /\ client \in [Streams -> {"reading", "gone"}]
  /\ got \in [Streams -> Seq(Nat)]
  /\ yielded \in [Streams -> Nat]

\* The workers that passed the limit and have not counted their thread yet
\* find room for it.
PlacesKept ==
  /\ active = Cardinality(At(Owning))
  /\ active + Cardinality(At({"checked"})) <= MaxThreads - 1 + NumWorkers

Untouched(s) == got[s] = <<>> /\ chan[s] = <<>> /\ batch[s] = <<>> /\ yielded[s] = 0

\* Nothing is sent before the thread runs; only a refused stream ends with
\* the directive alone.
OrderedAt(s) ==
  /\ pc[s] \in Early => Untouched(s)
  /\ client[s] = "reading" => \/ AsDeclared(s)
                              \/ pc[s] = "done" /\ Out(s) = <<RetryChunk>>

Ordered == \A s \in Streams : OrderedAt(s)

SyncInv == Typed /\ PlacesKept /\ Ordered
-----------------------------------------------------------------------------
AsyncOut == received \o channel \o held

AsyncTyped ==
  /\ held \in Seq(Nat) /\ channel \in Seq(Nat) /\ received \in Seq(Nat)
  /\ pulled \in 0..MaxItems

\* The forwarder holds an item only while it sends it, the last it pulled.
Holding ==
  /\ forwarder = "start" => received = <<>> /\ channel = <<>> /\ held = <<>> /\ pulled = 0
  /\ held = IF forwarder \in {"sending", "waiting"} THEN <<pulled>> ELSE <<>>

AsyncOrdered ==
  reader # "gone" =>
    /\ Async!Increasing(AsyncOut)
    /\ \/ Async!Shown(AsyncOut) = (1..pulled) \ AsyncUnsendable
       \/ Async!Shown(AsyncOut) = {Async!StartError} /\ forwarder = "done"

AsyncInv == AsyncTyped /\ Holding /\ AsyncOrdered

StreamsInv == SyncInv /\ AsyncInv
-----------------------------------------------------------------------------
\* An element may be moved from the front of one piece to the end of the
\* piece before it.
LEMMA HeadMoved ==
  ASSUME NEW a \in Seq(Nat), NEW b \in Seq(Nat), b # <<>>
  PROVE  /\ Append(a, Head(b)) \in Seq(Nat) /\ Tail(b) \in Seq(Nat)
         /\ Append(a, Head(b)) \o Tail(b) = a \o b
  <1> DEFINE x == Append(a, Head(b))
             y == Tail(b)
  <1>1. x \in Seq(Nat) /\ y \in Seq(Nat)
    BY HeadTailProperties, AppendProperties
  <1>2. /\ Len(a) \in Nat /\ Len(b) \in Nat /\ Len(b) >= 1
        /\ Len(x) = Len(a) + 1 /\ Len(y) = Len(b) - 1
    BY HeadTailProperties, AppendProperties, LenProperties, EmptySeq
  <1>3. /\ \A i \in 1..Len(a) : x[i] = a[i]
        /\ x[Len(a) + 1] = b[1]
        /\ \A i \in 1..Len(y) : y[i] = b[i + 1]
    BY HeadTailProperties, AppendProperties
  <1>4. Len(x \o y) = Len(a \o b) /\ Len(a \o b) = Len(a) + Len(b)
    BY <1>1, <1>2, ConcatProperties
  <1>5. ASSUME NEW i \in 1..Len(a \o b) PROVE (x \o y)[i] = (a \o b)[i]
    <2>1. /\ (x \o y)[i] = IF i <= Len(x) THEN x[i] ELSE y[i - Len(x)]
          /\ (a \o b)[i] = IF i <= Len(a) THEN a[i] ELSE b[i - Len(a)]
      BY <1>1, <1>4, ConcatProperties
    <2> HIDE DEF x, y
    <2>2. CASE i <= Len(a)
      <3>1. i \in 1..Len(a) /\ i <= Len(x)
        BY <1>2, <1>4, <2>2
      <3>2. (x \o y)[i] = x[i] /\ (a \o b)[i] = a[i]
        BY <2>1, <2>2, <3>1
      <3> QED
        BY <1>3, <3>1, <3>2
    <2>3. CASE i = Len(a) + 1
      BY <1>2, <1>3, <1>4, <2>1, <2>3
    <2>4. CASE i > Len(a) + 1
      <3>1. i - Len(x) \in 1..Len(y) /\ (i - Len(x)) + 1 = i - Len(a)
        BY <1>2, <1>4, <2>4
      <3>2. y[i - Len(x)] = b[(i - Len(x)) + 1]
        BY <1>3, <3>1
      <3>3. (x \o y)[i] = y[i - Len(x)] /\ (a \o b)[i] = b[i - Len(a)]
        BY <1>2, <1>4, <2>1, <2>4
      <3> QED
        BY <3>1, <3>2, <3>3
    <2> QED
      BY <1>2, <1>4, <2>2, <2>3, <2>4
  <1> HIDE DEF x, y
  <1>6. x \o y \in Seq(Nat) /\ a \o b \in Seq(Nat)
    BY <1>1, ConcatProperties
  <1>7. x \o y = a \o b
    BY <1>4, <1>5, <1>6, SeqEqual
  <1> QED
    BY <1>1, <1>7 DEF x, y

LEMMA JoinedSeq == \A a, b, c \in Seq(Nat) : Joined(a, b, c) \in Seq(Nat)
  BY ConcatProperties DEF Joined

\* Three pieces may be joined in either order.
LEMMA Regrouped == \A a, b, c \in Seq(Nat) : Joined(a, b, c) = a \o (b \o c)
  BY ConcatAssociative DEF Joined

\* What a reader takes from the second of three pieces moves to the first.
LEMMA TakenByReader ==
  \A a, b, c \in Seq(Nat) :
    b # <<>> => /\ Append(a, Head(b)) \in Seq(Nat) /\ Tail(b) \in Seq(Nat)
                /\ Joined(Append(a, Head(b)), Tail(b), c) = Joined(a, b, c)
  <1> SUFFICES ASSUME NEW a \in Seq(Nat), NEW b \in Seq(Nat), NEW c \in Seq(Nat), b # <<>>
               PROVE  /\ Append(a, Head(b)) \in Seq(Nat) /\ Tail(b) \in Seq(Nat)
                      /\ Joined(Append(a, Head(b)), Tail(b), c) = Joined(a, b, c)
    OBVIOUS
  <1>1. /\ Append(a, Head(b)) \in Seq(Nat) /\ Tail(b) \in Seq(Nat)
        /\ Append(a, Head(b)) \o Tail(b) = a \o b
    BY HeadMoved
  <1> QED
    BY <1>1, Zenon DEF Joined

\* What is sent moves from the third piece to the second.
LEMMA TakenBySender ==
  \A a, b, c \in Seq(Nat) :
    c # <<>> => Joined(a, Append(b, Head(c)), Tail(c)) = Joined(a, b, c)
  <1> SUFFICES ASSUME NEW a \in Seq(Nat), NEW b \in Seq(Nat), NEW c \in Seq(Nat), c # <<>>
               PROVE  Joined(a, Append(b, Head(c)), Tail(c)) = Joined(a, b, c)
    OBVIOUS
  <1>1. /\ Append(b, Head(c)) \in Seq(Nat) /\ Tail(c) \in Seq(Nat)
        /\ Append(b, Head(c)) \o Tail(c) = b \o c
    BY HeadMoved
  <1>2. Joined(a, Append(b, Head(c)), Tail(c)) = a \o (Append(b, Head(c)) \o Tail(c))
    BY <1>1, Regrouped, Zenon
  <1>3. Joined(a, b, c) = a \o (b \o c)
    BY Regrouped, Zenon
  <1> QED
    BY <1>1, <1>2, <1>3, Zenon

\* What is appended to the last piece is appended to the whole.
LEMMA AppendedLast ==
  \A a, b, c \in Seq(Nat), n \in Nat : Joined(a, b, Append(c, n)) = Append(Joined(a, b, c), n)
  <1> SUFFICES ASSUME NEW a \in Seq(Nat), NEW b \in Seq(Nat), NEW c \in Seq(Nat), NEW n \in Nat
               PROVE  Joined(a, b, Append(c, n)) = Append(Joined(a, b, c), n)
    OBVIOUS
  <1>1. a \o b \in Seq(Nat)
    BY ConcatProperties
  <1>2. \A q \in Seq(Nat) : q \o Append(c, n) = Append(q \o c, n)
    OBVIOUS
  <1> QED
    BY <1>1, <1>2, Zenon DEF Joined

\* The next number extends an increasing sequence of the numbers before it.
LEMMA NextNumber ==
  ASSUME NEW q \in Seq(Nat), NEW n \in Nat, NEW U, n + 1 \notin U,
         Increasing(q), Shown(q) = (1..n) \ U
  PROVE  Increasing(Append(q, n + 1)) /\ Shown(Append(q, n + 1)) = (1..(n + 1)) \ U
  <1> DEFINE r == Append(q, n + 1)
  <1>1. /\ DOMAIN q = 1..Len(q) /\ DOMAIN r = 1..(Len(q) + 1) /\ Len(q) \in Nat
        /\ \A i \in 1..Len(q) : r[i] = q[i]
        /\ r[Len(q) + 1] = n + 1
    BY AppendProperties, LenProperties
  <1>2. \A i \in 1..Len(q) : q[i] \in (1..n) \ U
    BY <1>1 DEF Shown
  <1>3. Increasing(r)
    <2> SUFFICES ASSUME NEW i \in DOMAIN r, NEW j \in DOMAIN r, i < j PROVE r[i] < r[j]
      BY DEF Increasing
    <2>1. i \in 1..Len(q)
      BY <1>1
    <2>2. CASE j \in 1..Len(q)
      BY <1>1, <2>1, <2>2 DEF Increasing
    <2>3. CASE j = Len(q) + 1
      <3>1. r[i] = q[i] /\ q[i] \in 1..n /\ r[j] = n + 1
        BY <1>1, <1>2, <2>1, <2>3
      <3> HIDE DEF r
      <3> QED
        BY <3>1
    <2> QED
      BY <1>1, <2>2, <2>3
  <1>4. Shown(r) = Shown(q) \cup {n + 1}
    <2>1. Shown(r) = {r[i] : i \in 1..(Len(q) + 1)}
      BY <1>1 DEF Shown
    <2>2. Shown(q) = {q[i] : i \in 1..Len(q)}
      BY <1>1 DEF Shown
    <2>3. 1..(Len(q) + 1) = (1..Len(q)) \cup {Len(q) + 1}
      BY <1>1
    <2> HIDE DEF r
    <2> QED
      BY <1>1, <2>1, <2>2, <2>3
  <1>5. (1..(n + 1)) \ U = ((1..n) \ U) \cup {n + 1}
    OBVIOUS
  <1> QED
    BY <1>3, <1>4, <1>5
-----------------------------------------------------------------------------
\* A set of places gains a stream that moves into it.
LEMMA MovedIn ==
  ASSUME Typed, NEW s \in Streams, NEW p \in Places, NEW P, Goto(s, p),
         pc[s] \notin P, p \in P
  PROVE  Cardinality(At(P)') = Cardinality(At(P)) + 1
  <1>1. At(P)' = At(P) \cup {s} /\ s \notin At(P)
    BY DEF At, Goto, Typed
  <1>2. IsFiniteSet(At(P))
    BY FS_Subset, SyncStreamAssumption DEF At
  <1> QED
    BY <1>1, <1>2, FS_AddElement

\* A set of places loses a stream that moves out of it.
LEMMA MovedOut ==
  ASSUME Typed, NEW s \in Streams, NEW p \in Places, NEW P, Goto(s, p),
         pc[s] \in P, p \notin P
  PROVE  Cardinality(At(P)') = Cardinality(At(P)) - 1
  <1>1. At(P)' = At(P) \ {s} /\ s \in At(P)
    BY DEF At, Goto, Typed
  <1>2. IsFiniteSet(At(P))
    BY FS_Subset, SyncStreamAssumption DEF At
  <1> QED
    BY <1>1, <1>2, FS_RemoveElement

\* Otherwise it is left as it is.
LEMMA Stayed ==
  ASSUME Typed, NEW s \in Streams, NEW p \in Places, NEW P, Goto(s, p),
         (pc[s] \in P) <=> (p \in P)
  PROVE  Cardinality(At(P)') = Cardinality(At(P))
  <1>1. At(P)' = At(P)
    BY DEF At, Goto, Typed
  <1> QED
    BY <1>1

\* There are finitely many streams to count.
LEMMA AtCounted == \A P : IsFiniteSet(At(P)) /\ Cardinality(At(P)) \in Nat
  BY FS_Subset, FS_CardinalityType, SyncStreamAssumption DEF At

USE DEF AtLimit, BatchDone

\* A move that counts nobody in or out.
LEMMA MoveUncounted ==
  ASSUME Typed, PlacesKept, NEW s \in Streams, NEW p \in Places, Goto(s, p),
         active' = active, pc[s] # "checked", p # "checked",
         (pc[s] \in Owning) <=> (p \in Owning)
  PROVE  PlacesKept'
  <1>1. Cardinality(At(Owning)') = Cardinality(At(Owning))
    BY Stayed
  <1>2. Cardinality(At({"checked"})') = Cardinality(At({"checked"}))
    BY Stayed
  <1> QED
    BY <1>1, <1>2 DEF PlacesKept

\* A move that gives a place back.
LEMMA MoveBack ==
  ASSUME Typed, PlacesKept, NEW s \in Streams, NEW p \in {"retry", "done"}, Goto(s, p),
         active' = active - 1, pc[s] \in Owning
  PROVE  PlacesKept' /\ active' \in Nat
  <1>1. Cardinality(At(Owning)') = Cardinality(At(Owning)) - 1
    BY MovedOut DEF Owning, Places
  <1>2. Cardinality(At({"checked"})') = Cardinality(At({"checked"}))
    BY Stayed DEF Owning, Places
  <1>3. Cardinality(At(Owning)') \in Nat
    <2>1. IsFiniteSet(At(Owning)')
      BY FS_Subset, SyncStreamAssumption DEF At
    <2> QED
      BY <2>1, FS_CardinalityType
  <1> QED
    BY <1>1, <1>2, <1>3, AtCounted, SyncStreamAssumption DEF PlacesKept, Typed

\* Every step keeps the counter equal to the streams that own a thread.
LEMMA NextPlaces ==
  ASSUME Typed, PlacesKept, NEW s \in Streams,
         \/ Create(s) \/ Count(s) \/ Spawn(s) \/ SpawnFails(s) \/ Retry(s)
         \/ Thread(s) \/ Read(s) \/ Disconnect(s)
  PROVE  PlacesKept' /\ active' \in Nat
  <1> USE DEF Owning, Places
  <1>1. CASE Create(s)
    <2>1. CASE active >= MaxThreads
      BY <1>1, <2>1, MoveUncounted DEF Create, Typed
    <2>2. CASE ~(active >= MaxThreads)
      <3>1. Cardinality(At(Owning)') = Cardinality(At(Owning))
        BY <1>1, <2>2, Stayed DEF Create
      <3>2. Cardinality(At({"checked"})') = Cardinality(At({"checked"})) + 1
        BY <1>1, <2>2, MovedIn DEF Create
      <3>3. Cardinality(At({"checked"})) <= Cardinality(At({"checked", "counted"}))
        <4>1. At({"checked"}) \subseteq At({"checked", "counted"})
          BY DEF At
        <4> QED
          BY <4>1, AtCounted, FS_Subset
      <3>4. Cardinality(At({"checked", "counted"})) < NumWorkers /\ active' = active
        BY <1>1 DEF Create
      <3> QED
        BY <2>2, <3>1, <3>2, <3>3, <3>4, AtCounted, SyncStreamAssumption DEF PlacesKept, Typed
    <2> QED
      BY <2>1, <2>2
  <1>2. CASE Count(s)
    <2>1. Cardinality(At(Owning)') = Cardinality(At(Owning)) + 1
      BY <1>2, MovedIn DEF Count
    <2>2. Cardinality(At({"checked"})') = Cardinality(At({"checked"})) - 1
      BY <1>2, MovedOut DEF Count
    <2>3. active' = active + 1
      BY <1>2 DEF Count
    <2> QED
      BY <2>1, <2>2, <2>3, AtCounted, SyncStreamAssumption DEF PlacesKept, Typed
  <1>3. CASE Spawn(s)
    BY <1>3, MoveUncounted DEF Spawn, Typed
  <1>4. CASE SpawnFails(s)
    BY <1>4, MoveBack DEF SpawnFails
  <1>5. CASE Retry(s)
    BY <1>5, MoveUncounted DEF Retry, Typed
  <1>6. CASE Thread(s)
    <2>1. CASE Pull(s)
      BY <2>1, MoveUncounted DEF Pull, Typed
    <2>2. CASE PullRaises(s)
      BY <2>2, MoveUncounted DEF PullRaises, Typed
    <2>3. CASE PullStops(s)
      BY <2>3, MoveUncounted DEF PullStops, Typed
    <2>4. CASE SendChunk(s) \/ SendFails(s)
      BY <2>4 DEF SendChunk, SendFails, PlacesKept, At, Typed
    <2>5. CASE BatchSent(s)
      BY <2>5, MoveUncounted DEF BatchSent, Typed
    <2>6. CASE CloseIterator(s)
      BY <2>6, MoveUncounted DEF CloseIterator, Typed
    <2>7. CASE Leave(s)
      BY <2>7, MoveBack DEF Leave
    <2> QED
      BY <1>6, <2>1, <2>2, <2>3, <2>4, <2>5, <2>6, <2>7 DEF Thread
  <1>7. CASE Read(s) \/ Disconnect(s)
    BY <1>7 DEF Read, Disconnect, PlacesKept, At, Typed
  <1> QED
    BY <1>1, <1>2, <1>3, <1>4, <1>5, <1>6, <1>7
-----------------------------------------------------------------------------
\* What the order of a stream depends on.
Chunks(s) == <<batch[s], chan[s], got[s], yielded[s], client[s]>>

\* A step that leaves the chunks of a stream alone keeps their order, unless
\* it leaves the end of the stream or goes back to before its start.
LEMMA OrderKept ==
  ASSUME NEW s, OrderedAt(s), Chunks(s)' = Chunks(s),
         \/ pc'[s] = pc[s]
         \/ pc[s] # "done" /\ (pc'[s] \in Early => pc[s] \in Early)
  PROVE  OrderedAt(s)'
  <1>1. /\ batch'[s] = batch[s] /\ chan'[s] = chan[s] /\ got'[s] = got[s]
        /\ yielded'[s] = yielded[s] /\ client'[s] = client[s]
    BY DEF Chunks
  <1>2. Out(s)' = Out(s)
    BY <1>1 DEF Out
  <1>3. AsDeclared(s)' <=> AsDeclared(s)
    BY <1>1, <1>2 DEF AsDeclared, Increasing, Shown
  <1>4. Untouched(s)' <=> Untouched(s)
    BY <1>1 DEF Untouched
  <1> QED
    BY <1>1, <1>2, <1>3, <1>4 DEF OrderedAt

\* One more item of the iterator is the last of the batch, or is skipped.
LEMMA PullOrdered ==
  ASSUME Typed, NEW s \in Streams, OrderedAt(s), Pull(s)
  PROVE  OrderedAt(s)'
  <1>1. /\ pc[s] = "pulling" /\ pc'[s] \in {"pulling", "sending"}
        /\ yielded[s] \in Nat /\ yielded'[s] = yielded[s] + 1
        /\ got'[s] = got[s] /\ chan'[s] = chan[s] /\ client'[s] = client[s]
        /\ batch'[s] = IF yielded[s] + 1 \in Unsendable THEN batch[s]
                       ELSE Append(batch[s], yielded[s] + 1)
        /\ got[s] \in Seq(Nat) /\ chan[s] \in Seq(Nat) /\ batch[s] \in Seq(Nat)
    BY DEF Pull, Goto, Typed
  <1>2. pc'[s] \notin Early
    BY <1>1 DEF Early
  <1> SUFFICES ASSUME client[s] = "reading" PROVE AsDeclared(s)'
    BY <1>1, <1>2 DEF OrderedAt
  <1>3. AsDeclared(s)
    BY <1>1 DEF OrderedAt
  <1>4. Out(s) \in Seq(Nat)
    BY <1>1, JoinedSeq DEF Out
  <1>5. CASE yielded[s] + 1 \in Unsendable
    <2>1. Out(s)' = Out(s)
      BY <1>1, <1>5 DEF Out
    <2>2. (1..(yielded[s] + 1)) \ Unsendable = (1..yielded[s]) \ Unsendable
      BY <1>1, <1>5
    <2> QED
      BY <1>1, <1>3, <2>1, <2>2 DEF AsDeclared, Increasing, Shown
  <1>6. CASE yielded[s] + 1 \notin Unsendable
    <2>1. Out(s)' = Append(Out(s), yielded[s] + 1)
      <3>1. batch'[s] = Append(batch[s], yielded[s] + 1) /\ yielded[s] + 1 \in Nat
        BY <1>1, <1>6
      <3> DEFINE n == yielded[s] + 1
      <3> HIDE DEF n
      <3>2. n \in Nat /\ batch'[s] = Append(batch[s], n)
        BY <3>1 DEF n
      <3>3. Joined(got[s], chan[s], Append(batch[s], n)) = Append(Joined(got[s], chan[s], batch[s]), n)
        <4>1. got[s] \in Seq(Nat) /\ chan[s] \in Seq(Nat) /\ batch[s] \in Seq(Nat)
          BY <1>1
        <4>2. \A a, b \in Seq(Nat) : \A m \in Nat :
                 Joined(a, b, Append(batch[s], m)) = Append(Joined(a, b, batch[s]), m)
          BY <4>1, AppendedLast, Zenon
        <4>3. \A m \in Nat :
                 Joined(got[s], chan[s], Append(batch[s], m)) = Append(Joined(got[s], chan[s], batch[s]), m)
          BY <4>1, <4>2, Zenon
        <4> QED
          BY <3>2, <4>3, Zenon
      <3>4. Out(s)' = Append(Out(s), n)
        BY <1>1, <3>2, <3>3, Zenon DEF Out
      <3> QED
        BY <3>4 DEF n
    <2>2. /\ Increasing(Append(Out(s), yielded[s] + 1))
          /\ Shown(Append(Out(s), yielded[s] + 1)) = (1..(yielded[s] + 1)) \ Unsendable
      BY <1>1, <1>3, <1>4, <1>6, NextNumber DEF AsDeclared
    <2> QED
      BY <1>1, <2>1, <2>2 DEF AsDeclared, Increasing, Shown
  <1> QED
    BY <1>5, <1>6

\* A chunk that is sent or read only changes hands.
LEMMA PassedOnOrdered ==
  ASSUME Typed, NEW s \in Streams, OrderedAt(s), SendChunk(s) \/ Read(s)
  PROVE  OrderedAt(s)'
  <1>1. got[s] \in Seq(Nat) /\ chan[s] \in Seq(Nat) /\ batch[s] \in Seq(Nat)
    BY DEF Typed
  <1>2. /\ pc'[s] = pc[s] /\ yielded'[s] = yielded[s] /\ client'[s] = client[s]
    BY DEF SendChunk, Read, body
  <1>3. pc[s] \notin Early
    BY DEF SendChunk, Read, OrderedAt, Untouched, Early
  <1>4. Out(s)' = Out(s)
    <2>1. CASE SendChunk(s)
      <3>1. /\ batch[s] # <<>> /\ got'[s] = got[s]
            /\ chan'[s] = Append(chan[s], Head(batch[s])) /\ batch'[s] = Tail(batch[s])
        BY <2>1 DEF SendChunk, Typed
      <3>2. Joined(got[s], Append(chan[s], Head(batch[s])), Tail(batch[s]))
              = Joined(got[s], chan[s], batch[s])
        BY <1>1, <3>1, TakenBySender, SMT
      <3> QED
        BY <3>1, <3>2, Zenon DEF Out
    <2>2. CASE Read(s)
      <3>1. /\ chan[s] # <<>> /\ batch'[s] = batch[s]
            /\ got'[s] = Append(got[s], Head(chan[s])) /\ chan'[s] = Tail(chan[s])
        BY <2>2 DEF Read, body, Typed
      <3>2. Joined(Append(got[s], Head(chan[s])), Tail(chan[s]), batch[s])
              = Joined(got[s], chan[s], batch[s])
        BY <1>1, <3>1, TakenByReader, SMT
      <3> QED
        BY <3>1, <3>2, Zenon DEF Out
    <2> QED
      BY <2>1, <2>2
  <1>5. AsDeclared(s)' <=> AsDeclared(s)
    BY <1>2, <1>4 DEF AsDeclared, Increasing, Shown
  <1> QED
    BY <1>2, <1>3, <1>4, <1>5 DEF OrderedAt

\* A refused stream that nothing was sent to gets the directive.
LEMMA RetryOrdered ==
  ASSUME Typed, NEW s \in Streams, OrderedAt(s), Retry(s)
  PROVE  OrderedAt(s)'
  <1>1. Untouched(s) /\ pc'[s] = "done"
    BY DEF Retry, Goto, OrderedAt, Early, Typed
  <1>2. "done" \notin Early
    BY DEF Early
  <1>3. ASSUME client'[s] = "reading" PROVE Out(s)' = <<RetryChunk>>
    <2>1. /\ got'[s] = <<>> /\ batch'[s] = <<>>
          /\ chan'[s] = Append(<<>>, RetryChunk)
      BY <1>1, <1>3 DEF Retry, body, Untouched, Typed
    <2> QED
      BY <2>1 DEF Out, RetryChunk, Joined
  <1> QED
    BY <1>1, <1>2, <1>3 DEF OrderedAt

\* Nothing is asked of a stream whose client is gone, but that it was not
\* touched before its thread ran.
LEMMA LostOrdered ==
  ASSUME Typed, NEW s \in Streams, OrderedAt(s), SendFails(s) \/ Disconnect(s)
  PROVE  OrderedAt(s)'
  <1>1. pc'[s] = pc[s] /\ client'[s] = "gone"
    BY DEF SendFails, Disconnect, Typed
  <1>2. pc[s] \in Early => Untouched(s)'
    BY DEF SendFails, Disconnect, body, OrderedAt, Untouched, Early, Typed
  <1> QED
    BY <1>1, <1>2 DEF OrderedAt

\* Every step keeps the variables in their types.
LEMMA NextTyped ==
  ASSUME Typed, PlacesKept, NEW s \in Streams,
         \/ Create(s) \/ Count(s) \/ Spawn(s) \/ SpawnFails(s) \/ Retry(s)
         \/ Thread(s) \/ Read(s) \/ Disconnect(s)
  PROVE  Typed'
  <1>1. active' \in Nat
    BY NextPlaces
  <1>2. CASE \/ Create(s) \/ Count(s) \/ Spawn(s) \/ SpawnFails(s)
             \/ PullRaises(s) \/ PullStops(s) \/ BatchSent(s) \/ CloseIterator(s) \/ Leave(s)
    BY <1>1, <1>2
    DEF Typed, Places, Owning, Goto, body, Create, Count, Spawn, SpawnFails, PullRaises,
        PullStops, BatchSent, CloseIterator, Leave
  <1>3. CASE Disconnect(s) \/ SendFails(s)
    <2>1. <<>> \in Seq(Nat)
      BY EmptySeq
    <2>2. chan' \in [Streams -> Seq(Nat)] /\ batch' \in [Streams -> Seq(Nat)]
      BY <1>3, <2>1 DEF Typed, body, Disconnect, SendFails
    <2> QED
      BY <1>1, <1>3, <2>2 DEF Typed, body, Disconnect, SendFails
  <1>4. CASE Retry(s)
    <2>1. chan[s] \in Seq(Nat) /\ Append(chan[s], RetryChunk) \in Seq(Nat)
      BY AppendProperties DEF Typed, RetryChunk
    <2>2. chan' \in [Streams -> Seq(Nat)]
      BY <1>4, <2>1 DEF Typed, Retry
    <2>3. pc' \in [Streams -> Places]
      BY <1>4 DEF Typed, Retry, Goto, Places
    <2> QED
      BY <1>1, <1>4, <2>2, <2>3 DEF Typed, body, Retry
  <1>5. CASE SendChunk(s)
    <2>1. Append(chan[s], Head(batch[s])) \in Seq(Nat) /\ Tail(batch[s]) \in Seq(Nat)
      BY <1>5, HeadMoved DEF SendChunk, Typed
    <2>2. chan' \in [Streams -> Seq(Nat)] /\ batch' \in [Streams -> Seq(Nat)]
      BY <1>5, <2>1 DEF Typed, SendChunk
    <2> QED
      BY <1>1, <1>5, <2>2 DEF Typed, SendChunk
  <1>6. CASE Read(s)
    <2>1. Append(got[s], Head(chan[s])) \in Seq(Nat) /\ Tail(chan[s]) \in Seq(Nat)
      BY <1>6, HeadMoved DEF Read, Typed
    <2>2. got' \in [Streams -> Seq(Nat)] /\ chan' \in [Streams -> Seq(Nat)]
      BY <1>6, <2>1 DEF Typed, Read
    <2> QED
      BY <1>1, <1>6, <2>2 DEF Typed, body, Read
  <1>7. CASE Pull(s)
    <2>1. yielded[s] + 1 \in Nat /\ batch[s] \in Seq(Nat)
      BY DEF Typed
    <2>2. Append(batch[s], yielded[s] + 1) \in Seq(Nat)
      BY <2>1, AppendProperties
    <2>3. batch' \in [Streams -> Seq(Nat)] /\ yielded' \in [Streams -> Nat]
      BY <1>7, <2>1, <2>2 DEF Typed, Pull
    <2>4. pc' \in [Streams -> Places]
      BY <1>7 DEF Typed, Pull, Goto, Places, Owning
    <2> QED
      BY <1>1, <1>7, <2>3, <2>4 DEF Typed, Pull
  <1> QED
    BY <1>2, <1>3, <1>4, <1>5, <1>6, <1>7 DEF Thread

\* Every step keeps every stream in order.
LEMMA NextOrdered ==
  ASSUME Typed, Ordered, NEW s \in Streams,
         \/ Create(s) \/ Count(s) \/ Spawn(s) \/ SpawnFails(s) \/ Retry(s)
         \/ Thread(s) \/ Read(s) \/ Disconnect(s)
  PROVE  Ordered'
  <1>1. ASSUME NEW r \in Streams, r # s PROVE OrderedAt(r)'
    <2>1. pc'[r] = pc[r] /\ Chunks(r)' = Chunks(r)
      BY <1>1
      DEF Typed, Chunks, Goto, body, Create, Count, Spawn, SpawnFails, Retry, Thread, Pull,
          PullRaises, PullStops, SendChunk, SendFails, BatchSent, CloseIterator, Leave,
          Read, Disconnect
    <2> QED
      BY <2>1, OrderKept DEF Ordered
  <1>2. OrderedAt(s)'
    <2>0. OrderedAt(s)
      BY DEF Ordered
    <2>1. CASE \/ Create(s) \/ Count(s) \/ Spawn(s) \/ SpawnFails(s)
               \/ PullRaises(s) \/ PullStops(s) \/ BatchSent(s) \/ CloseIterator(s) \/ Leave(s)
      <3>1. Chunks(s)' = Chunks(s)
        BY <2>1
        DEF Typed, Chunks, body, Create, Count, Spawn, SpawnFails, PullRaises, PullStops,
            BatchSent, CloseIterator, Leave
      <3>2. pc[s] # "done" /\ (pc'[s] \in Early => pc[s] \in Early)
        BY <2>1
        DEF Typed, Early, Goto, Create, Count, Spawn, SpawnFails, PullRaises, PullStops,
            BatchSent, CloseIterator, Leave
      <3> QED
        BY <2>0, <3>1, <3>2, OrderKept
    <2> QED
      BY <2>0, <2>1, PullOrdered, PassedOnOrdered, RetryOrdered, LostOrdered DEF Thread
  <1> QED
    BY <1>1, <1>2 DEF Ordered
-----------------------------------------------------------------------------
\* What appending a chunk to an asynchronous stream does to its items: a ping
\* changes nothing, an item must be above those before it.
LEMMA AppendedChunk ==
  ASSUME NEW q \in Seq(Nat), NEW n \in Nat
  PROVE  /\ Async!Increasing(Append(q, n)) <=>
              /\ Async!Increasing(q)
              /\ n = Async!Ping \/ \A m \in Async!Shown(q) : m < n
         /\ Async!Shown(Append(q, n)) = Async!Shown(q) \cup ({n} \ {Async!Ping})
  <1> DEFINE r == Append(q, n)
  <1>1. /\ DOMAIN q = 1..Len(q) /\ DOMAIN r = 1..(Len(q) + 1) /\ Len(q) \in Nat
        /\ \A i \in 1..Len(q) : r[i] = q[i] /\ q[i] \in Nat
        /\ r[Len(q) + 1] = n
    BY AppendProperties, LenProperties, ElementOfSeq
  <1>2. 1..(Len(q) + 1) = (1..Len(q)) \cup {Len(q) + 1}
    BY <1>1
  <1> HIDE DEF r
  <1>3. Async!Shown(r) = Async!Shown(q) \cup ({n} \ {Async!Ping})
    BY <1>1, <1>2 DEF Async!Shown
  <1>4. Async!Increasing(r) => Async!Increasing(q)
    BY <1>1, <1>2 DEF Async!Increasing
  <1>5. ASSUME Async!Increasing(r), n # Async!Ping, NEW m \in Async!Shown(q) PROVE m < n
    <2>1. PICK i \in 1..Len(q) : m = q[i] /\ m # Async!Ping
      BY <1>1, <1>5 DEF Async!Shown
    <2>2. i < Len(q) + 1 /\ i \in DOMAIN r /\ Len(q) + 1 \in DOMAIN r
      BY <1>1
    <2> QED
      BY <1>1, <1>5, <2>1, <2>2 DEF Async!Increasing
  <1>6. ASSUME Async!Increasing(q), n = Async!Ping \/ \A m \in Async!Shown(q) : m < n
        PROVE  Async!Increasing(r)
    <2> SUFFICES ASSUME NEW i \in DOMAIN r, NEW j \in DOMAIN r, i < j,
                        Async!Ping \notin {r[i], r[j]}
                 PROVE  r[i] < r[j]
      BY DEF Async!Increasing
    <2>1. i \in 1..Len(q)
      BY <1>1
    <2>2. CASE j \in 1..Len(q)
      BY <1>1, <1>6, <2>1, <2>2 DEF Async!Increasing
    <2>3. CASE j = Len(q) + 1
      <3>1. r[i] \in Async!Shown(q) /\ r[j] = n
        BY <1>1, <2>1, <2>3 DEF Async!Shown
      <3> QED
        BY <1>6, <3>1
    <2> QED
      BY <1>1, <2>2, <2>3
  <1>7. Async!Increasing(r) <=>
          /\ Async!Increasing(q)
          /\ n = Async!Ping \/ \A m \in Async!Shown(q) : m < n
    BY <1>4, <1>5, <1>6
  <1> QED
    BY <1>3, <1>7 DEF r

\* A step that leaves the chunks as they are keeps their order.
LEMMA AsyncOrderKept ==
  ASSUME AsyncOrdered, AsyncOut' = AsyncOut, pulled' = pulled,
         reader = "gone" => reader' = "gone",
         forwarder = "done" => forwarder' = "done"
  PROVE  AsyncOrdered'
  <1>1. /\ Async!Increasing(AsyncOut)' <=> Async!Increasing(AsyncOut)
        /\ Async!Shown(AsyncOut)' = Async!Shown(AsyncOut)
        /\ Async!StartError' = Async!StartError
    BY DEF Async!Increasing, Async!Shown, Async!Ping, Async!StartError
  <1> QED
    BY <1>1 DEF AsyncOrdered

\* A step of the forwarder that moves no chunk.
LEMMA ForwarderMoves ==
  ASSUME AsyncInv,
         \/ Async!Start \/ Async!PullEnds \/ Async!ChannelFull
         \/ Async!Aclose \/ Async!CloseSender \/ Async!EndOfBody
  PROVE  AsyncInv'
  <1> USE DEF Async!Start, Async!PullEnds, Async!ChannelFull, Async!Aclose,
              Async!CloseSender, Async!EndOfBody, Async!Serving
  <1>1. /\ held' = held /\ channel' = channel /\ received' = received /\ pulled' = pulled
        /\ reader = "gone" => reader' = "gone"
        /\ forwarder = "done" => forwarder' = "done"
    OBVIOUS
  <1>2. AsyncTyped'
    BY <1>1 DEF AsyncInv, AsyncTyped
  <1>3. Holding'
    BY <1>1 DEF AsyncInv, Holding
  <1>4. AsyncOut' = AsyncOut
    BY <1>1 DEF AsyncOut
  <1> QED
    BY <1>1, <1>2, <1>3, <1>4, AsyncOrderKept DEF AsyncInv

\* The body of a stream that could not be scheduled is one error.
LEMMA StartFailsInOrder ==
  ASSUME AsyncInv, Async!StartFails
  PROVE  AsyncInv'
  <1>1. /\ received = <<>> /\ held = <<>> /\ pulled = 0
        /\ received' = <<>> /\ channel' = <<Async!StartError>> /\ held' = <<>>
        /\ pulled' = 0 /\ forwarder' = "done"
    BY DEF Async!StartFails, AsyncInv, Holding
  <1>2. AsyncTyped'
    BY <1>1, AsyncStreamAssumption DEF AsyncTyped, Async!StartError
  <1>3. Holding'
    BY <1>1 DEF Holding
  <1>4. AsyncOut' = <<0>>
    BY <1>1 DEF AsyncOut, Async!StartError
  <1>5. 0 # MaxItems + 1
    BY AsyncStreamAssumption
  <1>6. Async!Shown(AsyncOut)' = {0} /\ Async!Increasing(AsyncOut)'
    BY <1>4, <1>5 DEF Async!Shown, Async!Increasing, Async!Ping
  <1> QED
    BY <1>1, <1>2, <1>3, <1>6 DEF AsyncInv, AsyncOrdered, Async!StartError

\* An item that is pulled is above all the items before it.
LEMMA PullInOrder ==
  ASSUME AsyncInv, Async!Pull
  PROVE  AsyncInv'
  <1> DEFINE n == pulled + 1
  <1>1. /\ forwarder = "next" /\ held = <<>> /\ pulled \in Nat /\ n \in 1..MaxItems
        /\ received' = received /\ channel' = channel /\ pulled' = n /\ reader' = reader
        /\ received \in Seq(Nat) /\ channel \in Seq(Nat)
    BY AsyncStreamAssumption DEF Async!Pull, AsyncInv, AsyncTyped, Holding
  <1>2. n # Async!Ping /\ Async!Ping \in Nat
    BY <1>1, AsyncStreamAssumption DEF Async!Ping
  <1>3. AsyncOut = received \o channel /\ AsyncOut \in Seq(Nat)
    BY <1>1, ConcatProperties DEF AsyncOut
  <1>4. reader # "gone" => /\ Async!Increasing(AsyncOut)
                           /\ Async!Shown(AsyncOut) = (1..pulled) \ AsyncUnsendable
    BY <1>1 DEF AsyncInv, AsyncOrdered
  <1>5. CASE n \in AsyncUnsendable
    <2>1. held' = <<>> /\ forwarder' = "finally"
      BY <1>1, <1>5 DEF Async!Pull
    <2>2. AsyncTyped' /\ Holding'
      BY <1>1, <2>1 DEF AsyncTyped, Holding
    <2>3. AsyncOut' = AsyncOut
      BY <1>1, <2>1 DEF AsyncOut
    <2>4. /\ Async!Increasing(AsyncOut)' <=> Async!Increasing(AsyncOut)
          /\ Async!Shown(AsyncOut)' = Async!Shown(AsyncOut)
      BY <2>3 DEF Async!Increasing, Async!Shown, Async!Ping
    <2>5. (1..pulled) \ AsyncUnsendable = (1..n) \ AsyncUnsendable
      BY <1>1, <1>5
    <2> QED
      BY <1>1, <1>4, <2>2, <2>4, <2>5 DEF AsyncInv, AsyncOrdered
  <1>6. CASE n \notin AsyncUnsendable
    <2>1. held' = <<n>> /\ forwarder' = "sending"
      BY <1>1, <1>6 DEF Async!Pull
    <2>2. AsyncTyped' /\ Holding'
      BY <1>1, <2>1 DEF AsyncTyped, Holding
    <2>3. AsyncOut' = Append(AsyncOut, n)
      <3>1. AsyncOut' = (received \o channel) \o <<n>>
        BY <1>1, <2>1 DEF AsyncOut
      <3>2. \A q \in Seq(Nat) : q \o <<n>> = Append(q, n)
        BY <1>1
      <3> QED
        BY <1>3, <3>1, <3>2
    <2>4. reader # "gone" => /\ Async!Increasing(Append(AsyncOut, n))
                             /\ Async!Shown(Append(AsyncOut, n)) = (1..n) \ AsyncUnsendable
      <3> SUFFICES ASSUME reader # "gone"
                   PROVE  /\ Async!Increasing(Append(AsyncOut, n))
                          /\ Async!Shown(Append(AsyncOut, n)) = (1..n) \ AsyncUnsendable
        OBVIOUS
      <3>1. \A m \in Async!Shown(AsyncOut) : m < n
        BY <1>1, <1>4
      <3>2. (1..n) \ AsyncUnsendable = ((1..pulled) \ AsyncUnsendable) \cup ({n} \ {Async!Ping})
        BY <1>1, <1>2, <1>6
      <3>3. n \in Nat
        BY <1>1
      <3> QED
        BY <1>3, <1>4, <3>1, <3>2, <3>3, AppendedChunk
    <2>5. /\ Async!Increasing(AsyncOut)' <=> Async!Increasing(Append(AsyncOut, n))
          /\ Async!Shown(AsyncOut)' = Async!Shown(Append(AsyncOut, n))
      BY <2>3 DEF Async!Increasing, Async!Shown, Async!Ping
    <2> QED
      BY <1>1, <2>2, <2>4, <2>5 DEF AsyncInv, AsyncOrdered
  <1> QED
    BY <1>5, <1>6

\* An item that is sent goes to the end of the channel.
LEMMA PushInOrder ==
  ASSUME AsyncInv, Async!TrySend \/ Async!SendAwaited
  PROVE  AsyncInv'
  <1>1. /\ forwarder \in {"sending", "waiting"} /\ forwarder' = "next"
        /\ channel' = channel \o held /\ held' = <<>>
        /\ received' = received /\ pulled' = pulled /\ reader' = reader
    BY DEF Async!TrySend, Async!SendAwaited, Async!Push
  <1>2. received \in Seq(Nat) /\ channel \in Seq(Nat) /\ held \in Seq(Nat)
    BY DEF AsyncInv, AsyncTyped
  <1>3. channel \o held \in Seq(Nat) /\ <<>> \in Seq(Nat)
    BY <1>2, ConcatProperties, EmptySeq
  <1>4. AsyncTyped' /\ Holding'
    BY <1>1, <1>3 DEF AsyncInv, AsyncTyped, Holding
  <1>5. AsyncOut' = AsyncOut
    <2>1. AsyncOut' = (received \o (channel \o held)) \o <<>>
      BY <1>1, Zenon DEF AsyncOut
    <2>2. \A q \in Seq(Nat) : q \o <<>> = q
      BY ConcatEmptySeq
    <2>3. received \o (channel \o held) \in Seq(Nat)
      BY <1>2, <1>3, ConcatProperties
    <2>4. (received \o channel) \o held = received \o (channel \o held)
      BY <1>2, Regrouped, Zenon DEF Joined
    <2> QED
      BY <2>1, <2>2, <2>3, <2>4, Zenon DEF AsyncOut
  <1> QED
    BY <1>1, <1>4, <1>5, AsyncOrderKept DEF AsyncInv

\* Nothing is asked of what a lost client received.
LEMMA LostInOrder ==
  ASSUME AsyncInv, Async!ChannelClosed \/ Async!Disconnect
  PROVE  AsyncInv'
  <1>1. /\ reader' = "gone" /\ received' = received /\ pulled' = pulled
        /\ channel' \in {<<>>, channel} /\ held' \in {<<>>, held}
    BY DEF Async!ChannelClosed, Async!Disconnect
  <1>2. AsyncTyped'
    BY <1>1, EmptySeq DEF AsyncInv, AsyncTyped
  <1>3. Holding'
    BY <1>1 DEF Async!ChannelClosed, Async!Disconnect, Async!Serving, AsyncInv, Holding
  <1> QED
    BY <1>1, <1>2, <1>3 DEF AsyncInv, AsyncOrdered

\* A chunk that is read only changes hands.
LEMMA ReadInOrder ==
  ASSUME AsyncInv, Async!Read
  PROVE  AsyncInv'
  <1>1. /\ channel # <<>> /\ received' = Append(received, Head(channel))
        /\ channel' = Tail(channel) /\ held' = held /\ pulled' = pulled
        /\ reader' = reader /\ forwarder' = forwarder /\ forwarder # "start"
    BY DEF Async!Read, Async!Serving
  <1>2. received \in Seq(Nat) /\ channel \in Seq(Nat) /\ held \in Seq(Nat)
    BY DEF AsyncInv, AsyncTyped
  <1>3. /\ Append(received, Head(channel)) \in Seq(Nat) /\ Tail(channel) \in Seq(Nat)
        /\ Append(received, Head(channel)) \o Tail(channel) = received \o channel
    BY <1>1, <1>2, HeadMoved
  <1>4. AsyncOut' = AsyncOut
    BY <1>1, <1>3, Zenon DEF AsyncOut
  <1>5. AsyncTyped' /\ Holding'
    BY <1>1, <1>3 DEF AsyncInv, AsyncTyped, Holding
  <1> QED
    BY <1>1, <1>4, <1>5, AsyncOrderKept DEF AsyncInv

\* A ping slips in before the item that waits to be sent.
LEMMA KeepAliveInOrder ==
  ASSUME AsyncInv, Async!KeepAlive
  PROVE  AsyncInv'
  <1> DEFINE P == Async!Ping
  <1>1. /\ channel = <<>> /\ channel' = <<>> /\ received' = Append(received, P)
        /\ held' = held /\ pulled' = pulled
        /\ reader' = reader /\ forwarder' = forwarder /\ forwarder # "start"
    BY DEF Async!KeepAlive, Async!Serving
  <1>2. P \in Nat /\ received \in Seq(Nat) /\ held \in Seq(Nat) /\ pulled \in Nat
    BY AsyncStreamAssumption DEF AsyncInv, AsyncTyped, Async!Ping
  <1> HIDE DEF P
  <1>3. Append(received, P) \in Seq(Nat)
    BY <1>2, AppendProperties
  <1>4. AsyncTyped' /\ Holding'
    BY <1>1, <1>3 DEF AsyncInv, AsyncTyped, Holding
  <1>5. /\ Async!Increasing(Append(received, P)) <=> Async!Increasing(received)
        /\ Async!Shown(Append(received, P)) = Async!Shown(received)
    <2>1. /\ Async!Increasing(Append(received, P)) <=>
               /\ Async!Increasing(received)
               /\ P = Async!Ping \/ \A m \in Async!Shown(received) : m < P
          /\ Async!Shown(Append(received, P))
               = Async!Shown(received) \cup ({P} \ {Async!Ping})
      BY <1>2, AppendedChunk
    <2>2. P = Async!Ping
      BY DEF P
    <2> QED
      BY <2>1, <2>2, Zenon
  <1>6. /\ Async!Increasing(AsyncOut') <=> Async!Increasing(AsyncOut)
        /\ Async!Shown(AsyncOut') = Async!Shown(AsyncOut)
    <2>1. \A q \in Seq(Nat) : q \o <<>> = q /\ q \o <<>> \o <<>> = q
      BY ConcatEmptySeq
    <2>2. CASE held = <<>>
      <3>1. AsyncOut = received /\ AsyncOut' = Append(received, P)
        BY <1>1, <1>2, <1>3, <2>1, <2>2 DEF AsyncOut
      <3> QED
        BY <1>5, <3>1
    <2>3. CASE held = <<pulled>>
      <3>1. \A q \in Seq(Nat) : q \o <<>> \o <<pulled>> = Append(q, pulled)
        BY <1>2
      <3>2. /\ AsyncOut = Append(received, pulled)
            /\ AsyncOut' = Append(Append(received, P), pulled)
        BY <1>1, <1>2, <1>3, <2>3, <3>1 DEF AsyncOut
      <3>3. /\ Async!Increasing(Append(received, pulled)) <=>
                 /\ Async!Increasing(received)
                 /\ pulled = Async!Ping \/ \A m \in Async!Shown(received) : m < pulled
            /\ Async!Shown(Append(received, pulled))
                 = Async!Shown(received) \cup ({pulled} \ {Async!Ping})
        BY <1>2, AppendedChunk
      <3>4. /\ Async!Increasing(Append(Append(received, P), pulled)) <=>
                 /\ Async!Increasing(Append(received, P))
                 /\ \/ pulled = Async!Ping
                    \/ \A m \in Async!Shown(Append(received, P)) : m < pulled
            /\ Async!Shown(Append(Append(received, P), pulled))
                 = Async!Shown(Append(received, P)) \cup ({pulled} \ {Async!Ping})
        BY <1>2, <1>3, AppendedChunk
      <3> QED
        BY <1>5, <3>2, <3>3, <3>4, Zenon
    <2> QED
      BY <2>2, <2>3 DEF AsyncInv, Holding
  <1>7. /\ Async!Increasing(AsyncOut)' <=> Async!Increasing(AsyncOut')
        /\ Async!Shown(AsyncOut)' = Async!Shown(AsyncOut')
        /\ Async!StartError' = Async!StartError
    BY DEF Async!Increasing, Async!Shown, Async!Ping, Async!StartError
  <1> QED
    BY <1>1, <1>4, <1>6, <1>7, Zenon DEF AsyncInv, AsyncOrdered

\* Every step of the forwarder, the body and the client.
LEMMA NextAsync ==
  ASSUME AsyncInv, Async!Next
  PROVE  AsyncInv'
  BY ForwarderMoves, StartFailsInOrder, PullInOrder, PushInOrder, LostInOrder, ReadInOrder,
     KeepAliveInOrder
  DEF Async!Next, Async!Forward
-----------------------------------------------------------------------------
\* The initial states of both kinds of stream.
LEMMA InitStreams == MCInit => StreamsInv
  <1> SUFFICES ASSUME MCInit PROVE StreamsInv
    OBVIOUS
  <1>1. Typed
    BY EmptySeq DEF MCInit, Init, Typed, Places
  <1>2. PlacesKept
    <2>1. At(Owning) = {} /\ At({"checked"}) = {} /\ active = 0
      BY DEF MCInit, Init, At, Owning
    <2>2. Cardinality(At(Owning)) = 0 /\ Cardinality(At({"checked"})) = 0
      BY <2>1, FS_EmptySet
    <2> QED
      BY <2>1, <2>2, SyncStreamAssumption DEF PlacesKept
  <1>3. Ordered
    <2> SUFFICES ASSUME NEW s \in Streams PROVE OrderedAt(s)
      BY DEF Ordered
    <2>1. Untouched(s)
      BY DEF MCInit, Init, Untouched
    <2>2. Out(s) = <<>>
      BY <2>1 DEF Untouched, Out, Joined
    <2>3. AsDeclared(s)
      BY <2>1, <2>2 DEF AsDeclared, Untouched, Increasing, Shown
    <2> QED
      BY <2>1, <2>3 DEF OrderedAt
  <1>4. /\ held = <<>> /\ channel = <<>> /\ received = <<>> /\ pulled = 0
        /\ forwarder \in {"start", "done"}
    BY DEF MCInit, Async!Init
  <1>5. AsyncTyped /\ Holding
    BY <1>4, EmptySeq, AsyncStreamAssumption DEF AsyncTyped, Holding
  <1>6. AsyncOrdered
    <2>1. AsyncOut = <<>>
      BY <1>4 DEF AsyncOut
    <2> QED
      BY <1>4, <2>1 DEF AsyncOrdered, Async!Increasing, Async!Shown
  <1> QED
    BY <1>1, <1>2, <1>3, <1>5, <1>6 DEF StreamsInv, SyncInv, AsyncInv

\* Every step of either kind.
LEMMA NextStreams == StreamsInv /\ [MCNext]_<<which, vars, async>> => StreamsInv'
  <1> SUFFICES ASSUME StreamsInv, [MCNext]_<<which, vars, async>> PROVE StreamsInv'
    OBVIOUS
  <1>1. SyncInv'
    <2>1. CASE UNCHANGED vars
      <3>1. Typed' /\ PlacesKept'
        BY <2>1 DEF StreamsInv, SyncInv, vars, Typed, PlacesKept, At
      <3>2. ASSUME NEW s \in Streams PROVE OrderedAt(s)'
        <4>1. pc'[s] = pc[s] /\ Chunks(s)' = Chunks(s)
          BY <2>1 DEF vars, Chunks
        <4> QED
          BY <4>1, OrderKept DEF StreamsInv, SyncInv, Ordered
      <3> QED
        BY <3>1, <3>2 DEF SyncInv, Ordered
    <2>2. CASE Next
      BY <2>2, NextTyped, NextPlaces, NextOrdered DEF Next, StreamsInv, SyncInv
    <2> QED
      BY <2>1, <2>2 DEF MCNext
  <1>2. AsyncInv'
    <2>1. CASE UNCHANGED async
      <3>1. AsyncTyped' /\ Holding' /\ AsyncOut' = AsyncOut /\ UNCHANGED <<pulled, reader, forwarder>>
        BY <2>1 DEF StreamsInv, AsyncInv, async, AsyncTyped, Holding, AsyncOut
      <3> QED
        BY <3>1, AsyncOrderKept DEF StreamsInv, AsyncInv
    <2>2. CASE Async!Next
      BY <2>2, NextAsync DEF StreamsInv
    <2> QED
      BY <2>1, <2>2 DEF MCNext
  <1> QED
    BY <1>1, <1>2 DEF StreamsInv

\* The invariant holds of every behaviour.
LEMMA SpecStreams == MCFairSpec => []StreamsInv
  BY InitStreams, NextStreams, PTL DEF MCFairSpec

\* ACTIVE_SYNC_STREAMING_THREADS counts exactly the streams that own a thread
\* and exceeds the limit by at most the other workers, for any number of
\* streams, workers and threads allowed.
THEOREM ThreadsAreAccounted == MCFairSpec => []ThreadsAccounted
  <1>1. StreamsInv => ThreadsAccounted
    BY AtCounted, SyncStreamAssumption DEF StreamsInv, SyncInv, PlacesKept, ThreadsAccounted
  <1> QED
    BY <1>1, SpecStreams, PTL

\* A client that stays gets exactly the chunks that can be sent, in order,
\* from a synchronous iterator and from an asynchronous one, for any batch and
\* channel size and any items.
THEOREM StreamsAreInOrder == MCFairSpec => []StreamsInOrder
  <1>1. StreamsInv => ChunksInOrder
    BY DEF StreamsInv, SyncInv, Ordered, OrderedAt, AsDeclared, Out, ChunksInOrder, Joined
  <1>2. StreamsInv => Async!ItemsInOrder
    BY DEF StreamsInv, AsyncInv, AsyncOrdered, AsyncOut, Async!ItemsInOrder
  <1> QED
    BY <1>1, <1>2, SpecStreams, PTL DEF StreamsInOrder

----------------------------------------------------------------------------
(***************************************************************************)
(* Pages.  A walk with a cursor has shown the rows up to the key where it  *)
(* stands, whatever is written: rows inserted behind it are not met again. *)
(* If the items carry the key they are all it has passed.  The others have *)
(* shown the rows before the next page as they stand by id, which is worth *)
(* something if the queryset is ordered and as long as nobody writes.      *)
(***************************************************************************)

\* Where a request's cursor stands in the order of the rows; what it has passed.
CursorAt == IF Descending THEN -asked[2] ELSE asked[2]
Passed(id) == walkPc = "end" \/ (Pages!IsInt(asked) /\ Pages!Ordering[id] <= CursorAt)

WalkTyped ==
  /\ rows \subseteq Ids /\ constant \subseteq rows /\ shown \in Seq(Ids)
  /\ scheme \in Schemes /\ size \in Sizes
  /\ queryset \in IF scheme = "cursor" THEN {"keyed", "keyless"} ELSE {"ordered", "unordered"}
  /\ writes \in Nat /\ total \in Nat
  /\ walkPc \in {"ask", "counted", "end"}
  /\ Pages!IsInt(asked) => asked[2] \in Int

\* Nothing but what the cursor has passed was shown; on keyed items all of it was,
\* if it was there.
CursorWalk ==
  scheme = "cursor" =>
    /\ walkPc # "counted"
    /\ \A i, j \in DOMAIN shown : shown[i] = shown[j] => i = j
    /\ \A i \in DOMAIN shown : Passed(shown[i])
    /\ queryset = "keyed" => \A id \in constant : Passed(id) => \E i \in DOMAIN shown : shown[i] = id

\* The rows before the next page.
Skipped ==
  IF scheme = "page" THEN (Pages!PageOf(asked) - 1) * Pages!GetPageSize(size) ELSE Pages!OffsetOf(asked)

\* If nothing was written, the rows before the next page of an ordered queryset
\* are those shown.
CountedWalk ==
  writes = 0 =>
    /\ constant = rows
    /\ queryset = "ordered" =>
         /\ walkPc = "counted" => total = Cardinality(rows)
         /\ walkPc # "end" =>
              /\ Len(shown) = Skipped
              /\ Skipped < Cardinality(rows) \/ (Skipped = 0 /\ Pages!PageOf(asked) = 1)
         /\ walkPc = "end" => Len(shown) = Cardinality(rows)
         /\ \A i \in DOMAIN shown : shown[i] = Pages!ById[i]

WalkInv == WalkTyped /\ CursorWalk /\ CountedWalk

\* The rows a cursor query selects: those it has not passed.
Beyond == {id \in rows : ~(Pages!IsInt(asked) /\ Pages!Ordering[id] <= CursorAt)}

\* Inside the instance and outside, the same count.
LEMMA CountAlike == \A S : Pages!Cardinality(S) = Cardinality(S)
  BY Zenon DEF Pages!Cardinality, Cardinality

\* Sorting a set puts each element in one place, in increasing order.
LEMMA SortedPlaces ==
  ASSUME NEW S, IsFiniteSet(S), NEW order,
         \A x \in S : order[x] \in Int, \A x, y \in S : order[x] = order[y] => x = y
  PROVE  LET s == Pages!Sorted(S, order) IN
         /\ s \in Seq(S) /\ Len(s) = Cardinality(S) /\ Cardinality(S) \in Nat
         /\ \A x \in S : \E i \in 1..Cardinality(S) : s[i] = x
         /\ \A i, j \in 1..Cardinality(S) : i < j <=> order[s[i]] < order[s[j]]
  <1> DEFINE Upto(x) == {y \in S : order[y] <= order[x]}
             rank(x) == Pages!Cardinality(Upto(x))
             n == Cardinality(S)
             s == Pages!Sorted(S, order)
  <1>1. n \in Nat
    BY FS_CardinalityType
  <1>r. \A x : rank(x) = Cardinality(Upto(x))
    BY CountAlike
  <1>2. \A x \in S : Upto(x) \subseteq S /\ x \in Upto(x)
    OBVIOUS
  <1>3. \A x \in S : IsFiniteSet(Upto(x)) /\ rank(x) \in Nat /\ rank(x) <= n
    <2> HIDE DEF Upto, rank
    <2> QED
      BY <1>1, <1>r, <1>2, FS_Subset, FS_CardinalityType
  <1>4. \A x \in S : rank(x) # 0
    <2> HIDE DEF Upto, rank
    <2> QED
      BY <1>r, <1>2, <1>3, FS_EmptySet
  <1>5. ASSUME NEW x \in S, NEW y \in S, order[x] < order[y]
        PROVE  rank(x) < rank(y)
    <2>1. Upto(x) \subseteq Upto(y) /\ y \in Upto(y) /\ y \notin Upto(x)
      BY <1>5
    <2> HIDE DEF Upto
    <2>2. Upto(x) \subseteq Upto(y) \ {y}
      BY <2>1
    <2>3. Cardinality(Upto(y) \ {y}) = Cardinality(Upto(y)) - 1 /\ IsFiniteSet(Upto(y) \ {y})
      BY <1>3, <2>1, FS_RemoveElement
    <2>4. Cardinality(Upto(x)) <= Cardinality(Upto(y) \ {y})
      BY <2>2, <2>3, FS_Subset
    <2>5. Cardinality(Upto(x)) = rank(x) /\ Cardinality(Upto(y)) = rank(y)
      BY <1>r
    <2> HIDE DEF rank
    <2> QED
      BY <1>3, <2>3, <2>4, <2>5
  <1>6. \A x, y \in S : rank(x) = rank(y) => x = y
    <2> SUFFICES ASSUME NEW x \in S, NEW y \in S, rank(x) = rank(y), x # y PROVE FALSE
      OBVIOUS
    <2>1. order[x] < order[y] \/ order[y] < order[x]
      OBVIOUS
    <2>2. rank(x) < rank(y) \/ rank(y) < rank(x)
      <3> HIDE DEF rank
      <3> QED
        BY <1>5, <2>1
    <2>3. rank(x) \in Nat /\ rank(y) \in Nat
      BY <1>3
    <2> HIDE DEF rank
    <2> QED
      BY <2>2, <2>3
  <1>7. \A i \in 1..n : \E x \in S : rank(x) = i
    <2> DEFINE f == [x \in S |-> rank(x)]
    <2> HIDE DEF rank, n
    <2>1. f \in [S -> 1..n]
      <3>1. ASSUME NEW x \in S PROVE rank(x) \in 1..n
        <4>1. rank(x) \in Nat /\ rank(x) <= n /\ rank(x) # 0 /\ n \in Nat
          BY <1>1, <1>3, <1>4, Zenon
        <4> QED
          BY <4>1
      <3> QED
        BY <3>1
    <2>2. IsInjective(f)
      BY <1>6 DEF IsInjective
    <2>3. IsFiniteSet(1..n) /\ Cardinality(1..n) = n
      BY <1>1, FS_Interval
    <2>4. f \in Injection(S, 1..n)
      BY <2>1, <2>2 DEF Injection
    <2>5. f \in Surjection(S, 1..n)
      BY <2>3, <2>4, FS_Injection, FS_Surjection DEF n
    <2> QED
      BY <2>5 DEF Surjection
  <1> DEFINE at(i) == CHOOSE x \in S : rank(x) = i
  <1>8. s = [i \in 1..n |-> at(i)]
    <2>1. Pages!Sorted(S, order) = [i \in 1..Pages!Cardinality(S) |-> at(i)]
      BY Zenon DEF Pages!Sorted
    <2>2. Pages!Cardinality(S) = n
      BY CountAlike
    <2> HIDE DEF at, n
    <2> QED
      BY <2>1, <2>2
  <1>9. \A i \in 1..n : at(i) \in S /\ rank(at(i)) = i
    BY <1>7
  <1> HIDE DEF rank, Upto, n, s
  <1>10. \A x \in S : rank(x) \in 1..n /\ at(rank(x)) = x
    BY <1>1, <1>3, <1>4, <1>6, <1>9
  <1> HIDE DEF at
  <1>11. s \in Seq(S) /\ Len(s) = n
    BY <1>1, <1>8, <1>9
  <1>12. \A x \in S : \E i \in 1..n : s[i] = x
    BY <1>8, <1>10
  <1>13. ASSUME NEW i \in 1..n, NEW j \in 1..n PROVE i < j <=> order[s[i]] < order[s[j]]
    <2>1. s[i] \in S /\ s[j] \in S /\ rank(s[i]) = i /\ rank(s[j]) = j
      BY <1>8, <1>9
    <2>2. order[s[i]] < order[s[j]] => i < j
      BY <1>5, <2>1
    <2>3. order[s[j]] < order[s[i]] => j < i
      BY <1>5, <2>1
    <2>4. order[s[i]] = order[s[j]] => i = j
      BY <2>1
    <2>5. order[s[i]] \in Int /\ order[s[j]] \in Int /\ i \in Int /\ j \in Int
      BY <2>1
    <2> HIDE DEF s
    <2> QED
      BY <2>2, <2>3, <2>4, <2>5
  <1> QED
    BY <1>1, <1>11, <1>12, <1>13 DEF n, s

\* A sequence holds the n elements of s after the first ones, or what there is.
Holds(t, s, from, n) ==
  /\ Len(t) = IF from + n < Len(s) THEN n ELSE Len(s) - from
  /\ \A i \in 1..Len(t) : t[i] = s[from + i]

LEMMA Sliced ==
  ASSUME NEW S, NEW s \in Seq(S), NEW from \in Nat, NEW n \in Nat, from <= Len(s)
  PROVE  Pages!Slice(s, from, n) \in Seq(S) /\ Holds(Pages!Slice(s, from, n), s, from, n)
  <1> DEFINE last == IF from + n < Len(s) THEN from + n ELSE Len(s)
  <1>1. last \in Nat /\ from <= last /\ last <= Len(s) /\ from + 1 \in Nat
    OBVIOUS
  <1>2. Pages!Slice(s, from, n) = SubSeq(s, from + 1, last)
    BY DEF Pages!Slice
  <1> HIDE DEF last
  <1>3. /\ SubSeq(s, from + 1, last) \in Seq(S) /\ Len(SubSeq(s, from + 1, last)) = last - from
        /\ \A i \in 1..(last - from) : SubSeq(s, from + 1, last)[i] = s[from + i]
    BY <1>1
  <1>4. last - from = IF from + n < Len(s) THEN n ELSE Len(s) - from
    BY DEF last
  <1> QED
    BY <1>1, <1>2, <1>3, <1>4 DEF Holds

LEMMA SlicedFirst ==
  ASSUME NEW S, NEW s \in Seq(S), NEW n \in Nat
  PROVE  /\ Pages!Slice(s, 0, n) \in Seq(S)
         /\ Len(Pages!Slice(s, 0, n)) = IF n < Len(s) THEN n ELSE Len(s)
         /\ \A i \in 1..Len(Pages!Slice(s, 0, n)) : Pages!Slice(s, 0, n)[i] = s[i]
  <1> DEFINE last == IF n < Len(s) THEN n ELSE Len(s)
  <1>1. last \in Nat /\ last <= Len(s)
    OBVIOUS
  <1>2. Pages!Slice(s, 0, n) = SubSeq(s, 1, last)
    BY DEF Pages!Slice
  <1> HIDE DEF last
  <1>3. /\ SubSeq(s, 1, last) \in Seq(S) /\ Len(SubSeq(s, 1, last)) = last
        /\ \A i \in 1..last : SubSeq(s, 1, last)[i] = s[i]
    BY <1>1
  <1> QED
    BY <1>1, <1>2, <1>3 DEF last

\* A slice past the end of the rows is empty.
LEMMA SliceTyped ==
  ASSUME NEW S, NEW s \in Seq(S), NEW from \in Nat, NEW n \in Nat
  PROVE  Pages!Slice(s, from, n) \in Seq(S)
  <1>1. CASE from <= Len(s)
    BY <1>1, Sliced
  <1>2. CASE from > Len(s)
    <2>1. Pages!Slice(s, from, n) = SubSeq(s, from + 1, Len(s))
      BY <1>2 DEF Pages!Slice
    <2>2. SubSeq(s, from + 1, Len(s)) = << >>
      BY <1>2, SubSeqEmpty
    <2> QED
      BY <2>1, <2>2
  <1> QED
    BY <1>1, <1>2

\* What a sequence holds after another one is put behind it.
LEMMA Joining ==
  ASSUME NEW S, NEW a \in Seq(S), NEW b \in Seq(S)
  PROVE  /\ a \o b \in Seq(S) /\ Len(a \o b) = Len(a) + Len(b)
         /\ DOMAIN (a \o b) = 1..(Len(a) + Len(b))
         /\ \A i \in 1..Len(a) : (a \o b)[i] = a[i]
         /\ \A i \in 1..Len(b) : (a \o b)[Len(a) + i] = b[i]
  OBVIOUS

\* The arithmetic of page numbers.
LEMMA ProductsGrow ==
  ASSUME NEW a \in Nat, NEW b \in Nat, NEW g \in Nat, a <= b
  PROVE  a * g <= b * g /\ a * g \in Nat /\ b * g \in Nat
  OBVIOUS

LEMMA Quotient ==
  ASSUME NEW x \in Nat, NEW g \in Nat \ {0}
  PROVE  (x \div g) * g <= x /\ x < (x \div g) * g + g /\ x \div g \in Nat
  OBVIOUS

LEMMA OnePageMore ==
  ASSUME NEW a \in Int, NEW g \in Nat
  PROVE  (a - 1) * g + g = a * g
  OBVIOUS

\* So many pages hold all rows, and one fewer does not.
LEMMA WholePages ==
  ASSUME NEW N \in Nat \ {0}, NEW g \in Nat \ {0}, NEW q, q = (N + g - 1) \div g
  PROVE  q \in Nat \ {0} /\ N <= q * g /\ (q - 1) * g < N
  <1>1. N + g - 1 \in Nat
    OBVIOUS
  <1>2. q * g <= N + g - 1 /\ N + g - 1 < q * g + g /\ q \in Nat
    BY <1>1, Quotient
  <1>3. q * g \in Nat
    BY <1>2, ProductsGrow
  <1>4. q # 0
    BY <1>2, <1>3
  <1>5. (q - 1) * g + g = q * g
    BY <1>2, OnePageMore
  <1>6. (q - 1) * g \in Nat
    BY <1>2, <1>4, ProductsGrow
  <1> QED
    BY <1>2, <1>3, <1>4, <1>5, <1>6

\* However a client asks, a page has room for a row.
LEMMA PageSizes ==
  ASSUME size \in Sizes
  PROVE  Pages!GetPageSize(size) \in Nat \ {0} /\ Pages!Limit(size) \in Nat \ {0}
  BY WalksAssumption DEF Pages!GetPageSize, Pages!Limit

\* Unique keys order the rows either way.
LEMMA Orders ==
  /\ \A id \in Ids : Pages!Ordering[id] = IF Descending THEN -Key[id] ELSE Key[id]
  /\ \A id \in Ids : Pages!Ordering[id] \in Int
  /\ \A a, b \in Ids : Pages!Ordering[a] = Pages!Ordering[b] => a = b
  BY WalksAssumption DEF Pages!Ordering

\* Each row has one place among the rows by id.
LEMMA RowsSorted ==
  ASSUME rows \subseteq Ids
  PROVE  LET s == Pages!ById IN
         /\ s \in Seq(Ids) /\ Len(s) = Cardinality(rows) /\ Cardinality(rows) \in Nat
         /\ IsFiniteSet(rows)
         /\ \A x \in rows : \E i \in 1..Cardinality(rows) : s[i] = x
         /\ \A i, j \in 1..Cardinality(rows) : s[i] = s[j] => i = j
  <1> DEFINE order == [id \in Ids |-> id]
             s == Pages!Sorted(rows, order)
  <1>1. IsFiniteSet(rows)
    BY FS_Subset, WalksAssumption
  <1>2. \A x \in rows : order[x] \in Int /\ order[x] = x
    BY WalksAssumption
  <1>3. Pages!ById = s
    BY Zenon DEF Pages!ById
  <1> HIDE DEF order
  <1>4. /\ s \in Seq(rows) /\ Len(s) = Cardinality(rows) /\ Cardinality(rows) \in Nat
        /\ \A x \in rows : \E i \in 1..Cardinality(rows) : s[i] = x
        /\ \A i, j \in 1..Cardinality(rows) : i < j <=> order[s[i]] < order[s[j]]
    <2>1. \A x, y \in rows : order[x] = order[y] => x = y
      BY <1>2
    <2> QED
      BY <1>1, <1>2, <2>1, SortedPlaces
  <1> HIDE DEF s
  <1>5. ASSUME NEW i \in 1..Cardinality(rows), NEW j \in 1..Cardinality(rows), s[i] = s[j]
        PROVE  i = j
    <2>1. s[i] \in rows
      BY <1>4
    <2>2. ~(order[s[i]] < order[s[j]]) /\ ~(order[s[j]] < order[s[i]])
      BY <1>2, <1>5, <2>1
    <2> QED
      BY <1>4, <2>2
  <1>6. s \in Seq(Ids)
    BY <1>4
  <1> QED
    BY <1>1, <1>3, <1>4, <1>5, <1>6

\* A query that names no order is answered with the rows in some order.
LEMMA ListingsTyped ==
  ASSUME rows \subseteq Ids, NEW s \in Pages!Listings
  PROVE  s \in Seq(Ids) /\ (queryset = "ordered" => s = Pages!ById)
  <1>1. CASE queryset = "ordered"
    <2>1. s = Pages!ById
      BY <1>1, Zenon DEF Pages!Listings
    <2> QED
      BY <2>1, RowsSorted
  <1>2. CASE queryset # "ordered"
    <2>1. PICK order \in DbOrders : s = Pages!Sorted(rows, order)
      BY <1>2, Zenon DEF Pages!Listings
    <2>2. IsFiniteSet(rows)
      BY FS_Subset, WalksAssumption
    <2>3. (\A x \in rows : order[x] \in Int) /\ \A x, y \in rows : order[x] = order[y] => x = y
      BY WalksAssumption
    <2>4. Pages!Sorted(rows, order) \in Seq(rows)
      BY <2>2, <2>3, SortedPlaces
    <2> HIDE DEF Pages!Sorted
    <2> QED
      BY <1>2, <2>1, <2>4
  <1> QED
    BY <1>1, <1>2

\* A request with a cursor and one without both look for what is beyond.
LEMMA CursorQuery ==
  ASSUME WalkTyped
  PROVE  LET after == Pages!DecodeCursor(asked) IN
         (IF after = <<>> THEN Pages!ByKey ELSE Pages!AfterCursor(after[1]))
           = Pages!Sorted(Beyond, Pages!Ordering)
  <1> DEFINE after == Pages!DecodeCursor(asked)
  <1>t. rows \subseteq Ids
    BY DEF WalkTyped
  <1>1. CASE ~Pages!IsInt(asked)
    <2>1. after = <<>>
      BY <1>1 DEF Pages!DecodeCursor
    <2>2. Beyond = rows
      BY <1>1 DEF Beyond
    <2>3. Pages!ByKey = Pages!Sorted(rows, Pages!Ordering)
      BY Zenon DEF Pages!ByKey
    <2> HIDE DEF after
    <2> QED
      BY <2>1, <2>2, <2>3 DEF after
  <1>2. CASE Pages!IsInt(asked)
    <2>1. after = <<asked[2]>> /\ after # <<>> /\ after[1] = asked[2]
      BY <1>2 DEF Pages!DecodeCursor
    <2>2. Pages!AfterCursor(asked[2])
            = Pages!Sorted({id \in rows : IF Descending THEN Key[id] < asked[2] ELSE Key[id] > asked[2]},
                           Pages!Ordering)
      BY Zenon DEF Pages!AfterCursor
    <2>3. Beyond = {id \in rows : IF Descending THEN Key[id] < asked[2] ELSE Key[id] > asked[2]}
      <3>1. ASSUME NEW id \in rows
            PROVE  ~(Pages!Ordering[id] <= CursorAt)
                     <=> (IF Descending THEN Key[id] < asked[2] ELSE Key[id] > asked[2])
        <4>1. Key[id] \in Int /\ asked[2] \in Int /\ Descending \in BOOLEAN
          BY <1>2, <1>t, WalksAssumption DEF WalkTyped
        <4>2. Pages!Ordering[id] = IF Descending THEN -Key[id] ELSE Key[id]
          BY <1>t, Orders
        <4> QED
          BY <4>1, <4>2 DEF CursorAt
      <3> QED
        BY <1>2, <3>1 DEF Beyond
    <2> HIDE DEF after
    <2> QED
      BY <2>1, <2>2, <2>3 DEF after
  <1> QED
    BY <1>1, <1>2

\* What a request with a cursor shows and asks next.
LEMMA CursorPage ==
  ASSUME WalkTyped, Pages!Cursor
  PROVE  \E s \in Seq(Beyond), m \in Nat :
         /\ m <= Len(s)
         /\ \A x \in Beyond : \E i \in 1..Len(s) : s[i] = x
         /\ \A i, j \in 1..Len(s) : i < j <=> Pages!Ordering[s[i]] < Pages!Ordering[s[j]]
         /\ shown' = shown \o SubSeq(s, 1, m)
         /\ \/ (queryset = "keyed" => m = Len(s)) /\ walkPc' = "end" /\ asked' = asked
            \/ m # 0 /\ walkPc' = "ask" /\ asked' = <<"int", Key[s[m]]>>
         /\ walkPc = "ask" /\ scheme = "cursor"
         /\ total' = 0 /\ UNCHANGED <<rows, scheme, size, queryset, constant, writes>>
  <1> DEFINE after == Pages!DecodeCursor(asked)
             n == Pages!GetPageSize(size)
             src == IF after = <<>> THEN Pages!ByKey ELSE Pages!AfterCursor(after[1])
             raw == Pages!Slice(src, 0, n + 1)
             more == Len(raw) > n
             items == IF more THEN Pages!Slice(raw, 0, n) ELSE raw
             found == more /\ queryset = "keyed"
             s == Pages!Sorted(Beyond, Pages!Ordering)
             m == IF Len(s) > n THEN n ELSE Len(s)
  <1>1. /\ walkPc = "ask" /\ scheme = "cursor"
        /\ Pages!Answer(items, found, IF found THEN Pages!EncodeCursor(Key[items[Len(items)]]) ELSE <<>>)
    BY Zenon DEF Pages!Cursor
  <1>2. src = s
    BY CursorQuery
  <1>3. n \in Nat \ {0}
    BY PageSizes DEF WalkTyped
  <1>4. /\ s \in Seq(Beyond) /\ Len(s) \in Nat
        /\ \A x \in Beyond : \E i \in 1..Len(s) : s[i] = x
        /\ \A i, j \in 1..Len(s) : i < j <=> Pages!Ordering[s[i]] < Pages!Ordering[s[j]]
    <2>1. Beyond \subseteq Ids
      BY DEF Beyond, WalkTyped
    <2>2. IsFiniteSet(Beyond)
      BY <2>1, FS_Subset, WalksAssumption
    <2>3. /\ \A x \in Beyond : Pages!Ordering[x] \in Int
          /\ \A x, y \in Beyond : Pages!Ordering[x] = Pages!Ordering[y] => x = y
      BY <2>1, Orders
    <2> HIDE DEF s
    <2>4. /\ s \in Seq(Beyond) /\ Len(s) = Cardinality(Beyond) /\ Cardinality(Beyond) \in Nat
          /\ \A x \in Beyond : \E i \in 1..Cardinality(Beyond) : s[i] = x
          /\ \A i, j \in 1..Cardinality(Beyond) : i < j <=> Pages!Ordering[s[i]] < Pages!Ordering[s[j]]
      BY <2>2, <2>3, SortedPlaces DEF s
    <2> QED
      BY <2>4
  <1> HIDE DEF src, s, n, after
  <1>5. /\ raw \in Seq(Beyond) /\ Len(raw) = IF n + 1 < Len(s) THEN n + 1 ELSE Len(s)
        /\ \A i \in 1..Len(raw) : raw[i] = s[i]
    <2>1. n + 1 \in Nat
      BY <1>3
    <2>2. raw = Pages!Slice(s, 0, n + 1)
      BY <1>2
    <2> HIDE DEF raw
    <2>3. LET t == Pages!Slice(s, 0, n + 1) IN
          /\ t \in Seq(Beyond) /\ Len(t) = IF n + 1 < Len(s) THEN n + 1 ELSE Len(s)
          /\ \A i \in 1..Len(t) : t[i] = s[i]
      <3> DEFINE k == n + 1
      <3>1. k \in Nat
        BY <2>1
      <3> HIDE DEF k
      <3>2. LET t == Pages!Slice(s, 0, k) IN
            /\ t \in Seq(Beyond) /\ Len(t) = IF k < Len(s) THEN k ELSE Len(s)
            /\ \A i \in 1..Len(t) : t[i] = s[i]
        BY <1>4, <3>1, SlicedFirst
      <3> QED
        BY <3>2 DEF k
    <2> QED
      BY <2>2, <2>3
  <1> HIDE DEF raw
  <1>6. more <=> Len(s) > n
    BY <1>3, <1>4, <1>5
  <1>7. m \in Nat /\ m <= Len(s) /\ (more => m = n /\ m # 0) /\ (~more => m = Len(s))
    BY <1>3, <1>4, <1>6
  <1>8. items \in Seq(Beyond) /\ Len(items) = m /\ \A i \in 1..m : items[i] = s[i]
    <2>1. CASE more
      <3> DEFINE t == Pages!Slice(raw, 0, n)
      <3>1. /\ t \in Seq(Beyond) /\ Len(t) = IF n < Len(raw) THEN n ELSE Len(raw)
            /\ \A i \in 1..Len(t) : t[i] = raw[i]
        BY <1>3, <1>5, SlicedFirst
      <3> HIDE DEF t
      <3>2. Len(t) = m
        BY <1>3, <1>5, <1>7, <2>1, <3>1
      <3>3. \A i \in 1..m : t[i] = s[i]
        <4> SUFFICES ASSUME NEW i \in 1..m PROVE t[i] = s[i]
          OBVIOUS
        <4>1. t[i] = raw[i] /\ i \in 1..Len(raw)
          BY <1>3, <1>5, <1>7, <2>1, <3>1, <3>2
        <4> QED
          BY <1>5, <4>1
      <3> QED
        BY <2>1, <3>1, <3>2, <3>3 DEF t
    <2>2. CASE ~more
      BY <1>3, <1>4, <1>5, <1>6, <1>7, <2>2
    <2> HIDE DEF items, more, m
    <2> QED
      BY <2>1, <2>2
  <1> HIDE DEF items, more, found, m
  <1>9. items = SubSeq(s, 1, m)
    <2>1. SubSeq(s, 1, m) \in Seq(Beyond) /\ Len(SubSeq(s, 1, m)) = m
          /\ \A i \in 1..m : SubSeq(s, 1, m)[i] = s[i]
      BY <1>4, <1>7
    <2> QED
      BY <1>8, <2>1, SeqEqual
  <1>10. /\ shown' = shown \o items
         /\ walkPc' = IF found THEN "ask" ELSE "end"
         /\ asked' = IF found THEN (IF found THEN Pages!EncodeCursor(Key[items[Len(items)]]) ELSE <<>>)
                     ELSE asked
         /\ total' = 0 /\ UNCHANGED <<rows, scheme, size, queryset, constant, writes>>
    BY <1>1, Zenon DEF Pages!Answer
  <1>11. found => asked' = <<"int", Key[s[m]]>>
    <2> SUFFICES ASSUME found PROVE asked' = <<"int", Key[s[m]]>>
      OBVIOUS
    <2>1. asked' = Pages!EncodeCursor(Key[items[Len(items)]])
      BY <1>10
    <2>2. items[Len(items)] = s[m]
      BY <1>7, <1>8 DEF found
    <2> QED
      BY <2>1, <2>2, Zenon DEF Pages!EncodeCursor
  <1>12. \/ (queryset = "keyed" => m = Len(s)) /\ walkPc' = "end" /\ asked' = asked
         \/ m # 0 /\ walkPc' = "ask" /\ asked' = <<"int", Key[s[m]]>>
    BY <1>7, <1>10, <1>11, Zenon DEF found
  <1> QED
    BY <1>1, <1>4, <1>7, <1>9, <1>10, <1>12

\* One step per operation.
LEMMA CursorPreserves ==
  ASSUME WalkInv, Pages!Cursor
  PROVE  WalkInv'
  <1> USE DEF WalkInv
  <1>1. PICK s \in Seq(Beyond), m \in Nat :
         /\ m <= Len(s)
         /\ \A x \in Beyond : \E i \in 1..Len(s) : s[i] = x
         /\ \A i, j \in 1..Len(s) : i < j <=> Pages!Ordering[s[i]] < Pages!Ordering[s[j]]
         /\ shown' = shown \o SubSeq(s, 1, m)
         /\ \/ (queryset = "keyed" => m = Len(s)) /\ walkPc' = "end" /\ asked' = asked
            \/ m # 0 /\ walkPc' = "ask" /\ asked' = <<"int", Key[s[m]]>>
         /\ walkPc = "ask" /\ scheme = "cursor"
         /\ total' = 0 /\ UNCHANGED <<rows, scheme, size, queryset, constant, writes>>
    BY CursorPage
  <1> DEFINE items == SubSeq(s, 1, m)
             ord(id) == Pages!Ordering[id]
             was(id) == Pages!IsInt(asked) /\ ord(id) <= CursorAt
  <1>2. Len(s) \in Nat /\ Beyond \subseteq Ids /\ Beyond \subseteq rows
    BY DEF Beyond, WalkTyped
  <1>m. m \in Nat /\ m <= Len(s) /\ Len(s) \in Nat /\ 1..m \subseteq 1..Len(s)
    BY <1>1, <1>2
  <1>3. items \in Seq(Beyond) /\ Len(items) = m /\ \A i \in 1..m : items[i] = s[i]
    BY <1>m
  <1>4. \A i \in 1..Len(s) : s[i] \in Beyond
    BY <1>2
  <1>5. /\ shown \in Seq(Ids) /\ Len(shown) \in Nat
        /\ \A i \in 1..Len(shown) : shown[i] \in Ids
    BY DEF WalkTyped
  <1> HIDE DEF items
  <1>6. /\ shown' \in Seq(Ids) /\ Len(shown') = Len(shown) + m
        /\ DOMAIN shown' = 1..(Len(shown) + m)
        /\ \A i \in 1..Len(shown) : shown'[i] = shown[i]
        /\ \A i \in 1..m : shown'[Len(shown) + i] = s[i]
    <2>1. shown' = shown \o items /\ items \in Seq(Ids)
      BY <1>1, <1>2, <1>3 DEF items
    <2>2. /\ shown' \in Seq(Ids) /\ Len(shown') = Len(shown) + Len(items)
          /\ DOMAIN shown' = 1..(Len(shown) + Len(items))
          /\ \A i \in 1..Len(shown) : shown'[i] = shown[i]
          /\ \A i \in 1..Len(items) : shown'[Len(shown) + i] = items[i]
      BY <1>5, <2>1, Joining
    <2> QED
      BY <1>3, <2>2
  <1>7. /\ \A i \in 1..(Len(shown) + m) :
            \/ i \in 1..Len(shown)
            \/ i - Len(shown) \in 1..m /\ shown'[i] = s[i - Len(shown)]
    <2> SUFFICES ASSUME NEW i \in 1..(Len(shown) + m), i \notin 1..Len(shown)
                 PROVE  i - Len(shown) \in 1..m /\ shown'[i] = s[i - Len(shown)]
      OBVIOUS
    <2>1. i - Len(shown) \in 1..m /\ Len(shown) + (i - Len(shown)) = i
      BY <1>5
    <2> QED
      BY <1>6, <2>1
  <1>o. \A id \in Ids : ord(id) \in Int
    BY Orders
  <1>8. \A id \in Beyond : ~was(id) /\ id \in Ids
    BY <1>2 DEF Beyond
  <1>9. \A i \in 1..Len(shown) : was(shown[i])
    <2>1. \A i \in DOMAIN shown : Passed(shown[i])
      BY <1>1, Zenon DEF CursorWalk
    <2> QED
      BY <1>1, <1>5, <2>1 DEF Passed
  <1>10. \/ walkPc' = "end" /\ (queryset = "keyed" => m = Len(s))
         \/ m # 0 /\ walkPc' = "ask" /\ Pages!IsInt(asked)' /\ CursorAt' = ord(s[m])
    <2>2. CASE m # 0 /\ walkPc' = "ask" /\ asked' = <<"int", Key[s[m]]>>
      <3>1. Pages!IsInt(asked)' /\ asked'[2] = Key[s[m]]
        BY <2>2 DEF Pages!IsInt
      <3>2. s[m] \in Ids
        BY <1>2, <1>4, <1>m, <2>2
      <3>3. CursorAt' = ord(s[m])
        BY <3>1, <3>2, Orders DEF CursorAt
      <3> QED
        BY <2>2, <3>1, <3>3
    <2> QED
      BY <1>1, <2>2
  <1>p. Pages!Ordering' = Pages!Ordering
    BY Zenon DEF Pages!Ordering
  <1> HIDE DEF ord, was
  <1>11. WalkTyped'
    <2>1. Pages!IsInt(asked)' => asked'[2] \in Int
      <3>1. CASE asked' = asked
        BY <3>1 DEF Pages!IsInt, WalkTyped
      <3>2. CASE m # 0 /\ asked' = <<"int", Key[s[m]]>>
        <4>1. s[m] \in Ids
          BY <1>2, <1>4, <1>m, <3>2
        <4>2. Key[s[m]] \in Int
          BY <4>1, WalksAssumption
        <4> QED
          BY <3>2, <4>2
      <3> QED
        BY <1>1, <3>1, <3>2
    <2> QED
      BY <1>1, <1>6, <2>1 DEF WalkTyped
  <1>12. CursorWalk'
    <2>1. ASSUME NEW i \in 1..(Len(shown) + m), NEW j \in 1..(Len(shown) + m), shown'[i] = shown'[j]
          PROVE  i = j
      <3>1. ASSUME NEW a \in 1..Len(shown), NEW b \in 1..m, shown[a] = s[b] PROVE FALSE
        <4>1. b \in 1..Len(s)
          BY <1>m
        <4>2. s[b] \in Beyond
          BY <1>4, <4>1
        <4> QED
          BY <1>8, <1>9, <3>1, <4>2, Zenon
      <3>2. ASSUME NEW a \in 1..m, NEW b \in 1..m, s[a] = s[b] PROVE a = b
        <4>1. a \in 1..Len(s) /\ b \in 1..Len(s) /\ s[a] \in Ids
          BY <1>2, <1>4, <1>m
        <4>2. ord(s[a]) \in Int /\ ord(s[a]) = ord(s[b])
          BY <1>o, <3>2, <4>1
        <4>3. ~(ord(s[a]) < ord(s[b])) /\ ~(ord(s[b]) < ord(s[a]))
          BY <4>2
        <4>4. (a < b <=> ord(s[a]) < ord(s[b])) /\ (b < a <=> ord(s[b]) < ord(s[a]))
          BY <1>1, <4>1 DEF ord
        <4> QED
          BY <4>3, <4>4
      <3>3. CASE i \in 1..Len(shown) /\ j \in 1..Len(shown)
        BY <1>1, <1>5, <1>6, <2>1, <3>3 DEF CursorWalk
      <3>4. CASE i \in 1..Len(shown) /\ j \notin 1..Len(shown)
        BY <1>6, <1>7, <2>1, <3>1, <3>4
      <3>5. CASE i \notin 1..Len(shown) /\ j \in 1..Len(shown)
        BY <1>6, <1>7, <2>1, <3>1, <3>5
      <3>6. CASE i \notin 1..Len(shown) /\ j \notin 1..Len(shown)
        <4>1. i - Len(shown) = j - Len(shown)
          BY <1>7, <2>1, <3>2, <3>6
        <4> QED
          BY <1>5, <4>1
      <3> QED
        BY <3>3, <3>4, <3>5, <3>6
    <2>2. ASSUME NEW i \in 1..(Len(shown) + m) PROVE Passed(shown[i])'
      <3>1. shown'[i] \in Ids
        BY <1>6
      <3>2. CASE walkPc' = "end"
        BY <3>2 DEF Passed
      <3>3. CASE m # 0 /\ walkPc' = "ask"
        <4>1. m \in 1..Len(s) /\ s[m] \in Beyond /\ s[m] \in Ids
          BY <1>2, <1>4, <1>m, <3>3
        <4>2. CASE i \in 1..Len(shown)
          <5>1. shown'[i] = shown[i] /\ was(shown[i]) /\ ~was(s[m])
            BY <1>6, <1>8, <1>9, <4>1, <4>2
          <5>2. CursorAt \in Int
            BY <5>1 DEF CursorAt, was, WalkTyped
          <5>3. ord(shown[i]) <= ord(s[m])
            BY <1>o, <3>1, <4>1, <5>1, <5>2 DEF was
          <5> QED
            BY <1>10, <1>p, <3>3, <5>1, <5>3 DEF Passed, ord
        <4>3. CASE i \notin 1..Len(shown)
          <5> DEFINE a == i - Len(shown)
          <5>1. a \in 1..m /\ shown'[i] = s[a]
            BY <1>7, <4>3
          <5> HIDE DEF a
          <5>2. a \in 1..Len(s) /\ ~(m < a)
            BY <1>m, <5>1
          <5>3. ~(ord(s[m]) < ord(s[a]))
            BY <1>1, <4>1, <5>2 DEF ord
          <5>4. ord(s[a]) <= ord(s[m])
            BY <1>o, <3>1, <4>1, <5>1, <5>3
          <5> QED
            BY <1>10, <1>p, <3>3, <5>1, <5>4 DEF Passed, ord
        <4> QED
          BY <4>2, <4>3
      <3> QED
        BY <1>1, <3>2, <3>3
    <2>3. ASSUME queryset = "keyed", NEW id \in constant, Passed(id)'
          PROVE  \E i \in 1..(Len(shown) + m) : shown'[i] = id
      <3>1. id \in rows /\ id \in Ids
        BY DEF WalkTyped
      <3>2. CASE was(id)
        <4>1. PICK i \in 1..Len(shown) : shown[i] = id
          BY <1>1, <1>5, <2>3, <3>2 DEF CursorWalk, Passed, was, ord
        <4>2. i \in 1..(Len(shown) + m) /\ shown'[i] = id
          BY <1>5, <1>6, <4>1
        <4> QED
          BY <4>2
      <3>3. CASE ~was(id)
        <4>1. id \in Beyond
          BY <3>1, <3>3 DEF Beyond, was, ord
        <4>2. PICK i \in 1..Len(s) : s[i] = id
          BY <1>1, <4>1
        <4>3. i \in 1..m
          <5>1. CASE walkPc' = "end"
            BY <1>1, <2>3, <5>1
          <5>2. CASE m # 0 /\ walkPc' = "ask"
            <6>1. m \in 1..Len(s) /\ s[m] \in Ids
              BY <1>2, <1>4, <1>m, <5>2
            <6>2. ord(s[i]) <= ord(s[m])
              BY <1>10, <1>p, <2>3, <4>2, <5>2 DEF Passed, ord
            <6>3. ~(ord(s[m]) < ord(s[i]))
              BY <1>o, <3>1, <4>2, <6>1, <6>2
            <6>4. ~(m < i)
              BY <1>1, <6>1, <6>3 DEF ord
            <6> QED
              BY <6>4
          <5> QED
            BY <1>1, <5>1, <5>2
        <4>4. Len(shown) + i \in 1..(Len(shown) + m)
          BY <1>5, <4>3
        <4>5. shown'[Len(shown) + i] = id
          BY <1>6, <4>2, <4>3
        <4> QED
          BY <4>4, <4>5
      <3> QED
        BY <3>2, <3>3
    <2>4. walkPc' # "counted" /\ constant' = constant /\ queryset' = queryset
      BY <1>1
    <2> QED
      BY <1>6, <2>1, <2>2, <2>3, <2>4 DEF CursorWalk
  <1>13. CountedWalk'
    BY <1>1 DEF CountedWalk, WalkTyped
  <1> QED
    BY <1>11, <1>12, <1>13

\* A slice that starts after the rows shown, with the right verdict on whether
\* rows are left, keeps the walk in step with the table.
LEMMA SlicePreserves ==
  ASSUME WalkInv, scheme # "cursor", walkPc = "counted",
         NEW from \in Nat, NEW n \in Nat \ {0}, NEW has \in BOOLEAN, NEW v \in Int,
         NEW s \in Seq(Ids), queryset = "ordered" => s = Pages!ById,
         Pages!Answer(Pages!Slice(s, from, n), has, <<"int", v>>),
         writes = 0 /\ queryset = "ordered" =>
           /\ from = Skipped
           /\ has <=> from + n < Cardinality(rows)
           /\ has => Skipped' = from + n
  PROVE  WalkInv'
  <1> USE DEF WalkInv
  <1> DEFINE items == Pages!Slice(s, from, n)
  <1>1. /\ shown' = shown \o items
        /\ walkPc' = IF has THEN "ask" ELSE "end"
        /\ asked' = IF has THEN <<"int", v>> ELSE asked
        /\ total' = 0 /\ UNCHANGED <<rows, scheme, size, queryset, constant, writes>>
    BY Zenon DEF Pages!Answer
  <1>2. queryset = "ordered" => Len(s) = Cardinality(rows) /\ Cardinality(rows) \in Nat
    BY RowsSorted DEF WalkTyped
  <1>3. items \in Seq(Ids)
    BY SliceTyped
  <1>4. WalkTyped'
    <2> HIDE DEF items
    <2>1. shown' \in Seq(Ids)
      BY <1>1, <1>3 DEF WalkTyped
    <2>2. Pages!IsInt(asked)' => asked'[2] \in Int
      <3>1. CASE has
        BY <1>1, <3>1
      <3>2. CASE ~has
        BY <1>1, <3>2 DEF Pages!IsInt, WalkTyped
      <3> QED
        BY <3>1, <3>2
    <2>3. walkPc' \in {"ask", "counted", "end"}
      BY <1>1
    <2> QED
      BY <1>1, <2>1, <2>2, <2>3 DEF WalkTyped
  <1>5. CursorWalk'
    BY <1>1 DEF CursorWalk
  <1>6. CountedWalk'
    <2> SUFFICES ASSUME writes = 0, queryset = "ordered" PROVE CountedWalk'
      BY <1>1 DEF CountedWalk
    <2>1. /\ constant = rows /\ Len(shown) = from /\ from = Skipped /\ from <= Cardinality(rows)
          /\ \A i \in DOMAIN shown : shown[i] = s[i]
          /\ has <=> from + n < Cardinality(rows)
          /\ has => Skipped' = from + n
      <3>1. /\ constant = rows /\ Len(shown) = Skipped
            /\ Skipped < Cardinality(rows) \/ Skipped = 0
            /\ \A i \in DOMAIN shown : shown[i] = s[i]
        BY DEF CountedWalk
      <3> QED
        BY <1>2, <3>1
    <2>2. /\ Len(items) = IF from + n < Len(s) THEN n ELSE Len(s) - from
          /\ \A i \in 1..Len(items) : items[i] = s[from + i]
      <3>1. s \in Seq(Ids) /\ from \in Nat /\ n \in Nat /\ from <= Len(s)
        BY <1>2, <2>1
      <3>2. Holds(items, s, from, n)
        BY <3>1, Sliced, Zenon
      <3> HIDE DEF items
      <3> QED
        BY <3>2, Zenon DEF Holds
    <2> HIDE DEF items
    <2>3. shown \in Seq(Ids) /\ Len(items) \in Nat
      BY <1>3 DEF WalkTyped
    <2>4. /\ Len(shown') = from + Len(items) /\ DOMAIN shown' = 1..(from + Len(items))
          /\ \A i \in 1..from : shown'[i] = shown[i]
          /\ \A i \in 1..Len(items) : shown'[from + i] = items[i]
      <3>1. /\ Len(shown') = Len(shown) + Len(items) /\ DOMAIN shown' = 1..(Len(shown) + Len(items))
            /\ \A i \in 1..Len(shown) : shown'[i] = shown[i]
            /\ \A i \in 1..Len(items) : shown'[Len(shown) + i] = items[i]
        BY <1>1, <1>3, <2>3, Joining
      <3>2. Len(shown) = from
        BY <2>1
      <3> QED
        BY <3>1, <3>2, Zenon
    <2>5. ASSUME NEW i \in 1..(from + Len(items)) PROVE shown'[i] = s[i]
      <3>1. CASE i \in 1..from
        BY <2>1, <2>3, <2>4, <3>1
      <3>2. CASE i \notin 1..from
        <4>1. i - from \in 1..Len(items) /\ from + (i - from) = i
          BY <2>3, <3>2
        <4> QED
          BY <2>2, <2>4, <4>1
      <3> QED
        BY <3>1, <3>2
    <2>6. Pages!ById' = s /\ Cardinality(rows)' = Cardinality(rows)
      BY <1>1 DEF Pages!ById
    <2>7. Len(shown') = IF has THEN from + n ELSE Cardinality(rows)
      BY <1>2, <2>1, <2>2, <2>4
    <2>8. has => Len(shown') = Skipped' /\ Skipped' < Cardinality(rows)
      BY <2>1, <2>7
    <2>9. ~has => Len(shown') = Cardinality(rows)
      BY <2>7
    <2>10. /\ walkPc' # "counted" /\ (walkPc' # "end" => has) /\ (walkPc' = "end" => ~has)
           /\ constant' = rows'
      BY <1>1, <2>1
    <2>11. \A i \in DOMAIN shown' : shown'[i] = Pages!ById'[i]
      BY <2>4, <2>5, <2>6
    <2> HIDE DEF Skipped
    <2> QED
      BY <2>6, <2>8, <2>9, <2>10, <2>11, Zenon DEF CountedWalk
  <1> QED
    BY <1>4, <1>5, <1>6

LEMMA LimitPreserves ==
  ASSUME WalkInv, Pages!LimitOffset
  PROVE  WalkInv'
  <1> DEFINE offset == Pages!OffsetOf(asked)
             limit == Pages!Limit(size)
             has == offset + limit < total
  <1>1. PICK s \in Pages!Listings :
        /\ walkPc = "counted" /\ scheme = "limit"
        /\ Pages!Answer(Pages!Slice(s, offset, limit), has, <<"int", offset + limit>>)
    BY Zenon DEF Pages!LimitOffset
  <1>s. s \in Seq(Ids) /\ (queryset = "ordered" => s = Pages!ById)
    BY ListingsTyped DEF WalkInv, WalkTyped
  <1>2. limit \in Nat \ {0}
    BY PageSizes DEF WalkInv, WalkTyped
  <1>3. offset \in Nat
    BY DEF WalkInv, WalkTyped, Pages!OffsetOf
  <1>4. ASSUME writes = 0, queryset = "ordered"
        PROVE  /\ offset = Skipped
               /\ has <=> offset + limit < Cardinality(rows)
               /\ has => Skipped' = offset + limit
    <2>1. offset = Skipped /\ total = Cardinality(rows)
      BY <1>1, <1>4 DEF Skipped, WalkInv, CountedWalk
    <2>2. ASSUME has PROVE Skipped' = offset + limit
      <3>1. asked' = <<"int", offset + limit>> /\ scheme' = "limit"
        BY <1>1, <2>2, Zenon DEF Pages!Answer
      <3> HIDE DEF offset, limit
      <3>2. Skipped' = Pages!OffsetOf(asked)'
        BY <3>1 DEF Skipped
      <3>3. Pages!OffsetOf(asked)' = offset + limit
        BY <1>2, <1>3, <3>1 DEF Pages!OffsetOf, Pages!IsInt
      <3> QED
        BY <3>2, <3>3
    <2> QED
      BY <2>1, <2>2
  <1>5. has \in BOOLEAN /\ offset + limit \in Int
    BY <1>2, <1>3
  <1> HIDE DEF offset, limit, has
  <1> QED
    BY <1>1, <1>2, <1>3, <1>4, <1>5, <1>s, SlicePreserves

LEMMA PagePreserves ==
  ASSUME WalkInv, Pages!PageNumber
  PROVE  WalkInv'
  <1> DEFINE p == Pages!PageOf(asked)
             g == Pages!GetPageSize(size)
             pages == Pages!TotalPages(total)
             page == IF p > pages /\ pages > 0 THEN pages ELSE p
             from == (page - 1) * g
             has == page < pages
  <1>1. PICK s \in Pages!Listings :
        /\ walkPc = "counted" /\ scheme = "page"
        /\ Pages!Answer(Pages!Slice(s, from, g), has, <<"int", page + 1>>)
    BY Zenon DEF Pages!PageNumber
  <1>s. s \in Seq(Ids) /\ (queryset = "ordered" => s = Pages!ById)
    BY ListingsTyped DEF WalkInv, WalkTyped
  <1>2. g \in Nat \ {0}
    BY PageSizes DEF WalkInv, WalkTyped
  <1>3. p \in Nat \ {0}
    BY DEF WalkInv, WalkTyped, Pages!PageOf
  <1>4. pages = IF total > 0 THEN (total + g - 1) \div g ELSE 0
    BY Zenon DEF Pages!TotalPages
  <1>t. total \in Nat
    BY DEF WalkInv, WalkTyped
  <1> HIDE DEF p, g, pages
  <1>5. /\ pages \in Nat
        /\ total > 0 => pages # 0 /\ total <= pages * g /\ (pages - 1) * g < total
        /\ total = 0 => pages = 0
    BY <1>2, <1>4, <1>t, WholePages
  <1>6. page \in Nat \ {0}
    BY <1>3, <1>5
  <1> HIDE DEF page
  <1>7. from \in Nat /\ page + 1 \in Int /\ has \in BOOLEAN
    <2>1. page - 1 \in Nat
      BY <1>6
    <2> QED
      BY <1>2, <1>6, <2>1, ProductsGrow
  <1>8. ASSUME writes = 0, queryset = "ordered"
        PROVE  /\ from = Skipped
               /\ has <=> from + g < Cardinality(rows)
               /\ has => Skipped' = from + g
    <2>1. /\ Skipped = (p - 1) * g /\ total = Cardinality(rows)
          /\ (p - 1) * g < total \/ p = 1
      BY <1>1, <1>8 DEF Skipped, WalkInv, CountedWalk, p, g
    <2>2. page = p
      <3>1. CASE pages > 0 /\ p > pages
        <4>1. pages <= p - 1 /\ p - 1 \in Nat
          BY <1>3, <1>5, <3>1
        <4>2. pages * g <= (p - 1) * g /\ pages * g \in Nat /\ (p - 1) * g \in Nat
          BY <1>2, <1>5, <4>1, ProductsGrow
        <4>3. total > 0 /\ p # 1
          BY <1>5, <1>t, <3>1
        <4> QED
          BY <1>5, <1>t, <2>1, <4>2, <4>3
      <3>2. CASE ~(pages > 0 /\ p > pages)
        BY <3>2 DEF page
      <3> QED
        BY <3>1, <3>2
    <2>3. from + g = page * g
      BY <1>2, <1>6, OnePageMore
    <2>4. page * g \in Nat
      BY <1>2, <1>6, ProductsGrow
    <2>5. ASSUME has PROVE page * g < total
      <3>1. page <= pages - 1 /\ pages - 1 \in Nat /\ total > 0
        BY <1>5, <1>6, <1>t, <2>5
      <3>2. page * g <= (pages - 1) * g /\ (pages - 1) * g \in Nat
        BY <1>2, <1>6, <3>1, ProductsGrow
      <3> HIDE DEF has
      <3> QED
        BY <1>5, <1>t, <2>4, <3>1, <3>2
    <2>6. ASSUME ~has PROVE ~(page * g < total)
      <3>1. pages <= page
        BY <1>5, <1>6, <2>6
      <3>2. pages * g <= page * g /\ pages * g \in Nat
        BY <1>2, <1>5, <1>6, <3>1, ProductsGrow
      <3> HIDE DEF has
      <3> QED
        BY <1>5, <1>t, <2>4, <3>2
    <2>7. ASSUME has PROVE Skipped' = from + g
      <3>1. asked' = <<"int", page + 1>> /\ scheme' = "page" /\ size' = size
        BY <1>1, <2>7, Zenon DEF Pages!Answer
      <3>2. Skipped' = (Pages!PageOf(asked)' - 1) * Pages!GetPageSize(size)'
        BY <3>1 DEF Skipped
      <3>3. Pages!PageOf(asked)' = page + 1
        BY <1>6, <3>1 DEF Pages!PageOf, Pages!IsInt
      <3>4. Pages!GetPageSize(size)' = g
        BY <3>1 DEF g, Pages!GetPageSize, Pages!IsInt
      <3>5. page + 1 - 1 = page
        BY <1>6
      <3>6. Skipped' = (page + 1 - 1) * g
        BY <1>2, <1>6, <3>2, <3>3, <3>4
      <3>7. Skipped' = page * g
        BY <3>5, <3>6
      <3> HIDE DEF from
      <3> QED
        BY <2>3, <3>7
    <2> HIDE DEF has
    <2>8. from = Skipped
      BY <2>1, <2>2
    <2> HIDE DEF from
    <2> QED
      BY <2>1, <2>3, <2>5, <2>6, <2>7, <2>8
  <1> HIDE DEF from, has
  <1> QED
    BY <1>1, <1>2, <1>7, <1>8, <1>s, SlicePreserves

LEMMA WalkStarts ==
  ASSUME Pages!Init
  PROVE  WalkInv
  <1>1. /\ rows \subseteq Ids /\ scheme \in Schemes /\ size \in Sizes
        /\ queryset \in IF scheme = "cursor" THEN {"keyed", "keyless"} ELSE {"ordered", "unordered"}
        /\ asked \in {<<>>, <<"bad">>} /\ walkPc = "ask" /\ total = 0
        /\ shown = <<>> /\ constant = rows /\ writes = 0
    BY DEF Pages!Init
  <1>2. ~Pages!IsInt(asked)
    BY <1>1 DEF Pages!IsInt
  <1>3. WalkTyped
    BY <1>1, <1>2 DEF WalkTyped
  <1>4. CursorWalk
    BY <1>1, <1>2 DEF CursorWalk, Passed
  <1>5. Skipped = 0 /\ Pages!PageOf(asked) = 1
    <2>1. Pages!GetPageSize(size) \in Nat
      BY <1>1, PageSizes
    <2>2. Pages!PageOf(asked) = 1 /\ Pages!OffsetOf(asked) = 0
      BY <1>2 DEF Pages!PageOf, Pages!OffsetOf
    <2> QED
      BY <2>1, <2>2 DEF Skipped
  <1>6. CountedWalk
    BY <1>1, <1>5 DEF CountedWalk
  <1> QED
    BY <1>3, <1>4, <1>6 DEF WalkInv

LEMMA CountPreserves ==
  ASSUME WalkInv, Pages!Count
  PROVE  WalkInv'
  <1>1. /\ walkPc = "ask" /\ scheme \in {"page", "limit"}
        /\ total' = Pages!Cardinality(rows) /\ walkPc' = "counted"
        /\ UNCHANGED <<rows, scheme, size, queryset, asked, shown, constant, writes>>
    BY Zenon DEF Pages!Count
  <1>2. total' = Cardinality(rows)
    BY <1>1, CountAlike
  <1>3. Cardinality(rows) \in Nat
    BY RowsSorted DEF WalkInv, WalkTyped
  <1>4. WalkTyped'
    BY <1>1, <1>2, <1>3 DEF WalkInv, WalkTyped, Pages!IsInt
  <1>5. CursorWalk'
    BY <1>1 DEF CursorWalk
  <1>6. Pages!ById' = Pages!ById /\ Cardinality(rows)' = Cardinality(rows)
    BY <1>1 DEF Pages!ById
  <1>7. Skipped' = Skipped /\ Pages!PageOf(asked)' = Pages!PageOf(asked)
    BY <1>1 DEF Skipped, Pages!PageOf, Pages!OffsetOf, Pages!IsInt, Pages!GetPageSize
  <1>8. CountedWalk'
    <2> SUFFICES ASSUME writes = 0, queryset = "ordered" PROVE CountedWalk'
      BY <1>1 DEF WalkInv, CountedWalk
    <2>1. /\ constant = rows
          /\ Len(shown) = Skipped
          /\ Skipped < Cardinality(rows) \/ (Skipped = 0 /\ Pages!PageOf(asked) = 1)
          /\ \A i \in DOMAIN shown : shown[i] = Pages!ById[i]
      BY <1>1 DEF WalkInv, CountedWalk
    <2>2. walkPc' # "end" /\ total' = Cardinality(rows)' /\ constant' = rows' /\ shown' = shown
      BY <1>1, <1>2, <1>6, <2>1
    <2>3. Len(shown') = Skipped'
      BY <1>7, <2>1, <2>2
    <2>4. Skipped' < Cardinality(rows)' \/ (Skipped' = 0 /\ Pages!PageOf(asked)' = 1)
      BY <1>6, <1>7, <2>1
    <2>5. \A i \in DOMAIN shown' : shown'[i] = Pages!ById'[i]
      BY <1>6, <2>1, <2>2
    <2> HIDE DEF Skipped
    <2> QED
      BY <2>2, <2>3, <2>4, <2>5, Zenon DEF CountedWalk
  <1> QED
    BY <1>4, <1>5, <1>8 DEF WalkInv

LEMMA WritesPreserve ==
  ASSUME WalkInv, NEW id \in Ids, Pages!Insert(id) \/ Pages!Delete(id)
  PROVE  WalkInv'
  <1>1. /\ rows' \subseteq Ids /\ constant' \subseteq constant /\ constant' \subseteq rows'
        /\ writes' = writes + 1
        /\ UNCHANGED <<scheme, size, queryset, asked, walkPc, total, shown>>
    BY DEF WalkInv, WalkTyped, Pages!Insert, Pages!Delete
  <1>2. WalkTyped'
    BY <1>1 DEF WalkInv, WalkTyped, Pages!IsInt
  <1>3. CountedWalk'
    BY <1>1 DEF WalkInv, WalkTyped, CountedWalk
  <1>4. \A x : Passed(x)' <=> Passed(x)
    BY <1>1 DEF Passed, CursorAt, Pages!IsInt, Pages!Ordering
  <1>5. CursorWalk'
    <2> SUFFICES ASSUME scheme = "cursor" PROVE CursorWalk'
      BY <1>1 DEF CursorWalk
    <2>1. /\ walkPc # "counted"
          /\ \A i, j \in DOMAIN shown : shown[i] = shown[j] => i = j
          /\ \A i \in DOMAIN shown : Passed(shown[i])
          /\ queryset = "keyed" => \A x \in constant : Passed(x) => \E i \in DOMAIN shown : shown[i] = x
      BY DEF WalkInv, CursorWalk
    <2>2. \A i \in DOMAIN shown' : Passed(shown[i])'
      BY <1>1, <2>1 DEF Passed, CursorAt, Pages!IsInt, Pages!Ordering
    <2> QED
      BY <1>1, <1>4, <2>1, <2>2 DEF CursorWalk
  <1> QED
    BY <1>2, <1>3, <1>5 DEF WalkInv

LEMMA WalkInvSteps ==
  ASSUME WalkInv, [Pages!Next]_(Pages!vars)
  PROVE  WalkInv'
  <1>1. CASE Pages!Count
    BY <1>1, CountPreserves
  <1>2. CASE Pages!PageNumber
    BY <1>2, PagePreserves
  <1>3. CASE Pages!LimitOffset
    BY <1>3, LimitPreserves
  <1>4. CASE Pages!Cursor
    BY <1>4, CursorPreserves
  <1>5. CASE \E id \in Ids : Pages!Insert(id) \/ Pages!Delete(id)
    BY <1>5, WritesPreserve
  <1>6. CASE UNCHANGED Pages!vars
    BY <1>6 DEF Pages!vars, WalkInv, WalkTyped, CursorWalk, CountedWalk, Passed, CursorAt, Skipped,
      Pages!IsInt, Pages!Ordering, Pages!PageOf, Pages!OffsetOf, Pages!GetPageSize, Pages!ById
  <1> QED
    BY <1>1, <1>2, <1>3, <1>4, <1>5, <1>6, Zenon DEF Pages!Next

\* What the invariant says of a walk that is over.
LEMMA WalkShows ==
  ASSUME WalkInv
  PROVE  WalkShowsAll
  <1> DEFINE counted == queryset = "ordered" /\ writes = 0
  <1>c. constant \subseteq Ids /\ (queryset = "keyed" => scheme = "cursor")
        /\ (counted => scheme # "cursor" /\ queryset # "keyed")
    BY DEF WalkInv, WalkTyped
  <1> SUFFICES ASSUME walkPc = "end", scheme = "cursor" \/ counted, NEW id \in Ids
               PROVE  /\ (queryset = "keyed" \/ counted) /\ id \in constant => Pages!Shows(id) = 1
                      /\ scheme = "cursor" => Pages!Shows(id) <= 1
    BY <1>c, Zenon DEF WalkShowsAll, Pages!WalkShowsAll
  <1> DEFINE places == {i \in DOMAIN shown : shown[i] = id}
  <1>1. Pages!Shows(id) = Cardinality(places)
    BY CountAlike DEF Pages!Shows
  <1>2. \A i, j \in places : i = j
    <2>1. CASE scheme = "cursor"
      BY <2>1 DEF WalkInv, CursorWalk
    <2>2. CASE counted
      <3>1. /\ \A i \in DOMAIN shown : shown[i] = Pages!ById[i]
            /\ DOMAIN shown = 1..Cardinality(rows)
        BY <2>2 DEF WalkInv, CountedWalk, WalkTyped
      <3>2. \A i, j \in 1..Cardinality(rows) : Pages!ById[i] = Pages!ById[j] => i = j
        BY RowsSorted DEF WalkInv, WalkTyped
      <3> QED
        BY <3>1, <3>2
    <2> QED
      BY <2>1, <2>2
  <1>3. (queryset = "keyed" \/ counted) /\ id \in constant => places # {}
    <2> SUFFICES ASSUME queryset = "keyed" \/ counted, id \in constant PROVE \E i \in DOMAIN shown : shown[i] = id
      OBVIOUS
    <2>1. CASE queryset = "keyed"
      BY <1>c, <2>1 DEF WalkInv, CursorWalk, Passed
    <2>2. CASE counted
      <3>1. /\ \A i \in DOMAIN shown : shown[i] = Pages!ById[i]
            /\ DOMAIN shown = 1..Cardinality(rows) /\ id \in rows
        BY <2>2 DEF WalkInv, CountedWalk, WalkTyped
      <3>2. \E i \in 1..Cardinality(rows) : Pages!ById[i] = id
        BY <3>1, RowsSorted DEF WalkInv, WalkTyped
      <3> QED
        BY <3>1, <3>2
    <2> QED
      BY <2>1, <2>2
  <1> HIDE DEF places
  <1>4. places = {} \/ \E i \in places : places = {i}
    BY <1>2
  <1>5. (places = {} => Cardinality(places) = 0) /\ (places # {} => Cardinality(places) = 1)
    BY <1>4, FS_EmptySet, FS_Singleton
  <1> QED
    BY <1>1, <1>3, <1>5

\* A walk through all pages has shown every row that was there all along, once.
THEOREM WalksShowAll == Pages!Spec => []WalkShowsAll
  <1>1. Pages!Init => WalkInv
    BY WalkStarts
  <1>2. WalkInv /\ [Pages!Next]_(Pages!vars) => WalkInv'
    BY WalkInvSteps
  <1>3. WalkInv => WalkShowsAll
    BY WalkShows
  <1> QED
    BY <1>1, <1>2, <1>3, PTL DEF Pages!Spec
=============================================================================
