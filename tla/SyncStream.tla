----------------------------- MODULE SyncStream -----------------------------
(***************************************************************************)
(* Streaming responses fed by a synchronous Python iterator                *)
(* (create_python_stream_with_config in src/streaming.rs).                 *)
(*                                                                         *)
(* Each response gets an OS thread of its own, up to a process-wide limit. *)
(* The thread pulls a batch from the iterator, sends it chunk by chunk     *)
(* into a bounded channel and, at the end or when the client is gone,      *)
(* closes the iterator and gives its place back.  The chunks of a stream   *)
(* are numbered; RetryChunk is the SSE directive sent in place of a body.  *)
(***************************************************************************)
EXTENDS Integers, Sequences, FiniteSets

CONSTANTS
  Streams,      \* streaming responses
  NumWorkers,   \* threads that create responses, one at a time each
  MaxThreads,   \* get_max_sync_streaming_threads()
  Batch,        \* sync_batch_size
  Cap,          \* channel capacity
  Unsendable,   \* numbers of the items convert_python_chunk cannot convert
  KeepsRaising, \* streams whose iterator can be called again after it raised
  MaxChunks     \* MaxChunks[s]: bound on the items the iterator of s yields

ASSUME SyncStreamAssumption ==
  /\ IsFiniteSet(Streams)
  /\ NumWorkers \in Nat \ {0}
  /\ MaxThreads \in Nat \ {0}
  /\ Batch \in Nat \ {0}
  /\ Cap \in Nat \ {0}
  /\ KeepsRaising \subseteq Streams
  /\ MaxChunks \in [Streams -> Nat]

RetryChunk == 0

VARIABLES
  active,     \* ACTIVE_SYNC_STREAMING_THREADS
  pc,         \* pc[s]: where the creation or the thread of s is
  calls,      \* calls[s]: __next__ calls made for the current batch
  batch,      \* batch[s]: batch_buffer
  exhausted,  \* exhausted[s]
  chan,       \* chan[s]: the channel to the response body
  client,     \* client[s]: "reading" or "gone"
  got,        \* got[s]: chunks the client received
  yielded,    \* history: items the iterator yielded
  iter        \* iter[s]: "live", "raised", "finished" or "closed"

vars == <<active, pc, calls, batch, exhausted, chan, client, got, yielded,
          iter>>
body == <<calls, batch, exhausted, yielded, iter>>

Init ==
  /\ active = 0
  /\ pc = [s \in Streams |-> "none"]
  /\ calls = [s \in Streams |-> 0]
  /\ batch = [s \in Streams |-> <<>>]
  /\ exhausted = [s \in Streams |-> FALSE]
  /\ chan = [s \in Streams |-> <<>>]
  /\ client = [s \in Streams |-> "reading"]
  /\ got = [s \in Streams |-> <<>>]
  /\ yielded = [s \in Streams |-> 0]
  /\ iter = [s \in Streams |-> "live"]

At(places) == {s \in Streams : pc[s] \in places}

Goto(s, p) == pc' = [pc EXCEPT ![s] = p]

\* current_threads >= max_threads
AtLimit == active >= MaxThreads

(***************************************************************************)
(* Creation, by one of the workers: load the counter, then either answer   *)
(* with the retry directive or count the thread and spawn it.              *)
(***************************************************************************)
Create(s) ==
  /\ pc[s] = "none"
  /\ Cardinality(At({"checked", "counted"})) < NumWorkers
  /\ Goto(s, IF AtLimit THEN "retry" ELSE "checked")
  /\ UNCHANGED <<active, body, chan, client, got>>

Count(s) ==
  /\ pc[s] = "checked"
  /\ active' = active + 1
  /\ Goto(s, "counted")
  /\ UNCHANGED <<body, chan, client, got>>

Spawn(s) ==
  /\ pc[s] = "counted"
  /\ Goto(s, "pulling")
  /\ UNCHANGED <<active, body, chan, client, got>>

SpawnFails_Uncounted(s) ==
  /\ pc[s] = "counted"
  /\ Goto(s, "retry")
  /\ UNCHANGED <<active, body, chan, client, got>>

SpawnFails(s) ==
  /\ pc[s] = "counted"
  /\ active' = active - 1
  /\ Goto(s, "retry")
  /\ UNCHANGED <<body, chan, client, got>>

\* The task that sends the retry directive and drops the sender.
Retry(s) ==
  /\ pc[s] = "retry"
  /\ chan' = [chan EXCEPT ![s] = IF client[s] = "reading" THEN Append(@, RetryChunk) ELSE @]
  /\ Goto(s, "done")
  /\ UNCHANGED <<active, body, client, got>>

(***************************************************************************)
(* The thread, one __next__ at a time.  A chunk that cannot be converted   *)
(* is skipped, StopIteration ends the stream, any other exception ends the *)
(* batch only: a generator that raised answers the next call with          *)
(* StopIteration, another iterator may go on.                              *)
(***************************************************************************)
BatchDone(s, n) == IF n = Batch THEN "sending" ELSE "pulling"

Pull(s) ==
  /\ pc[s] = "pulling"
  /\ iter[s] = "live" \/ (iter[s] = "raised" /\ s \in KeepsRaising)
  /\ yielded[s] < MaxChunks[s]
  /\ calls' = [calls EXCEPT ![s] = (@ + 1) % Batch]
  /\ Goto(s, BatchDone(s, calls[s] + 1))
  /\ yielded' = [yielded EXCEPT ![s] = @ + 1]
  /\ IF yielded[s] + 1 \in Unsendable
       THEN UNCHANGED batch
       ELSE batch' = [batch EXCEPT ![s] = Append(@, yielded[s] + 1)]
  /\ UNCHANGED <<active, exhausted, chan, client, got, iter>>

PullRaises_DropsBatch(s) ==
  /\ pc[s] = "pulling"
  /\ iter[s] = "live"
  /\ iter' = [iter EXCEPT ![s] = "raised"]
  /\ calls' = [calls EXCEPT ![s] = 0]
  /\ batch' = [batch EXCEPT ![s] = <<>>]
  /\ Goto(s, "sending")
  /\ UNCHANGED <<active, exhausted, chan, client, got, yielded>>

PullRaises(s) ==
  /\ pc[s] = "pulling"
  /\ iter[s] = "live" \/ (iter[s] = "raised" /\ s \in KeepsRaising)
  /\ iter' = [iter EXCEPT ![s] = "raised"]
  /\ calls' = [calls EXCEPT ![s] = 0]
  /\ Goto(s, "sending")
  /\ UNCHANGED <<active, batch, exhausted, chan, client, got, yielded>>

PullStops(s) ==
  /\ pc[s] = "pulling"
  /\ s \in KeepsRaising => iter[s] # "raised"
  /\ iter' = [iter EXCEPT ![s] = "finished"]
  /\ exhausted' = [exhausted EXCEPT ![s] = TRUE]
  /\ calls' = [calls EXCEPT ![s] = 0]
  /\ Goto(s, "sending")
  /\ UNCHANGED <<active, batch, chan, client, got, yielded>>

\* blocking_send of the next chunk of the batch, once the channel has room.
SendChunk(s) ==
  /\ pc[s] = "sending"
  /\ batch[s] # <<>>
  /\ client[s] = "reading"
  /\ Len(chan[s]) < Cap
  /\ chan' = [chan EXCEPT ![s] = Append(@, Head(batch[s]))]
  /\ batch' = [batch EXCEPT ![s] = Tail(@)]
  /\ UNCHANGED <<active, pc, calls, exhausted, client, got, yielded, iter>>

SendFails_Never(s) == FALSE

\* The receiver is gone: the iterator is closed and the rest of the batch
\* dropped.
SendFails(s) ==
  /\ pc[s] = "sending"
  /\ batch[s] # <<>>
  /\ client[s] = "gone"
  /\ iter' = [iter EXCEPT ![s] = "closed"]
  /\ exhausted' = [exhausted EXCEPT ![s] = TRUE]
  /\ batch' = [batch EXCEPT ![s] = <<>>]
  /\ UNCHANGED <<active, pc, calls, chan, client, got, yielded>>

BatchSent(s) ==
  /\ pc[s] = "sending"
  /\ batch[s] = <<>>
  /\ Goto(s, IF exhausted[s] THEN "closing" ELSE "pulling")
  /\ UNCHANGED <<active, body, chan, client, got>>

\* "Ensure sync generator cleanup runs", then give the place back.
CloseIterator(s) ==
  /\ pc[s] = "closing"
  /\ iter' = [iter EXCEPT ![s] = "closed"]
  /\ Goto(s, "leaving")
  /\ UNCHANGED <<active, calls, batch, exhausted, chan, client, got, yielded>>

Leave(s) ==
  /\ pc[s] = "leaving"
  /\ active' = active - 1
  /\ Goto(s, "done")
  /\ UNCHANGED <<body, chan, client, got>>

(***************************************************************************)
(* The client, through the response body's stream.                         *)
(***************************************************************************)
Read(s) ==
  /\ client[s] = "reading"
  /\ chan[s] # <<>>
  /\ got' = [got EXCEPT ![s] = Append(@, Head(chan[s]))]
  /\ chan' = [chan EXCEPT ![s] = Tail(@)]
  /\ UNCHANGED <<active, pc, body, client>>

Disconnect(s) ==
  /\ pc[s] # "none"
  /\ client[s] = "reading"
  /\ client' = [client EXCEPT ![s] = "gone"]
  /\ chan' = [chan EXCEPT ![s] = <<>>]
  /\ UNCHANGED <<active, pc, body, got>>

Thread(s) ==
  \/ Pull(s) \/ PullRaises(s) \/ PullStops(s)
  \/ SendChunk(s) \/ SendFails(s) \/ BatchSent(s)
  \/ CloseIterator(s) \/ Leave(s)

Next ==
  \E s \in Streams :
    \/ Create(s) \/ Count(s) \/ Spawn(s) \/ SpawnFails(s) \/ Retry(s)
    \/ Thread(s)
    \/ Read(s) \/ Disconnect(s)

Spec == Init /\ [][Next]_vars

\* The operating system schedules every thread; a call of __next__ returns.
FairSpec == Spec /\ \A s \in Streams : WF_vars(Thread(s))
-----------------------------------------------------------------------------
Owning == {"counted", "pulling", "sending", "closing", "leaving"}

\* Every variable has its type, the channel and the batch keep to their
\* sizes and the usize counter stays above zero.
TypeOK ==
  /\ active \in Nat
  /\ pc \in [Streams -> {"none", "checked", "retry", "done"} \cup Owning]
  /\ calls \in [Streams -> 0..(Batch - 1)]
  /\ batch \in [Streams -> Seq(Nat \ {0})]
  /\ exhausted \in [Streams -> BOOLEAN]
  /\ chan \in [Streams -> Seq(Nat)]
  /\ client \in [Streams -> {"reading", "gone"}]
  /\ got \in [Streams -> Seq(Nat)]
  /\ yielded \in [Streams -> Nat]
  /\ iter \in [Streams -> {"live", "raised", "finished", "closed"}]
  /\ \A s \in Streams : Len(chan[s]) <= Cap /\ Len(batch[s]) <= Batch /\ yielded[s] <= MaxChunks[s]

(***************************************************************************)
(* ACTIVE_SYNC_STREAMING_THREADS counts exactly the streams that own a     *)
(* thread or are about to: a failed spawn and every way a thread ends give *)
(* their place back.  The limit is loaded before the thread is counted, so *)
(* it is exceeded by the workers that create streams at the same time, and *)
(* by no more.                                                             *)
(***************************************************************************)
ThreadsAccounted ==
  /\ active = Cardinality(At(Owning))
  /\ active <= MaxThreads - 1 + NumWorkers

\* The numbers in a sequence, and that they come in order, each once.
Shown(q) == {q[i] : i \in DOMAIN q}

Increasing(q) == \A i, j \in DOMAIN q : i < j => q[i] < q[j]

(***************************************************************************)
(* A client that stays receives exactly the items the iterator yielded and *)
(* that can be sent, in order: what it has, what is in the channel and     *)
(* what is in the batch add up to them, also after the iterator raised and *)
(* when the thread has ended.  A refused stream is the retry directive.    *)
(***************************************************************************)
ChunksInOrder ==
  \A s \in Streams : client[s] = "reading" =>
    LET out == got[s] \o chan[s] \o batch[s]
    IN  \/ Increasing(out) /\ Shown(out) = (1..yielded[s]) \ Unsendable
        \/ out = <<RetryChunk>>

\* The thread of s waits for room in the channel.
Blocked(s) == pc[s] = "sending" /\ batch[s] # <<>>

(***************************************************************************)
(* Once the client is gone, a stream gives its thread back, wherever the   *)
(* thread is: pulling, blocked on a full channel or closing.  An iterator  *)
(* that raises on every call is the exception unless the thread is blocked *)
(* in a send: an error ends the batch and not the stream, and nothing is   *)
(* sent by which the thread could notice.                                  *)
(***************************************************************************)
DisconnectEnds ==
  \A s \in Streams :
    (/\ client[s] = "gone"
     /\ pc[s] \in Owning \ {"counted"}
     /\ s \in KeepsRaising => Blocked(s)) ~> (pc[s] = "done")
=============================================================================
