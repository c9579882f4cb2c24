------------------------------ MODULE MCStreams ------------------------------
(***************************************************************************)
(* The two kinds of streaming response, one kind per behaviour: which says *)
(* which.  The kind that is not chosen rests in its first or last state.   *)
(*                                                                         *)
(* Synchronous: three streams created by two workers under a limit of one  *)
(* thread, over a channel of one chunk and batches of two.  One iterator   *)
(* yields enough for several batches; the others compete for the thread.   *)
(* Asynchronous: a channel of two items, pings, and an item that cannot be *)
(* sent.                                                                   *)
(***************************************************************************)
EXTENDS SyncStream

CONSTANTS
  s1, s2, s3,
  AsyncCap, AsyncUnsendable, Pings, MaxItems, MaxPings  \* those of AsyncStream

\* The items of an asynchronous iterator are numbered.
ASSUME AsyncStreamAssumption == MaxItems \in Nat

MCStreamSet == {s1, s2, s3}

MCMaxChunks == [s \in MCStreamSet |-> CASE s = s1 -> 4 [] s = s2 -> 1 [] s = s3 -> 0]

MCKeepsRaising == {s2}

VARIABLES which, forwarder, held, channel, sender, reader, received, pulled, source

async == <<forwarder, held, channel, sender, reader, received, pulled, source>>

Async == INSTANCE AsyncStream WITH
  Cap <- AsyncCap, Unsendable <- AsyncUnsendable,
  pc <- forwarder, chan <- channel, client <- reader, got <- received,
  yielded <- pulled, iter <- source

MCInit ==
  /\ Init
  /\ \/ which = "async" /\ Async!Init
     \/ /\ which = "sync"
        /\ forwarder = "done" /\ held = <<>> /\ channel = <<>> /\ sender = FALSE
        /\ reader = "finished" /\ received = <<>> /\ pulled = 0 /\ source = "closed"

MCNext ==
  \/ which = "sync" /\ Next /\ UNCHANGED <<which, async>>
  \/ which = "async" /\ Async!Next /\ UNCHANGED <<which, vars>>

\* The operating system schedules every thread and a call of __next__ returns;
\* the event loop runs the forwarder, __anext__ and aclose() return, and Actix
\* polls the body of a client that reads.
MCFairSpec ==
  /\ MCInit /\ [][MCNext]_<<which, vars, async>>
  /\ \A s \in Streams : WF_vars(Thread(s))
  /\ WF_async(Async!Forward) /\ WF_async(Async!Read) /\ WF_async(Async!EndOfBody)

(***************************************************************************)
(* A client that stays gets, in order, the chunks its iterator yielded     *)
(* that can be sent, those of a batch that ends in an exception included;  *)
(* from an asynchronous generator it gets every item up to the first that  *)
(* cannot be sent, whether AsyncStreamSender sent it at once or waited for *)
(* room, and pings neither break into nor replace them.                    *)
(***************************************************************************)
StreamsInOrder == ChunksInOrder /\ Async!ItemsInOrder

(***************************************************************************)
(* The stream of a lost client ends.  A thread gives its place back,       *)
(* whether it pulls, is blocked on a full channel or closes; an iterator   *)
(* that raises on every call is the exception while it is pulled from, for *)
(* an error ends the batch and not the stream, and nothing is sent by      *)
(* which the thread could notice.  An asynchronous generator is closed,    *)
(* even while its forwarder waits for room in the channel nobody reads any *)
(* more.                                                                   *)
(***************************************************************************)
LostClientsEnd == DisconnectEnds /\ Async!DisconnectCleansUp
=============================================================================
