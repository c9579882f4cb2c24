---------------------------- MODULE AsyncStream ----------------------------
(***************************************************************************)
(* A streaming response fed by an asynchronous Python iterator             *)
(* (src/streaming.rs): the forwarder coroutine on the event loop, the      *)
(* AsyncStreamSender it sends through, the bounded channel and the         *)
(* response body that reads it, with the keep-alive pings of an SSE        *)
(* stream.  The items of the iterator are numbered.                        *)
(***************************************************************************)
EXTENDS Integers, Sequences

CONSTANTS
  Cap,          \* channel capacity
  Unsendable,   \* numbers of the items convert_python_chunk cannot convert
  Pings,        \* ping_interval is set
  MaxItems,     \* bound on the items the iterator yields
  MaxPings      \* bound on keep-alive pings

StartError == 0
Ping == MaxItems + 1

VARIABLES
  pc,        \* where the forwarder is
  held,      \* the item being sent, as a sequence of at most one
  chan,      \* the channel
  sender,    \* the sender is alive
  client,    \* "reading", "finished" at the end of the body, or "gone"
  got,       \* chunks the client received
  yielded,   \* history: items the iterator yielded
  iter       \* "live", "ended" or "closed" by aclose()

vars == <<pc, held, chan, sender, client, got, yielded, iter>>

Init ==
  /\ pc = "start"
  /\ held = <<>>
  /\ chan = <<>>
  /\ sender = TRUE
  /\ client = "reading"
  /\ got = <<>>
  /\ yielded = 0
  /\ iter = "live"

\* schedule_async_stream_forwarder; when it fails the body is one error.
Start ==
  /\ pc = "start"
  /\ pc' = "next"
  /\ UNCHANGED <<held, chan, sender, client, got, yielded, iter>>

StartFails ==
  /\ pc = "start"
  /\ pc' = "done"
  /\ chan' = <<StartError>>
  /\ sender' = FALSE
  /\ UNCHANGED <<held, client, got, yielded, iter>>

(***************************************************************************)
(* forward(): await __anext__(), then sender.send(item), which tries to    *)
(* send and, when the channel is full, is awaited.  An item that cannot be *)
(* converted makes send() raise, which ends the stream.                    *)
(***************************************************************************)
Pull ==
  /\ pc = "next"
  /\ iter = "live"
  /\ yielded < MaxItems
  /\ yielded' = yielded + 1
  /\ IF yielded + 1 \in Unsendable
       THEN pc' = "finally" /\ UNCHANGED held
       ELSE pc' = "sending" /\ held' = <<yielded + 1>>
  /\ UNCHANGED <<chan, sender, client, got, iter>>

\* StopAsyncIteration or any exception of the iterator.
PullEnds ==
  /\ pc = "next"
  /\ iter' = "ended"
  /\ pc' = "finally"
  /\ UNCHANGED <<held, chan, sender, client, got, yielded>>

Push ==
  /\ chan' = chan \o held
  /\ held' = <<>>
  /\ pc' = "next"
  /\ UNCHANGED <<sender, client, got, yielded, iter>>

HasRoom == Len(chan) < Cap

TrySend ==
  /\ pc = "sending"
  /\ client = "reading"
  /\ HasRoom
  /\ Push

\* TrySendError::Full: the item is sent again by a future that is awaited.
ChannelFull ==
  /\ pc = "sending"
  /\ client = "reading"
  /\ ~HasRoom
  /\ pc' = "waiting"
  /\ UNCHANGED <<held, chan, sender, client, got, yielded, iter>>

SendAwaited ==
  /\ pc = "waiting"
  /\ client = "reading"
  /\ HasRoom
  /\ Push

\* Closed, at the try or while waiting: send() answers False.
ChannelClosed ==
  /\ pc \in {"sending", "waiting"}
  /\ client = "gone"
  /\ held' = <<>>
  /\ pc' = "finally"
  /\ UNCHANGED <<chan, sender, client, got, yielded, iter>>

\* finally: aclose() first, sender.close() last.
Aclose ==
  /\ pc = "finally"
  /\ iter' = "closed"
  /\ pc' = "closing"
  /\ UNCHANGED <<held, chan, sender, client, got, yielded>>

CloseSender ==
  /\ pc = "closing"
  /\ sender' = FALSE
  /\ pc' = "done"
  /\ UNCHANGED <<held, chan, client, got, yielded, iter>>

(***************************************************************************)
(* The response body: chunks as they come, a ping when an SSE stream has   *)
(* been idle for the interval, and the end once the channel is empty and   *)
(* the sender dropped.  Actix has the body only after the forwarder has    *)
(* been scheduled.                                                         *)
(***************************************************************************)
Serving == pc # "start" /\ client = "reading"

Read ==
  /\ Serving
  /\ chan # <<>>
  /\ got' = Append(got, Head(chan))
  /\ chan' = Tail(chan)
  /\ UNCHANGED <<pc, held, sender, client, yielded, iter>>

KeepAlive ==
  /\ Pings
  /\ Serving
  /\ chan = <<>>
  /\ sender
  /\ Len(SelectSeq(got, LAMBDA c : c = Ping)) < MaxPings
  /\ got' = Append(got, Ping)
  /\ UNCHANGED <<pc, held, chan, sender, client, yielded, iter>>

EndOfBody ==
  /\ Serving
  /\ chan = <<>>
  /\ ~sender
  /\ client' = "finished"
  /\ UNCHANGED <<pc, held, chan, sender, got, yielded, iter>>

Disconnect ==
  /\ Serving
  /\ client' = "gone"
  /\ chan' = <<>>
  /\ UNCHANGED <<pc, held, sender, got, yielded, iter>>

Forward ==
  \/ Start \/ StartFails
  \/ Pull \/ PullEnds
  \/ TrySend \/ ChannelFull \/ SendAwaited \/ ChannelClosed
  \/ Aclose \/ CloseSender

Next == Forward \/ Read \/ KeepAlive \/ EndOfBody \/ Disconnect

Spec == Init /\ [][Next]_vars

\* The event loop runs the forwarder whenever it is not awaiting; __anext__
\* and aclose() return; Actix polls the body of a client that reads.
FairSpec == Spec /\ WF_vars(Forward) /\ WF_vars(Read) /\ WF_vars(EndOfBody)
-----------------------------------------------------------------------------
\* Every variable has its type and the channel keeps to its capacity.
TypeOK ==
  /\ pc \in {"start", "next", "sending", "waiting", "finally", "closing", "done"}
  /\ held \in Seq(1..MaxItems)
  /\ chan \in Seq(0..MaxItems)
  /\ Len(chan) <= Cap
  /\ sender \in BOOLEAN
  /\ client \in {"reading", "finished", "gone"}
  /\ got \in Seq(0..Ping)
  /\ yielded \in 0..MaxItems
  /\ iter \in {"live", "ended", "closed"}

\* The items in a sequence, and that they come in order, each once; pings do
\* not count.
Shown(q) == {q[i] : i \in DOMAIN q} \ {Ping}

Increasing(q) ==
  \A i, j \in DOMAIN q : i < j /\ Ping \notin {q[i], q[j]} => q[i] < q[j]

(***************************************************************************)
(* A client that stays gets every item up to the first that cannot be      *)
(* sent, in order, whether the send went through at once or waited for     *)
(* room, and the pings of an idle stream never break into or replace them. *)
(***************************************************************************)
ItemsInOrder ==
  client # "gone" =>
    LET out == got \o chan \o held
    IN  /\ Increasing(out)
        /\ Shown(out) \in {(1..yielded) \ Unsendable, {StartError}}

\* A lost client's generator is closed, even while its forwarder waits for
\* room in the channel nobody reads any more.
DisconnectCleansUp == (client = "gone" /\ pc # "done") ~> (iter = "closed" \/ yielded = 0)
=============================================================================
