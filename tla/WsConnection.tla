---------------------------- MODULE WsConnection ----------------------------
(***************************************************************************)
(* One open WebSocket connection: the Actix actor (src/websocket/actor.rs) *)
(* that owns the socket, the task that runs the Python handler             *)
(* (src/websocket/handler.rs) and the WebSocket object the handler uses    *)
(* (django_bolt/websocket/types.py).                                       *)
(*                                                                         *)
(* The actor forwards client frames to Python over a bounded channel with  *)
(* try_send; Python sends through the actor's mailbox and awaits the       *)
(* answer.  A handler may receive in one coroutine and send in another;    *)
(* it accepts the connection before it receives, as accept() documents.    *)
(* Messages are numbered in the order they are sent.                       *)
(***************************************************************************)
EXTENDS Integers, Sequences

CONSTANTS
  Cap,            \* config.channel_buffer_size
  TimeoutTicks,   \* client_timeout, in heartbeat intervals
  ClientCodes,    \* close codes a client may send
  ServerCodes,    \* close codes the handler may close with
  MaxFrames,      \* bound on data frames from the client
  MaxTexts,       \* bound on messages the handler sends
  MaxCancels      \* bound on cancelled receives

ASSUME WsConnectionAssumption ==
  /\ Cap \in Nat \ {0}
  /\ TimeoutTicks \in Nat
  /\ MaxFrames \in Nat
  /\ MaxTexts \in Nat
  /\ MaxCancels \in Nat
  /\ ClientCodes \subseteq Nat \ {0}
  /\ ServerCodes \subseteq Nat \ {0}

NoCode == 0
Codes == ClientCodes \cup ServerCodes \cup {1000, 1001, 1002, 1011}

Data(n) == [kind |-> "data", arg |-> n]
Disconnect(code) == [kind |-> "disconnect", arg |-> code]
Nothing == [kind |-> "none", arg |-> 0]

VARIABLES
  actor,       \* "running", "stopping" after ctx.stop(), "stopped"
  accepted,    \* WebSocketActor.accepted
  closeCode,   \* WebSocketActor.close_code
  silent,      \* heartbeat intervals begun since hb
  chan,        \* the channel to Python
  rxOpen,      \* the receiving half of the channel is alive
  mail,        \* the message Python sends through the mailbox, or Nothing
  reply,       \* its answer: "waiting", "ok" or "closed"; "none" without one
  wire,        \* what has been written to the client
  state,       \* WebSocket._state
  isAccepted,  \* WebSocket._accepted
  recv,        \* "idle", "waiting" in rx.recv(), "holding" a message
  held,        \* the message fetched and not yet handed to the coroutine
  task,        \* "running" the handler, "failing", "done"
  frames,      \* history: messages the client has sent
  fragmented,  \* history: those it sent in fragments
  got,         \* history: data the handler received
  lost,        \* history: data fetched for a receive that was cancelled
  cancels,     \* history: receives cancelled
  cause,       \* history: the code the connection ended with
  dropped,     \* history: a disconnect did not fit into the channel
  seen,        \* history: the code WebSocketDisconnect carried
  sent         \* history: messages whose send() returned

actorVars == <<actor, accepted, closeCode, silent, wire, cause, dropped>>
pythonVars == <<state, isAccepted, task, rxOpen, sent>>
recvVars == <<recv, held, got, lost, cancels, seen>>
clientVars == <<frames, fragmented>>
vars == <<actorVars, pythonVars, recvVars, chan, mail, reply, clientVars>>

Init ==
  /\ actor = "running"
  /\ accepted = FALSE
  /\ closeCode = NoCode
  /\ silent = 0
  /\ chan = <<>>
  /\ rxOpen = TRUE
  /\ mail = Nothing
  /\ reply = "none"
  /\ wire = <<>>
  /\ state = "connecting"
  /\ isAccepted = FALSE
  /\ recv = "idle"
  /\ held = Nothing
  /\ task = "running"
  /\ frames = 0
  /\ got = <<>>
  /\ lost = 0
  /\ cancels = 0
  /\ fragmented = 0
  /\ cause = NoCode
  /\ dropped = FALSE
  /\ seen = NoCode
  /\ sent = <<>>

Fits == rxOpen /\ Len(chan) < Cap

TryDisconnect_Ahead(code) ==
  /\ chan' = IF Fits THEN <<Disconnect(code)>> \o chan ELSE chan
  /\ dropped' = (dropped \/ ~Fits)

\* try_send of a disconnect, whose failure the actor ignores.
TryDisconnect(code) ==
  /\ chan' = IF Fits THEN Append(chan, Disconnect(code)) ELSE chan
  /\ dropped' = (dropped \/ ~Fits)

(***************************************************************************)
(* Frames from the client, StreamHandler::handle.                          *)
(***************************************************************************)
DataFrame_Ignored ==
  /\ actor = "running"
  /\ frames < MaxFrames
  /\ silent' = 0
  /\ chan' = IF Fits THEN Append(chan, Data(frames + 1)) ELSE chan
  /\ frames' = frames + 1
  /\ UNCHANGED <<actor, accepted, closeCode, wire, cause, dropped, pythonVars,
                 recvVars, mail, reply, fragmented>>

\* Text or binary; one that cannot be forwarded closes the connection.
DataFrame ==
  /\ actor = "running"
  /\ frames < MaxFrames
  /\ silent' = 0
  /\ IF Fits
       THEN /\ chan' = Append(chan, Data(frames + 1))
            /\ frames' = frames + 1
            /\ UNCHANGED <<actor, closeCode, wire, cause>>
       ELSE /\ actor' = "stopping"   \* close_on_channel_error
            /\ closeCode' = 1011
            /\ wire' = Append(wire, Disconnect(1011))
            /\ cause' = 1011
            /\ UNCHANGED <<chan, frames>>
  /\ UNCHANGED <<accepted, dropped, pythonVars, recvVars, mail, reply, fragmented>>

\* The first frame of a message the client sends in several.  The handler has no
\* case for continuations: this frame and those after it are ignored, and they
\* are no sign of life.
Fragment ==
  /\ actor = "running"
  /\ frames < MaxFrames
  /\ frames' = frames + 1
  /\ fragmented' = fragmented + 1
  /\ UNCHANGED <<actorVars, pythonVars, recvVars, chan, mail, reply>>

\* A ping or a pong.
KeepAlive ==
  /\ actor = "running"
  /\ silent > 0
  /\ silent' = 0
  /\ UNCHANGED <<actor, accepted, closeCode, wire, cause, dropped, pythonVars,
                 recvVars, chan, mail, reply, clientVars>>

CloseFrame(code) ==
  /\ actor = "running"
  /\ actor' = "stopping"
  /\ closeCode' = code
  /\ cause' = code
  /\ TryDisconnect(code)
  /\ wire' = Append(wire, Disconnect(code))
  /\ UNCHANGED <<accepted, silent, pythonVars, recvVars, mail, reply, clientVars>>

\* A protocol error; the codec also reports a frame beyond max_message_size
\* this way, before the size check of the handler sees it.
ProtocolError ==
  /\ actor = "running"
  /\ actor' = "stopping"
  /\ closeCode' = 1002
  /\ cause' = 1002
  /\ TryDisconnect(1002)
  /\ UNCHANGED <<accepted, silent, wire, pythonVars, recvVars, mail, reply, clientVars>>

\* The socket ends without a close frame: StreamHandler::finished.
EndOfStream ==
  /\ actor = "running"
  /\ actor' = "stopping"
  /\ cause' = 1000
  /\ UNCHANGED <<accepted, closeCode, silent, wire, dropped, pythonVars,
                 recvVars, chan, mail, reply, clientVars>>

\* start_heartbeat: the closure that runs every heartbeat_interval.
Heartbeat ==
  /\ actor = "running"
  /\ IF silent + 1 > TimeoutTicks
       THEN /\ TryDisconnect(1001)
            /\ actor' = "stopping"
            /\ cause' = 1001
            /\ UNCHANGED silent
       ELSE /\ silent' = silent + 1
            /\ UNCHANGED <<actor, cause, chan, dropped>>
  /\ UNCHANGED <<accepted, closeCode, wire, pythonVars, recvVars, mail, reply,
                 clientVars>>

(***************************************************************************)
(* A message from Python, Handler<SendToClient>::handle.                   *)
(***************************************************************************)
HandleMail ==
  /\ actor = "running"
  /\ reply = "waiting"
  /\ reply' = "ok"
  /\ accepted' = (accepted \/ mail.kind = "accept")
  /\ wire' = IF mail.kind = "disconnect" \/ (mail.kind = "data" /\ accepted)
               THEN Append(wire, mail) ELSE wire
  /\ IF mail.kind = "disconnect"
       THEN closeCode' = mail.arg /\ cause' = mail.arg /\ actor' = "stopping"
       ELSE UNCHANGED <<closeCode, cause, actor>>
  /\ UNCHANGED <<silent, dropped, pythonVars, recvVars, chan, mail, clientVars>>

FinalCode_Normal == 1000

\* The code stopped() reports.
FinalCode == IF closeCode = NoCode THEN 1000 ELSE closeCode

\* WebSocketActor::stopped, after which the sending half is dropped and the
\* mailbox answers MailboxError::Closed.
Stopped ==
  /\ actor = "stopping"
  /\ actor' = "stopped"
  /\ TryDisconnect(FinalCode)
  /\ UNCHANGED <<accepted, closeCode, silent, wire, cause, pythonVars, recvVars,
                 mail, reply, clientVars>>

MailClosed ==
  /\ actor = "stopped"
  /\ reply = "waiting"
  /\ reply' = "closed"
  /\ UNCHANGED <<actorVars, pythonVars, recvVars, chan, mail, clientVars>>

(***************************************************************************)
(* WebSocket.receive() in one coroutine.  ReceiveFn takes a message from   *)
(* the channel on the Tokio side (Fetch) and then resolves the Python      *)
(* future (Deliver); a cancellation in between, as by a timeout around     *)
(* receive(), drops what was fetched.                                      *)
(***************************************************************************)
Receive ==
  /\ task = "running"
  /\ isAccepted
  /\ recv = "idle"
  /\ state # "disconnected"
  /\ recv' = "waiting"
  /\ UNCHANGED <<actorVars, pythonVars, held, got, lost, cancels, seen, chan,
                 mail, reply, clientVars>>

\* rx.recv(): None, once the actor is gone and the channel empty, is reported
\* as a disconnect with code 1000.
Fetch ==
  /\ recv = "waiting"
  /\ \/ chan # <<>> /\ held' = Head(chan) /\ chan' = Tail(chan)
     \/ chan = <<>> /\ actor = "stopped" /\ held' = Disconnect(1000) /\ UNCHANGED chan
  /\ recv' = "holding"
  /\ UNCHANGED <<actorVars, pythonVars, got, lost, cancels, seen, mail, reply,
                 clientVars>>

Deliver ==
  /\ recv = "holding"
  /\ recv' = "idle"
  /\ held' = Nothing
  /\ IF held.kind = "data"
       THEN got' = Append(got, held.arg) /\ UNCHANGED <<state, seen>>
       ELSE state' = "disconnected" /\ seen' = held.arg /\ UNCHANGED got
  /\ UNCHANGED <<actorVars, isAccepted, task, rxOpen, sent, lost, cancels,
                 chan, mail, reply, clientVars>>

CancelReceive ==
  /\ recv # "idle"
  /\ cancels < MaxCancels
  /\ recv' = "idle"
  /\ held' = Nothing
  /\ lost' = IF held.kind = "data" THEN lost + 1 ELSE lost
  /\ cancels' = cancels + 1
  /\ UNCHANGED <<actorVars, pythonVars, got, seen, chan, mail, reply, clientVars>>

(***************************************************************************)
(* accept(), send() and close() in another coroutine: each checks the      *)
(* state, puts a message into the actor's mailbox and awaits the answer,   *)
(* and only then changes the state.  A closed mailbox raises RuntimeError  *)
(* and leaves the state alone.                                             *)
(***************************************************************************)
Post(message) ==
  /\ task = "running"
  /\ reply = "none"
  /\ mail' = message
  /\ reply' = "waiting"
  /\ UNCHANGED <<actorVars, pythonVars, recvVars, chan, clientVars>>

\* accept() returns at once on an accepted connection.
AcceptAllowed == ~isAccepted

Accept == AcceptAllowed /\ Post([kind |-> "accept", arg |-> 0])

SendAllowed_BeforeAccept == state # "disconnected"

\* send() raises RuntimeError unless the state is CONNECTED.
SendAllowed == state = "connected"

Send ==
  /\ SendAllowed
  /\ Len(sent) < MaxTexts
  /\ Post(Data(Len(sent) + 1))

Close(code) == state # "disconnected" /\ Post(Disconnect(code))

Return ==
  /\ task = "running"
  /\ reply \in {"ok", "closed"}
  /\ reply' = "none"
  /\ mail' = Nothing
  /\ state' = CASE reply = "ok" /\ mail.kind = "accept" -> "connected"
                [] reply = "ok" /\ mail.kind = "disconnect" -> "disconnected"
                [] OTHER -> state
  /\ isAccepted' = (isAccepted \/ (reply = "ok" /\ mail.kind = "accept"))
  /\ sent' = IF reply = "ok" /\ mail.kind = "data" THEN Append(sent, mail.arg) ELSE sent
  /\ UNCHANGED <<actorVars, task, rxOpen, recvVars, chan, clientVars>>

(***************************************************************************)
(* The end of the handler.  A normal return only drops the receiver, so    *)
(* that the next data frame finds the channel closed; the actor keeps      *)
(* running until then, until the client closes or until it falls silent.   *)
(* An exception, a failed setup or a panic makes the task send a close     *)
(* with code 1011 before it drops the receiver.                            *)
(***************************************************************************)
HandlerReturns ==
  /\ task = "running"
  /\ reply = "none"
  /\ recv = "idle"
  /\ task' = "done"
  /\ rxOpen' = FALSE
  /\ chan' = <<>>
  /\ UNCHANGED <<actorVars, state, isAccepted, sent, recvVars, mail, reply, clientVars>>

FailureMail_Missing == Data(0)

\* The close the task sends on behalf of a handler that failed.
FailureMail == Disconnect(1011)

HandlerRaises ==
  /\ task = "running"
  /\ reply = "none"
  /\ recv = "idle"
  /\ task' = "failing"
  /\ mail' = FailureMail
  /\ reply' = "waiting"
  /\ UNCHANGED <<actorVars, state, isAccepted, rxOpen, sent, recvVars, chan, clientVars>>

TaskEnds ==
  /\ task = "failing"
  /\ reply \in {"ok", "closed"}
  /\ task' = "done"
  /\ mail' = Nothing
  /\ reply' = "none"
  /\ rxOpen' = FALSE
  /\ chan' = <<>>
  /\ UNCHANGED <<actorVars, state, isAccepted, sent, recvVars, clientVars>>

ClientFrame ==
  \/ DataFrame
  \/ Fragment
  \/ KeepAlive
  \/ \E code \in ClientCodes : CloseFrame(code)
  \/ ProtocolError
  \/ EndOfStream

ActorStep == Heartbeat \/ HandleMail \/ Stopped \/ MailClosed

Handler ==
  \/ Receive
  \/ CancelReceive
  \/ Accept
  \/ Send
  \/ \E code \in ServerCodes : Close(code)
  \/ HandlerReturns
  \/ HandlerRaises

Resume == Fetch \/ Deliver \/ Return \/ TaskEnds

Next == ClientFrame \/ ActorStep \/ Handler \/ Resume

Spec == Init /\ [][Next]_vars

(***************************************************************************)
(* Actix polls a running actor, its timer and its mailbox, Tokio polls the *)
(* future behind receive(), and the event loop resumes a coroutine whose   *)
(* future is resolved.  Nothing makes a client speak or a handler call.    *)
(***************************************************************************)
Fairness ==
  /\ WF_vars(Heartbeat)
  /\ WF_vars(HandleMail)
  /\ WF_vars(Stopped)
  /\ WF_vars(MailClosed)
  /\ WF_vars(Fetch)
  /\ WF_vars(Deliver)
  /\ WF_vars(Return)
  /\ WF_vars(TaskEnds)

FairSpec == Spec /\ Fairness
-----------------------------------------------------------------------------
\* The data that precedes the first message of another kind, behind which nobody reads.
Lead(messages) == {i \in DOMAIN messages : \A j \in 1..i : messages[j].kind = "data"}

DataIn(messages) == [i \in Lead(messages) |-> messages[i].arg]

\* What the handler has yet to receive of what was put into the channel.
Pending == DataIn(<<held>>) \o DataIn(chan)

Increasing(s) == \A i, j \in DOMAIN s : i < j => s[i] < s[j]

\* Every variable has its type and the channel keeps to its capacity.
TypeOK ==
  /\ actor \in {"running", "stopping", "stopped"}
  /\ accepted \in BOOLEAN
  /\ closeCode \in Codes \cup {NoCode}
  /\ silent \in 0..TimeoutTicks
  /\ chan \in Seq([kind : {"data", "disconnect"}, arg : Nat])
  /\ Len(chan) <= Cap
  /\ rxOpen \in BOOLEAN
  /\ mail \in [kind : {"accept", "data", "disconnect", "none"}, arg : Nat]
  /\ reply \in {"none", "waiting", "ok", "closed"}
  /\ wire \in Seq([kind : {"data", "disconnect"}, arg : Nat])
  /\ state \in {"connecting", "connected", "disconnected"}
  /\ isAccepted \in BOOLEAN
  /\ recv \in {"idle", "waiting", "holding"}
  /\ held \in [kind : {"data", "disconnect", "none"}, arg : Nat]
  /\ task \in {"running", "failing", "done"}
  /\ frames \in 0..MaxFrames
  /\ got \in Seq(Nat)
  /\ lost \in Nat
  /\ cancels \in Nat
  /\ fragmented \in Nat
  /\ cause \in Codes \cup {NoCode}
  /\ dropped \in BOOLEAN
  /\ seen \in Codes \cup {NoCode}
  /\ sent \in Seq(Nat)

(***************************************************************************)
(* The handler receives the client's messages in order, and while it runs  *)
(* nothing is missing but what the code gives up: every message is         *)
(* received, still on its way, came in fragments, which the actor ignores, *)
(* or was fetched for a receive() that was then cancelled, which loses at  *)
(* most one message per cancellation.                                      *)
(***************************************************************************)
ReceivedInOrder ==
  /\ Increasing(got \o Pending)
  /\ lost <= cancels
  /\ rxOpen => Len(got) + Len(Pending) + lost + fragmented = frames

(***************************************************************************)
(* The actor, the channel and the WebSocket object together implement the  *)
(* session of WsSession: in particular WebSocketDisconnect is raised once, *)
(* after the end, and only when nothing the client sent before it is left  *)
(* to receive.                                                             *)
(***************************************************************************)
Session == INSTANCE WsSession WITH
  open <- actor = "running",
  inbox <- Pending,
  taken <- frames,
  received <- got,
  notified <- seen # NoCode

ImplementsSession == Session!Spec

(***************************************************************************)
(* The code of WebSocketDisconnect is the code the connection ended with,  *)
(* except that the channel may have had no room for the notice, or a       *)
(* cancelled receive() may have taken it: then the handler sees 1000.      *)
(***************************************************************************)
CodeIsTheCause ==
  seen # NoCode => seen = cause \/ (seen = 1000 /\ (dropped \/ cancels > 0))

(***************************************************************************)
(* send() returned means written: the client is sent exactly the messages  *)
(* whose send() returned, in that order and once each, plus at most the    *)
(* one being sent; and nothing follows a close frame.                      *)
(***************************************************************************)
SentIsWritten ==
  /\ \/ DataIn(wire) = sent
     \/ /\ mail.kind = "data"
        /\ reply = "ok"
        /\ DataIn(wire) = Append(sent, mail.arg)
  /\ \A i \in DOMAIN wire : wire[i].kind = "disconnect" => i = Len(wire)

\* A coroutine blocked in receive() is released once the actor has stopped,
\* even when no disconnect fitted into the channel.
ReceiveIsReleased == (recv = "waiting" /\ actor = "stopped") ~> (recv # "waiting")

\* A handler that fails takes the connection down with it.
FailureStops == (task = "failing") ~> (actor = "stopped")

\* An actor runs on for ever only under a client that keeps sending: a client
\* that falls silent is disconnected and its slot released.
SilentClientIsDropped == <>(actor = "stopped") \/ []<>(silent = 0)

(***************************************************************************)
(* Nobody waits for a connection that is gone: not a coroutine in          *)
(* receive() for a stopped actor, not the client for a handler that        *)
(* raised, not the actor for a client that fell silent.                    *)
(***************************************************************************)
NobodyWaitsForEver == ReceiveIsReleased /\ FailureStops /\ SilentClientIsDropped
=============================================================================
