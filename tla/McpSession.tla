----------------------------- MODULE McpSession -----------------------------
(***************************************************************************)
(* The Streamable HTTP transport of bolt_mcp on one event loop: sessions,  *)
(* POST, GET and DELETE, tools that stream, and the requests a tool sends  *)
(* to its client through its Context and awaits as futures.  A tool is any *)
(* program that notifies, asks, returns or raises.  The stream behind a    *)
(* response is src/streaming.rs: its forwarder learns that the client left *)
(* only when it sends (AsyncStream).                                       *)
(***************************************************************************)
EXTENDS McpServer

CONSTANTS
  Natives,      \* tools of @mcp.tool, by name
  Routes,       \* routes of the api, in order
  Exposures,    \* the expose= arguments a mount may be given
  Statics, Templates, Prompts,
  Configs,      \* [stateless, json]: the servers considered
  Principals,   \* sets of permissions a request may carry
  Envelopes,    \* [accept, ctype, body, version] of a POST
  Messages,     \* [method, id, arg] of a POST that calls no tool
  ToolCalls,    \* [name, args] of tools/call
  Calls, Listeners,
  MaxSessions,  \* bound on sessions created
  MaxAsks,      \* bound on the requests of a session to its client
  MaxOut        \* bound on queued items of a tool

VARIABLES
  mcp,        \* [phase, config, tools]: the server object
  sessions,   \* sequence of the sessions ever created
  pending,    \* {<<session, request id, call>>}: Session.pending
  calls,      \* tool calls in progress
  listeners   \* GET streams

vars == <<mcp, sessions, pending, calls, listeners>>

Idle == [st |-> "free", sid |-> 0, task |-> "none", fut |-> "none", out |-> <<>>,
         item |-> <<>>, heard |-> 0, rid |-> 0, by |-> {}, client |-> "reading",
         told |-> "nothing"]

Init ==
  /\ mcp \in [phase : {"setup"}, config : Configs, tools : {Natives}]
  /\ sessions = <<>>
  /\ pending = {}
  /\ calls = [c \in Calls |-> Idle]
  /\ listeners = [l \in Listeners |-> [st |-> "free", sid |-> 0, client |-> "reading"]]

\* mount_mcp: a refused exposure raises before any route is registered.
Mount(how) ==
  /\ mcp.phase = "setup"
  /\ LET e == ExposeRoutes(mcp.tools, Routes, how)
     IN  mcp' = [mcp EXCEPT !.tools = e.tools,
                            !.phase = IF e.err = "none" THEN "serving" ELSE "failed"]
  /\ UNCHANGED <<sessions, pending, calls, listeners>>

Serving == mcp.phase = "serving"
Stateful == ~mcp.config.stateless
Server == [tools |-> mcp.tools, statics |-> Statics, templates |-> Templates, prompts |-> Prompts]

\* SessionManager.get
Live(s) == s \in DOMAIN sessions /\ sessions[s].live

NewSession(caps) == [live |-> TRUE, open |-> FALSE, caps |-> caps, asked |-> 0, close |-> FALSE]

(***************************************************************************)
(* handle_post: negotiation and parsing, then the session.  0 is "passes". *)
(***************************************************************************)
EnvelopeRefusal(e) ==
  LET asked == IF mcp.config.json THEN {"json"} ELSE {"json", "sse"}
  IN  IF ~(asked \subseteq e.accept) THEN 406
      ELSE IF ~e.ctype THEN 415
      ELSE IF e.body # "ok" THEN 400 ELSE 0

SessionRefusal(e, sid) ==
  CASE ~Stateful -> 0
    [] Stateful /\ sid = 0 -> 400
    [] Stateful /\ sid # 0 /\ ~Live(sid) -> 404
    [] OTHER -> IF e.version THEN 0 ELSE 400

PostRefusal(e, sid) ==
  IF EnvelopeRefusal(e) # 0 THEN EnvelopeRefusal(e) ELSE SessionRefusal(e, sid)

PostRefused(e, sid) ==
  /\ Serving
  /\ PostRefusal(e, sid) # 0
  /\ UNCHANGED vars

\* initialize: a new session; StatelessSessions.create keeps none.
Initialize(e, caps) ==
  /\ Serving
  /\ EnvelopeRefusal(e) = 0
  /\ Len(sessions) < MaxSessions
  /\ sessions' = IF Stateful THEN Append(sessions, NewSession(caps)) ELSE sessions
  /\ UNCHANGED <<mcp, pending, calls, listeners>>

\* Any other message runs no tool and changes nothing.  An McpError answers a
\* request, but nobody catches the one of a notification: that POST is a 500.
Uncaught(m) == ~m.id /\ Dispatch(Server, m.method, m.arg) = "error"

PostMessage(e, m, sid) ==
  /\ Serving
  /\ PostRefusal(e, sid) = 0
  /\ ~Uncaught(m)
  /\ UNCHANGED vars

NotificationFails(e, m, sid) ==
  /\ Serving
  /\ PostRefusal(e, sid) = 0
  /\ Uncaught(m)
  /\ UNCHANGED vars

(***************************************************************************)
(* tools/call.  A tool that takes a Context is answered with a stream,     *)
(* whose generator has not started yet; any other runs within the POST.    *)
(***************************************************************************)
CallPlain(c, e, k, who, sid) ==
  /\ Serving /\ calls[c].st = "free"
  /\ PostRefusal(e, sid) = 0
  /\ ~(~mcp.config.json /\ IsStreamingTool(mcp.tools, k.name))
  /\ calls' = [calls EXCEPT ![c] =
       [@ EXCEPT !.sid = IF Stateful THEN sid ELSE 0,
                 !.st = IF ResolveTool(mcp.tools, k, who) = "ok" THEN "plain" ELSE "over",
                 !.task = IF ResolveTool(mcp.tools, k, who) = "ok" THEN "running" ELSE "none"]]
  /\ UNCHANGED <<mcp, sessions, pending, listeners>>

CallStreaming(c, e, k, who, sid) ==
  /\ Serving /\ calls[c].st = "free"
  /\ PostRefusal(e, sid) = 0
  /\ ~mcp.config.json /\ IsStreamingTool(mcp.tools, k.name)
  /\ calls' = [calls EXCEPT ![c] =
       [@ EXCEPT !.sid = IF Stateful THEN sid ELSE 0,
                 !.st = IF ResolveTool(mcp.tools, k, who) = "ok" THEN "unstarted" ELSE "refused"]]
  /\ UNCHANGED <<mcp, sessions, pending, listeners>>

\* stream_call, up to its first await; a refused call yields its one result.
StreamStarts(c) ==
  /\ calls[c].st \in {"unstarted", "refused"}
  /\ calls' = [calls EXCEPT ![c] = IF @.st = "unstarted"
       THEN [@ EXCEPT !.st = "get", !.task = "running"]
       ELSE [@ EXCEPT !.st = "over"]]
  /\ UNCHANGED <<mcp, sessions, pending, listeners>>

\* item = await outgoing.get(); yield
StreamTakes(c) ==
  /\ calls[c].st = "get"
  /\ calls[c].out # <<>>
  /\ calls' = [calls EXCEPT ![c] =
       [@ EXCEPT !.st = "send", !.item = Head(calls[c].out), !.out = Tail(calls[c].out)]]
  /\ UNCHANGED <<mcp, sessions, pending, listeners>>

\* The forwarder sends the event; when the client is gone it closes the generator.
StreamSends(c) ==
  /\ calls[c].st = "send"
  /\ calls' = [calls EXCEPT ![c] =
       [@ EXCEPT !.st = IF calls[c].client = "gone" \/ calls[c].item[1] = "done" THEN "finally" ELSE "get",
                 !.heard = IF calls[c].client # "gone" /\ calls[c].item[1] = "ask"
                           THEN calls[c].item[2] ELSE calls[c].heard,
                 !.told = IF calls[c].client # "gone" /\ calls[c].item[1] = "done"
                          THEN "result" ELSE calls[c].told,
                 !.item = <<>>]]
  /\ UNCHANGED <<mcp, sessions, pending, listeners>>

\* _serialize_sse_chunk raises for an event that cannot be encoded.  That ends the
\* response; the generators below are closed once nobody holds them.
EventFails(c) ==
  /\ calls[c].st = "send"
  /\ calls' = [calls EXCEPT ![c] = [@ EXCEPT !.st = "finally", !.told = "broken", !.item = <<>>]]
  /\ UNCHANGED <<mcp, sessions, pending, listeners>>

\* finally: the task is cancelled and awaited; its own finally pops its future.
\* The queue goes with the generator.
StreamCleansUp(c) ==
  /\ calls[c].st = "finally"
  /\ calls' = [calls EXCEPT ![c] =
       [@ EXCEPT !.st = "over", !.out = <<>>,
                 !.task = IF calls[c].task \in {"running", "asking"} THEN "cancelled" ELSE calls[c].task]]
  /\ pending' = {p \in pending : p[3] # c}
  /\ UNCHANGED <<mcp, sessions, listeners>>

ClientLeaves(c) ==
  /\ calls[c].st \in {"unstarted", "get", "send"}
  /\ calls[c].client = "reading"
  /\ calls' = [calls EXCEPT ![c].client = "gone"]
  /\ UNCHANGED <<mcp, sessions, pending, listeners>>

(***************************************************************************)
(* The tool.                                                               *)
(***************************************************************************)
\* report_progress, log: queued for the stream, dropped when there is none.
Notify(c) ==
  /\ calls[c].task = "running" /\ calls[c].st # "plain"
  /\ Len(calls[c].out) < MaxOut
  /\ calls' = [calls EXCEPT ![c].out = Append(@, <<"note">>)]
  /\ UNCHANGED <<mcp, sessions, pending, listeners>>

\* Context._request: a future is registered, whatever became of the session.
CanAsk(c) == calls[c].st # "plain" /\ calls[c].sid # 0 /\ sessions[calls[c].sid].caps

NextRequestId_PerCall(c) == calls[c].rid + 1

NextRequestId(c) == sessions[calls[c].sid].asked + 1

Ask(c) ==
  /\ calls[c].task = "running" /\ CanAsk(c)
  /\ Len(calls[c].out) < MaxOut
  /\ sessions[calls[c].sid].asked < MaxAsks
  /\ LET s == calls[c].sid
         r == NextRequestId(c)
     IN  /\ sessions' = [sessions EXCEPT ![s].asked = @ + 1]
         /\ pending' = {p \in pending : ~(p[1] = s /\ p[2] = r)} \cup {<<s, r, c>>}
         /\ calls' = [calls EXCEPT ![c] =
              [@ EXCEPT !.task = "asking", !.fut = "waiting", !.rid = r,
                        !.out = Append(calls[c].out, <<"ask", r>>)]]
  /\ UNCHANGED <<mcp, listeners>>

\* await future: the reply, or McpClientError; either way the tool goes on.
Resume(c) ==
  /\ calls[c].task = "asking" /\ calls[c].fut = "replied"
  /\ calls' = [calls EXCEPT ![c] = [@ EXCEPT !.task = "running", !.fut = "none"]]
  /\ pending' = {p \in pending : p[3] # c}
  /\ UNCHANGED <<mcp, sessions, listeners>>

\* CancelledError is no Exception: execute_tool does not turn it into a result.
Cancelled(c) ==
  /\ calls[c].task = "asking" /\ calls[c].fut = "cancelled"
  /\ calls' = [calls EXCEPT ![c].task = "cancelled"]
  /\ pending' = {p \in pending : p[3] # c}
  /\ UNCHANGED <<mcp, sessions, listeners>>

\* execute_tool: a result or, for any exception, an in-band error result.
ToolEnds_ErrorsLost(c) ==
  /\ calls[c].task = "running"
  /\ calls' = [calls EXCEPT ![c] =
       CASE @.st = "plain" -> [@ EXCEPT !.task = "done", !.st = "over", !.told = "result"]
         [] @.st # "plain" /\ @.rid > 0 -> [@ EXCEPT !.task = "done"]
         [] OTHER -> [@ EXCEPT !.task = "done", !.out = Append(calls[c].out, <<"done">>)]]
  /\ UNCHANGED <<mcp, sessions, pending, listeners>>

ToolEnds(c) ==
  /\ calls[c].task = "running"
  /\ calls' = [calls EXCEPT ![c] = IF @.st = "plain"
       THEN [@ EXCEPT !.task = "done", !.st = "over", !.told = "result"]
       ELSE [@ EXCEPT !.task = "done", !.out = Append(calls[c].out, <<"done">>)]]
  /\ UNCHANGED <<mcp, sessions, pending, listeners>>

\* The client of c answers, perhaps again, the last request it heard.
ClientReplies(c, e) ==
  /\ Serving /\ calls[c].heard > 0 /\ calls[c].client = "reading"
  /\ PostRefusal(e, calls[c].sid) = 0
  /\ LET hit == {p \in pending : p[1] = calls[c].sid /\ p[2] = calls[c].heard}
     IN  /\ calls' = [d \in Calls |-> IF \E p \in hit : p[3] = d
                        THEN [calls[d] EXCEPT !.fut = "replied", !.by = @ \cup {c}] ELSE calls[d]]
         /\ pending' = pending \ hit
  /\ UNCHANGED <<mcp, sessions, listeners>>

(***************************************************************************)
(* GET: the listen channel.  The flag is set before the generator runs and *)
(* cleared by the generator; nothing but SESSION_CLOSE is ever queued.     *)
(***************************************************************************)
GetRefusal(sid, sse) ==
  IF mcp.config.stateless \/ mcp.config.json THEN 405
  ELSE IF ~sse THEN 406
  ELSE IF ~Live(sid) THEN 404
  ELSE IF sessions[sid].open THEN 409 ELSE 0

GetRefused(sid, sse) ==
  /\ Serving /\ GetRefusal(sid, sse) # 0
  /\ UNCHANGED vars

HandleGet(l, sid) ==
  /\ Serving /\ listeners[l].st = "free" /\ GetRefusal(sid, TRUE) = 0
  /\ sessions' = [sessions EXCEPT ![sid].open = TRUE]
  /\ listeners' = [listeners EXCEPT ![l] = [st |-> "opened", sid |-> sid, client |-> "reading"]]
  /\ UNCHANGED <<mcp, pending, calls>>

\* schedule_async_stream_forwarder may fail: the generator is never entered.
ListenStarts(l, ok) ==
  /\ listeners[l].st = "opened"
  /\ listeners' = [listeners EXCEPT ![l].st = IF ok THEN "waiting" ELSE "lost"]
  /\ UNCHANGED <<mcp, sessions, pending, calls>>

ListenCloses(l) ==
  /\ listeners[l].st = "waiting" /\ sessions[listeners[l].sid].close
  /\ sessions' = [sessions EXCEPT ![listeners[l].sid] = [@ EXCEPT !.close = FALSE, !.open = FALSE]]
  /\ listeners' = [listeners EXCEPT ![l].st = "over"]
  /\ UNCHANGED <<mcp, pending, calls>>

\* Pings let Actix see it; the forwarder, waiting in __anext__, does not.
ListenerLeaves(l) ==
  /\ listeners[l].st = "waiting" /\ listeners[l].client = "reading"
  /\ listeners' = [listeners EXCEPT ![l].client = "gone"]
  /\ UNCHANGED <<mcp, sessions, pending, calls>>

(***************************************************************************)
(* DELETE and SessionManager.terminate.                                    *)
(***************************************************************************)
Terminate_Quietly(sid) ==
  /\ sessions' = [sessions EXCEPT ![sid].live = FALSE]
  /\ calls' = [c \in Calls |-> IF \E p \in pending : p[1] = sid /\ p[3] = c
                 THEN [calls[c] EXCEPT !.fut = "cancelled"] ELSE calls[c]]
  /\ pending' = {p \in pending : p[1] # sid}

Terminate(sid) ==
  /\ sessions' = [sessions EXCEPT ![sid] = [@ EXCEPT !.live = FALSE, !.close = TRUE]]
  /\ calls' = [c \in Calls |-> IF \E p \in pending : p[1] = sid /\ p[3] = c
                 THEN [calls[c] EXCEPT !.fut = "cancelled"] ELSE calls[c]]
  /\ pending' = {p \in pending : p[1] # sid}

HandleDelete(sid) ==
  /\ Serving /\ Stateful /\ Live(sid)
  /\ Terminate(sid)
  /\ UNCHANGED <<mcp, listeners>>

\* 405 without sessions or without an id, else 404.
DeleteRefused(sid) ==
  /\ Serving /\ ~(Stateful /\ Live(sid))
  /\ UNCHANGED vars

Sids == 0..MaxSessions

StreamStep(c) ==
  StreamStarts(c) \/ StreamTakes(c) \/ StreamSends(c) \/ EventFails(c) \/ StreamCleansUp(c)

ToolStep(c) == Resume(c) \/ Cancelled(c) \/ ToolEnds(c)

Next ==
  \/ \E how \in Exposures : Mount(how)
  \/ \E e \in Envelopes, sid \in Sids : PostRefused(e, sid)
  \/ \E e \in Envelopes, caps \in BOOLEAN : Initialize(e, caps)
  \/ \E e \in Envelopes, m \in Messages, sid \in Sids :
       PostMessage(e, m, sid) \/ NotificationFails(e, m, sid)
  \/ \E c \in Calls, e \in Envelopes, k \in ToolCalls, who \in Principals, sid \in Sids :
       CallPlain(c, e, k, who, sid) \/ CallStreaming(c, e, k, who, sid)
  \/ \E c \in Calls : StreamStep(c) \/ ToolStep(c) \/ ClientLeaves(c) \/ Notify(c) \/ Ask(c)
  \/ \E c \in Calls, e \in Envelopes : ClientReplies(c, e)
  \/ \E sid \in Sids, sse \in BOOLEAN : GetRefused(sid, sse)
  \/ \E l \in Listeners, sid \in Sids : HandleGet(l, sid)
  \/ \E l \in Listeners, ok \in BOOLEAN : ListenStarts(l, ok)
  \/ \E l \in Listeners : ListenCloses(l) \/ ListenerLeaves(l)
  \/ \E sid \in Sids : HandleDelete(sid) \/ DeleteRefused(sid)

(***************************************************************************)
(* The event loop runs what is ready: the generator behind a response, a   *)
(* tool that is not waiting for its client, and a listener.                *)
(***************************************************************************)
Fairness ==
  /\ \A c \in Calls : WF_vars(StreamStep(c)) /\ WF_vars(ToolStep(c))
  /\ \A l \in Listeners : WF_vars(ListenCloses(l))

Spec == Init /\ [][Next]_vars /\ Fairness
-----------------------------------------------------------------------------
\* A reply resumes the tool whose request it answers, never another of the
\* session, and a request that is registered is one its tool still waits for:
\* a client that left, or answered, leaves none behind (Context._request).
ReplyReachesAsker ==
  /\ \A c \in Calls : calls[c].by \subseteq {c}
  /\ \A p \in pending : /\ calls[p[3]].task = "asking"
                        /\ calls[p[3]].sid = p[1] /\ calls[p[3]].rid = p[2]

\* A tool that returned or raised ends its stream, and its result was sent, unless
\* the client left or an event could not be encoded (stream_call): no event queued
\* before the result, no reply and no other call of the session makes it disappear.
ResultIsDelivered ==
  \A c \in Calls : calls[c].task = "done" ~>
    /\ calls[c].st = "over"
    /\ calls[c].told # "nothing" \/ calls[c].client = "gone"

\* DELETE ends the GET stream of its session, also when the listener came
\* between the end of the session and the start of its generator.
DeleteClosesListener ==
  \A l \in Listeners :
    (listeners[l].st = "waiting" /\ ~Live(listeners[l].sid)) ~> listeners[l].st = "over"
=============================================================================
