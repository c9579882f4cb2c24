-------------------------- MODULE McpSessionProofs --------------------------
(***************************************************************************)
(* Invariance proofs for the MCP transport: any tools and exposures, any   *)
(* number of sessions, of concurrent calls and of requests to a client.    *)
(***************************************************************************)
EXTENDS McpSession, SequenceTheorems, TLAPS

Session == [live : BOOLEAN, open : BOOLEAN, caps : BOOLEAN, asked : Nat, close : BOOLEAN]

Item == {<<"note">>, <<"done">>} \cup {<<"ask", r>> : r \in Nat}

Stages == {"free", "plain", "unstarted", "refused", "get", "send", "finally", "over"}

Call == [st : Stages, sid : Nat, task : {"none", "running", "asking", "cancelled", "done"},
         fut : {"none", "waiting", "replied", "cancelled"}, out : Seq(Item),
         item : Item \cup {<<>>}, heard : Nat, rid : Nat, by : SUBSET Calls,
         client : {"reading", "gone"}, told : {"nothing", "result", "broken"}]

Typed ==
  /\ sessions \in Seq(Session)
  /\ pending \subseteq (Nat \X Nat \X Calls)
  /\ calls \in [Calls -> Call]

\* A call is of a session that was created, has no tool before its stream starts,
\* and something in hand when it sends.
Placed(c) ==
  /\ calls[c].st = "free" => calls[c] = Idle
  /\ calls[c].st \in {"unstarted", "refused"} => calls[c].task = "none"
  /\ calls[c].st = "send" => calls[c].item \in Item
  /\ calls[c].sid # 0 => calls[c].sid \in DOMAIN sessions
-----------------------------------------------------------------------------
\* The requests that a call k has to do with: the last one its tool sent, those
\* on their way to its client, and the last one its client heard.
Concerns(k, r) ==
  \/ k.rid = r \/ k.heard = r \/ k.item = <<"ask", r>>
  \/ \E i \in DOMAIN k.out : k.out[i] = <<"ask", r>>

Known(c) == {r \in Nat : r # 0 /\ Concerns(calls[c], r)}

\* Their ids were given out by the session ...
IdsGiven ==
  \A c \in Calls : calls[c].sid # 0 =>
    \A r \in Known(c) : r <= sessions[calls[c].sid].asked

\* ... each to one call.
IdsOwned ==
  \A c, d \in Calls : \A r \in Known(c) \cap Known(d) :
    calls[c].sid # 0 /\ calls[c].sid = calls[d].sid => c = d

\* A registered future has an id, of a session.
Registered == \A p \in pending : p[1] # 0 /\ p[2] # 0

SessionInv ==
  /\ Typed
  /\ \A c \in Calls : Placed(c)
  /\ IdsGiven /\ IdsOwned
  /\ Registered
  /\ ReplyReachesAsker
-----------------------------------------------------------------------------
\* What is queued for a client is a request only if it is marked as one.
LEMMA NotesAsk == \A r : <<"note">> # <<"ask", r>> /\ <<"done">> # <<"ask", r>> /\ <<>> # <<"ask", r>>
  OBVIOUS

LEMMA IdleCall == Idle \in Call /\ \A r \in Nat : r # 0 => ~Concerns(Idle, r)
  <1>1. <<>> \in Seq(Item)
    BY EmptySeq
  <1>2. Idle \in Call
    BY <1>1 DEF Idle, Call, Item, Stages
  <1>3. ASSUME NEW r \in Nat, r # 0 PROVE ~Concerns(Idle, r)
    <2>1. Idle.rid = 0 /\ Idle.heard = 0 /\ Idle.item = <<>> /\ Idle.out = <<>>
      BY DEF Idle
    <2>2. DOMAIN (<<>>) = {}
      BY EmptySeq, LenProperties
    <2> QED
      BY <1>3, <2>1, <2>2, NotesAsk DEF Concerns
  <1> QED
    BY <1>2, <1>3

\* A step in which no call learns of a request and no future is registered
\* leaves the ids where they are.
LEMMA Step ==
  ASSUME SessionInv, Typed',
         \A d \in Calls : Placed(d)' /\ calls'[d].by \subseteq {d},
         \A d \in Calls : \A r \in Nat : r # 0 /\ Concerns(calls'[d], r) =>
           Concerns(calls[d], r) /\ calls'[d].sid = calls[d].sid,
         \A s \in DOMAIN sessions : sessions'[s].asked = sessions[s].asked,
         pending' \subseteq pending,
         \A p \in pending' : /\ calls'[p[3]].task = "asking"
                             /\ calls'[p[3]].sid = calls[p[3]].sid
                             /\ calls'[p[3]].rid = calls[p[3]].rid
  PROVE  SessionInv'
  <1>1. \A d \in Calls : \A r \in Known(d)' : r \in Known(d) /\ calls'[d].sid = calls[d].sid
    BY DEF Known
  <1>2. IdsGiven'
    <2> SUFFICES ASSUME NEW c \in Calls, calls'[c].sid # 0, NEW r \in Known(c)'
                 PROVE  r <= sessions'[calls'[c].sid].asked
      BY DEF IdsGiven
    <2>1. r \in Known(c) /\ calls'[c].sid = calls[c].sid
      BY <1>1
    <2> QED
      BY <2>1 DEF SessionInv, IdsGiven, Placed
  <1>3. IdsOwned'
    BY <1>1 DEF SessionInv, IdsOwned
  <1>4. Registered'
    BY DEF SessionInv, Registered
  <1>5. ReplyReachesAsker'
    BY DEF SessionInv, ReplyReachesAsker
  <1> QED
    BY <1>2, <1>3, <1>4, <1>5 DEF SessionInv

\* Call c becomes k, the others are as they were.
Changed(c, k) == calls' = [calls EXCEPT ![c] = k]

\* The same, for a step of one call.
LEMMA CallStep ==
  ASSUME SessionInv, NEW c \in Calls, NEW k \in Call,
         Changed(c, k), sessions' = sessions,
         k.st # "free" /\ k.by \subseteq {c},
         k.st \in {"unstarted", "refused"} => k.task = "none",
         k.st = "send" => k.item \in Item,
         k.sid # 0 => k.sid \in DOMAIN sessions,
         \A r \in Nat : r # 0 /\ Concerns(k, r) => Concerns(calls[c], r) /\ k.sid = calls[c].sid,
         pending' \subseteq pending,
         \A p \in pending' : p[3] = c =>
           k.task = "asking" /\ k.sid = calls[c].sid /\ k.rid = calls[c].rid
  PROVE  SessionInv'
  <1>1. /\ calls' \in [Calls -> Call] /\ calls'[c] = k
        /\ \A d \in Calls : d # c => calls'[d] = calls[d]
    BY DEF SessionInv, Typed, Changed
  <1>2. Typed'
    BY <1>1 DEF SessionInv, Typed
  <1>3. \A d \in Calls : Placed(d)'
    BY <1>1 DEF SessionInv, Placed
  <1>4. \A d \in Calls : calls'[d].by \subseteq {d}
    BY <1>1 DEF SessionInv, ReplyReachesAsker
  <1>5. \A p \in pending' : p \in pending /\ p[3] \in Calls
    BY DEF SessionInv, Typed
  <1>6. \A p \in pending' : /\ calls'[p[3]].task = "asking"
                            /\ calls'[p[3]].sid = calls[p[3]].sid
                            /\ calls'[p[3]].rid = calls[p[3]].rid
    BY <1>1, <1>5 DEF SessionInv, ReplyReachesAsker
  <1>7. \A d \in Calls : \A r \in Nat : r # 0 /\ Concerns(calls'[d], r) =>
           Concerns(calls[d], r) /\ calls'[d].sid = calls[d].sid
    BY <1>1
  <1> QED
    BY <1>2, <1>3, <1>4, <1>6, <1>7, Step

\* A request that is let in is of a live session, unless the server keeps none.
LEMMA LetIn ==
  ASSUME NEW e, NEW sid, PostRefusal(e, sid) = 0, Stateful
  PROVE  sid \in DOMAIN sessions
  BY DEF PostRefusal, SessionRefusal, Live

LEMMA InitInv == Init => SessionInv
  <1> SUFFICES ASSUME Init PROVE SessionInv
    OBVIOUS
  <1>1. Typed
    BY IdleCall, EmptySeq DEF Init, Typed
  <1>2. \A c \in Calls : calls[c] = Idle
    BY DEF Init
  <1>3. \A c \in Calls : Known(c) = {}
    BY <1>2, IdleCall DEF Known
  <1>4. \A c \in Calls : Placed(c)
    BY <1>2 DEF Placed, Idle
  <1>5. ReplyReachesAsker /\ Registered
    BY <1>2 DEF Init, ReplyReachesAsker, Registered, Idle
  <1> QED
    BY <1>1, <1>3, <1>4, <1>5 DEF SessionInv, IdsGiven, IdsOwned
-----------------------------------------------------------------------------
(***************************************************************************)
(* tools/call and the stream of its response.                              *)
(***************************************************************************)
LEMMA CallPlainInv ==
  ASSUME SessionInv, NEW c \in Calls, NEW e, NEW k, NEW who, NEW sid, CallPlain(c, e, k, who, sid)
  PROVE  SessionInv'
  <1> DEFINE ok == ResolveTool(mcp.tools, k, who) = "ok"
             s == IF Stateful THEN sid ELSE 0
             n == [Idle EXCEPT !.sid = s, !.st = IF ok THEN "plain" ELSE "over",
                               !.task = IF ok THEN "running" ELSE "none"]
  <1>1. calls[c] = Idle
    BY DEF CallPlain, SessionInv, Placed
  <1>2. s \in Nat /\ (s # 0 => s \in DOMAIN sessions)
    <2>1. Stateful => sid \in DOMAIN sessions
      BY LetIn DEF CallPlain
    <2>2. DOMAIN sessions \subseteq Nat
      BY LenProperties DEF SessionInv, Typed
    <2> QED
      BY <2>1, <2>2
  <1>3. calls' = [calls EXCEPT ![c] = n] /\ UNCHANGED <<sessions, pending>>
    BY <1>1 DEF CallPlain
  <1> HIDE DEF ok, s
  <1>4. /\ n \in Call /\ n.st \in {"plain", "over"} /\ n.by = {} /\ n.sid = s
        /\ n.rid = Idle.rid /\ n.heard = Idle.heard /\ n.item = Idle.item /\ n.out = Idle.out
    BY <1>2, IdleCall DEF Call, Idle, Stages
  <1>5. \A r \in Nat : r # 0 => ~Concerns(n, r)
    BY <1>4, IdleCall DEF Concerns
  <1>6. \A p \in pending : p[3] # c
    BY <1>1 DEF SessionInv, ReplyReachesAsker, Idle
  <1> HIDE DEF n
  <1>7. /\ n.st # "free" /\ n.by \subseteq {c}
        /\ n.st \in {"unstarted", "refused"} => n.task = "none"
        /\ n.st = "send" => n.item \in Item
        /\ n.sid # 0 => n.sid \in DOMAIN sessions
    BY <1>2, <1>4
  <1>8. /\ Changed(c, n) /\ sessions' = sessions
        /\ pending' \subseteq pending /\ \A p \in pending' : p[3] # c
    BY <1>3, <1>6 DEF Changed
  <1> QED
    BY <1>4, <1>5, <1>7, <1>8, CallStep

LEMMA CallStreamingInv ==
  ASSUME SessionInv, NEW c \in Calls, NEW e, NEW k, NEW who, NEW sid, CallStreaming(c, e, k, who, sid)
  PROVE  SessionInv'
  <1> DEFINE ok == ResolveTool(mcp.tools, k, who) = "ok"
             s == IF Stateful THEN sid ELSE 0
             n == [Idle EXCEPT !.sid = s, !.st = IF ok THEN "unstarted" ELSE "refused"]
  <1>1. calls[c] = Idle
    BY DEF CallStreaming, SessionInv, Placed
  <1>2. s \in Nat /\ (s # 0 => s \in DOMAIN sessions)
    <2>1. Stateful => sid \in DOMAIN sessions
      BY LetIn DEF CallStreaming
    <2>2. DOMAIN sessions \subseteq Nat
      BY LenProperties DEF SessionInv, Typed
    <2> QED
      BY <2>1, <2>2
  <1>3. calls' = [calls EXCEPT ![c] = n] /\ UNCHANGED <<sessions, pending>>
    BY <1>1 DEF CallStreaming
  <1> HIDE DEF ok, s
  <1>4. /\ n \in Call /\ n.st \in {"unstarted", "refused"} /\ n.by = {} /\ n.sid = s
        /\ n.task = "none"
        /\ n.rid = Idle.rid /\ n.heard = Idle.heard /\ n.item = Idle.item /\ n.out = Idle.out
    BY <1>2, IdleCall DEF Call, Idle, Stages
  <1>5. \A r \in Nat : r # 0 => ~Concerns(n, r)
    BY <1>4, IdleCall DEF Concerns
  <1>6. \A p \in pending : p[3] # c
    BY <1>1 DEF SessionInv, ReplyReachesAsker, Idle
  <1> HIDE DEF n
  <1>7. /\ n.st # "free" /\ n.by \subseteq {c}
        /\ n.st \in {"unstarted", "refused"} => n.task = "none"
        /\ n.st = "send" => n.item \in Item
        /\ n.sid # 0 => n.sid \in DOMAIN sessions
    BY <1>2, <1>4
  <1>8. /\ Changed(c, n) /\ sessions' = sessions
        /\ pending' \subseteq pending /\ \A p \in pending' : p[3] # c
    BY <1>3, <1>6 DEF Changed
  <1> QED
    BY <1>4, <1>5, <1>7, <1>8, CallStep

\* A call that has begun keeps its session, its last request and the replies it had.
LEMMA CallMoves ==
  ASSUME SessionInv, NEW c \in Calls, NEW k \in Call, Changed(c, k), sessions' = sessions,
         calls[c].st # "free",
         k.sid = calls[c].sid /\ k.rid = calls[c].rid /\ k.by = calls[c].by,
         \/ k.st \notin {"free", "unstarted", "refused", "send"}
         \/ k.st = "send" /\ k.item \in Item
         \/ k.st = calls[c].st /\ k.task = calls[c].task /\ k.item = calls[c].item,
         \A r \in Nat : r # 0 /\ Concerns(k, r) => Concerns(calls[c], r),
         pending' \subseteq pending,
         k.task = calls[c].task \/ \A p \in pending' : p[3] # c
  PROVE  SessionInv'
  <1>1. /\ k.st # "free" /\ k.by \subseteq {c}
        /\ k.st \in {"unstarted", "refused"} => k.task = "none"
        /\ k.st = "send" => k.item \in Item
        /\ k.sid # 0 => k.sid \in DOMAIN sessions
    BY DEF SessionInv, Placed, ReplyReachesAsker
  <1>2. \A p \in pending' : p[3] = c => k.task = "asking"
    BY DEF SessionInv, ReplyReachesAsker
  <1> QED
    BY <1>1, <1>2, CallStep

LEMMA StreamStartsInv ==
  ASSUME SessionInv, NEW c \in Calls, StreamStarts(c)
  PROVE  SessionInv'
  <1> DEFINE k == IF calls[c].st = "unstarted"
                  THEN [calls[c] EXCEPT !.st = "get", !.task = "running"]
                  ELSE [calls[c] EXCEPT !.st = "over"]
  <1>1. calls[c] \in Call /\ calls[c].st \in {"unstarted", "refused"} /\ calls[c].task = "none"
    BY DEF StreamStarts, SessionInv, Typed, Placed
  <1>2. Changed(c, k) /\ sessions' = sessions /\ pending' = pending
    BY DEF StreamStarts, Changed
  <1>3. /\ k \in Call /\ k.st \in {"get", "over"}
        /\ k.sid = calls[c].sid /\ k.rid = calls[c].rid /\ k.by = calls[c].by
        /\ k.heard = calls[c].heard /\ k.item = calls[c].item /\ k.out = calls[c].out
    BY <1>1 DEF Call, Stages
  <1>4. \A p \in pending' : p[3] # c
    BY <1>1, <1>2 DEF SessionInv, ReplyReachesAsker
  <1>5. \A r \in Nat : Concerns(k, r) => Concerns(calls[c], r)
    BY <1>3 DEF Concerns
  <1> HIDE DEF k
  <1>6. k.st \notin {"free", "unstarted", "refused", "send"} /\ calls[c].st # "free"
    BY <1>1, <1>3
  <1> QED
    BY <1>2, <1>3, <1>4, <1>5, <1>6, CallMoves

\* What was queued is now in hand.
LEMMA StreamTakesInv ==
  ASSUME SessionInv, NEW c \in Calls, StreamTakes(c)
  PROVE  SessionInv'
  <1> DEFINE q == calls[c].out
             k == [calls[c] EXCEPT !.st = "send", !.item = Head(calls[c].out), !.out = Tail(calls[c].out)]
  <1>1. calls[c] \in Call /\ calls[c].st = "get"
    BY DEF StreamTakes, SessionInv, Typed
  <1>2. q \in Seq(Item) /\ q # <<>>
    BY <1>1 DEF StreamTakes, Call
  <1>3. Changed(c, k) /\ sessions' = sessions /\ pending' = pending
    BY DEF StreamTakes, Changed
  <1>k. k = [calls[c] EXCEPT !.st = "send", !.item = Head(q), !.out = Tail(q)]
    OBVIOUS
  <1> HIDE DEF q, k
  <1>4. /\ Head(q) \in Item /\ Tail(q) \in Seq(Item) /\ Head(q) = q[1] /\ 1 \in DOMAIN q
        /\ \A i \in DOMAIN Tail(q) : i + 1 \in DOMAIN q /\ Tail(q)[i] = q[i + 1]
    <2>1. /\ Len(q) \in Nat /\ DOMAIN q = 1..Len(q) /\ Len(q) # 0
      BY <1>2, LenProperties, EmptySeq
    <2>2. /\ Head(q) \in Item /\ Tail(q) \in Seq(Item)
          /\ Len(Tail(q)) = Len(q) - 1
          /\ \A i \in 1..Len(Tail(q)) : Tail(q)[i] = q[i + 1]
      BY <1>2, HeadTailProperties
    <2>3. DOMAIN Tail(q) = 1..Len(Tail(q))
      BY <2>2, LenProperties
    <2> QED
      BY <1>2, <2>1, <2>2, <2>3
  <1>5. /\ k \in Call /\ k.st = "send" /\ k.task = calls[c].task
        /\ k.sid = calls[c].sid /\ k.rid = calls[c].rid /\ k.by = calls[c].by
        /\ k.heard = calls[c].heard /\ k.item = Head(q) /\ k.out = Tail(q)
    BY <1>1, <1>4, <1>k DEF Call, Stages
  <1>6. ASSUME NEW r \in Nat, Concerns(k, r) PROVE Concerns(calls[c], r)
    <2>1. CASE k.rid = r \/ k.heard = r
      BY <1>5, <2>1 DEF Concerns
    <2>2. CASE k.item = <<"ask", r>>
      BY <1>4, <1>5, <2>2 DEF Concerns, q
    <2>3. CASE \E i \in DOMAIN k.out : k.out[i] = <<"ask", r>>
      BY <1>4, <1>5, <2>3 DEF Concerns, q
    <2> QED
      BY <1>6, <2>1, <2>2, <2>3 DEF Concerns
  <1> HIDE DEF k
  <1>7. k.st = "send" /\ k.item \in Item /\ calls[c].st # "free"
    BY <1>1, <1>4, <1>5
  <1> QED
    BY <1>3, <1>5, <1>6, <1>7, CallMoves

\* The client heard the request that was in hand.
LEMMA StreamSendsInv ==
  ASSUME SessionInv, NEW c \in Calls, StreamSends(c)
  PROVE  SessionInv'
  <1> DEFINE it == calls[c].item
             st == IF calls[c].client = "gone" \/ it[1] = "done" THEN "finally" ELSE "get"
             h == IF calls[c].client # "gone" /\ it[1] = "ask" THEN it[2] ELSE calls[c].heard
             w == IF calls[c].client # "gone" /\ it[1] = "done" THEN "result" ELSE calls[c].told
             k == [calls[c] EXCEPT
                    !.st = IF calls[c].client = "gone" \/ calls[c].item[1] = "done" THEN "finally" ELSE "get",
                    !.heard = IF calls[c].client # "gone" /\ calls[c].item[1] = "ask"
                              THEN calls[c].item[2] ELSE calls[c].heard,
                    !.told = IF calls[c].client # "gone" /\ calls[c].item[1] = "done"
                             THEN "result" ELSE calls[c].told,
                    !.item = <<>>]
  <1>1. calls[c] \in Call /\ calls[c].st = "send"
    BY DEF StreamSends, SessionInv, Typed
  <1>2. Changed(c, k) /\ sessions' = sessions /\ pending' = pending
    BY DEF StreamSends, Changed
  <1>k. k = [calls[c] EXCEPT !.st = st, !.heard = h, !.told = w, !.item = <<>>]
    BY <1>1 DEF Call
  <1>3. it \in Item /\ calls[c].heard \in Nat
    BY <1>1 DEF Call, SessionInv, Placed
  <1>4. st \in {"finally", "get"} /\ w \in {"nothing", "result", "broken"}
    BY <1>1 DEF Call
  <1> HIDE DEF it, st, w, k
  <1>5. h \in Nat /\ (h = calls[c].heard \/ it = <<"ask", h>>)
    <2>1. CASE \E r \in Nat : it = <<"ask", r>>
      BY <1>3, <2>1
    <2>2. CASE it \in {<<"note">>, <<"done">>}
      <3>1. it[1] # "ask"
        BY <2>2
      <3> QED
        BY <1>3, <3>1
    <2> QED
      BY <1>3, <2>1, <2>2 DEF Item
  <1> HIDE DEF h
  <1>6. /\ k \in Call /\ k.st = st /\ k.task = calls[c].task
        /\ k.sid = calls[c].sid /\ k.rid = calls[c].rid /\ k.by = calls[c].by
        /\ k.heard = h /\ k.item = <<>> /\ k.out = calls[c].out
    BY <1>1, <1>4, <1>5, <1>k DEF Call, Stages
  <1>7. \A r \in Nat : Concerns(k, r) => Concerns(calls[c], r)
    BY <1>5, <1>6, NotesAsk DEF Concerns, it
  <1> HIDE DEF k
  <1>8. k.st \notin {"free", "unstarted", "refused", "send"} /\ calls[c].st # "free"
    BY <1>1, <1>4, <1>6
  <1> QED
    BY <1>2, <1>6, <1>7, <1>8, CallMoves

LEMMA EventFailsInv ==
  ASSUME SessionInv, NEW c \in Calls, EventFails(c)
  PROVE  SessionInv'
  <1> DEFINE k == [calls[c] EXCEPT !.st = "finally", !.told = "broken", !.item = <<>>]
  <1>1. calls[c] \in Call /\ calls[c].st = "send"
    BY DEF EventFails, SessionInv, Typed
  <1>2. Changed(c, k) /\ sessions' = sessions /\ pending' = pending
    BY DEF EventFails, Changed
  <1>3. /\ k \in Call /\ k.st = "finally" /\ k.task = calls[c].task
        /\ k.sid = calls[c].sid /\ k.rid = calls[c].rid /\ k.by = calls[c].by
        /\ k.heard = calls[c].heard /\ k.item = <<>> /\ k.out = calls[c].out
    BY <1>1 DEF Call, Stages
  <1>4. \A r \in Nat : Concerns(k, r) => Concerns(calls[c], r)
    BY <1>3, NotesAsk DEF Concerns
  <1> HIDE DEF k
  <1>5. k.st \notin {"free", "unstarted", "refused", "send"} /\ calls[c].st # "free"
    BY <1>1, <1>3
  <1> QED
    BY <1>2, <1>3, <1>4, <1>5, CallMoves

LEMMA StreamCleansUpInv ==
  ASSUME SessionInv, NEW c \in Calls, StreamCleansUp(c)
  PROVE  SessionInv'
  <1> DEFINE k == [calls[c] EXCEPT !.st = "over", !.out = <<>>,
                     !.task = IF calls[c].task \in {"running", "asking"} THEN "cancelled" ELSE calls[c].task]
  <1>1. calls[c] \in Call /\ calls[c].st = "finally"
    BY DEF StreamCleansUp, SessionInv, Typed
  <1>2. Changed(c, k) /\ sessions' = sessions
    BY DEF StreamCleansUp, Changed
  <1>p. pending' = {p \in pending : p[3] # c}
    BY DEF StreamCleansUp
  <1>3. /\ k \in Call /\ k.st = "over"
        /\ k.sid = calls[c].sid /\ k.rid = calls[c].rid /\ k.by = calls[c].by
        /\ k.heard = calls[c].heard /\ k.item = calls[c].item /\ k.out = <<>>
    BY <1>1, EmptySeq DEF Call, Stages
  <1>4. \A r \in Nat : Concerns(k, r) => Concerns(calls[c], r)
    <2>1. DOMAIN (<<>>) = {}
      BY EmptySeq, LenProperties
    <2> QED
      BY <1>3, <2>1 DEF Concerns
  <1> HIDE DEF k
  <1>5. /\ k.st \notin {"free", "unstarted", "refused", "send"} /\ calls[c].st # "free"
        /\ pending' \subseteq pending /\ \A p \in pending' : p[3] # c
    BY <1>1, <1>p, <1>3
  <1> QED
    BY <1>2, <1>3, <1>4, <1>5, CallMoves

LEMMA ClientLeavesInv ==
  ASSUME SessionInv, NEW c \in Calls, ClientLeaves(c)
  PROVE  SessionInv'
  <1> DEFINE k == [calls[c] EXCEPT !.client = "gone"]
  <1>1. calls[c] \in Call /\ calls[c].st # "free"
    BY DEF ClientLeaves, SessionInv, Typed
  <1>2. Changed(c, k) /\ sessions' = sessions /\ pending' = pending
    BY DEF ClientLeaves, Changed
  <1>3. /\ k \in Call /\ k.st = calls[c].st /\ k.task = calls[c].task
        /\ k.sid = calls[c].sid /\ k.rid = calls[c].rid /\ k.by = calls[c].by
        /\ k.heard = calls[c].heard /\ k.item = calls[c].item /\ k.out = calls[c].out
    BY <1>1 DEF Call
  <1>4. \A r \in Nat : Concerns(k, r) => Concerns(calls[c], r)
    BY <1>3 DEF Concerns
  <1> HIDE DEF k
  <1> QED
    BY <1>1, <1>2, <1>3, <1>4, CallMoves
-----------------------------------------------------------------------------
(***************************************************************************)
(* The tool.                                                               *)
(***************************************************************************)
\* What is put at the end of a queue is its only new item.
LEMMA Queued ==
  ASSUME NEW q \in Seq(Item), NEW e \in Item
  PROVE  /\ Append(q, e) \in Seq(Item)
         /\ \A i \in DOMAIN Append(q, e) :
              Append(q, e)[i] = e \/ (i \in DOMAIN q /\ Append(q, e)[i] = q[i])
  <1>1. Len(q) \in Nat /\ DOMAIN q = 1..Len(q)
    BY LenProperties
  <1>2. /\ Append(q, e) \in Seq(Item) /\ Len(Append(q, e)) = Len(q) + 1
        /\ \A i \in 1..Len(q) : Append(q, e)[i] = q[i]
        /\ Append(q, e)[Len(q) + 1] = e
    BY AppendProperties
  <1>3. DOMAIN Append(q, e) = 1..(Len(q) + 1)
    BY <1>2, LenProperties
  <1> QED
    BY <1>1, <1>2, <1>3

LEMMA NotifyInv ==
  ASSUME SessionInv, NEW c \in Calls, Notify(c)
  PROVE  SessionInv'
  <1> DEFINE q == Append(calls[c].out, <<"note">>)
             k == [calls[c] EXCEPT !.out = q]
  <1>1. calls[c] \in Call /\ calls[c].st # "free"
    BY DEF Notify, SessionInv, Typed, Placed, Idle
  <1>2. Changed(c, k) /\ sessions' = sessions /\ pending' = pending
    BY DEF Notify, Changed
  <1>3. /\ q \in Seq(Item)
        /\ \A i \in DOMAIN q : q[i] = <<"note">> \/ (i \in DOMAIN calls[c].out /\ q[i] = calls[c].out[i])
    BY <1>1, Queued DEF Call, Item
  <1> HIDE DEF q
  <1>4. /\ k \in Call /\ k.st = calls[c].st /\ k.task = calls[c].task
        /\ k.sid = calls[c].sid /\ k.rid = calls[c].rid /\ k.by = calls[c].by
        /\ k.heard = calls[c].heard /\ k.item = calls[c].item /\ k.out = q
    BY <1>1, <1>3 DEF Call
  <1>5. \A r \in Nat : Concerns(k, r) => Concerns(calls[c], r)
    BY <1>3, <1>4, NotesAsk DEF Concerns
  <1> HIDE DEF k
  <1> QED
    BY <1>1, <1>2, <1>4, <1>5, CallMoves

LEMMA ResumeInv ==
  ASSUME SessionInv, NEW c \in Calls, Resume(c)
  PROVE  SessionInv'
  <1> DEFINE k == [calls[c] EXCEPT !.task = "running", !.fut = "none"]
  <1>1. calls[c] \in Call /\ calls[c].task = "asking"
    BY DEF Resume, SessionInv, Typed
  <1>2. calls[c].st \notin {"free", "unstarted", "refused"}
    BY <1>1 DEF SessionInv, Placed, Idle
  <1>3. Changed(c, k) /\ sessions' = sessions
    BY DEF Resume, Changed
  <1>4. /\ pending' \subseteq pending
        /\ \A p \in pending' : p[3] # c
    BY DEF Resume
  <1>5. /\ k \in Call /\ k.st = calls[c].st
        /\ k.sid = calls[c].sid /\ k.rid = calls[c].rid /\ k.by = calls[c].by
        /\ k.heard = calls[c].heard /\ k.item = calls[c].item /\ k.out = calls[c].out
    BY <1>1 DEF Call
  <1>6. \A r \in Nat : Concerns(k, r) => Concerns(calls[c], r)
    BY <1>5 DEF Concerns
  <1>7. k.st = "send" => k.item \in Item
    BY <1>5 DEF SessionInv, Placed
  <1> HIDE DEF k
  <1> QED
    BY <1>2, <1>3, <1>4, <1>5, <1>6, <1>7, CallMoves

LEMMA CancelledInv ==
  ASSUME SessionInv, NEW c \in Calls, Cancelled(c)
  PROVE  SessionInv'
  <1> DEFINE k == [calls[c] EXCEPT !.task = "cancelled"]
  <1>1. calls[c] \in Call /\ calls[c].task = "asking"
    BY DEF Cancelled, SessionInv, Typed
  <1>2. calls[c].st \notin {"free", "unstarted", "refused"}
    BY <1>1 DEF SessionInv, Placed, Idle
  <1>3. Changed(c, k) /\ sessions' = sessions
    BY DEF Cancelled, Changed
  <1>4. /\ pending' \subseteq pending
        /\ \A p \in pending' : p[3] # c
    BY DEF Cancelled
  <1>5. /\ k \in Call /\ k.st = calls[c].st
        /\ k.sid = calls[c].sid /\ k.rid = calls[c].rid /\ k.by = calls[c].by
        /\ k.heard = calls[c].heard /\ k.item = calls[c].item /\ k.out = calls[c].out
    BY <1>1 DEF Call
  <1>6. \A r \in Nat : Concerns(k, r) => Concerns(calls[c], r)
    BY <1>5 DEF Concerns
  <1>7. k.st = "send" => k.item \in Item
    BY <1>5 DEF SessionInv, Placed
  <1> HIDE DEF k
  <1> QED
    BY <1>2, <1>3, <1>4, <1>5, <1>6, <1>7, CallMoves

LEMMA ToolEndsInv ==
  ASSUME SessionInv, NEW c \in Calls, ToolEnds(c)
  PROVE  SessionInv'
  <1> DEFINE q == Append(calls[c].out, <<"done">>)
             k == IF calls[c].st = "plain"
                  THEN [calls[c] EXCEPT !.task = "done", !.st = "over", !.told = "result"]
                  ELSE [calls[c] EXCEPT !.task = "done", !.out = q]
  <1>1. calls[c] \in Call /\ calls[c].task = "running"
    BY DEF ToolEnds, SessionInv, Typed
  <1>2. calls[c].st \notin {"free", "unstarted", "refused"}
    BY <1>1 DEF SessionInv, Placed, Idle
  <1>3. Changed(c, k) /\ sessions' = sessions /\ pending' = pending
    BY DEF ToolEnds, Changed
  <1>4. /\ q \in Seq(Item)
        /\ \A i \in DOMAIN q : q[i] = <<"done">> \/ (i \in DOMAIN calls[c].out /\ q[i] = calls[c].out[i])
    BY <1>1, Queued DEF Call, Item
  <1> HIDE DEF q
  <1>5. /\ k \in Call /\ (k.st = calls[c].st \/ k.st = "over")
        /\ k.sid = calls[c].sid /\ k.rid = calls[c].rid /\ k.by = calls[c].by
        /\ k.heard = calls[c].heard /\ k.item = calls[c].item
        /\ k.out = calls[c].out \/ k.out = q
    BY <1>1, <1>4 DEF Call, Stages
  <1>6. \A r \in Nat : Concerns(k, r) => Concerns(calls[c], r)
    BY <1>4, <1>5, NotesAsk DEF Concerns
  <1>7. k.st = "send" => k.item \in Item
    BY <1>5 DEF SessionInv, Placed
  <1>8. \A p \in pending' : p[3] # c
    BY <1>1, <1>3 DEF SessionInv, ReplyReachesAsker
  <1> HIDE DEF k
  <1> QED
    BY <1>2, <1>3, <1>5, <1>6, <1>7, <1>8, CallMoves

\* A row of the sessions is updated.
LEMMA SessionRow ==
  ASSUME NEW q \in Seq(Session), NEW s \in DOMAIN q, NEW n \in Session
  PROVE  /\ [q EXCEPT ![s] = n] \in Seq(Session) /\ DOMAIN [q EXCEPT ![s] = n] = DOMAIN q
         /\ \A i \in DOMAIN q : [q EXCEPT ![s] = n][i] = IF i = s THEN n ELSE q[i]
  <1>1. DOMAIN q = 1..Len(q)
    BY LenProperties
  <1> QED
    BY <1>1, ExceptSeq

\* A request gets an id that the session has given to nobody: no other call can
\* know of it.
LEMMA AskInv ==
  ASSUME SessionInv, NEW c \in Calls, Ask(c)
  PROVE  SessionInv'
  <1> DEFINE s == calls[c].sid
             n == [sessions[s] EXCEPT !.asked = @ + 1]
             r == sessions[s].asked + 1
             q == Append(calls[c].out, <<"ask", r>>)
             k == [calls[c] EXCEPT !.task = "asking", !.fut = "waiting", !.rid = r, !.out = q]
  <1>1. /\ calls \in [Calls -> Call] /\ calls[c] \in Call /\ sessions \in Seq(Session)
        /\ calls[c].task = "running" /\ s # 0
    BY DEF Ask, CanAsk, SessionInv, Typed
  <1>2. s \in DOMAIN sessions /\ s \in Nat
    BY <1>1 DEF SessionInv, Placed, Call
  <1>3. sessions[s] \in Session
    BY <1>1, <1>2, ElementOfSeq, LenProperties
  <1>4. n \in Session /\ n.asked = r /\ r \in Nat /\ r # 0
    BY <1>3 DEF Session
  <1>5. /\ calls' = [calls EXCEPT ![c] = k]
        /\ sessions' = [sessions EXCEPT ![s] = n]
        /\ pending' = {p \in pending : ~(p[1] = s /\ p[2] = r)} \cup {<<s, r, c>>}
    BY DEF Ask, NextRequestId
  <1> HIDE DEF n
  <1>6. /\ sessions' \in Seq(Session) /\ DOMAIN sessions' = DOMAIN sessions
        /\ \A i \in DOMAIN sessions : sessions'[i] = IF i = s THEN n ELSE sessions[i]
    BY <1>1, <1>2, <1>4, <1>5, SessionRow
  <1>7. /\ q \in Seq(Item)
        /\ \A i \in DOMAIN q : q[i] = <<"ask", r>> \/ (i \in DOMAIN calls[c].out /\ q[i] = calls[c].out[i])
    <2>1. calls[c].out \in Seq(Item) /\ <<"ask", r>> \in Item
      BY <1>1, <1>4 DEF Call, Item
    <2> QED
      BY <2>1, Queued
  <1> HIDE DEF q, s, r
  <1>8. /\ k \in Call /\ k.st = calls[c].st /\ k.task = "asking"
        /\ k.sid = calls[c].sid /\ k.rid = r /\ k.by = calls[c].by
        /\ k.heard = calls[c].heard /\ k.item = calls[c].item /\ k.out = q
    BY <1>1, <1>4, <1>7 DEF Call
  <1> HIDE DEF k
  <1>9. /\ calls' \in [Calls -> Call] /\ calls'[c] = k
        /\ \A d \in Calls : d # c => calls'[d] = calls[d]
    BY <1>1, <1>5, <1>8
  <1>10. \A p \in pending : p[3] # c
    BY <1>1 DEF SessionInv, ReplyReachesAsker
  <1>11. \A p \in pending' : p \in pending \/ p = <<s, r, c>>
    BY <1>5
  <1>12. Typed'
    <2>1. <<s, r, c>> \in Nat \X Nat \X Calls
      BY <1>2, <1>4
    <2> QED
      BY <1>6, <1>9, <1>11, <2>1 DEF SessionInv, Typed
  <1>13. calls[c].st \notin {"free", "unstarted", "refused"}
    BY <1>1 DEF SessionInv, Placed, Idle
  <1>14. \A d \in Calls : Placed(d)'
    BY <1>6, <1>8, <1>9, <1>13 DEF SessionInv, Placed
  <1>15. \A d \in Calls : \A x \in Known(d)' : x \in Known(d) \/ (d = c /\ x = r)
    <2>1. ASSUME NEW x \in Nat, Concerns(k, x) PROVE Concerns(calls[c], x) \/ x = r
      <3>1. \A i \in DOMAIN q : q[i] = <<"ask", x>> =>
              x = r \/ (i \in DOMAIN calls[c].out /\ calls[c].out[i] = <<"ask", x>>)
        BY <1>7
      <3> QED
        BY <1>8, <2>1, <3>1 DEF Concerns
    <2> QED
      BY <1>9, <2>1 DEF Known
  <1>16. \A d \in Calls : calls'[d].sid = calls[d].sid
    BY <1>8, <1>9
  <1>17. \A d \in Calls : calls[d].sid = s => \A x \in Known(d) : x <= sessions[s].asked
    BY <1>1 DEF SessionInv, IdsGiven
  <1>18. IdsGiven'
    <2> SUFFICES ASSUME NEW d \in Calls, calls[d].sid # 0, NEW x \in Known(d)'
                 PROVE  x <= sessions'[calls[d].sid].asked
      BY <1>16 DEF IdsGiven
    <2>1. calls[d].sid \in DOMAIN sessions /\ x \in Nat
      BY DEF SessionInv, Placed, Known
    <2>2. CASE x \in Known(d)
      <3>1. x <= sessions[calls[d].sid].asked
        BY <2>2 DEF SessionInv, IdsGiven
      <3>2. sessions[s].asked \in Nat /\ r = sessions[s].asked + 1
        BY <1>3 DEF Session, r
      <3> QED
        BY <1>4, <1>6, <2>1, <3>1, <3>2
    <2>3. CASE d = c /\ x = r
      BY <1>2, <1>4, <1>6, <2>3 DEF s
    <2> QED
      BY <1>15, <2>2, <2>3
  <1>19. \A d \in Calls : calls[d].sid = s => r \notin Known(d)
    <2>1. sessions[s].asked \in Nat /\ r = sessions[s].asked + 1
      BY <1>3 DEF Session, r
    <2> QED
      BY <1>17, <2>1
  <1>20. IdsOwned'
    <2> SUFFICES ASSUME NEW a \in Calls, NEW b \in Calls, NEW x \in Known(a)' \cap Known(b)',
                        calls[a].sid # 0, calls[a].sid = calls[b].sid
                 PROVE  a = b
      BY <1>16 DEF IdsOwned
    <2>1. CASE x \in Known(a) /\ x \in Known(b)
      BY <2>1 DEF SessionInv, IdsOwned
    <2>2. CASE ~(x \in Known(a) /\ x \in Known(b))
      BY <1>15, <1>19, <2>2 DEF s
    <2> QED
      BY <2>1, <2>2
  <1>21. Registered'
    BY <1>1, <1>4, <1>11 DEF SessionInv, Registered
  <1>22. ReplyReachesAsker'
    <2>1. \A d \in Calls : calls'[d].by \subseteq {d}
      BY <1>8, <1>9 DEF SessionInv, ReplyReachesAsker
    <2>2. ASSUME NEW p \in pending' PROVE /\ calls'[p[3]].task = "asking"
                                         /\ calls'[p[3]].sid = p[1] /\ calls'[p[3]].rid = p[2]
      <3>1. CASE p \in pending
        <4>1. p[3] \in Calls /\ p[3] # c
          BY <1>10, <3>1 DEF SessionInv, Typed
        <4> QED
          BY <1>9, <3>1, <4>1 DEF SessionInv, ReplyReachesAsker
      <3>2. CASE p = <<s, r, c>>
        BY <1>8, <1>9, <3>2 DEF s
      <3> QED
        BY <1>11, <3>1, <3>2
    <2> QED
      BY <2>1, <2>2 DEF ReplyReachesAsker
  <1> QED
    BY <1>12, <1>14, <1>18, <1>20, <1>21, <1>22 DEF SessionInv

\* The client of c heard only of requests of c, so that the future its reply
\* finds is the one of c.
LEMMA ClientRepliesInv ==
  ASSUME SessionInv, NEW c \in Calls, NEW e, ClientReplies(c, e)
  PROVE  SessionInv'
  <1> DEFINE hit == {p \in pending : p[1] = calls[c].sid /\ p[2] = calls[c].heard}
             k == [calls[c] EXCEPT !.fut = "replied", !.by = @ \cup {c}]
  <1>1. /\ calls \in [Calls -> Call] /\ calls[c] \in Call /\ calls[c].heard > 0
        /\ UNCHANGED <<mcp, sessions, listeners>>
    BY DEF ClientReplies, SessionInv, Typed
  <1>2. /\ calls' = [d \in Calls |-> IF \E p \in hit : p[3] = d
              THEN [calls[d] EXCEPT !.fut = "replied", !.by = @ \cup {c}] ELSE calls[d]]
        /\ pending' = pending \ hit
    BY DEF ClientReplies
  <1>3. \A p \in hit : p[3] = c
    <2> SUFFICES ASSUME NEW p \in hit PROVE p[3] = c
      OBVIOUS
    <2>1. p \in pending /\ p[3] \in Calls /\ p[1] # 0 /\ calls[p[3]].sid = p[1] /\ calls[p[3]].rid = p[2]
      BY DEF SessionInv, Typed, Registered, ReplyReachesAsker
    <2>2. calls[c].heard \in Known(c) /\ calls[c].heard \in Known(p[3])
      BY <1>1, <2>1 DEF Known, Concerns, Call
    <2> QED
      BY <2>1, <2>2 DEF SessionInv, IdsOwned
  <1> HIDE DEF hit
  <1>4. /\ k \in Call /\ k.st = calls[c].st /\ k.task = calls[c].task /\ k.by \subseteq {c}
        /\ k.sid = calls[c].sid /\ k.rid = calls[c].rid
        /\ k.heard = calls[c].heard /\ k.item = calls[c].item /\ k.out = calls[c].out
    BY <1>1 DEF Call, SessionInv, ReplyReachesAsker
  <1>5. \A d \in Calls : calls'[d] = calls[d] \/ (d = c /\ calls'[d] = k)
    BY <1>2, <1>3
  <1>6. calls' \in [Calls -> Call]
    <2>1. \A d \in Calls : calls'[d] \in Call
      BY <1>1, <1>4, <1>5
    <2> QED
      BY <1>2, <2>1
  <1> HIDE DEF k
  <1>7. \A r \in Nat : Concerns(k, r) => Concerns(calls[c], r)
    BY <1>4 DEF Concerns
  <1>8. Typed'
    BY <1>1, <1>2, <1>6 DEF SessionInv, Typed
  <1>9. calls[c].st # "free"
    BY <1>1 DEF SessionInv, Placed, Idle
  <1>10. \A d \in Calls : Placed(d)'
    BY <1>1, <1>4, <1>5, <1>9 DEF SessionInv, Placed
  <1>11. \A d \in Calls : calls'[d].by \subseteq {d}
    BY <1>4, <1>5 DEF SessionInv, ReplyReachesAsker
  <1>12. \A d \in Calls : \A r \in Nat : r # 0 /\ Concerns(calls'[d], r) =>
           Concerns(calls[d], r) /\ calls'[d].sid = calls[d].sid
    BY <1>4, <1>5, <1>7
  <1>13. \A d \in Calls : /\ calls'[d].task = calls[d].task /\ calls'[d].sid = calls[d].sid
                          /\ calls'[d].rid = calls[d].rid
    BY <1>4, <1>5
  <1>14. pending' \subseteq pending
    BY <1>2
  <1>15. \A p \in pending' : /\ calls'[p[3]].task = "asking"
                             /\ calls'[p[3]].sid = calls[p[3]].sid
                             /\ calls'[p[3]].rid = calls[p[3]].rid
    BY <1>13, <1>14 DEF SessionInv, Typed, ReplyReachesAsker
  <1>16. \A i \in DOMAIN sessions : sessions'[i].asked = sessions[i].asked
    BY <1>1
  <1> QED
    BY <1>8, <1>10, <1>11, <1>12, <1>14, <1>15, <1>16, Step
-----------------------------------------------------------------------------
(***************************************************************************)
(* Sessions and listeners.                                                 *)
(***************************************************************************)
\* A step that leaves the calls alone and gives out no id.
LEMMA SessionStep ==
  ASSUME SessionInv, UNCHANGED <<calls, pending>>, sessions' \in Seq(Session),
         \A i \in DOMAIN sessions : i \in DOMAIN sessions' /\ sessions'[i].asked = sessions[i].asked
  PROVE  SessionInv'
  <1>1. Typed'
    BY DEF SessionInv, Typed
  <1>2. \A d \in Calls : Placed(d)'
    BY DEF SessionInv, Placed
  <1>3. \A d \in Calls : calls'[d].by \subseteq {d}
    BY DEF SessionInv, ReplyReachesAsker
  <1>4. \A p \in pending' : calls'[p[3]].task = "asking"
    BY DEF SessionInv, ReplyReachesAsker
  <1>5. \A d \in Calls : calls'[d] = calls[d]
    OBVIOUS
  <1>6. \A p \in pending' : calls'[p[3]] = calls[p[3]]
    OBVIOUS
  <1> QED
    BY <1>1, <1>2, <1>3, <1>4, <1>5, <1>6, Step

LEMMA InitializeInv ==
  ASSUME SessionInv, NEW e, NEW caps \in BOOLEAN, Initialize(e, caps)
  PROVE  SessionInv'
  <1>1. NewSession(caps) \in Session /\ sessions \in Seq(Session)
    BY DEF NewSession, Session, SessionInv, Typed
  <1> DEFINE n == NewSession(caps)
  <1>2. UNCHANGED <<calls, pending>> /\ (sessions' = sessions \/ sessions' = Append(sessions, n))
    BY DEF Initialize
  <1> HIDE DEF n
  <1>3. /\ Append(sessions, n) \in Seq(Session) /\ DOMAIN sessions \subseteq DOMAIN Append(sessions, n)
        /\ \A i \in DOMAIN sessions : Append(sessions, n)[i] = sessions[i]
    <2>1. Len(sessions) \in Nat /\ DOMAIN sessions = 1..Len(sessions)
      BY <1>1, LenProperties
    <2>2. /\ Append(sessions, n) \in Seq(Session) /\ Len(Append(sessions, n)) = Len(sessions) + 1
          /\ \A i \in 1..Len(sessions) : Append(sessions, n)[i] = sessions[i]
      BY <1>1, AppendProperties DEF n
    <2>3. DOMAIN Append(sessions, n) = 1..(Len(sessions) + 1)
      BY <2>2, LenProperties
    <2> QED
      BY <2>1, <2>2, <2>3
  <1>4. sessions' \in Seq(Session)
    BY <1>1, <1>2, <1>3
  <1>5. \A i \in DOMAIN sessions : i \in DOMAIN sessions' /\ sessions'[i].asked = sessions[i].asked
    BY <1>2, <1>3
  <1> QED
    BY <1>2, <1>4, <1>5, SessionStep

LEMMA HandleGetInv ==
  ASSUME SessionInv, NEW l, NEW sid, HandleGet(l, sid)
  PROVE  SessionInv'
  <1> DEFINE n == [sessions[sid] EXCEPT !.open = TRUE]
  <1>1. sid \in DOMAIN sessions
    BY DEF HandleGet, GetRefusal, Live
  <1>2. sessions \in Seq(Session) /\ sessions[sid] \in Session
    BY <1>1, ElementOfSeq, LenProperties DEF SessionInv, Typed
  <1>3. n \in Session /\ n.asked = sessions[sid].asked
    BY <1>2 DEF Session
  <1>4. sessions' = [sessions EXCEPT ![sid] = n] /\ UNCHANGED <<calls, pending>>
    BY DEF HandleGet
  <1> HIDE DEF n
  <1>5. /\ sessions' \in Seq(Session) /\ DOMAIN sessions' = DOMAIN sessions
        /\ \A i \in DOMAIN sessions : sessions'[i] = IF i = sid THEN n ELSE sessions[i]
    BY <1>1, <1>2, <1>3, <1>4, SessionRow
  <1>6. \A i \in DOMAIN sessions : i \in DOMAIN sessions' /\ sessions'[i].asked = sessions[i].asked
    BY <1>3, <1>5
  <1> QED
    BY <1>4, <1>5, <1>6, SessionStep

\* DELETE cancels the futures of its session, whose calls stay what they are.
LEMMA HandleDeleteInv ==
  ASSUME SessionInv, NEW sid, HandleDelete(sid)
  PROVE  SessionInv'
  <1> DEFINE n == [sessions[sid] EXCEPT !.live = FALSE, !.close = TRUE]
  <1>1. sid \in DOMAIN sessions
    BY DEF HandleDelete, Live
  <1>2. sessions \in Seq(Session) /\ sessions[sid] \in Session /\ calls \in [Calls -> Call]
    BY <1>1, ElementOfSeq, LenProperties DEF SessionInv, Typed
  <1>3. n \in Session /\ n.asked = sessions[sid].asked
    BY <1>2 DEF Session
  <1>4. sessions' = [sessions EXCEPT ![sid] = n]
    BY DEF HandleDelete, Terminate
  <1>5. calls' = [c \in Calls |-> IF \E p \in pending : p[1] = sid /\ p[3] = c
                    THEN [calls[c] EXCEPT !.fut = "cancelled"] ELSE calls[c]]
    BY DEF HandleDelete, Terminate
  <1>6. pending' \subseteq pending
    BY DEF HandleDelete, Terminate
  <1> HIDE DEF n
  <1>7. /\ sessions' \in Seq(Session) /\ DOMAIN sessions' = DOMAIN sessions
        /\ \A i \in DOMAIN sessions : sessions'[i] = IF i = sid THEN n ELSE sessions[i]
    BY <1>1, <1>2, <1>3, <1>4, SessionRow
  <1>8. \A i \in DOMAIN sessions : i \in DOMAIN sessions' /\ sessions'[i].asked = sessions[i].asked
    BY <1>3, <1>7
  <1>9. ASSUME NEW c \in Calls
        PROVE  /\ calls'[c] \in Call /\ calls'[c].st = calls[c].st /\ calls'[c].task = calls[c].task
               /\ calls'[c].by = calls[c].by /\ calls'[c].sid = calls[c].sid
               /\ calls'[c].rid = calls[c].rid /\ calls'[c].heard = calls[c].heard
               /\ calls'[c].item = calls[c].item /\ calls'[c].out = calls[c].out
    <2> DEFINE k == [calls[c] EXCEPT !.fut = "cancelled"]
    <2>1. calls[c] \in Call
      BY <1>2
    <2>2. calls'[c] = calls[c] \/ calls'[c] = k
      BY <1>5
    <2>3. /\ k \in Call /\ k.st = calls[c].st /\ k.task = calls[c].task /\ k.by = calls[c].by
          /\ k.sid = calls[c].sid /\ k.rid = calls[c].rid /\ k.heard = calls[c].heard
          /\ k.item = calls[c].item /\ k.out = calls[c].out
      BY <2>1 DEF Call
    <2> HIDE DEF k
    <2> QED
      BY <2>1, <2>2, <2>3
  <1>10. \A c \in Calls : calls[c].st = "free" => calls'[c] = calls[c]
    <2>1. \A c \in Calls : calls[c].st = "free" => \A p \in pending : p[3] # c
      BY DEF SessionInv, Placed, Idle, ReplyReachesAsker
    <2> QED
      BY <1>5, <2>1
  <1>11. calls' \in [Calls -> Call]
    BY <1>5, <1>9
  <1>12. Typed'
    BY <1>6, <1>7, <1>11 DEF SessionInv, Typed
  <1>13. \A d \in Calls : Placed(d)'
    BY <1>7, <1>9, <1>10 DEF SessionInv, Placed
  <1>14. \A d \in Calls : calls'[d].by \subseteq {d}
    BY <1>9 DEF SessionInv, ReplyReachesAsker
  <1>15. \A d \in Calls : \A r \in Nat : r # 0 /\ Concerns(calls'[d], r) =>
           Concerns(calls[d], r) /\ calls'[d].sid = calls[d].sid
    BY <1>9 DEF Concerns
  <1>16. \A p \in pending' : /\ calls'[p[3]].task = "asking"
                             /\ calls'[p[3]].sid = calls[p[3]].sid
                             /\ calls'[p[3]].rid = calls[p[3]].rid
    BY <1>6, <1>9 DEF SessionInv, Typed, ReplyReachesAsker
  <1> QED
    BY <1>6, <1>8, <1>12, <1>13, <1>14, <1>15, <1>16, Step

LEMMA ListenClosesInv ==
  ASSUME SessionInv, NEW l, ListenCloses(l)
  PROVE  SessionInv'
  <1> DEFINE sid == listeners[l].sid
             n == [sessions[sid] EXCEPT !.close = FALSE, !.open = FALSE]
  <1>1. sessions' = [sessions EXCEPT ![sid] = n] /\ UNCHANGED <<calls, pending>>
    BY DEF ListenCloses
  <1>2. sessions \in Seq(Session)
    BY DEF SessionInv, Typed
  <1> HIDE DEF sid
  <1>3. CASE sid \in DOMAIN sessions
    <2>1. sessions[sid] \in Session
      BY <1>2, <1>3, ElementOfSeq, LenProperties
    <2>2. n \in Session /\ n.asked = sessions[sid].asked
      BY <2>1 DEF Session
    <2> HIDE DEF n
    <2>3. /\ sessions' \in Seq(Session) /\ DOMAIN sessions' = DOMAIN sessions
          /\ \A i \in DOMAIN sessions : sessions'[i] = IF i = sid THEN n ELSE sessions[i]
      BY <1>1, <1>2, <1>3, <2>2, SessionRow
    <2>4. \A i \in DOMAIN sessions : i \in DOMAIN sessions' /\ sessions'[i].asked = sessions[i].asked
      BY <2>2, <2>3
    <2> QED
      BY <1>1, <2>3, <2>4, SessionStep
  <1>4. CASE sid \notin DOMAIN sessions
    <2> HIDE DEF n
    <2>1. /\ Len(sessions) \in Nat /\ DOMAIN sessions = 1..Len(sessions)
          /\ sessions \in [1..Len(sessions) -> Session]
      BY <1>2, LenProperties
    <2>2. \A i \in DOMAIN sessions : i \in DOMAIN sessions' /\ sessions'[i] = sessions[i]
      BY <1>1, <1>4
    <2>3. sessions' \in [1..Len(sessions) -> Session]
      BY <1>1, <1>4, <2>1
    <2>4. sessions' \in Seq(Session)
      BY <2>1, <2>3, SeqDef
    <2>5. \A i \in DOMAIN sessions : i \in DOMAIN sessions' /\ sessions'[i].asked = sessions[i].asked
      BY <2>2
    <2> QED
      BY <1>1, <2>4, <2>5, SessionStep
  <1> QED
    BY <1>3, <1>4

LEMMA NextInv == SessionInv /\ [Next]_vars => SessionInv'
  <1> SUFFICES ASSUME SessionInv, [Next]_vars PROVE SessionInv'
    OBVIOUS
  <1>1. ASSUME UNCHANGED <<sessions, pending, calls>> PROVE SessionInv'
    <2>1. sessions \in Seq(Session)
      BY DEF SessionInv, Typed
    <2> QED
      BY <1>1, <2>1, SessionStep
  <1>2. ASSUME NEW c \in Calls, StreamStep(c) PROVE SessionInv'
    BY <1>2, StreamStartsInv, StreamTakesInv, StreamSendsInv, EventFailsInv, StreamCleansUpInv
    DEF StreamStep
  <1>3. ASSUME NEW c \in Calls, ToolStep(c) PROVE SessionInv'
    BY <1>3, ResumeInv, CancelledInv, ToolEndsInv DEF ToolStep
  <1>4. ASSUME NEW c \in Calls, ClientLeaves(c) \/ Notify(c) \/ Ask(c) PROVE SessionInv'
    BY <1>4, ClientLeavesInv, NotifyInv, AskInv
  <1>5. ASSUME NEW c \in Calls, NEW e \in Envelopes, NEW k \in ToolCalls, NEW who \in Principals,
               NEW sid \in Sids, CallPlain(c, e, k, who, sid) \/ CallStreaming(c, e, k, who, sid)
        PROVE  SessionInv'
    BY <1>5, CallPlainInv, CallStreamingInv
  <1>6. ASSUME NEW c \in Calls, NEW e \in Envelopes, ClientReplies(c, e) PROVE SessionInv'
    BY <1>6, ClientRepliesInv
  <1>7. ASSUME NEW how \in Exposures, Mount(how) PROVE SessionInv'
    BY <1>1, <1>7 DEF Mount
  <1>8. ASSUME NEW e \in Envelopes, NEW sid \in Sids, PostRefused(e, sid) PROVE SessionInv'
    BY <1>1, <1>8 DEF PostRefused, vars
  <1>9. ASSUME NEW e \in Envelopes, NEW caps \in BOOLEAN, Initialize(e, caps) PROVE SessionInv'
    BY <1>9, InitializeInv
  <1>10. ASSUME NEW e \in Envelopes, NEW m \in Messages, NEW sid \in Sids,
                PostMessage(e, m, sid) \/ NotificationFails(e, m, sid)
         PROVE  SessionInv'
    BY <1>1, <1>10 DEF PostMessage, NotificationFails, vars
  <1>11. ASSUME NEW sid \in Sids, NEW sse \in BOOLEAN, GetRefused(sid, sse) PROVE SessionInv'
    BY <1>1, <1>11 DEF GetRefused, vars
  <1>12. ASSUME NEW l \in Listeners, NEW sid \in Sids, HandleGet(l, sid) PROVE SessionInv'
    BY <1>12, HandleGetInv
  <1>13. ASSUME NEW l \in Listeners, NEW ok \in BOOLEAN, ListenStarts(l, ok) PROVE SessionInv'
    BY <1>1, <1>13 DEF ListenStarts
  <1>14. ASSUME NEW l \in Listeners, ListenCloses(l) PROVE SessionInv'
    BY <1>14, ListenClosesInv
  <1>15. ASSUME NEW l \in Listeners, ListenerLeaves(l) PROVE SessionInv'
    BY <1>1, <1>15 DEF ListenerLeaves
  <1>16. ASSUME NEW sid \in Sids, HandleDelete(sid) \/ DeleteRefused(sid) PROVE SessionInv'
    BY <1>1, <1>16, HandleDeleteInv DEF DeleteRefused, vars
  <1>17. CASE UNCHANGED vars
    BY <1>1, <1>17 DEF vars
  <1> QED
    BY <1>2, <1>3, <1>4, <1>5, <1>6, <1>7, <1>8, <1>9, <1>10, <1>11, <1>12, <1>13, <1>14, <1>15,
       <1>16, <1>17 DEF Next

\* A client's reply resumes the tool that asked, and no future outlives the wait
\* for it (Context._request, Session.pending): for any number of concurrent calls
\* and sessions, under any interleaving with DELETE, disconnects and repeated
\* replies.
THEOREM RepliesReachTheirAskers == Spec => []ReplyReachesAsker
  <1>1. SessionInv => ReplyReachesAsker
    BY DEF SessionInv
  <1> QED
    BY <1>1, InitInv, NextInv, PTL DEF Spec
=============================================================================
