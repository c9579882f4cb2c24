------------------------- MODULE WsConnectionProofs -------------------------
(***************************************************************************)
(* Invariance and refinement proofs for one WebSocket connection: any      *)
(* capacity of the channel, any close codes, any number of frames, sends   *)
(* and cancelled receives.                                                 *)
(***************************************************************************)
EXTENDS WsConnection, SequenceTheorems, TLAPS

Message == [kind : {"data", "disconnect"}, arg : Nat]

\* Data first, n of it, then disconnects.
Shaped(ms, n) == n \in 0..Len(ms) /\ \A i \in DOMAIN ms : ms[i].kind = "data" <=> i <= n

\* The types that the argument needs.
Typed ==
  /\ actor \in {"running", "stopping", "stopped"}
  /\ task \in {"running", "failing", "done"}
  /\ recv \in {"idle", "waiting", "holding"}
  /\ chan \in Seq(Message) /\ wire \in Seq(Message)
  /\ held \in Message \cup {Nothing}
  /\ mail \in [kind : {"accept", "data", "disconnect", "none"}, arg : Nat]
  /\ got \in Seq(Nat) /\ sent \in Seq(Nat)
  /\ frames \in Nat /\ fragmented \in Nat /\ lost \in Nat /\ cancels \in Nat /\ closeCode \in Nat

\* A receive is in progress only in a running handler of an accepted connection,
\* and holds a message once it has fetched one.
Receiving ==
  /\ rxOpen <=> task # "done"
  /\ recv # "idle" => task = "running" /\ isAccepted
  /\ recv = "holding" <=> held # Nothing

HoldsDisconnect == held.kind = "disconnect"
DisconnectAt(i) == i \in DOMAIN chan /\ chan[i].kind = "disconnect"

\* No disconnect is anywhere before the end, and no data behind one.
Ordered ==
  /\ \E n \in Nat : /\ Shaped(chan, n)
                    /\ actor = "running" => n = Len(chan)
                    /\ HoldsDisconnect => n = 0
  /\ actor = "running" => ~HoldsDisconnect
-----------------------------------------------------------------------------
\* accept(), send() and close(): what their coroutine has been told.
Talking ==
  /\ isAccepted => accepted /\ mail.kind # "accept"
  /\ state = "connected" => isAccepted
  /\ mail.kind = "accept" /\ reply = "ok" => accepted
  /\ mail.kind = "data" => accepted
  /\ mail.kind = "disconnect" => mail.arg # NoCode
  /\ task = "failing" => mail.kind = "disconnect"

\* The data on the wire is what was sent, and what is being sent once it is answered.
Written ==
  /\ \E n \in Nat : /\ Shaped(wire, n) /\ n >= Len(wire) - 1
                    /\ actor = "running" => n = Len(wire)
  /\ DataIn(wire) = IF mail.kind = "data" /\ reply = "ok" THEN Append(sent, mail.arg) ELSE sent
-----------------------------------------------------------------------------
\* The handler can receive no more, whether or not it was told of the end.
Ended == isAccepted /\ state = "disconnected" /\ recv = "idle"

\* A notice was lost.
Missed == dropped \/ cancels > 0

\* A disconnect is on its way to the handler, was lost, or will not be missed.
Noticed == Missed \/ HoldsDisconnect \/ Ended \/ ~rxOpen \/ \E i \in DOMAIN chan : DisconnectAt(i)

CodesInv ==
  /\ actor = "running" => cause = NoCode /\ closeCode = NoCode /\ seen = NoCode
  /\ actor # "running" =>
       cause # NoCode /\ (closeCode = cause \/ (closeCode = NoCode /\ (cause = 1000 \/ Noticed)))
  /\ actor = "stopped" => Noticed
  /\ \A j \in DOMAIN chan : DisconnectAt(j) =>
       \/ chan[j].arg = cause
       \/ /\ chan[j].arg = 1000
          /\ Missed \/ HoldsDisconnect \/ Ended \/ \E i \in 1..(j - 1) : DisconnectAt(i)
  /\ HoldsDisconnect => held.arg = cause \/ (held.arg = 1000 /\ Missed)
  /\ seen # NoCode => Ended
  /\ CodeIsTheCause

\* The messages of the client are numbered in the order they were sent.
Numbering(g, p, f) ==
  /\ Increasing(g) /\ Increasing(p)
  /\ \A i \in DOMAIN g : g[i] <= f
  /\ \A j \in DOMAIN p : p[j] <= f
  /\ \A i \in DOMAIN g, j \in DOMAIN p : g[i] < p[j]

Numbered == Numbering(got, Pending, frames)

Counted == lost <= cancels /\ (rxOpen => Len(got) + Len(Pending) + lost + fragmented = frames)

WsInv == Typed /\ Receiving /\ Ordered /\ Talking /\ Written /\ CodesInv /\ Numbered /\ Counted
-----------------------------------------------------------------------------
(***************************************************************************)
(* Sequences of messages.                                                  *)
(***************************************************************************)
LEMMA ShapedData ==
  ASSUME NEW ms \in Seq(Message), NEW n \in Nat, Shaped(ms, n)
  PROVE  /\ n <= Len(ms) /\ Len(ms) \in Nat /\ DOMAIN ms = 1..Len(ms)
         /\ DataIn(ms) \in Seq(Nat) /\ Len(DataIn(ms)) = n /\ DOMAIN DataIn(ms) = 1..n
         /\ \A i \in 1..n : DataIn(ms)[i] = ms[i].arg
  <1>1. n <= Len(ms) /\ Len(ms) \in Nat /\ DOMAIN ms = 1..Len(ms)
    BY LenProperties DEF Shaped
  <1>2. Lead(ms) = 1..n
    BY <1>1 DEF Shaped, Lead
  <1>3. \A i \in 1..n : ms[i] \in Message
    BY <1>1, ElementOfSeq
  <1>4. DataIn(ms) \in [1..n -> Nat] /\ \A i \in 1..n : DataIn(ms)[i] = ms[i].arg
    BY <1>2, <1>3 DEF DataIn, Message
  <1>5. DataIn(ms) \in Seq(Nat)
    BY <1>4, SeqDef
  <1>6. DOMAIN DataIn(ms) = 1..n /\ DOMAIN DataIn(ms) = 1..Len(DataIn(ms)) /\ Len(DataIn(ms)) \in Nat
    BY <1>4, <1>5, LenProperties
  <1>7. Len(DataIn(ms)) = n
    BY <1>6
  <1> QED
    BY <1>1, <1>4, <1>5, <1>6, <1>7

\* Two sequences of numbers are the same if their items are.
LEMMA SameData ==
  ASSUME NEW s \in Seq(Nat), NEW t \in Seq(Nat), Len(s) = Len(t), \A i \in 1..Len(s) : s[i] = t[i]
  PROVE  s = t
  BY SeqEqual

LEMMA NoMessages == Shaped(<<>>, 0) /\ DataIn(<<>>) = <<>>
  <1>1. <<>> \in Seq(Message) /\ Len(<<>>) = 0 /\ <<>> \in Seq(Nat)
    BY EmptySeq
  <1>2. Shaped(<<>>, 0)
    BY <1>1 DEF Shaped
  <1>3. DataIn(<<>>) \in Seq(Nat) /\ Len(DataIn(<<>>)) = 0
    BY <1>1, <1>2, ShapedData
  <1> QED
    BY <1>1, <1>2, <1>3, SameData

\* A message at the end.
LEMMA Behind ==
  ASSUME NEW ms \in Seq(Message), NEW m \in Message
  PROVE  /\ Append(ms, m) \in Seq(Message) /\ Len(Append(ms, m)) = Len(ms) + 1
         /\ DOMAIN Append(ms, m) = 1..(Len(ms) + 1)
         /\ \A i \in 1..Len(ms) : Append(ms, m)[i] = ms[i]
         /\ Append(ms, m)[Len(ms) + 1] = m
  <1>1. /\ Append(ms, m) \in Seq(Message) /\ Len(Append(ms, m)) = Len(ms) + 1
        /\ \A i \in 1..Len(ms) : Append(ms, m)[i] = ms[i]
        /\ Append(ms, m)[Len(ms) + 1] = m
    BY AppendProperties
  <1>2. DOMAIN Append(ms, m) = 1..(Len(ms) + 1)
    BY <1>1, LenProperties
  <1> QED
    BY <1>1, <1>2

LEMMA DisconnectBehind ==
  ASSUME NEW ms \in Seq(Message), NEW n \in Nat, Shaped(ms, n), NEW m \in Message, m.kind # "data"
  PROVE  Shaped(Append(ms, m), n) /\ DataIn(Append(ms, m)) = DataIn(ms)
  <1> DEFINE q == Append(ms, m)
  <1>1. n <= Len(ms) /\ Len(ms) \in Nat /\ DOMAIN ms = 1..Len(ms)
    BY ShapedData
  <1>2. /\ q \in Seq(Message) /\ Len(q) = Len(ms) + 1 /\ DOMAIN q = 1..(Len(ms) + 1)
        /\ \A i \in 1..Len(ms) : q[i] = ms[i]
        /\ q[Len(ms) + 1] = m
    BY Behind
  <1> HIDE DEF q
  <1>3. Shaped(q, n)
    BY <1>1, <1>2 DEF Shaped
  <1>4. /\ DataIn(q) \in Seq(Nat) /\ DataIn(ms) \in Seq(Nat)
        /\ Len(DataIn(q)) = n /\ Len(DataIn(ms)) = n
        /\ \A i \in 1..n : DataIn(q)[i] = q[i].arg /\ DataIn(ms)[i] = ms[i].arg
    BY <1>2, <1>3, ShapedData
  <1>5. \A i \in 1..n : DataIn(q)[i] = DataIn(ms)[i]
    BY <1>1, <1>2, <1>4
  <1>6. DataIn(q) = DataIn(ms)
    BY <1>4, <1>5, SameData
  <1> QED
    BY <1>3, <1>6 DEF q

LEMMA DataBehind ==
  ASSUME NEW ms \in Seq(Message), Shaped(ms, Len(ms)), NEW m \in Message, m.kind = "data"
  PROVE  /\ Shaped(Append(ms, m), Len(ms) + 1)
         /\ DataIn(Append(ms, m)) = Append(DataIn(ms), m.arg)
  <1> DEFINE q == Append(ms, m)
             n == Len(ms)
             t == Append(DataIn(ms), m.arg)
  <1>1. n \in Nat /\ DOMAIN ms = 1..n
    BY LenProperties
  <1>2. /\ q \in Seq(Message) /\ Len(q) = n + 1 /\ DOMAIN q = 1..(n + 1)
        /\ \A i \in 1..n : q[i] = ms[i]
        /\ q[n + 1] = m
    BY Behind
  <1>0. m.arg \in Nat
    BY DEF Message
  <1>3. /\ DataIn(ms) \in Seq(Nat) /\ Len(DataIn(ms)) = n
        /\ \A i \in 1..n : DataIn(ms)[i] = ms[i].arg
    BY <1>1, ShapedData
  <1>4. /\ t \in Seq(Nat) /\ Len(t) = n + 1 /\ t[n + 1] = m.arg
        /\ \A i \in 1..n : t[i] = DataIn(ms)[i]
    <2> DEFINE d == DataIn(ms)
    <2> HIDE DEF d
    <2>1. /\ Append(d, m.arg) \in Seq(Nat) /\ Len(Append(d, m.arg)) = Len(d) + 1
          /\ \A i \in 1..Len(d) : Append(d, m.arg)[i] = d[i]
          /\ Append(d, m.arg)[Len(d) + 1] = m.arg
      BY <1>0, <1>3, AppendProperties DEF d
    <2> QED
      BY <1>3, <2>1 DEF d
  <1> HIDE DEF q, t
  <1>5. Shaped(q, n + 1)
    <2>1. \A i \in 1..n : ms[i].kind = "data"
      BY <1>1 DEF Shaped, n
    <2> QED
      BY <1>1, <1>2, <2>1 DEF Shaped
  <1>6. /\ DataIn(q) \in Seq(Nat) /\ Len(DataIn(q)) = n + 1
        /\ \A i \in 1..(n + 1) : DataIn(q)[i] = q[i].arg
    BY <1>1, <1>2, <1>5, ShapedData
  <1>7. \A i \in 1..(n + 1) : DataIn(q)[i] = t[i]
    <2>1. \A i \in 1..(n + 1) : i \in 1..n \/ i = n + 1
      BY <1>1
    <2> QED
      BY <1>2, <1>3, <1>4, <1>6, <2>1
  <1>8. DataIn(q) = t
    BY <1>4, <1>6, <1>7, SameData
  <1> QED
    BY <1>5, <1>8 DEF q, t, n

\* The first message is taken.
LEMMA Ahead ==
  ASSUME NEW ms \in Seq(Message), ms # <<>>
  PROVE  /\ Head(ms) \in Message /\ Head(ms) = ms[1] /\ Tail(ms) \in Seq(Message)
         /\ Len(ms) \in Nat \ {0} /\ Len(Tail(ms)) = Len(ms) - 1 /\ DOMAIN Tail(ms) = 1..(Len(ms) - 1)
         /\ DOMAIN ms = 1..Len(ms)
         /\ \A i \in 1..(Len(ms) - 1) : Tail(ms)[i] = ms[i + 1]
  <1>1. Len(ms) \in Nat \ {0} /\ DOMAIN ms = 1..Len(ms)
    BY EmptySeq, LenProperties
  <1>2. /\ Head(ms) \in Message /\ Tail(ms) \in Seq(Message) /\ Len(Tail(ms)) = Len(ms) - 1
        /\ \A i \in 1..Len(Tail(ms)) : Tail(ms)[i] = ms[i + 1]
    BY HeadTailProperties
  <1>3. DOMAIN Tail(ms) = 1..Len(Tail(ms))
    BY <1>2, LenProperties
  <1>4. Head(ms) = ms[1]
    OBVIOUS
  <1> QED
    BY <1>1, <1>2, <1>3, <1>4

LEMMA DataAhead ==
  ASSUME NEW ms \in Seq(Message), ms # <<>>, NEW n \in Nat, Shaped(ms, n), Head(ms).kind = "data"
  PROVE  /\ n # 0 /\ Shaped(Tail(ms), n - 1)
         /\ DataIn(ms) = <<Head(ms).arg>> \o DataIn(Tail(ms))
  <1> DEFINE q == Tail(ms)
             x == Head(ms).arg
             t == <<x>> \o DataIn(q)
  <1>1. /\ Head(ms) \in Message /\ Head(ms) = ms[1] /\ q \in Seq(Message)
        /\ Len(ms) \in Nat \ {0} /\ Len(q) = Len(ms) - 1 /\ DOMAIN q = 1..(Len(ms) - 1)
        /\ DOMAIN ms = 1..Len(ms)
        /\ \A i \in 1..(Len(ms) - 1) : q[i] = ms[i + 1]
    BY Ahead
  <1>2. x \in Nat
    BY <1>1 DEF Message
  <1> HIDE DEF q
  <1>3. n # 0 /\ n <= Len(ms)
    BY <1>1 DEF Shaped
  <1>4. Shaped(q, n - 1)
    BY <1>1, <1>3 DEF Shaped
  <1>5. /\ DataIn(q) \in Seq(Nat) /\ Len(DataIn(q)) = n - 1
        /\ \A i \in 1..(n - 1) : DataIn(q)[i] = q[i].arg
    BY <1>1, <1>3, <1>4, ShapedData
  <1>6. /\ DataIn(ms) \in Seq(Nat) /\ Len(DataIn(ms)) = n
        /\ \A i \in 1..n : DataIn(ms)[i] = ms[i].arg
    BY ShapedData
  <1>7. /\ t \in Seq(Nat) /\ Len(t) = n /\ t[1] = x
        /\ \A i \in 2..n : t[i] = DataIn(q)[i - 1]
    <2> DEFINE d == DataIn(q)
    <2> HIDE DEF d, x
    <2>1. <<x>> \in Seq(Nat) /\ Len(<<x>>) = 1 /\ <<x>>[1] = x
      BY <1>2
    <2>2. /\ <<x>> \o d \in Seq(Nat) /\ Len(<<x>> \o d) = Len(<<x>>) + Len(d)
          /\ \A i \in 1..(Len(<<x>>) + Len(d)) :
               (<<x>> \o d)[i] = IF i <= Len(<<x>>) THEN <<x>>[i] ELSE d[i - Len(<<x>>)]
      BY <1>5, <2>1, ConcatProperties DEF d
    <2> QED
      BY <1>3, <1>5, <2>1, <2>2 DEF d
  <1> HIDE DEF x, t
  <1>8. \A i \in 1..n : DataIn(ms)[i] = t[i]
    <2> SUFFICES ASSUME NEW i \in 1..n PROVE DataIn(ms)[i] = t[i]
      OBVIOUS
    <2>1. CASE i = 1
      BY <1>1, <1>6, <1>7, <2>1 DEF x
    <2>2. CASE i # 1
      <3>1. i \in 2..n /\ i - 1 \in 1..(n - 1) /\ i - 1 \in 1..(Len(ms) - 1) /\ (i - 1) + 1 = i
        BY <1>1, <1>3, <2>2
      <3>2. q[i - 1] = ms[i]
        BY <1>1, <3>1
      <3> QED
        BY <1>5, <1>6, <1>7, <3>1, <3>2
    <2> QED
      BY <2>1, <2>2
  <1>9. DataIn(ms) = t
    BY <1>6, <1>7, <1>8, SameData
  <1> QED
    BY <1>3, <1>4, <1>9 DEF q, t, x

LEMMA DisconnectAhead ==
  ASSUME NEW ms \in Seq(Message), ms # <<>>, NEW n \in Nat, Shaped(ms, n), Head(ms).kind # "data"
  PROVE  n = 0 /\ Shaped(Tail(ms), 0) /\ DataIn(ms) = <<>> /\ DataIn(Tail(ms)) = <<>>
  <1> DEFINE q == Tail(ms)
  <1>1. /\ Head(ms) = ms[1] /\ q \in Seq(Message)
        /\ Len(ms) \in Nat \ {0} /\ Len(q) = Len(ms) - 1 /\ DOMAIN q = 1..(Len(ms) - 1)
        /\ DOMAIN ms = 1..Len(ms)
        /\ \A i \in 1..(Len(ms) - 1) : q[i] = ms[i + 1]
    BY Ahead
  <1> HIDE DEF q
  <1>2. n = 0
    BY <1>1 DEF Shaped
  <1>3. Shaped(q, 0)
    BY <1>1, <1>2 DEF Shaped
  <1>4. DataIn(q) \in Seq(Nat) /\ Len(DataIn(q)) = 0 /\ DataIn(ms) \in Seq(Nat) /\ Len(DataIn(ms)) = 0
    BY <1>1, <1>2, <1>3, ShapedData
  <1>5. \A s \in Seq(Nat) : Len(s) = 0 => s = <<>>
    BY EmptySeq
  <1> QED
    BY <1>2, <1>3, <1>4, <1>5 DEF q
-----------------------------------------------------------------------------
(***************************************************************************)
(* The types.                                                              *)
(***************************************************************************)
LEMMA Kinds ==
  /\ \A n \in Nat : Data(n) \in Message /\ Data(n).kind = "data" /\ Data(n).arg = n
  /\ \A n \in Nat : /\ Disconnect(n) \in Message /\ Disconnect(n).kind = "disconnect"
                    /\ Disconnect(n).arg = n
  /\ Nothing \notin Message /\ Nothing.kind = "none" /\ Nothing.arg = 0
  /\ \A m \in Message : m.kind \in {"data", "disconnect"} /\ m.arg \in Nat
  BY DEF Data, Disconnect, Message, Nothing

LEMMA Tried ==
  ASSUME Typed, NEW code \in Nat, TryDisconnect(code)
  PROVE  /\ chan' \in Seq(Message)
         /\ dropped => dropped'
         /\ chan' = Append(chan, Disconnect(code)) \/ (chan' = chan /\ (rxOpen => dropped'))
         /\ chan' = Append(chan, Disconnect(code)) \/ (chan' = chan /\ dropped')
  <1>1. chan \in Seq(Message) /\ Disconnect(code) \in Message
    BY Kinds DEF Typed
  <1>2. Append(chan, Disconnect(code)) \in Seq(Message)
    BY <1>1, Behind
  <1>3. (dropped => dropped') /\ (~Fits => dropped')
    BY Zenon DEF TryDisconnect
  <1>4. (Fits /\ chan' = Append(chan, Disconnect(code))) \/ (~Fits /\ chan' = chan)
    BY DEF TryDisconnect
  <1> QED
    BY <1>1, <1>2, <1>3, <1>4

LEMMA CodesAreNumbers ==
  ClientCodes \subseteq Nat \ {0} /\ ServerCodes \subseteq Nat \ {0}
  BY WsConnectionAssumption

\* What a step does to the messages, by the actor ...
LEMMA ActorTyped ==
  ASSUME Typed, ClientFrame \/ ActorStep
  PROVE  Typed'
  <1> USE DEF Typed
  <1>1. CASE DataFrame
    <2>1. Append(chan, Data(frames + 1)) \in Seq(Message) /\ Append(wire, Disconnect(1011)) \in Seq(Message)
      BY Behind, Kinds
    <2>2. chan' \in Seq(Message) /\ wire' \in Seq(Message)
      <3>1. \/ chan' = Append(chan, Data(frames + 1)) /\ wire' = wire
            \/ chan' = chan /\ wire' = Append(wire, Disconnect(1011))
        BY <1>1 DEF DataFrame
      <3>2. chan \in Seq(Message) /\ wire \in Seq(Message)
        OBVIOUS
      <3>3. CASE chan' = Append(chan, Data(frames + 1)) /\ wire' = wire
        <4> HIDE DEF Typed
        <4> QED
          BY <2>1, <3>2, <3>3
      <3>4. CASE chan' = chan /\ wire' = Append(wire, Disconnect(1011))
        <4> HIDE DEF Typed
        <4> QED
          BY <2>1, <3>2, <3>4
      <3> QED
        BY <3>1, <3>3, <3>4, Zenon
    <2>3. actor' \in {"running", "stopping", "stopped"} /\ frames' \in Nat /\ closeCode' \in Nat
      BY <1>1 DEF DataFrame
    <2>4. UNCHANGED <<pythonVars, recvVars, mail, fragmented>>
      BY <1>1 DEF DataFrame
    <2> QED
      BY <2>2, <2>3, <2>4 DEF pythonVars, recvVars, clientVars
  <1>2. CASE Fragment \/ KeepAlive \/ EndOfStream \/ MailClosed
    <2>1. CASE Fragment
      BY <2>1 DEF Fragment, actorVars, pythonVars, recvVars, clientVars
    <2>2. CASE KeepAlive
      BY <2>2 DEF KeepAlive, actorVars, pythonVars, recvVars, clientVars
    <2>3. CASE EndOfStream
      BY <2>3 DEF EndOfStream, actorVars, pythonVars, recvVars, clientVars
    <2>4. CASE MailClosed
      BY <2>4 DEF MailClosed, actorVars, pythonVars, recvVars, clientVars
    <2> QED
      BY <1>2, <2>1, <2>2, <2>3, <2>4
  <1>3. ASSUME NEW code \in ClientCodes, CloseFrame(code) PROVE Typed'
    <2>1. code \in Nat
      BY CodesAreNumbers
    <2>2. chan' \in Seq(Message)
      BY <1>3, <2>1, Tried DEF CloseFrame
    <2>3. Append(wire, Disconnect(code)) \in Seq(Message)
      BY <2>1, Behind, Kinds
    <2> QED
      BY <1>3, <2>1, <2>2, <2>3 DEF CloseFrame, pythonVars, recvVars, clientVars
  <1>4. CASE ProtocolError
    <2>1. chan' \in Seq(Message)
      BY <1>4, Tried DEF ProtocolError
    <2> QED
      BY <1>4, <2>1 DEF ProtocolError, pythonVars, recvVars, clientVars
  <1>5. CASE Heartbeat
    <2>1. chan' \in Seq(Message)
      BY <1>5, Tried DEF Heartbeat
    <2> QED
      BY <1>5, <2>1 DEF Heartbeat, pythonVars, recvVars, clientVars
  <1>6. CASE HandleMail
    <2>1. mail.kind \in {"data", "disconnect"} => mail \in Message
      BY DEF Message
    <2>2. wire' \in Seq(Message)
      BY <1>6, <2>1, Behind DEF HandleMail
    <2> QED
      BY <1>6, <2>2 DEF HandleMail, pythonVars, recvVars, clientVars
  <1>7. CASE Stopped
    <2>1. FinalCode \in Nat
      BY DEF FinalCode
    <2>2. chan' \in Seq(Message)
      BY <1>7, <2>1, Tried DEF Stopped
    <2> QED
      BY <1>7, <2>2 DEF Stopped, pythonVars, recvVars, clientVars
  <1> QED
    BY <1>1, <1>2, <1>3, <1>4, <1>5, <1>6, <1>7 DEF ClientFrame, ActorStep

\* ... and by the handler.
LEMMA HandlerTyped ==
  ASSUME Typed, Receiving, Handler \/ Resume
  PROVE  Typed'
  <1> USE DEF Typed
  <1>1. CASE Receive
    BY <1>1 DEF Receive, actorVars, pythonVars, clientVars
  <1>2. CASE CancelReceive
    BY <1>2 DEF CancelReceive, actorVars, pythonVars, clientVars
  <1>3. ASSUME NEW m \in [kind : {"accept", "data", "disconnect", "none"}, arg : Nat], Post(m)
        PROVE  Typed'
    BY <1>3 DEF Post, actorVars, pythonVars, recvVars, clientVars
  <1>4. CASE Accept
    BY <1>3, <1>4 DEF Accept
  <1>5. CASE Send
    <2>1. Len(sent) \in Nat
      BY LenProperties
    <2>2. Data(Len(sent) + 1) \in [kind : {"accept", "data", "disconnect", "none"}, arg : Nat]
      BY <2>1 DEF Data
    <2> QED
      BY <1>3, <1>5, <2>2 DEF Send
  <1>6. ASSUME NEW code \in ServerCodes, Close(code) PROVE Typed'
    <2>1. Disconnect(code) \in [kind : {"accept", "data", "disconnect", "none"}, arg : Nat]
      BY CodesAreNumbers DEF Disconnect
    <2> QED
      BY <1>3, <1>6, <2>1 DEF Close
  <1>7. CASE HandlerReturns
    BY <1>7, EmptySeq DEF HandlerReturns, actorVars, recvVars, clientVars
  <1>8. CASE HandlerRaises
    <2>1. FailureMail \in [kind : {"accept", "data", "disconnect", "none"}, arg : Nat]
      BY DEF FailureMail, Disconnect
    <2> QED
      BY <1>8, <2>1 DEF HandlerRaises, actorVars, recvVars, clientVars
  <1>9. CASE Fetch
    <2>1. Disconnect(1000) \in Message
      BY Kinds
    <2>2. chan # <<>> => Head(chan) \in Message /\ Tail(chan) \in Seq(Message)
      BY Ahead
    <2>3. chan' \in Seq(Message) /\ held' \in Message
      <3>1. \/ chan # <<>> /\ held' = Head(chan) /\ chan' = Tail(chan)
            \/ held' = Disconnect(1000) /\ chan' = chan
        BY <1>9 DEF Fetch
      <3>2. chan \in Seq(Message)
        OBVIOUS
      <3>3. CASE chan # <<>> /\ held' = Head(chan) /\ chan' = Tail(chan)
        <4> HIDE DEF Typed
        <4> QED
          BY <2>2, <3>3
      <3>4. CASE held' = Disconnect(1000) /\ chan' = chan
        <4> HIDE DEF Typed
        <4> QED
          BY <2>1, <3>2, <3>4
      <3> QED
        BY <3>1, <3>3, <3>4, Zenon
    <2> QED
      BY <1>9, <2>3 DEF Fetch, actorVars, pythonVars, clientVars
  <1>10. CASE Deliver
    <2>1. held.arg \in Nat
      BY Kinds
    <2>2. Append(got, held.arg) \in Seq(Nat)
      BY <2>1, AppendProperties
    <2> QED
      BY <1>10, <2>2 DEF Deliver, actorVars, clientVars
  <1>11. CASE Return
    <2>1. Append(sent, mail.arg) \in Seq(Nat)
      BY AppendProperties
    <2>2. Nothing \in [kind : {"accept", "data", "disconnect", "none"}, arg : Nat]
      BY DEF Nothing
    <2> QED
      BY <1>11, <2>1, <2>2 DEF Return, actorVars, recvVars, clientVars
  <1>12. CASE TaskEnds
    <2>1. Nothing \in [kind : {"accept", "data", "disconnect", "none"}, arg : Nat]
      BY DEF Nothing
    <2> QED
      BY <1>12, <2>1, EmptySeq DEF TaskEnds, actorVars, recvVars, clientVars
  <1> QED
    BY <1>1, <1>2, <1>4, <1>5, <1>6, <1>7, <1>8, <1>9, <1>10, <1>11, <1>12 DEF Handler, Resume
-----------------------------------------------------------------------------
(***************************************************************************)
(* Receives, and the order in the channel.                                 *)
(***************************************************************************)
LEMMA ActorLeaves ==
  ASSUME ClientFrame \/ ActorStep
  PROVE  UNCHANGED <<pythonVars, recvVars, mail>>
  BY DEF ClientFrame, ActorStep, DataFrame, Fragment, KeepAlive, CloseFrame, ProtocolError, EndOfStream,
         Heartbeat, HandleMail, Stopped, MailClosed

LEMMA ReceivingInv ==
  ASSUME Typed, Receiving, [Next]_vars
  PROVE  Receiving'
  <1>1. CASE ClientFrame \/ ActorStep \/ UNCHANGED vars
    <2>1. UNCHANGED <<pythonVars, recvVars>>
      BY <1>1, ActorLeaves DEF vars
    <2> QED
      BY <2>1 DEF Receiving, pythonVars, recvVars, clientVars
  <1>2. CASE Receive
    BY <1>2 DEF Receiving, Receive, pythonVars, clientVars
  <1>3. CASE CancelReceive
    BY <1>3 DEF Receiving, CancelReceive, pythonVars, clientVars
  <1>4. CASE Accept \/ Send \/ \E code \in ServerCodes : Close(code)
    BY <1>4 DEF Receiving, Accept, Send, Close, Post, pythonVars, recvVars, clientVars
  <1>5. CASE HandlerReturns \/ HandlerRaises
    BY <1>5 DEF Receiving, HandlerReturns, HandlerRaises, recvVars, clientVars
  <1>6. CASE Fetch
    <2>1. held' \in Message
      <3>1. chan # <<>> => Head(chan) \in Message
        BY Ahead DEF Typed
      <3> QED
        BY <1>6, <3>1, Kinds DEF Fetch
    <2> QED
      BY <1>6, <2>1, Kinds DEF Receiving, Fetch, pythonVars, clientVars
  <1>7. CASE Deliver
    BY <1>7 DEF Receiving, Deliver
  <1>8. CASE Return
    <2>1. isAccepted => isAccepted'
      BY <1>8, Zenon DEF Return
    <2> QED
      BY <1>8, <2>1 DEF Receiving, Return, recvVars, clientVars
  <1>9. CASE TaskEnds
    BY <1>9 DEF Receiving, TaskEnds, recvVars, clientVars
  <1> QED
    BY <1>1, <1>2, <1>3, <1>4, <1>5, <1>6, <1>7, <1>8, <1>9 DEF Next, Handler, Resume

\* The actor writes into the channel, at its end.
ChannelGrows ==
  /\ chan' \in Seq(Message)
  /\ \/ chan' = chan /\ (actor' = "running" => actor = "running")
     \/ chan' = Append(chan, Data(frames + 1)) /\ actor = "running" /\ actor' = "running"
     \/ \E code \in Nat : chan' = Append(chan, Disconnect(code)) /\ actor' # "running"

LEMMA ActorWrites ==
  ASSUME Typed, ClientFrame \/ ActorStep
  PROVE  ChannelGrows
  <1>0. chan' \in Seq(Message)
    BY ActorTyped DEF Typed
  <1>1. CASE DataFrame
    BY <1>0, <1>1 DEF DataFrame, ChannelGrows
  <1>2. CASE Fragment \/ KeepAlive \/ EndOfStream \/ MailClosed \/ HandleMail
    BY <1>0, <1>2 DEF Fragment, KeepAlive, EndOfStream, MailClosed, HandleMail, actorVars, clientVars, ChannelGrows
  <1>3. ASSUME NEW code \in Nat, TryDisconnect(code), actor' # "running" PROVE ChannelGrows
    BY <1>0, <1>3, Tried DEF ChannelGrows
  <1>4. ASSUME NEW code \in ClientCodes, CloseFrame(code) PROVE ChannelGrows
    BY <1>3, <1>4, CodesAreNumbers DEF CloseFrame
  <1>5. CASE ProtocolError
    BY <1>3, <1>5 DEF ProtocolError
  <1>6. CASE Heartbeat
    <2>1. CASE TryDisconnect(1001) /\ actor' = "stopping"
      BY <1>3, <2>1
    <2>2. CASE UNCHANGED <<actor, chan>>
      BY <1>0, <2>2 DEF ChannelGrows
    <2> QED
      BY <1>6, <2>1, <2>2 DEF Heartbeat
  <1>7. CASE Stopped
    <2>1. FinalCode \in Nat
      BY DEF FinalCode, Typed
    <2> QED
      BY <1>3, <1>7, <2>1 DEF Stopped
  <1> QED
    BY <1>1, <1>2, <1>4, <1>5, <1>6, <1>7 DEF ClientFrame, ActorStep

LEMMA OrderedInv ==
  ASSUME Typed, Receiving, Ordered, [Next]_vars
  PROVE  Ordered'
  <1>0. PICK n \in Nat : /\ Shaped(chan, n)
                         /\ actor = "running" => n = Len(chan)
                         /\ HoldsDisconnect => n = 0
    BY DEF Ordered
  <1>1. /\ chan \in Seq(Message) /\ Len(chan) \in Nat /\ n <= Len(chan) /\ frames \in Nat
        /\ actor = "running" => ~HoldsDisconnect
    BY <1>0, ShapedData DEF Typed, Ordered
  <1>2. CASE ClientFrame \/ ActorStep
    <2>1. held' = held
      BY <1>2, ActorLeaves DEF recvVars, clientVars
    <2>2. HoldsDisconnect' = HoldsDisconnect
      BY <2>1 DEF HoldsDisconnect
    <2>3. ChannelGrows
      BY <1>2, ActorWrites
    <2>4. CASE chan' = chan /\ (actor' = "running" => actor = "running")
      BY <1>0, <1>1, <2>2, <2>4 DEF Ordered
    <2>5. CASE chan' = Append(chan, Data(frames + 1)) /\ actor = "running" /\ actor' = "running"
      <3>1. Data(frames + 1) \in Message /\ Data(frames + 1).kind = "data"
        BY <1>1, Kinds
      <3>2. Shaped(chan', Len(chan) + 1) /\ Len(chan') = Len(chan) + 1
        BY <1>0, <1>1, <2>5, <3>1, DataBehind, Behind
      <3> QED
        BY <1>1, <2>2, <2>5, <3>2 DEF Ordered
    <2>6. ASSUME NEW code \in Nat, chan' = Append(chan, Disconnect(code)), actor' # "running"
          PROVE  Ordered'
      <3>1. Disconnect(code) \in Message /\ Disconnect(code).kind # "data"
        BY Kinds
      <3>2. Shaped(chan', n)
        BY <1>0, <1>1, <2>6, <3>1, DisconnectBehind
      <3> QED
        BY <1>0, <2>2, <2>6, <3>2 DEF Ordered
    <2> QED
      BY <2>3, <2>4, <2>5, <2>6 DEF ChannelGrows
  <1>3. CASE Fetch
    <2>1. actor' = actor
      BY <1>3 DEF Fetch, actorVars, clientVars
    <2>2. CASE chan # <<>> /\ held' = Head(chan) /\ chan' = Tail(chan)
      <3>1. Len(chan') = Len(chan) - 1 /\ Len(chan) # 0
        BY <1>1, <2>2, Ahead
      <3>2. CASE Head(chan).kind = "data"
        <4>1. n # 0 /\ Shaped(chan', n - 1)
          BY <1>0, <1>1, <2>2, <3>2, DataAhead
        <4>2. ~HoldsDisconnect'
          BY <2>2, <3>2 DEF HoldsDisconnect
        <4>3. n - 1 \in Nat /\ (actor' = "running" => n - 1 = Len(chan'))
          BY <1>0, <1>1, <2>1, <3>1, <4>1
        <4> QED
          BY <4>1, <4>2, <4>3 DEF Ordered
      <3>3. CASE Head(chan).kind # "data"
        <4>1. n = 0 /\ Shaped(chan', 0)
          BY <1>0, <1>1, <2>2, <3>3, DisconnectAhead
        <4>2. actor' # "running"
          BY <1>0, <2>1, <3>1, <4>1
        <4> QED
          BY <4>1, <4>2 DEF Ordered
      <3> QED
        BY <3>2, <3>3
    <2>3. CASE chan = <<>> /\ actor = "stopped" /\ UNCHANGED chan
      <3>1. Shaped(chan', 0)
        BY <2>3, NoMessages
      <3> QED
        BY <2>1, <2>3, <3>1 DEF Ordered
    <2> QED
      BY <1>3, <2>2, <2>3 DEF Fetch
  <1>4. CASE Deliver \/ CancelReceive
    <2>1. held' = Nothing /\ chan' = chan /\ actor' = actor
      BY <1>4 DEF Deliver, CancelReceive, actorVars, clientVars
    <2>2. ~HoldsDisconnect'
      BY <2>1, Kinds DEF HoldsDisconnect
    <2> QED
      BY <1>0, <2>1, <2>2 DEF Ordered
  <1>5. CASE HandlerReturns \/ TaskEnds
    <2>1. chan' = <<>> /\ held' = held /\ actor' = actor
      BY <1>5 DEF HandlerReturns, TaskEnds, actorVars, recvVars, clientVars
    <2>2. Shaped(chan', 0) /\ Len(chan') = 0
      BY <2>1, NoMessages, EmptySeq
    <2>3. HoldsDisconnect' = HoldsDisconnect
      BY <2>1 DEF HoldsDisconnect
    <2> QED
      BY <1>1, <2>1, <2>2, <2>3 DEF Ordered
  <1>6. CASE Receive \/ Accept \/ Send \/ (\E code \in ServerCodes : Close(code)) \/ HandlerRaises
             \/ Return \/ UNCHANGED vars
    <2>1. chan' = chan /\ held' = held /\ actor' = actor
      BY <1>6 DEF Receive, Accept, Send, Close, Post, HandlerRaises, Return, vars, actorVars, recvVars, clientVars
    <2>2. HoldsDisconnect' = HoldsDisconnect
      BY <2>1 DEF HoldsDisconnect
    <2> QED
      BY <1>0, <1>1, <2>1, <2>2 DEF Ordered
  <1> QED
    BY <1>2, <1>3, <1>4, <1>5, <1>6 DEF Next, Handler, Resume
-----------------------------------------------------------------------------
(***************************************************************************)
(* accept(), send() and close(), and what they write.                      *)
(***************************************************************************)
LEMMA TalkingInv ==
  ASSUME Typed, Talking, [Next]_vars
  PROVE  Talking'
  <1>1. CASE HandleMail
    <2>1. (accepted => accepted') /\ (mail.kind = "accept" => accepted')
      BY <1>1, Zenon DEF HandleMail
    <2>2. UNCHANGED <<isAccepted, state, mail, task>>
      BY <1>1, ActorLeaves DEF ActorStep, pythonVars, clientVars
    <2> QED
      BY <2>1, <2>2 DEF Talking
  <1>2. CASE (ClientFrame \/ ActorStep) /\ ~HandleMail
    <2>1. UNCHANGED <<isAccepted, state, mail, task>>
      BY <1>2, ActorLeaves DEF pythonVars, clientVars
    <2>2. accepted' = accepted
      BY <1>2 DEF ClientFrame, ActorStep, DataFrame, Fragment, KeepAlive, CloseFrame, ProtocolError,
                  EndOfStream, Heartbeat, Stopped, MailClosed, actorVars, clientVars
    <2>3. reply' = "ok" => reply = "ok"
      BY <1>2 DEF ClientFrame, ActorStep, DataFrame, Fragment, KeepAlive, CloseFrame, ProtocolError,
                  EndOfStream, Heartbeat, Stopped, MailClosed
    <2> QED
      BY <2>1, <2>2, <2>3 DEF Talking
  <1>3. CASE Accept
    BY <1>3 DEF Talking, Accept, AcceptAllowed, Post, actorVars, pythonVars, clientVars
  <1>4. CASE Send
    BY <1>4 DEF Talking, Send, SendAllowed, Post, Data, actorVars, pythonVars, clientVars
  <1>5. ASSUME NEW code \in ServerCodes, Close(code) PROVE Talking'
    <2>1. code # NoCode
      BY CodesAreNumbers DEF NoCode
    <2> QED
      BY <1>5, <2>1 DEF Talking, Close, Post, Disconnect, actorVars, pythonVars, clientVars
  <1>6. CASE HandlerRaises
    BY <1>6 DEF Talking, HandlerRaises, FailureMail, Disconnect, NoCode, actorVars, clientVars
  <1>7. CASE Return
    <2>1. /\ isAccepted' => isAccepted \/ (reply = "ok" /\ mail.kind = "accept")
          /\ isAccepted => isAccepted'
          /\ reply = "ok" /\ mail.kind = "accept" => isAccepted'
      BY <1>7, Zenon DEF Return
    <2>2. state' = "connected" => state = "connected" \/ (reply = "ok" /\ mail.kind = "accept")
      BY <1>7 DEF Return
    <2>3. accepted' = accepted /\ mail'.kind = "none" /\ task' # "failing"
      BY <1>7 DEF Return, Nothing, actorVars, clientVars
    <2> QED
      BY <2>1, <2>2, <2>3 DEF Talking
  <1>8. CASE HandlerReturns
    BY <1>8 DEF Talking, HandlerReturns, actorVars, clientVars
  <1>9. CASE TaskEnds
    BY <1>9 DEF Talking, TaskEnds, Nothing, actorVars, clientVars
  <1>10. CASE Receive \/ CancelReceive \/ Fetch \/ UNCHANGED vars
    BY <1>10 DEF Talking, Receive, CancelReceive, Fetch, vars, actorVars, pythonVars, clientVars
  <1>11. CASE Deliver
    BY <1>11 DEF Talking, Deliver, actorVars, clientVars
  <1> QED
    BY <1>1, <1>2, <1>3, <1>4, <1>5, <1>6, <1>7, <1>8, <1>9, <1>10, <1>11
       DEF Next, Handler, Resume

\* What the actor writes to the client: nothing, the close that ends it, or the mail.
WireGrows ==
  \/ wire' = wire /\ (actor' = "running" => actor = "running")
  \/ /\ actor = "running" /\ actor' # "running"
     /\ \E code \in Nat : wire' = Append(wire, Disconnect(code))

LEMMA ActorWires ==
  ASSUME Typed, (ClientFrame \/ ActorStep) /\ ~HandleMail
  PROVE  WireGrows /\ (reply' = "ok" <=> reply = "ok")
  <1>1. CASE DataFrame
    BY <1>1 DEF DataFrame, WireGrows
  <1>2. ASSUME NEW code \in ClientCodes, CloseFrame(code)
        PROVE  WireGrows /\ (reply' = "ok" <=> reply = "ok")
    BY <1>2, CodesAreNumbers DEF CloseFrame, WireGrows
  <1>3. CASE Fragment \/ KeepAlive \/ ProtocolError \/ EndOfStream \/ Heartbeat \/ Stopped \/ MailClosed
    BY <1>3 DEF Fragment, KeepAlive, ProtocolError, EndOfStream, Heartbeat, Stopped, MailClosed, actorVars, clientVars,
                WireGrows
  <1> QED
    BY <1>1, <1>2, <1>3 DEF ClientFrame, ActorStep

LEMMA WrittenInv ==
  ASSUME Typed, Talking, Written, [Next]_vars
  PROVE  Written'
  <1>0. PICK n \in Nat : /\ Shaped(wire, n) /\ n >= Len(wire) - 1
                         /\ actor = "running" => n = Len(wire)
    BY DEF Written
  <1>1. wire \in Seq(Message) /\ Len(wire) \in Nat /\ n <= Len(wire)
    BY <1>0, ShapedData DEF Typed
  <1> DEFINE Owed == IF mail.kind = "data" /\ reply = "ok" THEN Append(sent, mail.arg) ELSE sent
  <1>2. DataIn(wire) = Owed
    BY DEF Written
  <1>3. ASSUME NEW k \in Nat, Shaped(wire', k), k >= Len(wire') - 1,
               actor' = "running" => k = Len(wire'), DataIn(wire') = Owed'
        PROVE  Written'
    BY <1>3 DEF Written
  <1>4. ASSUME UNCHANGED wire, actor' = "running" => actor = "running", Owed' = Owed
        PROVE  Written'
    BY <1>0, <1>2, <1>3, <1>4
  <1>5. ASSUME actor = "running", actor' # "running", NEW m \in Message, m.kind = "disconnect",
               wire' = Append(wire, m), Owed' = Owed
        PROVE  Written'
    <2>1. Shaped(wire', n) /\ DataIn(wire') = DataIn(wire)
      BY <1>0, <1>1, <1>5, DisconnectBehind
    <2>2. Len(wire') = Len(wire) + 1
      BY <1>1, <1>5, Behind
    <2> QED
      BY <1>0, <1>1, <1>2, <1>3, <1>5, <2>1, <2>2
  <1>6. CASE HandleMail
    <2>1. UNCHANGED <<mail, sent>> /\ reply = "waiting" /\ reply' = "ok" /\ actor = "running"
      BY <1>6, ActorLeaves DEF HandleMail, ActorStep, pythonVars, clientVars
    <2>2. CASE mail.kind = "disconnect"
      <3>1. mail \in Message /\ wire' = Append(wire, mail) /\ actor' # "running"
        BY <1>6, <2>2 DEF HandleMail, Typed, Message
      <3> QED
        BY <1>5, <2>1, <2>2, <3>1
    <2>3. CASE mail.kind = "data"
      <3>1. mail \in Message /\ actor' = "running"
        BY <1>6, <2>1, <2>3 DEF HandleMail, Typed, Message
      <3>2. wire' = Append(wire, mail)
        BY <1>6, <2>3, Zenon DEF HandleMail, Talking
      <3>3. n = Len(wire)
        BY <1>0, <2>1
      <3>4. Shaped(wire', Len(wire) + 1) /\ DataIn(wire') = Append(DataIn(wire), mail.arg)
        BY <1>0, <1>1, <2>3, <3>1, <3>2, <3>3, DataBehind
      <3>5. Len(wire') = Len(wire) + 1
        BY <1>1, <3>1, <3>2, Behind
      <3>6. Owed = sent /\ Owed' = Append(sent, mail.arg)
        BY <2>1, <2>3
      <3> QED
        BY <1>1, <1>2, <1>3, <3>4, <3>5, <3>6
    <2>4. CASE mail.kind \notin {"data", "disconnect"}
      <3>1. wire' = wire /\ actor' = actor /\ Owed = sent /\ Owed' = sent
        BY <1>6, <2>1, <2>4 DEF HandleMail
      <3> QED
        BY <1>4, <3>1
    <2> QED
      BY <2>2, <2>3, <2>4
  <1>7. CASE (ClientFrame \/ ActorStep) /\ ~HandleMail
    <2>1. UNCHANGED <<mail, sent>>
      BY <1>7, ActorLeaves DEF pythonVars, clientVars
    <2>2. WireGrows /\ (reply' = "ok" <=> reply = "ok")
      BY <1>7, ActorWires
    <2>3. Owed' = Owed
      BY <2>1, <2>2
    <2>4. ASSUME NEW code \in Nat, actor = "running", actor' # "running",
                 wire' = Append(wire, Disconnect(code))
          PROVE  Written'
      BY <1>5, <2>3, <2>4, Kinds
    <2> QED
      BY <1>4, <2>2, <2>3, <2>4 DEF WireGrows
  <1>8. CASE Accept \/ Send \/ (\E code \in ServerCodes : Close(code)) \/ HandlerRaises
    <2>1. /\ UNCHANGED <<wire, actor, sent>> /\ reply = "none" /\ reply' = "waiting"
      BY <1>8 DEF Accept, Send, Close, Post, HandlerRaises, actorVars, pythonVars, clientVars
    <2> QED
      BY <1>4, <2>1
  <1>9. CASE Return
    <2>1. UNCHANGED <<wire, actor>> /\ reply' = "none" /\ sent' = Owed
      BY <1>9 DEF Return, actorVars, clientVars
    <2> QED
      BY <1>4, <2>1
  <1>10. CASE TaskEnds
    <2>1. UNCHANGED <<wire, actor, sent>> /\ reply' = "none" /\ mail.kind = "disconnect"
      BY <1>10 DEF TaskEnds, Talking, actorVars, clientVars
    <2> QED
      BY <1>4, <2>1
  <1>11. CASE HandlerReturns \/ Receive \/ CancelReceive \/ Fetch \/ Deliver \/ UNCHANGED vars
    <2>1. UNCHANGED <<wire, actor, sent, mail, reply>>
      BY <1>11 DEF HandlerReturns, Receive, CancelReceive, Fetch, Deliver, vars, actorVars, pythonVars, clientVars
    <2> QED
      BY <1>4, <2>1
  <1> QED
    BY <1>6, <1>7, <1>8, <1>9, <1>10, <1>11 DEF Next, Handler, Resume

LEMMA WrittenIsSent ==
  ASSUME Typed, Written
  PROVE  SentIsWritten
  <1>1. PICK n \in Nat : Shaped(wire, n) /\ n >= Len(wire) - 1
    BY DEF Written
  <1>2. DOMAIN wire = 1..Len(wire) /\ Len(wire) \in Nat
    BY LenProperties DEF Typed
  <1>3. \A i \in DOMAIN wire : wire[i].kind = "disconnect" => i = Len(wire)
    BY <1>1, <1>2 DEF Shaped
  <1> QED
    BY <1>3 DEF Written, SentIsWritten
-----------------------------------------------------------------------------
(***************************************************************************)
(* The code of the disconnect.                                             *)
(***************************************************************************)
LEMMA NoDisconnectYet ==
  ASSUME Typed, Ordered, actor = "running"
  PROVE  ~HoldsDisconnect /\ \A i \in DOMAIN chan : ~DisconnectAt(i)
  <1>1. Shaped(chan, Len(chan)) /\ DOMAIN chan = 1..Len(chan)
    BY LenProperties DEF Ordered, Typed
  <1> QED
    BY <1>1 DEF Ordered, Shaped, DisconnectAt

\* What the actor does to the codes: nothing, or the end of the connection.
CodesKept ==
  /\ UNCHANGED <<actor, cause, closeCode>>
  /\ dropped => dropped'
  /\ actor = "running" \/ chan' = chan

ConnectionEnds ==
  /\ actor = "running" /\ actor' = "stopping"
  /\ cause' \in Nat /\ cause' # NoCode
  /\ chan' = chan \/ chan' = Append(chan, Disconnect(cause'))
  /\ \/ closeCode' = cause'
     \/ /\ closeCode' = closeCode
        /\ cause' = 1000 \/ dropped' \/ chan' = Append(chan, Disconnect(cause'))

LEMMA ActorCodes ==
  ASSUME Typed, Talking, ClientFrame \/ ActorStep, ~Stopped
  PROVE  CodesKept \/ ConnectionEnds
  <1>1. CASE DataFrame
    <2>1. CASE Fits
      BY <1>1, <2>1 DEF DataFrame, CodesKept
    <2>2. CASE ~Fits
      BY <1>1, <2>2 DEF DataFrame, ConnectionEnds, NoCode
    <2> QED
      BY <2>1, <2>2
  <1>2. CASE Fragment \/ KeepAlive \/ MailClosed
    BY <1>2 DEF Fragment, KeepAlive, MailClosed, CodesKept, actorVars, clientVars
  <1>3. ASSUME NEW code \in Nat \ {0}, actor = "running", actor' = "stopping", cause' = code,
               TryDisconnect(code), closeCode' = code \/ closeCode' = closeCode
        PROVE  ConnectionEnds
    <2>1. chan' = Append(chan, Disconnect(code)) \/ (chan' = chan /\ dropped')
      BY <1>3, Tried
    <2> QED
      BY <1>3, <2>1 DEF ConnectionEnds, NoCode
  <1>4. ASSUME NEW code \in ClientCodes, CloseFrame(code) PROVE ConnectionEnds
    BY <1>3, <1>4, CodesAreNumbers DEF CloseFrame
  <1>5. CASE ProtocolError
    BY <1>3, <1>5 DEF ProtocolError
  <1>6. CASE EndOfStream
    BY <1>6 DEF EndOfStream, ConnectionEnds, NoCode
  <1>7. CASE Heartbeat
    <2>1. CASE silent + 1 > TimeoutTicks
      BY <1>3, <1>7, <2>1 DEF Heartbeat
    <2>2. CASE ~(silent + 1 > TimeoutTicks)
      BY <1>7, <2>2 DEF Heartbeat, CodesKept
    <2> QED
      BY <2>1, <2>2
  <1>8. CASE HandleMail
    <2>1. CASE mail.kind = "disconnect"
      BY <1>8, <2>1 DEF HandleMail, ConnectionEnds, Talking, Typed
    <2>2. CASE mail.kind # "disconnect"
      BY <1>8, <2>2 DEF HandleMail, CodesKept
    <2> QED
      BY <2>1, <2>2
  <1> QED
    BY <1>1, <1>2, <1>4, <1>5, <1>6, <1>7, <1>8 DEF ClientFrame, ActorStep

\* A disconnect joins the channel behind those already there.
LEMMA DisconnectJoins ==
  ASSUME Typed, NEW code \in Nat, chan' = Append(chan, Disconnect(code))
  PROVE  /\ \A i \in DOMAIN chan : i \in DOMAIN chan' /\ chan'[i] = chan[i]
         /\ \A j \in DOMAIN chan' : j \in DOMAIN chan \/ (j = Len(chan) + 1 /\ chan'[j] = Disconnect(code))
         /\ \A i \in DOMAIN chan : i \in 1..Len(chan)
         /\ Len(chan) \in Nat /\ Len(chan) + 1 \in DOMAIN chan' /\ chan'[Len(chan) + 1] = Disconnect(code)
  <1>1. chan \in Seq(Message) /\ Disconnect(code) \in Message
    BY Kinds DEF Typed
  <1>2. Len(chan) \in Nat /\ DOMAIN chan = 1..Len(chan)
    BY <1>1, LenProperties
  <1>3. /\ DOMAIN chan' = 1..(Len(chan) + 1)
        /\ \A i \in 1..Len(chan) : chan'[i] = chan[i]
        /\ chan'[Len(chan) + 1] = Disconnect(code)
    BY <1>1, Behind
  <1> QED
    BY <1>2, <1>3

LEMMA CodesStep ==
  ASSUME WsInv, [Next]_vars
  PROVE  CodesInv'
  <1> USE DEF WsInv
  <1>0. Typed' /\ Receiving' /\ Ordered'
    BY ActorTyped, HandlerTyped, ReceivingInv, OrderedInv DEF Next, Typed, vars, actorVars, pythonVars, recvVars, clientVars
  <1>1. ASSUME ClientFrame \/ ActorStep
        PROVE  /\ HoldsDisconnect' = HoldsDisconnect /\ Ended' = Ended
               /\ UNCHANGED <<held, seen, cancels, rxOpen>>
    <2>1. UNCHANGED <<pythonVars, recvVars>>
      BY <1>1, ActorLeaves
    <2>2. UNCHANGED <<held, seen, cancels, rxOpen, isAccepted, state, recv>>
      BY <2>1 DEF pythonVars, recvVars, clientVars
    <2> QED
      BY <2>2 DEF HoldsDisconnect, Ended
  <1>2. CASE (ClientFrame \/ ActorStep) /\ ~Stopped /\ CodesKept
    <2>1. CASE actor = "running"
      <3>1. ~HoldsDisconnect' /\ \A i \in DOMAIN chan' : ~DisconnectAt(i)'
        <4>1. actor' = "running"
          BY <1>2, <2>1 DEF CodesKept
        <4>2. Shaped(chan', Len(chan')) /\ DOMAIN chan' = 1..Len(chan')
          BY <1>0, <4>1, LenProperties DEF Ordered, Typed
        <4> QED
          BY <1>0, <4>1, <4>2 DEF Ordered, Shaped, DisconnectAt
      <3> QED
        BY <1>1, <1>2, <2>1, <3>1 DEF CodesInv, CodesKept, CodeIsTheCause
    <2>2. CASE actor # "running"
      <3>1. chan' = chan /\ (Missed => Missed')
        BY <1>1, <1>2, <2>2 DEF CodesKept, Missed
      <3>2. \A i : DisconnectAt(i)' = DisconnectAt(i)
        BY <3>1 DEF DisconnectAt
      <3>3. Noticed => Noticed'
        BY <1>1, <1>2, <3>1, <3>2 DEF Noticed
      <3> QED
        BY <1>1, <1>2, <2>2, <3>1, <3>2, <3>3 DEF CodesInv, CodesKept, CodeIsTheCause, Missed
    <2> QED
      BY <2>1, <2>2
  <1>3. CASE (ClientFrame \/ ActorStep) /\ ~Stopped /\ ConnectionEnds
    <2>1. ~HoldsDisconnect /\ \A i \in DOMAIN chan : ~DisconnectAt(i)
      BY <1>3, NoDisconnectYet DEF ConnectionEnds
    <2>2. seen' = NoCode /\ closeCode = NoCode
      BY <1>1, <1>3 DEF ConnectionEnds, CodesInv
    <2>3. CASE chan' = chan
      <3>1. \A i : DisconnectAt(i)' = DisconnectAt(i)
        BY <2>3 DEF DisconnectAt
      <3>2. chan' # Append(chan, Disconnect(cause'))
        <4>1. cause' \in Nat
          BY <1>3 DEF ConnectionEnds
        <4> QED
          BY <2>3, <4>1, Behind, Kinds, LenProperties DEF Typed
      <3> QED
        BY <1>1, <1>3, <2>1, <2>2, <2>3, <3>1, <3>2
           DEF CodesInv, ConnectionEnds, CodeIsTheCause, Noticed, Missed
    <2>4. CASE chan' = Append(chan, Disconnect(cause'))
      <3>1. /\ \A i \in DOMAIN chan : i \in DOMAIN chan' /\ chan'[i] = chan[i]
            /\ \A j \in DOMAIN chan' : j \in DOMAIN chan \/ (j = Len(chan) + 1 /\ chan'[j] = Disconnect(cause'))
            /\ Len(chan) + 1 \in DOMAIN chan' /\ chan'[Len(chan) + 1] = Disconnect(cause')
        BY <1>3, <2>4, DisconnectJoins DEF ConnectionEnds
      <3>2. Disconnect(cause').kind = "disconnect" /\ Disconnect(cause').arg = cause'
        BY <1>3, Kinds DEF ConnectionEnds
      <3>3. \A j \in DOMAIN chan' : DisconnectAt(j)' => chan'[j].arg = cause'
        BY <2>1, <3>1, <3>2 DEF DisconnectAt
      <3>4. Noticed'
        BY <3>1, <3>2 DEF Noticed, DisconnectAt
      <3> QED
        BY <1>1, <1>3, <2>1, <2>2, <3>3, <3>4 DEF CodesInv, ConnectionEnds, CodeIsTheCause
    <2> QED
      BY <1>3, <2>3, <2>4 DEF ConnectionEnds
  <1>4. CASE Stopped
    <2>1. /\ actor = "stopping" /\ actor' = "stopped" /\ TryDisconnect(FinalCode) /\ FinalCode \in Nat
          /\ UNCHANGED <<cause, closeCode>>
      BY <1>4 DEF Stopped, FinalCode, Typed
    <2>2. (dropped => dropped') /\ (Missed => Missed')
      BY <1>1, <1>4, <2>1, Tried DEF Missed, ActorStep
    <2>3. CASE chan' = chan /\ (rxOpen => dropped')
      <3>1. \A i : DisconnectAt(i)' = DisconnectAt(i)
        BY <2>3 DEF DisconnectAt
      <3>2. Noticed'
        BY <1>1, <1>4, <2>3 DEF Noticed, Missed, ActorStep
      <3> QED
        BY <1>1, <1>4, <2>1, <2>2, <2>3, <3>1, <3>2 DEF CodesInv, CodeIsTheCause, ActorStep, Missed
    <2>4. CASE chan' = Append(chan, Disconnect(FinalCode))
      <3> DEFINE n == Len(chan) + 1
      <3>1. /\ \A i \in DOMAIN chan : i \in DOMAIN chan' /\ chan'[i] = chan[i]
            /\ \A j \in DOMAIN chan' : j \in DOMAIN chan \/ (j = n /\ chan'[j] = Disconnect(FinalCode))
            /\ \A i \in DOMAIN chan : i \in 1..(n - 1)
            /\ n \in DOMAIN chan' /\ chan'[n] = Disconnect(FinalCode)
        BY <2>1, <2>4, DisconnectJoins
      <3>2. Disconnect(FinalCode).kind = "disconnect" /\ Disconnect(FinalCode).arg = FinalCode
        BY <2>1, Kinds
      <3> HIDE DEF n
      <3>3. Noticed'
        BY <3>1, <3>2 DEF Noticed, DisconnectAt
      <3>4. rxOpen
        <4>1. ~Fits => chan' = chan
          BY <2>1 DEF TryDisconnect
        <4>2. chan' # chan
          BY <2>1, <2>4, Behind, Kinds, LenProperties DEF Typed
        <4> QED
          BY <4>1, <4>2 DEF Fits
      <3>5. \/ FinalCode = cause
            \/ FinalCode = 1000 /\ (Missed \/ HoldsDisconnect \/ Ended \/ \E i \in DOMAIN chan : DisconnectAt(i))
        BY <2>1, <3>4 DEF CodesInv, FinalCode, Noticed
      <3>6. \A j \in DOMAIN chan : DisconnectAt(j)' = DisconnectAt(j)
        BY <3>1 DEF DisconnectAt
      <3>7. ASSUME NEW j \in DOMAIN chan', DisconnectAt(j)'
            PROVE  \/ chan'[j].arg = cause'
                   \/ /\ chan'[j].arg = 1000
                      /\ Missed' \/ HoldsDisconnect' \/ Ended' \/ \E i \in 1..(j - 1) : DisconnectAt(i)'
        <4>1. CASE j = n
          <5>1. chan'[j].arg = FinalCode
            BY <3>1, <3>2, <4>1
          <5>2. (\E i \in DOMAIN chan : DisconnectAt(i)) => \E i \in 1..(j - 1) : DisconnectAt(i)'
            BY <3>1, <3>6, <4>1
          <5> QED
            BY <1>1, <1>4, <2>1, <2>2, <3>5, <5>1, <5>2 DEF ActorStep
        <4>2. CASE j \in DOMAIN chan
          <5>1. DisconnectAt(j) /\ chan'[j] = chan[j]
            BY <3>1, <3>6, <3>7, <4>2
          <5>2. \A i \in 1..(j - 1) : DisconnectAt(i) => DisconnectAt(i)'
            BY <3>6 DEF DisconnectAt
          <5> QED
            BY <1>1, <1>4, <2>1, <2>2, <4>2, <5>1, <5>2 DEF CodesInv, ActorStep
        <4> QED
          BY <3>1, <4>1, <4>2
      <3> QED
        BY <1>1, <1>4, <2>1, <2>2, <3>3, <3>7 DEF CodesInv, CodeIsTheCause, ActorStep, Missed
    <2> QED
      BY <2>1, <2>3, <2>4, Tried
  <1>5. CASE Fetch
    <2>1. /\ UNCHANGED <<actor, cause, closeCode, seen, dropped, cancels, rxOpen, isAccepted, state>>
          /\ recv = "waiting" /\ recv' = "holding"
      BY <1>5 DEF Fetch, actorVars, pythonVars, clientVars
    <2>2. ~HoldsDisconnect /\ ~Ended /\ rxOpen /\ Missed' = Missed
      BY <2>1, Kinds DEF Receiving, HoldsDisconnect, Ended, Missed
    <2>3. seen = NoCode
      BY <2>2 DEF CodesInv
    <2>4. ASSUME HoldsDisconnect' => held'.arg = cause \/ (held'.arg = 1000 /\ Missed),
                 Noticed => Noticed',
                 \A j \in DOMAIN chan' : DisconnectAt(j)' =>
                   \/ chan'[j].arg = cause
                   \/ /\ chan'[j].arg = 1000
                      /\ Missed \/ HoldsDisconnect' \/ Ended' \/ \E i \in 1..(j - 1) : DisconnectAt(i)'
          PROVE  CodesInv'
      BY <2>1, <2>2, <2>3, <2>4 DEF CodesInv, CodeIsTheCause
    <2>5. CASE chan # <<>> /\ held' = Head(chan) /\ chan' = Tail(chan)
      <3>1. /\ held' = chan[1] /\ Len(chan) \in Nat \ {0} /\ DOMAIN chan = 1..Len(chan)
            /\ DOMAIN chan' = 1..(Len(chan) - 1)
            /\ \A i \in 1..(Len(chan) - 1) : chan'[i] = chan[i + 1]
        BY <2>5, Ahead DEF Typed
      <3>2. HoldsDisconnect' = DisconnectAt(1)
        BY <3>1 DEF HoldsDisconnect, DisconnectAt
      <3>3. \A i \in Nat \ {0} : DisconnectAt(i)' = DisconnectAt(i + 1)
        BY <3>1 DEF DisconnectAt
      <3>4. \A i \in Nat \ {0} : DisconnectAt(i) => HoldsDisconnect' \/ (i - 1 \in Nat \ {0} /\ DisconnectAt(i - 1)')
        BY <3>2, <3>3
      <3>5. HoldsDisconnect' => held'.arg = cause \/ (held'.arg = 1000 /\ Missed)
        <4>1. 1 \in DOMAIN chan /\ \A i \in 1..(1 - 1) : FALSE
          BY <3>1
        <4> QED
          BY <2>2, <3>1, <3>2, <4>1 DEF CodesInv
      <3>6. Noticed => Noticed'
        <4>1. ASSUME NEW i \in DOMAIN chan, DisconnectAt(i) PROVE Noticed'
          <5>1. i \in Nat \ {0}
            BY <3>1
          <5> QED
            BY <3>4, <4>1, <5>1 DEF Noticed, DisconnectAt
        <4> QED
          BY <2>1, <2>2, <4>1 DEF Noticed
      <3>7. ASSUME NEW j \in DOMAIN chan', DisconnectAt(j)'
            PROVE  \/ chan'[j].arg = cause
                   \/ /\ chan'[j].arg = 1000
                      /\ Missed \/ HoldsDisconnect' \/ Ended' \/ \E i \in 1..(j - 1) : DisconnectAt(i)'
        <4>1. j \in Nat \ {0} /\ j + 1 \in DOMAIN chan /\ DisconnectAt(j + 1) /\ chan'[j] = chan[j + 1]
          <5>1. j \in 1..(Len(chan) - 1)
            BY <3>1
          <5>2. j \in Nat \ {0} /\ j + 1 \in 1..Len(chan)
            BY <3>1, <5>1
          <5> QED
            BY <3>1, <3>3, <3>7, <5>1, <5>2
        <4>2. ASSUME NEW i \in 1..((j + 1) - 1), DisconnectAt(i)
              PROVE  HoldsDisconnect' \/ \E k \in 1..(j - 1) : DisconnectAt(k)'
          <5>1. i \in Nat \ {0} /\ (i - 1 \in Nat \ {0} => i - 1 \in 1..(j - 1))
            BY <4>1
          <5> QED
            BY <3>4, <4>2, <5>1
        <4> QED
          BY <2>2, <4>1, <4>2 DEF CodesInv
      <3> QED
        BY <2>4, <3>5, <3>6, <3>7
    <2>6. CASE chan = <<>> /\ actor = "stopped" /\ held' = Disconnect(1000) /\ UNCHANGED chan
      <3>1. Missed
        BY <2>2, <2>6 DEF CodesInv, Noticed
      <3>2. held'.arg = 1000 /\ Noticed' /\ \A j \in DOMAIN chan' : FALSE
        BY <2>2, <2>6, <3>1 DEF Disconnect, Noticed
      <3> QED
        BY <2>4, <3>1, <3>2
    <2> QED
      BY <1>5, <2>5, <2>6 DEF Fetch
  <1>6. CASE Deliver
    <2>1. /\ UNCHANGED <<actor, cause, closeCode, dropped, cancels, rxOpen, isAccepted, chan>>
          /\ recv = "holding" /\ recv' = "idle" /\ held' = Nothing /\ isAccepted
      BY <1>6 DEF Deliver, actorVars, clientVars, Receiving
    <2>2. ~HoldsDisconnect' /\ ~Ended /\ Missed' = Missed /\ \A i : DisconnectAt(i)' = DisconnectAt(i)
      BY <2>1, Kinds DEF HoldsDisconnect, Ended, Missed, DisconnectAt
    <2>3. seen = NoCode
      BY <2>2 DEF CodesInv
    <2>4. CASE HoldsDisconnect
      <3>1. Ended' /\ seen' = held.arg /\ Noticed'
        BY <1>6, <2>1, <2>4 DEF Deliver, Ended, Noticed, HoldsDisconnect
      <3>2. actor # "running"
        BY <2>4 DEF Ordered
      <3> QED
        BY <2>1, <2>2, <2>4, <3>1, <3>2 DEF CodesInv, CodeIsTheCause, Missed
    <2>5. CASE ~HoldsDisconnect
      <3>1. seen' = NoCode
        BY <1>6, <2>1, <2>3, <2>5, Kinds DEF Deliver, HoldsDisconnect, Receiving, Typed
      <3>2. Noticed => Noticed'
        BY <2>1, <2>2, <2>5 DEF Noticed
      <3> QED
        BY <2>1, <2>2, <2>5, <3>1, <3>2 DEF CodesInv, CodeIsTheCause
    <2> QED
      BY <2>4, <2>5
  <1>7. CASE CancelReceive
    <2>1. /\ UNCHANGED <<actor, cause, closeCode, seen, chan>> /\ recv # "idle" /\ held' = Nothing
          /\ cancels' > 0
      BY <1>7 DEF CancelReceive, actorVars, clientVars, Typed
    <2>2. Missed' /\ Noticed' /\ ~HoldsDisconnect' /\ ~Ended /\ \A i : DisconnectAt(i)' = DisconnectAt(i)
      BY <2>1, Kinds DEF Missed, Noticed, HoldsDisconnect, Ended, DisconnectAt
    <2> QED
      BY <2>1, <2>2 DEF CodesInv, CodeIsTheCause
  <1>8. CASE HandlerReturns \/ TaskEnds
    <2>1. /\ UNCHANGED <<actor, cause, closeCode, seen, dropped, cancels, isAccepted, state, recv, held>>
          /\ ~rxOpen' /\ chan' = <<>>
      BY <1>8 DEF HandlerReturns, TaskEnds, actorVars, recvVars, clientVars
    <2>2. Noticed' /\ Missed' = Missed /\ Ended' = Ended /\ HoldsDisconnect' = HoldsDisconnect
      BY <2>1 DEF Noticed, Missed, Ended, HoldsDisconnect
    <2>3. \A j \in DOMAIN chan' : FALSE
      BY <2>1
    <2> QED
      BY <2>1, <2>2, <2>3 DEF CodesInv, CodeIsTheCause
  <1>9. CASE Receive \/ Accept \/ Send \/ (\E code \in ServerCodes : Close(code)) \/ HandlerRaises
             \/ Return \/ UNCHANGED vars
    <2>1. UNCHANGED <<actor, cause, closeCode, seen, dropped, cancels, rxOpen, held, chan>>
      BY <1>9 DEF Receive, Accept, Send, Close, Post, HandlerRaises, Return, vars, actorVars, clientVars,
                  pythonVars, recvVars, clientVars
    <2>2. /\ HoldsDisconnect' = HoldsDisconnect /\ Missed' = Missed
          /\ \A i : DisconnectAt(i)' = DisconnectAt(i)
      BY <2>1 DEF HoldsDisconnect, Missed, DisconnectAt
    <2>3. Ended => Ended'
      <3>1. CASE Return
        <4>1. (isAccepted => isAccepted') /\ recv' = recv
          BY <3>1, Zenon DEF Return, recvVars, clientVars
        <4>2. isAccepted /\ state = "disconnected" => state' = "disconnected"
          BY <3>1 DEF Return, Talking
        <4> QED
          BY <4>1, <4>2 DEF Ended
      <3>2. CASE Receive
        BY <3>2 DEF Receive, Ended
      <3>3. CASE Accept \/ Send \/ (\E code \in ServerCodes : Close(code)) \/ HandlerRaises
                 \/ UNCHANGED vars
        BY <3>3 DEF Accept, Send, Close, Post, HandlerRaises, vars, pythonVars, recvVars, clientVars, Ended
      <3> QED
        BY <1>9, <3>1, <3>2, <3>3
    <2>4. Noticed => Noticed'
      BY <2>1, <2>2, <2>3 DEF Noticed
    <2> QED
      BY <2>1, <2>2, <2>3, <2>4 DEF CodesInv, CodeIsTheCause
  <1> QED
    BY <1>2, <1>3, <1>4, <1>5, <1>6, <1>7, <1>8, <1>9, ActorCodes DEF Next, Handler, Resume
-----------------------------------------------------------------------------
(***************************************************************************)
(* What the handler has yet to receive.                                    *)
(***************************************************************************)
LEMMA OneMessage ==
  ASSUME NEW m, m.arg \in Nat
  PROVE  DataIn(<<m>>) = IF m.kind = "data" THEN <<m.arg>> ELSE <<>>
  <1> DEFINE n == IF m.kind = "data" THEN 1 ELSE 0
             t == IF m.kind = "data" THEN <<m.arg>> ELSE <<>>
  <1>1. Lead(<<m>>) = 1..n /\ n \in Nat
    <2>1. DOMAIN <<m>> = {1} /\ <<m>>[1] = m
      OBVIOUS
    <2>2. CASE m.kind = "data"
      BY <2>1, <2>2 DEF Lead
    <2>3. CASE m.kind # "data"
      BY <2>1, <2>3 DEF Lead
    <2> QED
      BY <2>2, <2>3
  <1>2. t \in Seq(Nat) /\ Len(t) = n /\ \A i \in 1..n : t[i] = m.arg
    BY EmptySeq
  <1> HIDE DEF n, t
  <1>3. \A i \in 1..n : <<m>>[i] = m
    BY DEF n
  <1>4. DataIn(<<m>>) \in [1..n -> Nat] /\ \A i \in 1..n : DataIn(<<m>>)[i] = m.arg
    BY <1>1, <1>3 DEF DataIn
  <1>5. DataIn(<<m>>) \in Seq(Nat)
    BY <1>1, <1>4, SeqDef
  <1>6. DOMAIN DataIn(<<m>>) = 1..Len(DataIn(<<m>>)) /\ Len(DataIn(<<m>>)) \in Nat
    BY <1>5, LenProperties
  <1>7. Len(DataIn(<<m>>)) = n
    BY <1>1, <1>4, <1>6
  <1> QED
    BY <1>2, <1>4, <1>5, <1>7, SameData DEF t

LEMMA FirstOf ==
  ASSUME NEW x \in Nat, NEW s \in Seq(Nat)
  PROVE  <<x>> \o s # <<>> /\ Head(<<x>> \o s) = x /\ Tail(<<x>> \o s) = s
  <1> DEFINE t == <<x>> \o s
  <1>1. <<x>> \in Seq(Nat) /\ Len(<<x>>) = 1 /\ <<x>>[1] = x
    OBVIOUS
  <1>2. /\ t \in Seq(Nat) /\ Len(t) = Len(<<x>>) + Len(s)
        /\ \A i \in 1..(Len(<<x>>) + Len(s)) : t[i] = IF i <= Len(<<x>>) THEN <<x>>[i] ELSE s[i - Len(<<x>>)]
    BY <1>1, ConcatProperties
  <1> HIDE DEF t
  <1>3. Len(s) \in Nat
    BY LenProperties
  <1>4. /\ Len(t) = 1 + Len(s) /\ t[1] = x /\ \A i \in 1..Len(s) : t[i + 1] = s[i]
    BY <1>1, <1>2, <1>3
  <1>5. t # <<>>
    BY <1>2, <1>3, <1>4, EmptySeq
  <1>6. Head(t) = t[1]
    OBVIOUS
  <1>7. Tail(t) \in Seq(Nat) /\ Len(Tail(t)) = Len(t) - 1 /\ \A i \in 1..Len(Tail(t)) : Tail(t)[i] = t[i + 1]
    BY <1>2, <1>5, HeadTailProperties
  <1>8. Len(Tail(t)) = Len(s) /\ \A i \in 1..Len(s) : Tail(t)[i] = s[i]
    BY <1>3, <1>4, <1>7
  <1>9. Tail(t) = s
    BY <1>7, <1>8, SameData
  <1> QED
    BY <1>4, <1>5, <1>6, <1>9 DEF t

LEMMA LastOf ==
  ASSUME NEW s \in Seq(Nat), NEW t \in Seq(Nat), NEW x \in Nat
  PROVE  s \o Append(t, x) = Append(s \o t, x)
  <1>1. <<x>> \in Seq(Nat) /\ s \o t \in Seq(Nat)
    BY ConcatProperties
  <1>2. Append(t, x) = t \o <<x>> /\ Append(s \o t, x) = (s \o t) \o <<x>>
    BY <1>1, AppendIsConcat
  <1> QED
    BY <1>1, <1>2, ConcatAssociative

\* What is left to receive of a message held and the channel behind it.
Left(h, c) == DataIn(<<h>>) \o DataIn(c)

LEMMA LeftParts ==
  ASSUME NEW c \in Seq(Message), NEW n \in Nat, Shaped(c, n), NEW h, h.arg \in Nat
  PROVE  /\ DataIn(c) \in Seq(Nat) /\ Left(h, c) \in Seq(Nat)
         /\ h.kind = "data" => Left(h, c) = <<h.arg>> \o DataIn(c)
         /\ h.kind # "data" => Left(h, c) = DataIn(c)
         /\ h.kind # "data" /\ n = 0 => Left(h, c) = <<>>
  <1>1. DataIn(c) \in Seq(Nat) /\ Len(DataIn(c)) = n
    BY ShapedData
  <1>2. DataIn(<<h>>) = IF h.kind = "data" THEN <<h.arg>> ELSE <<>>
    BY OneMessage
  <1>3. h.kind = "data" => Left(h, c) = <<h.arg>> \o DataIn(c)
    BY <1>2 DEF Left
  <1>4. h.kind # "data" => Left(h, c) = DataIn(c)
    BY <1>1, <1>2, ConcatEmptySeq DEF Left
  <1>5. n = 0 => DataIn(c) = <<>>
    BY <1>1, EmptySeq
  <1>6. <<h.arg>> \o DataIn(c) \in Seq(Nat)
    BY <1>1, ConcatProperties
  <1> QED
    BY <1>1, <1>3, <1>4, <1>5, <1>6

LEMMA PendingIsLeft == Pending = Left(held, chan) /\ Pending' = Left(held', chan')
  BY DEF Pending, Left

\* What a step does to the messages on their way.
Stays ==
  /\ UNCHANGED <<Pending, got, frames, fragmented, lost>> /\ cancels' \in Nat /\ cancels' >= cancels
  /\ rxOpen' => rxOpen

Takes ==
  /\ Pending' = Append(Pending, frames + 1) /\ frames' = frames + 1 /\ actor = "running"
  /\ UNCHANGED <<actor, got, lost, cancels, rxOpen, seen, fragmented>>

Ignores ==
  /\ frames' = frames + 1 /\ fragmented' = fragmented + 1 /\ actor = "running"
  /\ UNCHANGED <<Pending, actor, got, lost, cancels, rxOpen, seen>>

Delivers ==
  /\ Pending # <<>> /\ got' = Append(got, Head(Pending)) /\ Pending' = Tail(Pending)
  /\ UNCHANGED <<actor, frames, fragmented, lost, cancels, rxOpen, seen>>

Loses ==
  /\ Pending # <<>> /\ Pending' = Tail(Pending) /\ lost' = lost + 1 /\ cancels' = cancels + 1
  /\ UNCHANGED <<actor, got, frames, fragmented, rxOpen, seen>>

Abandons ==
  /\ Pending' = <<>> /\ ~rxOpen'
  /\ UNCHANGED <<actor, got, frames, fragmented, lost, cancels, seen>>

\* The end of the connection, or of no consequence to the session.
Closes == UNCHANGED seen /\ (actor' = "running" => actor = "running")

\* The disconnect is reported.
Notifies ==
  /\ actor # "running" /\ Pending = <<>> /\ seen = NoCode /\ seen' # NoCode
  /\ UNCHANGED actor

LEMMA PendingStep ==
  ASSUME Typed, Receiving, Ordered, CodesInv, [Next]_vars
  PROVE  (Stays /\ (Closes \/ Notifies)) \/ Takes \/ Ignores \/ Delivers \/ Loses \/ Abandons
  <1>0. PICK n \in Nat : /\ Shaped(chan, n)
                         /\ actor = "running" => n = Len(chan)
                         /\ HoldsDisconnect => n = 0
    BY DEF Ordered
  <1>1. /\ chan \in Seq(Message) /\ Len(chan) \in Nat /\ held.arg \in Nat
        /\ frames \in Nat /\ cancels \in Nat
    BY Kinds, LenProperties DEF Typed
  <1>2. /\ DataIn(chan) \in Seq(Nat) /\ Pending \in Seq(Nat)
        /\ held.kind = "data" => Pending = <<held.arg>> \o DataIn(chan)
        /\ held.kind # "data" => Pending = DataIn(chan)
        /\ held.kind # "data" /\ n = 0 => Pending = <<>>
    BY <1>0, <1>1, LeftParts, PendingIsLeft
  <1>3. recv # "holding" => held.kind = "none"
    BY Kinds DEF Receiving
  <1>4. ASSUME UNCHANGED <<held, chan, got, frames, fragmented, lost, cancels>>, rxOpen' => rxOpen PROVE Stays
    BY <1>1, <1>4, PendingIsLeft DEF Stays
  <1>5. CASE DataFrame /\ Fits
    <2>1. /\ chan' = Append(chan, Data(frames + 1)) /\ frames' = frames + 1 /\ actor = "running"
          /\ UNCHANGED <<actor, held, got, lost, cancels, rxOpen, seen, fragmented>>
      BY <1>5 DEF DataFrame, pythonVars, recvVars, clientVars
    <2>2. Data(frames + 1) \in Message /\ Data(frames + 1).kind = "data" /\ Data(frames + 1).arg = frames + 1
      BY <1>1, Kinds
    <2>3. Shaped(chan, Len(chan)) /\ chan' \in Seq(Message)
      BY <1>0, <1>1, <2>1, <2>2, Behind
    <2>4. Shaped(chan', Len(chan) + 1) /\ DataIn(chan') = Append(DataIn(chan), frames + 1)
      BY <1>1, <2>1, <2>2, <2>3, DataBehind
    <2>5. /\ held.kind = "data" => Pending' = <<held.arg>> \o DataIn(chan')
          /\ held.kind # "data" => Pending' = DataIn(chan')
      <3>1. Len(chan) + 1 \in Nat /\ Pending' = Left(held, chan')
        BY <1>1, <2>1, PendingIsLeft
      <3> QED
        BY <1>1, <2>3, <2>4, <3>1, LeftParts
    <2>6. <<held.arg>> \o Append(DataIn(chan), frames + 1) = Append(<<held.arg>> \o DataIn(chan), frames + 1)
      <3>1. <<held.arg>> \in Seq(Nat) /\ frames + 1 \in Nat
        BY <1>1
      <3> QED
        BY <1>2, <3>1, LastOf
    <2>7. Pending' = Append(Pending, frames + 1)
      BY <1>2, <2>4, <2>5, <2>6
    <2> QED
      BY <2>1, <2>7 DEF Takes
  <1>6. CASE (ClientFrame \/ ActorStep) /\ ~(DataFrame /\ Fits) /\ ~Fragment
    <2>1. UNCHANGED <<held, got, lost, cancels, rxOpen, seen>>
      BY <1>6, ActorLeaves DEF pythonVars, recvVars, clientVars
    <2>2. ASSUME chan' = chan, UNCHANGED clientVars, actor' = "running" => actor = "running"
          PROVE  Stays /\ Closes
      BY <1>4, <2>1, <2>2 DEF Closes, clientVars
    <2>3. ASSUME NEW code \in Nat, TryDisconnect(code), UNCHANGED clientVars, actor' # "running"
          PROVE  Stays /\ Closes
      <3>1. CASE chan' = chan
        BY <2>2, <2>3, <3>1
      <3>2. CASE chan' = Append(chan, Disconnect(code))
        <4>1. Disconnect(code) \in Message /\ Disconnect(code).kind # "data"
          BY Kinds
        <4>2. chan' \in Seq(Message) /\ Shaped(chan', n) /\ DataIn(chan') = DataIn(chan)
          BY <1>0, <1>1, <3>2, <4>1, Behind, DisconnectBehind
        <4>3. Pending' = Pending
          BY <2>1, <4>2, PendingIsLeft DEF Left
        <4> QED
          BY <1>1, <2>1, <2>3, <4>3 DEF Stays, Closes, clientVars
      <3> QED
        BY <2>3, <3>1, <3>2, Tried
    <2>4. CASE DataFrame \/ KeepAlive \/ EndOfStream \/ MailClosed \/ HandleMail
      BY <1>6, <2>2, <2>4 DEF DataFrame, KeepAlive, EndOfStream, MailClosed, HandleMail, actorVars, clientVars
    <2>5. ASSUME NEW code \in ClientCodes, CloseFrame(code) PROVE Stays /\ Closes
      BY <2>3, <2>5, CodesAreNumbers DEF CloseFrame
    <2>6. CASE ProtocolError
      BY <2>3, <2>6 DEF ProtocolError
    <2>7. CASE Heartbeat
      <3>1. CASE silent + 1 > TimeoutTicks
        BY <2>3, <2>7, <3>1 DEF Heartbeat
      <3>2. CASE ~(silent + 1 > TimeoutTicks)
        BY <2>2, <2>7, <3>2 DEF Heartbeat
      <3> QED
        BY <3>1, <3>2
    <2>8. CASE Stopped
      <3>1. FinalCode \in Nat
        BY DEF FinalCode, Typed
      <3> QED
        BY <2>3, <2>8, <3>1 DEF Stopped
    <2> QED
      BY <1>6, <2>4, <2>5, <2>6, <2>7, <2>8 DEF ClientFrame, ActorStep
  <1>7. CASE Fetch
    <2>1. /\ UNCHANGED <<actor, got, frames, fragmented, lost, cancels, rxOpen, seen>> /\ recv = "waiting"
      BY <1>7 DEF Fetch, actorVars, pythonVars, clientVars
    <2>2. Pending = DataIn(chan)
      BY <1>2, <1>3, <2>1
    <2>3. CASE chan # <<>> /\ held' = Head(chan) /\ chan' = Tail(chan)
      <3>1. held' \in Message /\ chan' \in Seq(Message) /\ held'.arg \in Nat
        BY <1>1, <2>3, Ahead, Kinds
      <3>2. ASSUME Head(chan).kind = "data" PROVE Pending' = Pending
        <4>1. n - 1 \in Nat /\ Shaped(chan', n - 1) /\ DataIn(chan) = <<held'.arg>> \o DataIn(chan')
          BY <1>0, <1>1, <2>3, <3>2, DataAhead
        <4>2. Left(held', chan') = <<held'.arg>> \o DataIn(chan')
          BY <2>3, <3>1, <3>2, <4>1, LeftParts
        <4> QED
          BY <2>2, <4>1, <4>2, PendingIsLeft
      <3>3. ASSUME Head(chan).kind # "data" PROVE Pending' = Pending
        <4>1. Shaped(chan', 0) /\ DataIn(chan) = <<>>
          BY <1>0, <1>1, <2>3, <3>3, DisconnectAhead
        <4>2. Left(held', chan') = <<>>
          BY <2>3, <3>1, <3>3, <4>1, LeftParts
        <4> QED
          BY <2>2, <4>1, <4>2, PendingIsLeft
      <3>4. Pending' = Pending
        BY <3>2, <3>3
      <3> QED
        BY <1>1, <2>1, <3>4 DEF Stays, Closes
    <2>4. CASE chan = <<>> /\ held' = Disconnect(1000) /\ UNCHANGED chan
      <3>1. held'.kind # "data" /\ held'.arg \in Nat
        BY <2>4, Kinds
      <3>2. Left(held', chan) = DataIn(chan)
        BY <1>0, <1>1, <3>1, LeftParts
      <3>3. Pending' = Pending
        BY <2>2, <2>4, <3>2, PendingIsLeft
      <3> QED
        BY <1>1, <2>1, <3>3 DEF Stays, Closes
    <2> QED
      BY <1>7, <2>3, <2>4 DEF Fetch
  <1>8. ASSUME held' = Nothing, chan' = chan PROVE Pending' = DataIn(chan)
    <2>1. held'.kind # "data" /\ held'.arg \in Nat
      BY <1>8, Kinds
    <2> QED
      BY <1>0, <1>1, <1>8, <2>1, LeftParts, PendingIsLeft
  <1>9. held.kind = "data" => Pending # <<>> /\ Head(Pending) = held.arg /\ Tail(Pending) = DataIn(chan)
    <2>1. held.arg \in Nat /\ DataIn(chan) \in Seq(Nat)
      BY <1>1, <1>2
    <2>2. /\ <<held.arg>> \o DataIn(chan) # <<>> /\ Head(<<held.arg>> \o DataIn(chan)) = held.arg
          /\ Tail(<<held.arg>> \o DataIn(chan)) = DataIn(chan)
      BY <2>1, FirstOf, Zenon
    <2> QED
      BY <1>2, <2>2, Zenon
  <1>10. CASE Deliver
    <2>1. /\ held' = Nothing /\ recv = "holding"
          /\ UNCHANGED <<actor, frames, fragmented, lost, cancels, rxOpen, chan>>
      BY <1>10 DEF Deliver, actorVars, clientVars
    <2>2. CASE held.kind = "data"
      <3>1. got' = Append(got, held.arg) /\ UNCHANGED seen
        BY <1>10, <2>2 DEF Deliver
      <3> QED
        BY <1>8, <1>9, <2>1, <2>2, <3>1 DEF Delivers
    <2>3. CASE held.kind # "data"
      <3>1. HoldsDisconnect /\ UNCHANGED got /\ seen' = held.arg
        BY <1>10, <2>1, <2>3, Kinds DEF Deliver, HoldsDisconnect, Receiving, Typed
      <3>2. actor # "running" /\ Pending = <<>> /\ Pending' = Pending
        BY <1>0, <1>2, <1>8, <2>1, <2>3, <3>1 DEF Ordered
      <3>3. seen = NoCode /\ seen' # NoCode
        BY <2>1, <3>1, <3>2 DEF CodesInv, Ended, NoCode
      <3> QED
        BY <1>1, <2>1, <3>1, <3>2, <3>3 DEF Stays, Notifies
    <2> QED
      BY <2>2, <2>3
  <1>11. CASE CancelReceive
    <2>1. /\ held' = Nothing /\ cancels' = cancels + 1 /\ lost' = IF held.kind = "data" THEN lost + 1 ELSE lost
          /\ UNCHANGED <<actor, got, frames, fragmented, rxOpen, seen, chan>>
      BY <1>11 DEF CancelReceive, actorVars, pythonVars, clientVars
    <2>2. CASE held.kind = "data"
      BY <1>8, <1>9, <2>1, <2>2 DEF Loses
    <2>3. CASE held.kind # "data"
      BY <1>1, <1>2, <1>8, <2>1, <2>3 DEF Stays, Closes
    <2> QED
      BY <2>2, <2>3
  <1>12. CASE HandlerReturns \/ TaskEnds
    <2>1. /\ recv # "holding" /\ chan' = <<>> /\ ~rxOpen'
          /\ UNCHANGED <<actor, held, got, frames, fragmented, lost, cancels, seen>>
      BY <1>12 DEF HandlerReturns, TaskEnds, Receiving, actorVars, recvVars, clientVars
    <2>2. Left(held', chan') = <<>>
      BY <1>1, <1>3, <2>1, LeftParts, NoMessages, EmptySeq
    <2> QED
      BY <2>1, <2>2, PendingIsLeft DEF Abandons
  <1>13. CASE Receive \/ Accept \/ Send \/ (\E code \in ServerCodes : Close(code)) \/ HandlerRaises
              \/ Return \/ UNCHANGED vars
    <2>1. UNCHANGED <<actor, held, chan, got, frames, fragmented, lost, cancels, rxOpen, seen>>
      BY <1>13 DEF Receive, Accept, Send, Close, Post, HandlerRaises, Return, vars, actorVars, clientVars,
                   pythonVars, recvVars, clientVars
    <2> QED
      BY <1>4, <2>1 DEF Closes
  <1>14. CASE Fragment
    <2>1. /\ frames' = frames + 1 /\ fragmented' = fragmented + 1 /\ actor = "running"
          /\ UNCHANGED <<actor, held, chan, got, lost, cancels, rxOpen, seen>>
      BY <1>14 DEF Fragment, actorVars, pythonVars, recvVars
    <2> QED
      BY <2>1, PendingIsLeft DEF Ignores
  <1> QED
    BY <1>5, <1>6, <1>7, <1>10, <1>11, <1>12, <1>13, <1>14 DEF Next, Handler, Resume
-----------------------------------------------------------------------------
(***************************************************************************)
(* The numbers of the messages.                                            *)
(***************************************************************************)
\* An item at the end, or at the front, of a sequence of numbers.
LEMMA NumberBehind ==
  ASSUME NEW s \in Seq(Nat), NEW x \in Nat
  PROVE  /\ Append(s, x) \in Seq(Nat) /\ Len(s) \in Nat /\ DOMAIN s = 1..Len(s)
         /\ Len(Append(s, x)) = Len(s) + 1
         /\ DOMAIN Append(s, x) = 1..(Len(s) + 1)
         /\ \A i \in 1..Len(s) : Append(s, x)[i] = s[i]
         /\ Append(s, x)[Len(s) + 1] = x
         /\ \A i \in 1..Len(s) : s[i] \in Nat
  <1>1. /\ Append(s, x) \in Seq(Nat) /\ Len(Append(s, x)) = Len(s) + 1
        /\ \A i \in 1..Len(s) : Append(s, x)[i] = s[i]
        /\ Append(s, x)[Len(s) + 1] = x
    BY AppendProperties
  <1>2. Len(s) \in Nat /\ DOMAIN s = 1..Len(s) /\ DOMAIN Append(s, x) = 1..(Len(s) + 1)
    BY <1>1, LenProperties
  <1>3. \A i \in 1..Len(s) : s[i] \in Nat
    BY ElementOfSeq
  <1> QED
    BY <1>1, <1>2, <1>3

LEMMA NumberAhead ==
  ASSUME NEW s \in Seq(Nat), s # <<>>
  PROVE  /\ Head(s) \in Nat /\ Head(s) = s[1] /\ Tail(s) \in Seq(Nat) /\ Len(s) \in Nat \ {0}
         /\ Len(Tail(s)) = Len(s) - 1 /\ DOMAIN Tail(s) = 1..(Len(s) - 1) /\ DOMAIN s = 1..Len(s)
         /\ \A i \in 1..(Len(s) - 1) : Tail(s)[i] = s[i + 1]
         /\ \A i \in 1..Len(s) : s[i] \in Nat
  <1>1. Len(s) \in Nat \ {0} /\ DOMAIN s = 1..Len(s)
    BY EmptySeq, LenProperties
  <1>2. /\ Head(s) \in Nat /\ Tail(s) \in Seq(Nat) /\ Len(Tail(s)) = Len(s) - 1
        /\ \A i \in 1..Len(Tail(s)) : Tail(s)[i] = s[i + 1]
    BY HeadTailProperties
  <1>3. DOMAIN Tail(s) = 1..Len(Tail(s))
    BY <1>2, LenProperties
  <1>4. Head(s) = s[1]
    OBVIOUS
  <1>5. \A i \in 1..Len(s) : s[i] \in Nat
    BY ElementOfSeq
  <1> QED
    BY <1>1, <1>2, <1>3, <1>4, <1>5

LEMMA NumberTaken ==
  ASSUME NEW g \in Seq(Nat), NEW p \in Seq(Nat), NEW f \in Nat, Numbering(g, p, f)
  PROVE  Numbering(g, Append(p, f + 1), f + 1)
  <1> DEFINE q == Append(p, f + 1)
             n == Len(p)
             F == f + 1
  <1>1. /\ n \in Nat /\ DOMAIN p = 1..n /\ DOMAIN q = 1..(n + 1)
        /\ \A i \in 1..n : q[i] = p[i] /\ p[i] \in Nat
        /\ q[n + 1] = f + 1
    BY NumberBehind
  <1>2. \A i \in DOMAIN g : g[i] \in Nat
    BY ElementOfSeq, LenProperties
  <1> HIDE DEF q, n
  <1>3. \A i \in DOMAIN q : (i \in DOMAIN p /\ q[i] = p[i]) \/ (i = n + 1 /\ q[i] = f + 1)
    BY <1>1
  <1>4. Increasing(q)
    <2> SUFFICES ASSUME NEW i \in DOMAIN q, NEW j \in DOMAIN q, i < j PROVE q[i] < q[j]
      BY DEF Increasing
    <2>1. i \in DOMAIN p /\ q[i] = p[i] /\ p[i] \in Nat /\ p[i] <= f
      <3>1. i # n + 1
        BY <1>1
      <3> QED
        BY <1>1, <1>3, <3>1 DEF Numbering
    <2>2. CASE j \in DOMAIN p
      BY <1>3, <1>1, <2>1, <2>2 DEF Numbering, Increasing
    <2>3. CASE j \notin DOMAIN p
      BY <1>3, <2>1, <2>3
    <2> QED
      BY <2>2, <2>3
  <1>5. \A i \in DOMAIN g : g[i] <= f + 1 /\ g[i] < f + 1
    BY <1>2 DEF Numbering
  <1>6. \A j \in DOMAIN q : q[j] <= f + 1
    BY <1>1, <1>3 DEF Numbering
  <1>7. \A i \in DOMAIN g, j \in DOMAIN q : g[i] < q[j]
    BY <1>3, <1>5 DEF Numbering
  <1> QED
    BY <1>4, <1>5, <1>6, <1>7 DEF Numbering, q

LEMMA NumberDelivered ==
  ASSUME NEW g \in Seq(Nat), NEW p \in Seq(Nat), NEW f \in Nat, p # <<>>, Numbering(g, p, f)
  PROVE  Numbering(Append(g, Head(p)), Tail(p), f) /\ Numbering(g, Tail(p), f)
  <1> DEFINE q == Tail(p)
             m == Len(p)
             x == Head(p)
             h == Append(g, x)
             n == Len(g)
  <1>1. /\ x \in Nat /\ x = p[1] /\ m \in Nat \ {0} /\ DOMAIN p = 1..m /\ DOMAIN q = 1..(m - 1)
        /\ \A i \in 1..(m - 1) : q[i] = p[i + 1]
        /\ \A i \in 1..m : p[i] \in Nat
    BY NumberAhead
  <1>2. /\ n \in Nat /\ DOMAIN g = 1..n /\ DOMAIN h = 1..(n + 1)
        /\ \A i \in 1..n : h[i] = g[i] /\ g[i] \in Nat
        /\ h[n + 1] = x
    BY <1>1, NumberBehind
  <1> HIDE DEF q, m, x, h, n
  <1>0. 1 \in DOMAIN p /\ x = p[1]
    BY <1>1
  <1>3. \A i \in DOMAIN q : i + 1 \in DOMAIN p /\ q[i] = p[i + 1] /\ 1 < i + 1
    BY <1>1
  <1>4. \A i \in DOMAIN h : (i \in DOMAIN g /\ h[i] = g[i]) \/ (i = n + 1 /\ h[i] = x)
    BY <1>2
  <1>5. Increasing(q)
    BY <1>1, <1>3 DEF Numbering, Increasing
  <1>6. \A j \in DOMAIN q : q[j] <= f /\ x < q[j]
    BY <1>0, <1>1, <1>3 DEF Numbering, Increasing
  <1>7. x <= f /\ \A i \in DOMAIN g : g[i] < x
    BY <1>0, <1>1 DEF Numbering
  <1>8. Increasing(h)
    <2> SUFFICES ASSUME NEW i \in DOMAIN h, NEW j \in DOMAIN h, i < j PROVE h[i] < h[j]
      BY DEF Increasing
    <2>1. i \in DOMAIN g /\ h[i] = g[i]
      <3>1. i # n + 1
        BY <1>2
      <3> QED
        BY <1>4, <3>1
    <2>2. CASE j \in DOMAIN g
      BY <1>2, <1>4, <2>1, <2>2 DEF Numbering, Increasing
    <2>3. CASE j \notin DOMAIN g
      BY <1>4, <1>7, <2>1, <2>3
    <2> QED
      BY <2>2, <2>3
  <1>9. \A i \in DOMAIN h : h[i] <= f
    BY <1>4, <1>7 DEF Numbering
  <1>10. \A i \in DOMAIN g, j \in DOMAIN q : g[i] < q[j]
    BY <1>3 DEF Numbering
  <1>11. \A i \in DOMAIN h, j \in DOMAIN q : h[i] < q[j]
    BY <1>4, <1>6, <1>10
  <1> QED
    BY <1>5, <1>6, <1>8, <1>9, <1>10, <1>11 DEF Numbering, q, x, h

LEMMA NumberIgnored ==
  ASSUME NEW g \in Seq(Nat), NEW p \in Seq(Nat), NEW f \in Nat, Numbering(g, p, f)
  PROVE  Numbering(g, p, f + 1)
  <1>1. (\A i \in DOMAIN g : g[i] \in Nat) /\ (\A i \in DOMAIN p : p[i] \in Nat)
    BY ElementOfSeq, LenProperties
  <1> QED
    BY <1>1 DEF Numbering

LEMMA NumberAbandoned ==
  ASSUME NEW g, NEW p, NEW f, Numbering(g, p, f)
  PROVE  Numbering(g, <<>>, f)
  BY DEF Numbering, Increasing

LEMMA NumberedIncreases ==
  ASSUME NEW g \in Seq(Nat), NEW p \in Seq(Nat), NEW f \in Nat, Numbering(g, p, f)
  PROVE  Increasing(g \o p)
  <1> DEFINE s == g \o p
             n == Len(g)
             m == Len(p)
  <1>1. n \in Nat /\ m \in Nat /\ DOMAIN g = 1..n /\ DOMAIN p = 1..m
    BY LenProperties
  <1>2. /\ s \in Seq(Nat) /\ Len(s) = n + m
        /\ \A i \in 1..(n + m) : s[i] = IF i <= n THEN g[i] ELSE p[i - n]
    BY ConcatProperties
  <1>3. DOMAIN s = 1..(n + m)
    BY <1>2, LenProperties
  <1> HIDE DEF s, n, m
  <1>4. ASSUME NEW i \in DOMAIN s
        PROVE  \/ i <= n /\ i \in DOMAIN g /\ s[i] = g[i]
               \/ ~(i <= n) /\ i - n \in DOMAIN p /\ s[i] = p[i - n]
    BY <1>1, <1>2, <1>3
  <1>5. ASSUME NEW i \in DOMAIN s, NEW j \in DOMAIN s, i < j PROVE s[i] < s[j]
    <2>1. i \in Nat /\ j \in Nat
      BY <1>1, <1>3
    <2>2. CASE i <= n /\ j <= n
      BY <1>1, <1>4, <1>5, <2>2 DEF Numbering, Increasing
    <2>3. CASE i <= n /\ ~(j <= n)
      BY <1>4, <2>3 DEF Numbering
    <2>4. CASE ~(i <= n)
      <3>1. ~(j <= n) /\ i - n < j - n
        BY <1>1, <1>5, <2>1, <2>4
      <3> QED
        BY <1>4, <2>4, <3>1 DEF Numbering, Increasing
    <2> QED
      BY <2>2, <2>3, <2>4
  <1> QED
    BY <1>5 DEF Increasing, s

LEMMA PendingTyped ==
  ASSUME Typed, Ordered
  PROVE  Pending \in Seq(Nat)
  <1>1. PICK n \in Nat : Shaped(chan, n)
    BY DEF Ordered
  <1>2. chan \in Seq(Message) /\ held.arg \in Nat
    BY Kinds DEF Typed
  <1> QED
    BY <1>1, <1>2, LeftParts, PendingIsLeft

LEMMA NumberedStep ==
  ASSUME WsInv, [Next]_vars
  PROVE  Numbered' /\ Counted'
  <1> USE DEF WsInv
  <1>1. /\ Pending \in Seq(Nat) /\ Len(Pending) \in Nat /\ got \in Seq(Nat) /\ Len(got) \in Nat
        /\ frames \in Nat /\ fragmented \in Nat /\ lost \in Nat /\ cancels \in Nat
    BY PendingTyped, LenProperties DEF Typed
  <1>2. /\ Numbering(got, Pending, frames) /\ lost <= cancels
        /\ rxOpen => Len(got) + Len(Pending) + lost + fragmented = frames
    BY DEF Numbered, Counted
  <1>3. (Stays /\ (Closes \/ Notifies)) \/ Takes \/ Ignores \/ Delivers \/ Loses \/ Abandons
    BY PendingStep
  <1>4. ASSUME Numbering(got', Pending', frames'), lost' <= cancels',
               rxOpen' => Len(got') + Len(Pending') + lost' + fragmented' = frames'
        PROVE  Numbered' /\ Counted'
    BY <1>4 DEF Numbered, Counted
  <1>5. CASE Stays
    BY <1>1, <1>2, <1>4, <1>5 DEF Stays
  <1>6. CASE Takes
    <2>1. Numbering(got, Append(Pending, frames + 1), frames + 1)
      BY <1>1, <1>2, NumberTaken
    <2>2. Len(Append(Pending, frames + 1)) = Len(Pending) + 1
      BY <1>1, NumberBehind
    <2>3. /\ Pending' = Append(Pending, frames + 1) /\ frames' = frames + 1
          /\ UNCHANGED <<got, lost, cancels, rxOpen, fragmented>>
      BY <1>6 DEF Takes
    <2>4. Numbering(got', Pending', frames')
      BY <2>1, <2>3
    <2>5. rxOpen' => Len(got') + Len(Pending') + lost' + fragmented' = frames'
      BY <1>1, <1>2, <2>2, <2>3
    <2> QED
      BY <1>2, <1>4, <2>3, <2>4, <2>5
  <1>7. CASE Delivers \/ Loses
    <2>0. Pending # <<>>
      BY <1>7 DEF Delivers, Loses
    <2>1. /\ Numbering(Append(got, Head(Pending)), Tail(Pending), frames)
          /\ Numbering(got, Tail(Pending), frames)
      BY <1>1, <1>2, <2>0, NumberDelivered
    <2>2. Head(Pending) \in Nat /\ Len(Tail(Pending)) = Len(Pending) - 1
      BY <1>1, <2>0, NumberAhead
    <2>3. Len(Append(got, Head(Pending))) = Len(got) + 1
      BY <1>1, <2>2, NumberBehind
    <2>4. CASE Delivers
      <3>1. /\ got' = Append(got, Head(Pending)) /\ Pending' = Tail(Pending)
            /\ UNCHANGED <<frames, fragmented, lost, cancels, rxOpen>>
        BY <2>4 DEF Delivers
      <3>2. Numbering(got', Pending', frames')
        BY <2>1, <3>1
      <3>3. rxOpen' => Len(got') + Len(Pending') + lost' + fragmented' = frames'
        <4>1. /\ Len(got') = Len(got) + 1 /\ Len(Pending') = Len(Pending) - 1
              /\ UNCHANGED <<frames, fragmented, lost, rxOpen>>
          BY <2>2, <2>3, <3>1
        <4>2. \A a, b, c, d \in Nat : (a + 1) + (b - 1) + c + d = a + b + c + d
          OBVIOUS
        <4>3. (Len(got) + 1) + (Len(Pending) - 1) + lost + fragmented
                = Len(got) + Len(Pending) + lost + fragmented
          BY <1>1, <4>2
        <4> QED
          BY <1>2, <4>1, <4>3
      <3> QED
        BY <1>2, <1>4, <3>1, <3>2, <3>3
    <2>5. CASE Loses
      <3>1. /\ Pending' = Tail(Pending) /\ lost' = lost + 1 /\ cancels' = cancels + 1
            /\ UNCHANGED <<got, frames, fragmented, rxOpen>>
        BY <2>5 DEF Loses
      <3>2. Numbering(got', Pending', frames')
        BY <2>1, <3>1
      <3>3. rxOpen' => Len(got') + Len(Pending') + lost' + fragmented' = frames'
        <4>1. /\ Len(got') = Len(got) /\ Len(Pending') = Len(Pending) - 1 /\ lost' = lost + 1
              /\ UNCHANGED <<frames, fragmented, rxOpen>>
          BY <2>2, <3>1
        <4> QED
          BY <1>1, <1>2, <4>1
      <3>4. lost' <= cancels'
        BY <1>1, <1>2, <3>1
      <3> QED
        BY <1>4, <3>2, <3>3, <3>4
    <2> QED
      BY <1>7, <2>4, <2>5
  <1>8. CASE Abandons
    <2>1. Numbering(got, <<>>, frames)
      BY <1>2, NumberAbandoned
    <2> QED
      BY <1>2, <1>4, <1>8, <2>1 DEF Abandons
  <1>9. CASE Ignores
    <2>1. /\ frames' = frames + 1 /\ fragmented' = fragmented + 1
          /\ UNCHANGED <<Pending, got, lost, cancels, rxOpen>>
      BY <1>9 DEF Ignores
    <2>2. Numbering(got', Pending', frames')
      BY <1>1, <1>2, <2>1, NumberIgnored
    <2>3. rxOpen' => Len(got') + Len(Pending') + lost' + fragmented' = frames'
      BY <1>1, <1>2, <2>1
    <2> QED
      BY <1>2, <1>4, <2>1, <2>2, <2>3
  <1> QED
    BY <1>3, <1>5, <1>6, <1>7, <1>8, <1>9
-----------------------------------------------------------------------------
(***************************************************************************)
(* The invariant and what follows from it.                                 *)
(***************************************************************************)
LEMMA InitWsInv == Init => WsInv
  <1> SUFFICES ASSUME Init PROVE WsInv
    OBVIOUS
  <1>1. /\ <<>> \in Seq(Message) /\ <<>> \in Seq(Nat) /\ Len(<<>>) = 0
        /\ Shaped(<<>>, 0) /\ DataIn(<<>>) = <<>>
    BY EmptySeq, NoMessages
  <1>2. Typed /\ Receiving
    BY <1>1 DEF Init, Typed, Receiving, Nothing, NoCode
  <1>3. Ordered
    BY <1>1 DEF Init, Ordered, HoldsDisconnect, Nothing
  <1>4. Talking
    BY DEF Init, Talking, Nothing
  <1>5. Written
    BY <1>1 DEF Init, Written, Nothing
  <1>6. CodesInv
    BY DEF Init, CodesInv, CodeIsTheCause, HoldsDisconnect, Nothing, NoCode
  <1>7. Pending = <<>>
    <2>1. held.kind # "data" /\ held.arg \in Nat /\ chan = <<>>
      BY DEF Init, Nothing
    <2> QED
      BY <1>1, <2>1, LeftParts, PendingIsLeft
  <1>8. Numbered /\ Counted
    BY <1>1, <1>7 DEF Init, Numbered, Numbering, Increasing, Counted
  <1> QED
    BY <1>2, <1>3, <1>4, <1>5, <1>6, <1>8 DEF WsInv

LEMMA NextWsInv == WsInv /\ [Next]_vars => WsInv'
  <1> SUFFICES ASSUME WsInv, [Next]_vars PROVE WsInv'
    OBVIOUS
  <1> USE DEF WsInv
  <1>1. Typed'
    <2>1. CASE ClientFrame \/ ActorStep
      BY <2>1, ActorTyped
    <2>2. CASE Handler \/ Resume
      BY <2>2, HandlerTyped
    <2>3. CASE UNCHANGED vars
      BY <2>3 DEF Typed, vars, actorVars, pythonVars, recvVars, clientVars
    <2> QED
      BY <2>1, <2>2, <2>3 DEF Next
  <1>2. Receiving' /\ Ordered' /\ Talking'
    BY ReceivingInv, OrderedInv, TalkingInv
  <1>3. Written' /\ CodesInv'
    BY WrittenInv, CodesStep
  <1>4. Numbered' /\ Counted'
    BY NumberedStep
  <1> QED
    BY <1>1, <1>2, <1>3, <1>4

LEMMA WsInvariant == Spec => []WsInv
  BY InitWsInv, NextWsInv, PTL DEF Spec

(***************************************************************************)
(* The handler receives the client's messages in order, and while it runs  *)
(* each one is received, on its way, lost to a cancelled receive(), at     *)
(* most one for each, or came in fragments, which the actor ignores: the   *)
(* actor's try_send, the channel and ReceiveFn lose and reorder nothing.   *)
(***************************************************************************)
THEOREM ReceivesInOrder == Spec => []ReceivedInOrder
  <1>1. WsInv => ReceivedInOrder
    <2> SUFFICES ASSUME WsInv PROVE ReceivedInOrder
      OBVIOUS
    <2>1. Pending \in Seq(Nat) /\ got \in Seq(Nat) /\ frames \in Nat
      BY PendingTyped DEF WsInv, Typed
    <2>2. Increasing(got \o Pending)
      BY <2>1, NumberedIncreases DEF WsInv, Numbered
    <2> QED
      BY <2>2 DEF WsInv, Counted, ReceivedInOrder
  <1> QED
    BY <1>1, WsInvariant, PTL

(***************************************************************************)
(* WebSocketDisconnect carries the code the connection ended with, or 1000 *)
(* if the notice did not fit into the channel or a cancelled receive()     *)
(* took it, whatever the order in which the actor stops, the channel       *)
(* drains and the handler receives.                                        *)
(***************************************************************************)
THEOREM CodeIsRight == Spec => []CodeIsTheCause
  <1>1. WsInv => CodeIsTheCause
    BY DEF WsInv, CodesInv
  <1> QED
    BY <1>1, WsInvariant, PTL

(***************************************************************************)
(* The client is sent exactly what send() returned for, in order, and at   *)
(* most the message being sent besides; a close frame is the last thing    *)
(* written.                                                                *)
(***************************************************************************)
THEOREM WritesWhatWasSent == Spec => []SentIsWritten
  <1>1. WsInv => SentIsWritten
    BY WrittenIsSent DEF WsInv
  <1> QED
    BY <1>1, WsInvariant, PTL
-----------------------------------------------------------------------------
(***************************************************************************)
(* Actor, channel and WebSocket object implement the session of WsSession: *)
(* every step is a step of the session or leaves it alone, and             *)
(* WebSocketDisconnect is raised once, after the end, with nothing left to *)
(* receive.                                                                *)
(***************************************************************************)
THEOREM RefinesSession == Spec => ImplementsSession
  <1>1. Init => Session!Init
    <2> SUFFICES ASSUME Init PROVE Session!Init
      OBVIOUS
    <2>1. held.kind # "data" /\ held.arg \in Nat /\ chan = <<>> /\ <<>> \in Seq(Message) /\ Shaped(<<>>, 0)
      BY EmptySeq, NoMessages DEF Init, Nothing
    <2>2. Pending = <<>>
      BY <2>1, LeftParts, PendingIsLeft
    <2> QED
      BY <2>2 DEF Init, Session!Init
  <1>2. WsInv /\ [Next]_vars => [Session!Next]_(Session!vars)
    <2> SUFFICES ASSUME WsInv, [Next]_vars PROVE [Session!Next]_(Session!vars)
      OBVIOUS
    <2>1. (Stays /\ (Closes \/ Notifies)) \/ Takes \/ Ignores \/ Delivers \/ Loses \/ Abandons
      BY PendingStep DEF WsInv
    <2>2. CASE Takes
      BY <2>2 DEF Takes, Session!Next, Session!Take
    <2>8. CASE Ignores
      BY <2>8 DEF Ignores, Session!Next, Session!Ignore
    <2>3. CASE Delivers
      BY <2>3 DEF Delivers, Session!Next, Session!Deliver
    <2>4. CASE Loses
      BY <2>4 DEF Loses, Session!Next, Session!Cancel
    <2>5. CASE Abandons
      BY <2>5 DEF Abandons, Session!Next, Session!Abandon
    <2>6. CASE Stays /\ Notifies
      BY <2>6 DEF Stays, Notifies, Session!Next, Session!Notify
    <2>7. CASE Stays /\ Closes
      BY <2>7 DEF Stays, Closes, Session!Next, Session!End, Session!vars
    <2> QED
      BY <2>1, <2>2, <2>3, <2>4, <2>5, <2>6, <2>7, <2>8
  <1> QED
    BY <1>1, <1>2, WsInvariant, PTL DEF Spec, ImplementsSession, Session!Spec
=============================================================================
