----------------------------- MODULE WsSession -----------------------------
(***************************************************************************)
(* What a WebSocket promises the handler that receives from it: messages   *)
(* arrive in the order the client sent them, one can be missing only when  *)
(* it came in fragments or to a receive the handler itself cancelled, and  *)
(* the disconnect is reported once, after the end of the connection and    *)
(* after everything the client had sent before it.                         *)
(***************************************************************************)
EXTENDS Naturals, Sequences

VARIABLES
  open,       \* the connection is up
  inbox,      \* messages taken from the client, not yet received
  taken,      \* how many messages were taken
  received,   \* what the handler received
  notified    \* the handler has been told of the end

vars == <<open, inbox, taken, received, notified>>

Init ==
  /\ open = TRUE
  /\ inbox = <<>>
  /\ taken = 0
  /\ received = <<>>
  /\ notified = FALSE

Take ==
  /\ open
  /\ taken' = taken + 1
  /\ inbox' = Append(inbox, taken + 1)
  /\ UNCHANGED <<open, received, notified>>

\* A message in fragments is not passed on.
Ignore ==
  /\ open
  /\ taken' = taken + 1
  /\ UNCHANGED <<open, inbox, received, notified>>

Deliver ==
  /\ inbox # <<>>
  /\ received' = Append(received, Head(inbox))
  /\ inbox' = Tail(inbox)
  /\ UNCHANGED <<open, taken, notified>>

\* A cancelled receive takes one message with it.
Cancel ==
  /\ inbox # <<>>
  /\ inbox' = Tail(inbox)
  /\ UNCHANGED <<open, taken, received, notified>>

End ==
  /\ open
  /\ open' = FALSE
  /\ UNCHANGED <<inbox, taken, received, notified>>

Notify ==
  /\ ~open
  /\ inbox = <<>>
  /\ ~notified
  /\ notified' = TRUE
  /\ UNCHANGED <<open, inbox, taken, received>>

\* The handler is gone and nobody will receive what is left.
Abandon ==
  /\ inbox' = <<>>
  /\ UNCHANGED <<open, taken, received, notified>>

Next == Take \/ Ignore \/ Deliver \/ Cancel \/ End \/ Notify \/ Abandon

Spec == Init /\ [][Next]_vars
=============================================================================
