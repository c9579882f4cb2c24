------------------------- MODULE WsAdmissionProofs -------------------------
(***************************************************************************)
(* The admission of WebSocket connections keeps its accounts for any       *)
(* number of workers and connections and any limit.                        *)
(***************************************************************************)
EXTENDS WsAdmission, FiniteSetTheorems, TLAPS

\* The workers still to increment are part of the overshoot already.
Overshoot ==
  active + Cardinality(At("checking"))
    <= MaxConnections - 1 + Cardinality(Workers)

IndInv ==
  /\ TypeOK
  /\ IsFiniteSet(open)
  /\ SlotsAccounted
  /\ Overshoot

USE DEF Finish, LimitReached, Release

\* The workers at one point of the handler are finitely many, at most all.
LEMMA AtFinite ==
  \A p : /\ IsFiniteSet(At(p))
         /\ Cardinality(At(p)) \in Nat
         /\ Cardinality(At(p)) <= Cardinality(Workers)
  <1> TAKE p
  <1>1. At(p) \in SUBSET Workers
    BY DEF At
  <1> QED
    BY <1>1, FS_Subset, FS_CardinalityType, WsAdmissionAssumption

\* As AtFinite, after a step.
LEMMA AtFinitePrime ==
  \A p : /\ IsFiniteSet(At(p)')
         /\ Cardinality(At(p)') \in Nat
         /\ Cardinality(At(p)') <= Cardinality(Workers)
  <1> TAKE p
  <1>1. At(p)' \in SUBSET Workers
    BY DEF At
  <1> QED
    BY <1>1, FS_Subset, FS_CardinalityType, WsAdmissionAssumption

\* When w moves from a to b, one worker fewer is at a and one more at b.
LEMMA MoveWorker ==
  ASSUME TypeOK, NEW w \in Workers, NEW a, NEW b, pc[w] = a, a # b,
         pc' = [pc EXCEPT ![w] = b]
  PROVE  /\ Cardinality(At(a)') = Cardinality(At(a)) - 1
         /\ Cardinality(At(b)') = Cardinality(At(b)) + 1
  <1>1. At(a)' = At(a) \ {w} /\ w \in At(a)
    BY DEF At, TypeOK
  <1>2. At(b)' = At(b) \cup {w} /\ w \notin At(b)
    BY DEF At, TypeOK
  <1>4. IsFiniteSet(At(a)) /\ IsFiniteSet(At(b))
    BY AtFinite
  <1>5. Cardinality(At(a) \ {w}) = Cardinality(At(a)) - 1
    BY <1>1, <1>4, FS_RemoveElement
  <1>6. Cardinality(At(b) \cup {w}) = Cardinality(At(b)) + 1
    BY <1>2, <1>4, FS_AddElement
  <1> QED
    BY <1>1, <1>2, <1>5, <1>6

\* The workers that are neither where w was nor where it goes stay.
LEMMA OthersStay ==
  ASSUME TypeOK, NEW w \in Workers, NEW a, NEW b, NEW p, pc[w] = a,
         p # a, p # b, pc' = [pc EXCEPT ![w] = b]
  PROVE  At(p)' = At(p)
  BY DEF At, TypeOK

\* At the start nothing is counted and no worker serves an upgrade.
LEMMA InitIndInv == Init => IndInv
  <1> SUFFICES ASSUME Init PROVE IndInv
    OBVIOUS
  <1>1. TypeOK
    BY DEF Init, TypeOK
  <1>2. At("counted") = {} /\ At("checking") = {}
    BY DEF Init, At
  <1>3. IsFiniteSet(open) /\ SlotsAccounted
    BY <1>2, FS_EmptySet DEF Init, SlotsAccounted
  <1>4. Cardinality(Workers) \in Nat /\ Cardinality(Workers) # 0
    BY WsAdmissionAssumption, FS_CardinalityType, FS_EmptySet
  <1>5. Overshoot
    <2>1. active = 0 /\ Cardinality(At("checking")) = 0
      BY <1>2, FS_EmptySet DEF Init
    <2>2. MaxConnections \in Nat
      BY WsAdmissionAssumption
    <2> QED
      BY <1>4, <2>1, <2>2 DEF Overshoot
  <1> QED
    BY <1>1, <1>3, <1>5 DEF IndInv

\* A worker that passes the limit check saw fewer than the limit.
LEMMA BeginIndInv ==
  ASSUME IndInv, NEW w \in Workers, NEW r \in Upgrades, Begin(w, r)
  PROVE  IndInv'
  <1>1. TypeOK' /\ IsFiniteSet(open)'
    BY DEF Begin, IndInv, TypeOK
  <1>2. At("counted")' = At("counted")
    <2>1. /\ TypeOK /\ pc[w] = "idle"
          /\ pc' = [pc EXCEPT ![w] = "checking"]
      BY DEF Begin, IndInv
    <2> QED
      BY <2>1, MoveWorker, OthersStay
  <1>3. SlotsAccounted'
    BY <1>2 DEF Begin, IndInv, SlotsAccounted
  <1>4. Overshoot'
    <2>1. active' \in Nat /\ active' <= MaxConnections - 1
      BY WsAdmissionAssumption DEF Begin, IndInv, TypeOK
    <2>2. Cardinality(At("checking")') <= Cardinality(Workers)
      BY AtFinitePrime
    <2>3. Cardinality(At("checking")') \in Nat /\ Cardinality(Workers) \in Nat
      BY AtFinitePrime, FS_CardinalityType, WsAdmissionAssumption
    <2> QED
      BY <2>1, <2>2, <2>3, WsAdmissionAssumption DEF Overshoot
  <1> QED
    BY <1>1, <1>3, <1>4 DEF IndInv

\* A refusal changes no account.
LEMMA RefuseIndInv ==
  ASSUME IndInv, NEW w \in Workers, Refuse(w)
  PROVE  IndInv'
  <1>1. TypeOK' /\ IsFiniteSet(open)'
    BY DEF Refuse, IndInv, TypeOK
  <1>2. /\ At("counted")' = At("counted")
        /\ Cardinality(At("checking")') = Cardinality(At("checking")) - 1
    <2>1. /\ TypeOK /\ pc[w] = "checking"
          /\ pc' = [pc EXCEPT ![w] = "idle"]
      BY DEF Refuse, IndInv
    <2> QED
      BY <2>1, MoveWorker, OthersStay
  <1>3. SlotsAccounted'
    BY <1>2 DEF Refuse, IndInv, SlotsAccounted
  <1>4. Overshoot'
    <2>1. Cardinality(Workers) \in Nat
      BY FS_CardinalityType, WsAdmissionAssumption
    <2> QED
      BY <1>2, <2>1, AtFinite, WsAdmissionAssumption
      DEF Refuse, IndInv, TypeOK, Overshoot
  <1> QED
    BY <1>1, <1>3, <1>4 DEF IndInv

\* Counting moves the worker from the overshoot into the counter.
LEMMA CountIndInv ==
  ASSUME IndInv, NEW w \in Workers, Count(w)
  PROVE  IndInv'
  <1>1. TypeOK' /\ IsFiniteSet(open)'
    BY DEF Count, IndInv, TypeOK
  <1>2. /\ Cardinality(At("counted")') = Cardinality(At("counted")) + 1
        /\ Cardinality(At("checking")') = Cardinality(At("checking")) - 1
    <2>1. /\ TypeOK /\ pc[w] = "checking"
          /\ pc' = [pc EXCEPT ![w] = "counted"]
      BY DEF Count, IndInv
    <2> QED
      BY <2>1, MoveWorker, OthersStay
  <1>3. Cardinality(open) \in Nat /\ Cardinality(Workers) \in Nat
    BY FS_CardinalityType, WsAdmissionAssumption DEF IndInv
  <1>4. SlotsAccounted'
    BY <1>2, <1>3, AtFinite DEF Count, IndInv, SlotsAccounted
  <1>5. Overshoot'
    BY <1>2, <1>3, AtFinite, WsAdmissionAssumption
    DEF Count, IndInv, TypeOK, Overshoot
  <1> QED
    BY <1>1, <1>4, <1>5 DEF IndInv

\* A failed scope or handshake gives back the slot its worker had counted.
LEMMA AbortIndInv ==
  ASSUME IndInv, NEW w \in Workers, Abort(w)
  PROVE  IndInv'
  <1>1. /\ Cardinality(At("counted")') = Cardinality(At("counted")) - 1
        /\ At("checking")' = At("checking")
    <2>1. /\ TypeOK /\ pc[w] = "counted"
          /\ pc' = [pc EXCEPT ![w] = "idle"]
      BY DEF Abort, IndInv
    <2> QED
      BY <2>1, MoveWorker, OthersStay
  <1>2. Cardinality(open) \in Nat /\ Cardinality(Workers) \in Nat
    BY FS_CardinalityType, WsAdmissionAssumption DEF IndInv
  <1>3. SlotsAccounted'
    BY <1>1, <1>2, AtFinite DEF Abort, IndInv, SlotsAccounted
  <1>4. active' \in Nat
    BY <1>2, <1>3, AtFinitePrime DEF Abort, SlotsAccounted
  <1>5. TypeOK' /\ IsFiniteSet(open)'
    BY <1>4 DEF Abort, IndInv, TypeOK
  <1>6. Overshoot'
    BY <1>1, <1>2, AtFinite, WsAdmissionAssumption
    DEF Abort, IndInv, TypeOK, Overshoot
  <1> QED
    BY <1>3, <1>5, <1>6 DEF IndInv

\* The slot passes from the worker to the connection.
LEMMA StartIndInv ==
  ASSUME IndInv, NEW w \in Workers, NEW c \in Conns, Start(w, c)
  PROVE  IndInv'
  <1>1. /\ Cardinality(At("counted")') = Cardinality(At("counted")) - 1
        /\ At("checking")' = At("checking")
    <2>1. /\ TypeOK /\ pc[w] = "counted"
          /\ pc' = [pc EXCEPT ![w] = "idle"]
      BY DEF Start, IndInv
    <2> QED
      BY <2>1, MoveWorker, OthersStay
  <1>2. /\ IsFiniteSet(open')
        /\ Cardinality(open') = Cardinality(open) + 1
        /\ Cardinality(open) \in Nat
    BY FS_AddElement, FS_CardinalityType DEF Start, IndInv
  <1>3. TypeOK'
    BY DEF Start, IndInv, TypeOK
  <1>4. SlotsAccounted'
    BY <1>1, <1>2, AtFinite DEF Start, IndInv, SlotsAccounted
  <1>5. Overshoot'
    BY <1>1 DEF Start, IndInv, Overshoot
  <1> QED
    BY <1>2, <1>3, <1>4, <1>5 DEF IndInv

\* An actor that stops gives back the slot of its connection, once.
LEMMA StoppedIndInv ==
  ASSUME IndInv, NEW c \in Conns, Stopped(c)
  PROVE  IndInv'
  <1>1. \A p : At(p)' = At(p)
    BY DEF Stopped, At
  <1>2. /\ IsFiniteSet(open')
        /\ Cardinality(open') = Cardinality(open) - 1
        /\ Cardinality(open) \in Nat
        /\ Cardinality(open') \in Nat
        /\ Cardinality(Workers) \in Nat
    BY FS_RemoveElement, FS_CardinalityType, WsAdmissionAssumption
    DEF Stopped, IndInv
  <1>3. SlotsAccounted'
    BY <1>1, <1>2, AtFinite DEF Stopped, IndInv, SlotsAccounted
  <1>4. active' \in Nat
    BY <1>2, <1>3, AtFinitePrime DEF SlotsAccounted
  <1>5. TypeOK'
    BY <1>4 DEF Stopped, IndInv, TypeOK
  <1>6. Overshoot'
    BY <1>1, <1>2, AtFinite, WsAdmissionAssumption
    DEF Stopped, IndInv, TypeOK, Overshoot
  <1> QED
    BY <1>2, <1>3, <1>5, <1>6 DEF IndInv

\* Every step preserves the invariant.
LEMMA NextIndInv == IndInv /\ [Next]_vars => IndInv'
  <1> SUFFICES ASSUME IndInv, [Next]_vars PROVE IndInv'
    OBVIOUS
  <1>1. CASE UNCHANGED vars
    BY <1>1
    DEF vars, IndInv, TypeOK, SlotsAccounted, Overshoot, At
  <1>2. CASE Next
    BY <1>2, BeginIndInv, RefuseIndInv, CountIndInv, AbortIndInv, StartIndInv,
       StoppedIndInv DEF Next
  <1> QED
    BY <1>1, <1>2

\* The invariant holds of every behaviour of the upgrade handler.
LEMMA SpecIndInv == Spec => []IndInv
  BY InitIndInv, NextIndInv, PTL DEF Spec

\* Every slot of ACTIVE_WS_CONNECTIONS belongs to one open connection or one
\* upgrade in progress, for any number of workers: no path leaks a slot.
THEOREM NoSlotLeaks == Spec => []SlotsAccounted
  <1>1. IndInv => SlotsAccounted
    BY DEF IndInv
  <1> QED
    BY <1>1, SpecIndInv, PTL

\* With W workers, ACTIVE_WS_CONNECTIONS never exceeds the configured limit
\* by more than W - 1, although the check and the increment are not atomic.
THEOREM LimitExceededByWorkersOnly == Spec => []ConnectionsBounded
  <1>1. IndInv => ConnectionsBounded
    <2>1. Cardinality(Workers) \in Nat
      BY FS_CardinalityType, WsAdmissionAssumption
    <2> QED
      BY <2>1, AtFinite, WsAdmissionAssumption
      DEF IndInv, TypeOK, Overshoot, ConnectionsBounded
  <1> QED
    BY <1>1, SpecIndInv, PTL

\* The upgrade handler keeps every variable in its type: the usize counter
\* is never decremented below zero.
THEOREM TypeCorrect == Spec => []TypeOK
  <1>1. IndInv => TypeOK
    BY DEF IndInv
  <1> QED
    BY <1>1, SpecIndInv, PTL
=============================================================================
