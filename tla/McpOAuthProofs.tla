--------------------------- MODULE McpOAuthProofs ---------------------------
(***************************************************************************)
(* Invariance proofs for the authorization server: any users, clients and  *)
(* requests, any assignment of requests to processes, any number of codes  *)
(* and tokens.                                                             *)
(***************************************************************************)
EXTENDS McpOAuth, SequenceTheorems, TLAPS

ClientIds == {p.client : p \in Params}
Uris == {p.uri : p \in Params}
Challenges == {p.challenge : p \in Params}
Scopes == {p.scope : p \in Params}

Code == [client : ClientIds, user : Users, uri : Uris, challenge : Challenges, scope : Scopes,
         expired : BOOLEAN, present : BOOLEAN, uses : Nat]

Token == [chain : Nat, user : Users, client : ClientIds, scope : Scopes, parent : Nat,
          rotated : BOOLEAN, expired : BOOLEAN, present : BOOLEAN, lock : Reqs \cup {None},
          raced : BOOLEAN]

Data == [user : Users, client : ClientIds, scope : Scopes, code : Nat]

Pcs == {"idle", "delete", "check", "load", "issue", "update", "insert", "revoke", "revoking"}

Request == [pc : Pcs, form : Forms \cup {None}, id : Nat, data : Data \cup {None}, seen : SUBSET Nat]

Typed ==
  /\ \A s \in logins : s.user \in Users
  /\ codes \in Seq(Code)
  /\ tokens \in Seq(Token)
  /\ reqs \in [Reqs -> Request]

\* A request refers to rows that exist, and has what it read in hand.
Placed(r) ==
  /\ reqs[r].pc = "idle" => reqs[r] = Idle
  /\ reqs[r].pc \in {"delete", "check"} => reqs[r].id \in DOMAIN codes
  /\ reqs[r].pc \in {"update", "insert", "revoke", "revoking"} =>
       reqs[r].id \in DOMAIN tokens /\ reqs[r].form = None
  /\ reqs[r].pc \in {"load", "issue"} => reqs[r].data \in Data
-----------------------------------------------------------------------------
\* The code that r has claimed and not yet exchanged; 0 if there is none.
HeldCode(r) ==
  CASE reqs[r].pc = "check" -> reqs[r].id
    [] reqs[r].pc = "load" -> reqs[r].data.code
    [] OTHER -> 0

\* A code that is there is unused, one that is held is gone and unused, and
\* only one request holds it.
CodesHeld ==
  /\ \A i \in DOMAIN codes : codes[i].uses <= 1 /\ (codes[i].present => codes[i].uses = 0)
  /\ \A r \in Reqs : HeldCode(r) # 0 =>
       /\ HeldCode(r) \in DOMAIN codes
       /\ ~codes[HeldCode(r)].present /\ codes[HeldCode(r)].uses = 0
       /\ \A q \in Reqs : HeldCode(q) = HeldCode(r) => q = r
-----------------------------------------------------------------------------
\* The request that rotates a token has its row locked: it is there and has
\* no successor.
Rotating ==
  \A r \in Reqs : reqs[r].pc = "insert" =>
    LET t == tokens[reqs[r].id] IN t.lock = r /\ t.present /\ ~t.rotated

\* A successor is the only one of a token that is marked rotated.
Succession ==
  \A j \in DOMAIN tokens : tokens[j].parent # 0 =>
    /\ tokens[j].parent \in DOMAIN tokens /\ tokens[tokens[j].parent].rotated
    /\ \A k \in DOMAIN tokens : tokens[k].parent = tokens[j].parent => k = j

\* A family is named by the row that began it.
Families == (\A j \in DOMAIN tokens : tokens[j].chain \in DOMAIN tokens) /\ reused \subseteq DOMAIN tokens

\* What the statement that deletes a family did not see when it began was
\* inserted meanwhile.
Revoking ==
  \A r \in Reqs : reqs[r].pc = "revoking" =>
    \A j \in DOMAIN tokens :
      tokens[j].chain = tokens[reqs[r].id].chain /\ tokens[j].present =>
        j \in reqs[r].seen \/ tokens[j].raced

TokensKept == Rotating /\ Succession /\ Families /\ Revoking /\ ReplayEndsFamily
-----------------------------------------------------------------------------
\* What a request is about to mint for was approved; for a code, to who knows
\* the verifier of its challenge.
ApprovedFor(x, form) ==
  \E a \in approvals :
    /\ a.user = x.user /\ a.client = x.client /\ a.scope = x.scope
    /\ form # None => a.uri = form.uri /\ a.challenge = S256(form.verifier)

Approvals ==
  /\ \A i \in DOMAIN codes :
       [user |-> codes[i].user, client |-> codes[i].client, uri |-> codes[i].uri,
        challenge |-> codes[i].challenge, scope |-> codes[i].scope] \in approvals
  /\ \A j \in DOMAIN tokens : ApprovedFor(tokens[j], None)
  /\ \A r \in Reqs : reqs[r].pc \in {"load", "issue"} => ApprovedFor(reqs[r].data, reqs[r].form)
  /\ \A g \in grants : ApprovedFor(g, g.form)

OAuthInv ==
  /\ Typed
  /\ \A r \in Reqs : Placed(r)
  /\ CodesHeld
  /\ TokensKept
  /\ Approvals
-----------------------------------------------------------------------------
\* A row of a table is updated in place.
LEMMA UpdatedRow ==
  ASSUME NEW S, NEW q \in Seq(S), NEW i \in DOMAIN q, NEW e \in S
  PROVE  /\ [q EXCEPT ![i] = e] \in Seq(S)
         /\ DOMAIN [q EXCEPT ![i] = e] = DOMAIN q
         /\ \A j \in DOMAIN q : [q EXCEPT ![i] = e][j] = IF j = i THEN e ELSE q[j]
  <1>1. DOMAIN q = 1..Len(q)
    BY LenProperties
  <1> QED
    BY <1>1, ExceptSeq

\* A row is inserted at the end.
LEMMA InsertedRow ==
  ASSUME NEW S, NEW q \in Seq(S), NEW e \in S
  PROVE  /\ Append(q, e) \in Seq(S)
         /\ Len(q) \in Nat
         /\ DOMAIN Append(q, e) = DOMAIN q \cup {Len(q) + 1}
         /\ Len(q) + 1 \notin DOMAIN q
         /\ \A j \in DOMAIN q : Append(q, e)[j] = q[j]
         /\ Append(q, e)[Len(q) + 1] = e
  <1>1. DOMAIN q = 1..Len(q) /\ Len(q) \in Nat
    BY LenProperties
  <1>2. /\ Append(q, e) \in Seq(S) /\ Len(Append(q, e)) = Len(q) + 1
        /\ \A i \in 1..Len(q) : Append(q, e)[i] = q[i]
        /\ Append(q, e)[Len(q) + 1] = e
    BY AppendProperties
  <1>3. DOMAIN Append(q, e) = 1..(Len(q) + 1)
    BY <1>2, LenProperties
  <1> QED
    BY <1>1, <1>2, <1>3

\* Many rows are updated in place.
LEMMA UpdatedRows ==
  ASSUME NEW S, NEW q \in Seq(S), NEW f, f \in [DOMAIN q -> S]
  PROVE  f \in Seq(S) /\ DOMAIN f = DOMAIN q
  <1>1. DOMAIN q = 1..Len(q) /\ Len(q) \in Nat
    BY LenProperties
  <1> QED
    BY <1>1, SeqDef

\* Rows are numbered from one.
LEMMA RowNumbers == ASSUME NEW S, NEW q \in Seq(S) PROVE DOMAIN q \subseteq Nat \ {0}
  BY LenProperties
-----------------------------------------------------------------------------
\* No code changes and nobody claims one.
LEMMA CodesFrame ==
  ASSUME CodesHeld, codes' = codes, \A r \in Reqs : HeldCode(r)' \in {0, HeldCode(r)}
  PROVE  CodesHeld'
  BY DEF CodesHeld

\* No token is added and none is restored.
LEMMA TokensFrame ==
  ASSUME TokensKept, \A r \in Reqs : Placed(r), reused' = reused,
         DOMAIN tokens' = DOMAIN tokens,
         \A j \in DOMAIN tokens :
           /\ tokens'[j].chain = tokens[j].chain /\ tokens'[j].parent = tokens[j].parent
           /\ tokens'[j].rotated = tokens[j].rotated /\ tokens'[j].raced = tokens[j].raced
           /\ tokens'[j].present => tokens[j].present,
         \A r \in Reqs : reqs'[r].pc = "revoking" =>
           reqs[r].pc = "revoking" /\ reqs'[r].id = reqs[r].id /\ reqs'[r].seen = reqs[r].seen,
         Rotating'
  PROVE  TokensKept'
  <1>1. Succession'
    BY DEF TokensKept, Succession
  <1>2. Families'
    BY DEF TokensKept, Families
  <1>3. Revoking'
    <2> SUFFICES ASSUME NEW r \in Reqs, reqs'[r].pc = "revoking", NEW j \in DOMAIN tokens,
                        tokens'[j].chain = tokens'[reqs'[r].id].chain, tokens'[j].present
                 PROVE  j \in reqs'[r].seen \/ tokens'[j].raced
      BY DEF Revoking
    <2>1. /\ reqs[r].pc = "revoking" /\ reqs'[r].id = reqs[r].id
          /\ reqs'[r].seen = reqs[r].seen /\ reqs[r].id \in DOMAIN tokens
      BY DEF Placed
    <2> QED
      BY <2>1 DEF TokensKept, Revoking
  <1>4. ReplayEndsFamily'
    BY DEF TokensKept, ReplayEndsFamily
  <1> QED
    BY <1>1, <1>2, <1>3, <1>4 DEF TokensKept

\* The requests that rotate go on as before.
LEMMA RotatingFrame ==
  ASSUME Rotating, tokens' = tokens,
         \A r \in Reqs : reqs'[r].pc = "insert" => reqs[r].pc = "insert" /\ reqs'[r].id = reqs[r].id
  PROVE  Rotating'
  BY DEF Rotating

\* The rows that are there keep what was approved, and nobody is about to
\* mint for anything else.
LEMMA ApprovalsFrame ==
  ASSUME Approvals, approvals \subseteq approvals', grants' = grants,
         DOMAIN codes' = DOMAIN codes,
         \A i \in DOMAIN codes :
           /\ codes'[i].user = codes[i].user /\ codes'[i].client = codes[i].client
           /\ codes'[i].uri = codes[i].uri /\ codes'[i].challenge = codes[i].challenge
           /\ codes'[i].scope = codes[i].scope,
         DOMAIN tokens' = DOMAIN tokens,
         \A j \in DOMAIN tokens :
           /\ tokens'[j].user = tokens[j].user /\ tokens'[j].client = tokens[j].client
           /\ tokens'[j].scope = tokens[j].scope,
         \A r \in Reqs : reqs'[r].pc \in {"load", "issue"} =>
           /\ reqs[r].pc \in {"load", "issue"}
           /\ reqs'[r].data = reqs[r].data /\ reqs'[r].form = reqs[r].form
  PROVE  Approvals'
  <1>1. \A x, f : ApprovedFor(x, f) => ApprovedFor(x, f)'
    BY DEF ApprovedFor
  <1>2. \A i \in DOMAIN codes :
          [user |-> codes'[i].user, client |-> codes'[i].client, uri |-> codes'[i].uri,
           challenge |-> codes'[i].challenge, scope |-> codes'[i].scope] \in approvals'
    BY DEF Approvals
  <1>3. \A j \in DOMAIN tokens : ApprovedFor(tokens[j], None)'
    BY DEF Approvals, ApprovedFor
  <1>4. \A r \in Reqs : reqs'[r].pc \in {"load", "issue"} => ApprovedFor(reqs[r].data, reqs[r].form)'
    BY DEF Approvals, ApprovedFor
  <1>5. \A g \in grants : ApprovedFor(g, g.form)'
    BY <1>1 DEF Approvals, ApprovedFor
  <1> QED
    BY <1>2, <1>3, <1>4, <1>5 DEF Approvals
-----------------------------------------------------------------------------
\* Nothing happens to the tables and the requests.
LEMMA QuietInv ==
  ASSUME OAuthInv, UNCHANGED <<codes, tokens, reqs, approvals, grants, reused>>,
         \A s \in logins' : s.user \in Users
  PROVE  OAuthInv'
  <1>1. Typed'
    BY DEF OAuthInv, Typed
  <1>2. \A r \in Reqs : Placed(r)'
    BY DEF OAuthInv, Placed
  <1>3. CodesHeld'
    BY CodesFrame DEF OAuthInv, HeldCode
  <1>4. TokensKept'
    BY DEF OAuthInv, TokensKept, Rotating, Succession, Families, Revoking, ReplayEndsFamily
  <1>5. Approvals'
    BY ApprovalsFrame DEF OAuthInv
  <1> QED
    BY <1>1, <1>2, <1>3, <1>4, <1>5 DEF OAuthInv

\* A code is issued for what the user approves.
LEMMA IssueCodeInv ==
  ASSUME OAuthInv, NEW p \in Params, NEW u \in Users, IssueCode(p, u),
         UNCHANGED <<tokens, reqs, grants, reused>>, \A s \in logins' : s.user \in Users
  PROVE  OAuthInv'
  <1> DEFINE n == Len(codes) + 1
  <1>1. NewCode(p, u) \in Code
    BY DEF NewCode, Code, ClientIds, Uris, Challenges, Scopes
  <1>2. codes' = Append(codes, NewCode(p, u)) /\ codes \in Seq(Code)
    BY DEF IssueCode, OAuthInv, Typed
  <1>3. /\ codes' \in Seq(Code) /\ DOMAIN codes' = DOMAIN codes \cup {n} /\ n \notin DOMAIN codes
        /\ \A i \in DOMAIN codes : codes'[i] = codes[i]
        /\ codes'[n] = NewCode(p, u)
    BY <1>1, <1>2, InsertedRow
  <1> HIDE DEF n
  <1>4. Typed'
    BY <1>3 DEF OAuthInv, Typed
  <1>5. \A r \in Reqs : Placed(r)'
    BY <1>3 DEF OAuthInv, Placed
  <1>6. CodesHeld'
    <2>1. \A r \in Reqs : HeldCode(r)' = HeldCode(r)
      BY DEF HeldCode
    <2>2. codes'[n].uses = 0
      BY <1>3 DEF NewCode
    <2> QED
      BY <1>3, <2>1, <2>2 DEF OAuthInv, CodesHeld
  <1>7. TokensKept'
    BY DEF OAuthInv, TokensKept, Rotating, Succession, Families, Revoking, ReplayEndsFamily
  <1>8. Approvals'
    <2>1. approvals \subseteq approvals'
      BY DEF IssueCode
    <2>2. \A x, f : ApprovedFor(x, f) => ApprovedFor(x, f)'
      BY <2>1 DEF ApprovedFor
    <2>3. [user |-> codes'[n].user, client |-> codes'[n].client, uri |-> codes'[n].uri,
           challenge |-> codes'[n].challenge, scope |-> codes'[n].scope] \in approvals'
      BY <1>3 DEF IssueCode, NewCode
    <2>4. \A i \in DOMAIN codes' :
            [user |-> codes'[i].user, client |-> codes'[i].client, uri |-> codes'[i].uri,
             challenge |-> codes'[i].challenge, scope |-> codes'[i].scope] \in approvals'
      BY <1>3, <2>1, <2>3 DEF OAuthInv, Approvals
    <2>5. /\ \A j \in DOMAIN tokens : ApprovedFor(tokens[j], None)'
          /\ \A r \in Reqs : reqs[r].pc \in {"load", "issue"} =>
               ApprovedFor(reqs[r].data, reqs[r].form)'
          /\ \A g \in grants : ApprovedFor(g, g.form)'
      BY <2>1 DEF OAuthInv, Approvals, ApprovedFor
    <2> QED
      BY <2>4, <2>5 DEF Approvals
  <1> QED
    BY <1>4, <1>5, <1>6, <1>7, <1>8 DEF OAuthInv

\* A code grows old.
LEMMA CodeExpiresInv ==
  ASSUME OAuthInv, NEW i \in DOMAIN codes, CodeExpires(i)
  PROVE  OAuthInv'
  <1>1. codes \in Seq(Code) /\ codes[i] \in Code
    BY ElementOfSeq, LenProperties DEF OAuthInv, Typed
  <1>2. [codes[i] EXCEPT !.expired = TRUE] \in Code
    BY <1>1 DEF Code
  <1>3. /\ codes' = [codes EXCEPT ![i] = [codes[i] EXCEPT !.expired = TRUE]]
        /\ UNCHANGED <<logins, tokens, reqs, approvals, grants, reused>>
    BY DEF CodeExpires
  <1>4. /\ codes' \in Seq(Code) /\ DOMAIN codes' = DOMAIN codes
        /\ \A j \in DOMAIN codes :
             codes'[j] = IF j = i THEN [codes[i] EXCEPT !.expired = TRUE] ELSE codes[j]
    BY <1>1, <1>2, <1>3, UpdatedRow
  <1>5. \A j \in DOMAIN codes :
          /\ codes'[j].user = codes[j].user /\ codes'[j].client = codes[j].client
          /\ codes'[j].uri = codes[j].uri /\ codes'[j].challenge = codes[j].challenge
          /\ codes'[j].scope = codes[j].scope
          /\ codes'[j].uses = codes[j].uses /\ codes'[j].present = codes[j].present
    BY <1>1, <1>4 DEF Code
  <1>6. Typed'
    BY <1>3, <1>4 DEF OAuthInv, Typed
  <1>7. \A r \in Reqs : Placed(r)'
    BY <1>3, <1>4 DEF OAuthInv, Placed
  <1>8. CodesHeld'
    <2>1. \A r \in Reqs : HeldCode(r)' = HeldCode(r)
      BY <1>3 DEF HeldCode
    <2> QED
      BY <1>4, <1>5, <2>1 DEF OAuthInv, CodesHeld
  <1>9. TokensKept'
    BY <1>3 DEF OAuthInv, TokensKept, Rotating, Succession, Families, Revoking, ReplayEndsFamily
  <1>10. Approvals'
    BY <1>3, <1>4, <1>5, ApprovalsFrame DEF OAuthInv
  <1> QED
    BY <1>6, <1>7, <1>8, <1>9, <1>10 DEF OAuthInv

\* A token grows old, or is revoked at /revoke when nobody holds its row.
LEMMA TokenFadesInv ==
  ASSUME OAuthInv, NEW i \in DOMAIN tokens, TokenExpires(i) \/ Revoke(i)
  PROVE  OAuthInv'
  <1>1. tokens \in Seq(Token) /\ tokens[i] \in Token
    BY ElementOfSeq, LenProperties DEF OAuthInv, Typed
  <1>2. /\ [tokens[i] EXCEPT !.expired = TRUE] \in Token
        /\ [tokens[i] EXCEPT !.present = FALSE] \in Token
    BY <1>1 DEF Token
  <1>3. UNCHANGED <<logins, codes, reqs, approvals, grants, reused>>
    BY DEF TokenExpires, Revoke, DbOnly
  <1>4. PICK e \in Token :
          /\ tokens' = [tokens EXCEPT ![i] = e]
          /\ \/ e = [tokens[i] EXCEPT !.expired = TRUE]
             \/ e = [tokens[i] EXCEPT !.present = FALSE] /\ tokens[i].lock = None
    BY <1>2 DEF TokenExpires, Revoke
  <1>5. /\ tokens' \in Seq(Token) /\ DOMAIN tokens' = DOMAIN tokens
        /\ \A j \in DOMAIN tokens : tokens'[j] = IF j = i THEN e ELSE tokens[j]
    BY <1>1, <1>4, UpdatedRow
  <1>6. /\ e.chain = tokens[i].chain /\ e.parent = tokens[i].parent
        /\ e.rotated = tokens[i].rotated /\ e.raced = tokens[i].raced
        /\ e.present => tokens[i].present
        /\ tokens[i].present /\ ~e.present => tokens[i].lock = None
        /\ e.lock = tokens[i].lock /\ e.present \in BOOLEAN
        /\ e.user = tokens[i].user /\ e.client = tokens[i].client /\ e.scope = tokens[i].scope
    BY <1>1, <1>4 DEF Token
  <1>7. \A j \in DOMAIN tokens :
          /\ tokens'[j].chain = tokens[j].chain /\ tokens'[j].parent = tokens[j].parent
          /\ tokens'[j].rotated = tokens[j].rotated /\ tokens'[j].raced = tokens[j].raced
          /\ tokens'[j].present => tokens[j].present
          /\ tokens[j].present /\ tokens[j].lock # None => tokens'[j].present
          /\ tokens'[j].lock = tokens[j].lock
          /\ tokens'[j].user = tokens[j].user /\ tokens'[j].client = tokens[j].client
          /\ tokens'[j].scope = tokens[j].scope
    BY <1>5, <1>6
  <1>8. Typed'
    BY <1>3, <1>5 DEF OAuthInv, Typed
  <1>9. \A r \in Reqs : Placed(r)'
    BY <1>3, <1>5 DEF OAuthInv, Placed
  <1>10. CodesHeld'
    BY <1>3, CodesFrame DEF OAuthInv, HeldCode
  <1>11. TokensKept'
    <2>1. Rotating'
      BY <1>3, <1>7, McpOAuthAssumption DEF OAuthInv, TokensKept, Rotating, Placed
    <2> QED
      BY <1>3, <1>5, <1>7, <2>1, TokensFrame DEF OAuthInv
  <1>12. Approvals'
    BY <1>3, <1>5, <1>7, ApprovalsFrame DEF OAuthInv
  <1> QED
    BY <1>8, <1>9, <1>10, <1>11, <1>12 DEF OAuthInv

\* A presented code is read.
LEMMA ConsumeReadInv ==
  ASSUME OAuthInv, NEW r \in Reqs, NEW i \in DOMAIN codes, NEW f \in Forms, ConsumeRead(r, i, f)
  PROVE  OAuthInv'
  <1>1. /\ UNCHANGED <<logins, codes, tokens, approvals, grants, reused>>
        /\ reqs' = [reqs EXCEPT ![r] = [@ EXCEPT !.pc = "delete", !.form = f, !.id = i]]
        /\ reqs \in [Reqs -> Request] /\ codes \in Seq(Code)
    BY DEF ConsumeRead, DbOnly, OAuthInv, Typed
  <1>2. i \in Nat
    BY <1>1, RowNumbers
  <1>3. /\ reqs' \in [Reqs -> Request]
        /\ \A q \in Reqs : q # r => reqs'[q] = reqs[q]
        /\ reqs'[r].pc = "delete" /\ reqs'[r].id = i
    BY <1>1, <1>2 DEF Request, Pcs
  <1>4. Typed'
    BY <1>1, <1>3 DEF OAuthInv, Typed
  <1>5. \A q \in Reqs : Placed(q)'
    BY <1>1, <1>3 DEF OAuthInv, Placed
  <1>6. CodesHeld'
    BY <1>1, <1>3, CodesFrame DEF OAuthInv, HeldCode
  <1>7. TokensKept'
    <2>1. Rotating'
      BY <1>1, <1>3, RotatingFrame DEF OAuthInv, TokensKept
    <2> QED
      BY <1>1, <1>3, <2>1, TokensFrame DEF OAuthInv
  <1>8. Approvals'
    BY <1>1, <1>3, ApprovalsFrame DEF OAuthInv
  <1> QED
    BY <1>4, <1>5, <1>6, <1>7, <1>8 DEF OAuthInv

\* The row is deleted: of the requests that read it, the one that finds it
\* there has the code.
LEMMA ConsumeDeleteInv ==
  ASSUME OAuthInv, NEW r \in Reqs, ConsumeDelete(r)
  PROVE  OAuthInv'
  <1> DEFINE i == reqs[r].id
             gone == [codes[i] EXCEPT !.present = FALSE]
             x == IF codes[i].present /\ ~codes[i].expired
                    THEN [reqs[r] EXCEPT !.pc = "check"] ELSE Idle
  <1>1. /\ UNCHANGED <<logins, tokens, approvals, grants, reused>>
        /\ codes \in Seq(Code) /\ reqs \in [Reqs -> Request]
        /\ codes' = [codes EXCEPT ![i] = gone]
        /\ reqs' = [reqs EXCEPT ![r] = x]
        /\ reqs[r].pc = "delete"
    BY DEF ConsumeDelete, Claimed, Goes, Ends, DbOnly, OAuthInv, Typed
  <1>2. i \in DOMAIN codes /\ i # 0 /\ codes[i] \in Code
    BY <1>1, RowNumbers, ElementOfSeq, LenProperties DEF OAuthInv, Placed
  <1>3. gone \in Code /\ ~gone.present /\ gone.uses = codes[i].uses
    BY <1>2 DEF Code
  <1>4. /\ codes' \in Seq(Code) /\ DOMAIN codes' = DOMAIN codes
        /\ \A j \in DOMAIN codes : codes'[j] = IF j = i THEN gone ELSE codes[j]
    BY <1>1, <1>2, <1>3, UpdatedRow
  <1>5. x \in Request /\ x.pc \in {"idle", "check"}
    BY <1>1 DEF Request, Pcs, Idle
  <1>6. /\ reqs' \in [Reqs -> Request] /\ reqs'[r] = x
        /\ \A q \in Reqs : q # r => reqs'[q] = reqs[q]
    BY <1>1, <1>5
  <1>7. x.pc = "check" => x.id = i /\ codes[i].present
    BY <1>1 DEF Idle, Request
  <1>8. x.pc = "idle" => x = Idle
    BY <1>1 DEF Request
  <1>9. \A j \in DOMAIN codes :
          /\ codes'[j].user = codes[j].user /\ codes'[j].client = codes[j].client
          /\ codes'[j].uri = codes[j].uri /\ codes'[j].challenge = codes[j].challenge
          /\ codes'[j].scope = codes[j].scope
          /\ codes'[j].uses = codes[j].uses /\ (codes'[j].present => codes[j].present)
    BY <1>2, <1>4 DEF Code
  <1> HIDE DEF x, gone
  <1>10. Typed'
    BY <1>1, <1>4, <1>6 DEF OAuthInv, Typed
  <1>11. \A q \in Reqs : Placed(q)'
    BY <1>1, <1>2, <1>4, <1>5, <1>6, <1>7, <1>8 DEF OAuthInv, Placed
  <1>12. CodesHeld'
    <2>1. \A q \in Reqs : q # r => HeldCode(q)' = HeldCode(q)
      BY <1>6 DEF HeldCode
    <2>2. HeldCode(r)' = IF x.pc = "check" THEN i ELSE 0
      BY <1>5, <1>6, <1>7 DEF HeldCode
    <2>3. \A j \in DOMAIN codes' : codes'[j].uses <= 1 /\ (codes'[j].present => codes'[j].uses = 0)
      BY <1>4, <1>9 DEF OAuthInv, CodesHeld
    <2>4. ASSUME NEW q \in Reqs, HeldCode(q)' # 0
          PROVE  /\ HeldCode(q)' \in DOMAIN codes'
                 /\ ~codes'[HeldCode(q)'].present /\ codes'[HeldCode(q)'].uses = 0
                 /\ \A p \in Reqs : HeldCode(p)' = HeldCode(q)' => p = q
      <3>1. CASE q = r
        <4>1. HeldCode(q)' = i /\ codes[i].present
          BY <1>7, <2>2, <2>4, <3>1
        <4>2. codes[i].uses = 0 /\ \A p \in Reqs : HeldCode(p) # i
          BY <1>2, <4>1 DEF OAuthInv, CodesHeld
        <4> QED
          BY <1>2, <1>3, <1>4, <2>1, <3>1, <4>1, <4>2
      <3>2. CASE q # r
        <4>1. HeldCode(q)' = HeldCode(q)
          BY <2>1, <3>2
        <4>2. /\ HeldCode(q) \in DOMAIN codes
              /\ ~codes[HeldCode(q)].present /\ codes[HeldCode(q)].uses = 0
              /\ \A p \in Reqs : HeldCode(p) = HeldCode(q) => p = q
          BY <2>4, <4>1 DEF OAuthInv, CodesHeld
        <4>3. HeldCode(r)' # HeldCode(q)
          BY <1>7, <2>2, <2>4, <4>1, <4>2
        <4> QED
          BY <1>4, <1>9, <2>1, <4>1, <4>2, <4>3
      <3> QED
        BY <3>1, <3>2
    <2> QED
      BY <2>3, <2>4 DEF CodesHeld
  <1>13. TokensKept'
    <2>1. Rotating'
      BY <1>1, <1>5, <1>6, RotatingFrame DEF OAuthInv, TokensKept
    <2> QED
      BY <1>1, <1>5, <1>6, <2>1, TokensFrame DEF OAuthInv
  <1>14. Approvals'
    BY <1>1, <1>4, <1>5, <1>6, <1>9, ApprovalsFrame DEF OAuthInv
  <1> QED
    BY <1>10, <1>11, <1>12, <1>13, <1>14 DEF OAuthInv

\* What came with the code is compared with it.
LEMMA CheckCodeInv ==
  ASSUME OAuthInv, NEW r \in Reqs, CheckCode(r)
  PROVE  OAuthInv'
  <1> DEFINE c == codes[reqs[r].id]
             d == [user |-> c.user, client |-> c.client, scope |-> c.scope, code |-> reqs[r].id]
             x == IF CodeChecks(c, reqs[r].form)
                    THEN [reqs[r] EXCEPT !.pc = "load", !.data = d] ELSE Idle
  <1>1. /\ UNCHANGED <<logins, codes, tokens, approvals, grants, reused>>
        /\ codes \in Seq(Code) /\ reqs \in [Reqs -> Request]
        /\ reqs' = [reqs EXCEPT ![r] = x]
        /\ reqs[r].pc = "check"
    BY DEF CheckCode, Ends, DbOnly, OAuthInv, Typed
  <1>2. reqs[r].id \in DOMAIN codes /\ reqs[r].id \in Nat /\ c \in Code
    BY <1>1, RowNumbers, ElementOfSeq, LenProperties DEF OAuthInv, Placed
  <1>3. d \in Data
    BY <1>2 DEF Code, Data
  <1>4. x \in Request /\ x.pc \in {"idle", "load"} /\ (x.pc = "idle" => x = Idle)
    BY <1>1, <1>3 DEF Request, Pcs, Idle
  <1>5. x.pc = "load" => x.data = d /\ x.form = reqs[r].form /\ CodeChecks(c, reqs[r].form)
    BY <1>1 DEF Idle, Request
  <1> HIDE DEF x
  <1>6. /\ reqs' \in [Reqs -> Request] /\ reqs'[r] = x
        /\ \A q \in Reqs : q # r => reqs'[q] = reqs[q]
    BY <1>1, <1>4
  <1>7. Typed'
    BY <1>1, <1>6 DEF OAuthInv, Typed
  <1>8. \A q \in Reqs : Placed(q)'
    BY <1>1, <1>3, <1>4, <1>5, <1>6 DEF OAuthInv, Placed
  <1>9. CodesHeld'
    <2>1. HeldCode(r)' \in {0, HeldCode(r)}
      BY <1>1, <1>4, <1>5, <1>6 DEF HeldCode
    <2>2. \A q \in Reqs : q # r => HeldCode(q)' = HeldCode(q)
      BY <1>6 DEF HeldCode
    <2> QED
      BY <1>1, <2>1, <2>2, CodesFrame DEF OAuthInv
  <1>10. TokensKept'
    <2>1. Rotating'
      BY <1>1, <1>4, <1>6, RotatingFrame DEF OAuthInv, TokensKept
    <2> QED
      BY <1>1, <1>4, <1>6, <2>1, TokensFrame DEF OAuthInv
  <1>11. Approvals'
    <2>1. x.pc = "load" => ApprovedFor(d, x.form)
      <3> SUFFICES ASSUME x.pc = "load" PROVE ApprovedFor(d, x.form)
        OBVIOUS
      <3> DEFINE a == [user |-> c.user, client |-> c.client, uri |-> c.uri,
                       challenge |-> c.challenge, scope |-> c.scope]
      <3>1. a \in approvals
        BY <1>2 DEF OAuthInv, Approvals
      <3>2. c.uri = x.form.uri /\ c.challenge = S256(x.form.verifier)
        BY <1>5 DEF CodeChecks
      <3> QED
        BY <3>1, <3>2 DEF ApprovedFor
    <2>2. \A q \in Reqs : reqs'[q].pc \in {"load", "issue"} =>
            ApprovedFor(reqs'[q].data, reqs'[q].form)
      BY <1>4, <1>5, <1>6, <2>1 DEF OAuthInv, Approvals
    <2> QED
      BY <1>1, <2>2 DEF OAuthInv, Approvals, ApprovedFor
  <1> QED
    BY <1>7, <1>8, <1>9, <1>10, <1>11 DEF OAuthInv

\* An access token is minted for what the request has in hand; a code it was
\* minted for is used.
LEMMA LoadAndMintInv ==
  ASSUME OAuthInv, NEW r \in Reqs, LoadAndMint(r)
  PROVE  OAuthInv'
  <1> DEFINE d == reqs[r].data
             i == d.code
             g == [user |-> d.user, client |-> d.client, scope |-> d.scope, form |-> reqs[r].form]
             used == [codes[i] EXCEPT !.uses = @ + 1]
             mints == LoadUser(d.user) /\ i # 0
             x == IF mints THEN [reqs[r] EXCEPT !.pc = "issue"] ELSE Idle
  <1>1. /\ UNCHANGED <<logins, tokens, approvals, reused>>
        /\ codes \in Seq(Code) /\ reqs \in [Reqs -> Request]
        /\ reqs[r].pc = "load" /\ d \in Data
        /\ grants' \subseteq grants \cup {g}
        /\ codes' = IF mints THEN [codes EXCEPT ![i] = used] ELSE codes
        /\ reqs' = [reqs EXCEPT ![r] = x]
    BY DEF LoadAndMint, Goes, Ends, OAuthInv, Typed, Placed
  <1>2. /\ x \in Request /\ x.pc \in {"idle", "issue"} /\ (x.pc = "idle" => x = Idle)
        /\ x.pc = "issue" => x.data = d /\ x.form = reqs[r].form
    BY <1>1 DEF Request, Pcs, Idle
  <1>3. HeldCode(r) = i
    BY <1>1 DEF HeldCode
  <1>4. mints => /\ i \in DOMAIN codes /\ ~codes[i].present /\ codes[i].uses = 0
                 /\ \A q \in Reqs : HeldCode(q) = i => q = r
    BY <1>3 DEF OAuthInv, CodesHeld
  <1> HIDE DEF x
  <1>5. /\ reqs' \in [Reqs -> Request] /\ reqs'[r] = x
        /\ \A q \in Reqs : q # r => reqs'[q] = reqs[q]
    BY <1>1, <1>2
  <1>6. /\ codes' \in Seq(Code) /\ DOMAIN codes' = DOMAIN codes
        /\ \A j \in DOMAIN codes :
             /\ codes'[j].user = codes[j].user /\ codes'[j].client = codes[j].client
             /\ codes'[j].uri = codes[j].uri /\ codes'[j].challenge = codes[j].challenge
             /\ codes'[j].scope = codes[j].scope /\ codes'[j].present = codes[j].present
             /\ codes'[j].uses = IF mints /\ j = i THEN 1 ELSE codes[j].uses
    <2>1. CASE mints
      <3>1. codes[i] \in Code
        BY <1>1, <1>4, <2>1, ElementOfSeq, LenProperties
      <3>2. /\ used \in Code /\ used.uses = 1 /\ used.present = codes[i].present
            /\ used.user = codes[i].user /\ used.client = codes[i].client
            /\ used.uri = codes[i].uri /\ used.challenge = codes[i].challenge
            /\ used.scope = codes[i].scope
        BY <1>4, <2>1, <3>1 DEF Code
      <3> HIDE DEF used, i
      <3>3. codes' = [codes EXCEPT ![i] = used]
        BY <1>1, <2>1
      <3>4. /\ codes' \in Seq(Code) /\ DOMAIN codes' = DOMAIN codes
            /\ \A j \in DOMAIN codes : codes'[j] = IF j = i THEN used ELSE codes[j]
        BY <1>1, <1>4, <2>1, <3>2, <3>3, UpdatedRow
      <3> QED
        BY <2>1, <3>2, <3>4
    <2>2. CASE ~mints
      BY <1>1, <2>2
    <2> QED
      BY <2>1, <2>2
  <1> HIDE DEF mints, used
  <1>7. Typed'
    BY <1>1, <1>5, <1>6 DEF OAuthInv, Typed
  <1>8. \A q \in Reqs : Placed(q)'
    BY <1>1, <1>2, <1>5, <1>6 DEF OAuthInv, Placed
  <1>9. CodesHeld'
    <2>1. HeldCode(r)' = 0
      BY <1>2, <1>5 DEF HeldCode
    <2>2. \A q \in Reqs : q # r => HeldCode(q)' = HeldCode(q)
      BY <1>5 DEF HeldCode
    <2> QED
      BY <1>4, <1>6, <2>1, <2>2 DEF OAuthInv, CodesHeld
  <1>10. TokensKept'
    <2>1. Rotating'
      BY <1>1, <1>2, <1>5, RotatingFrame DEF OAuthInv, TokensKept
    <2> QED
      BY <1>1, <1>2, <1>5, <2>1, TokensFrame DEF OAuthInv
  <1>11. Approvals'
    <2>1. ApprovedFor(d, reqs[r].form)
      BY <1>1 DEF OAuthInv, Approvals
    <2>2. ApprovedFor(g, g.form)
      BY <2>1 DEF ApprovedFor
    <2>3. \A h \in grants' : ApprovedFor(h, h.form)
      BY <1>1, <2>2 DEF OAuthInv, Approvals
    <2>4. \A q \in Reqs : reqs'[q].pc \in {"load", "issue"} =>
            ApprovedFor(reqs'[q].data, reqs'[q].form)
      BY <1>2, <1>5, <2>1 DEF OAuthInv, Approvals
    <2>5. \A j \in DOMAIN codes :
            [user |-> codes'[j].user, client |-> codes'[j].client, uri |-> codes'[j].uri,
             challenge |-> codes'[j].challenge, scope |-> codes'[j].scope] \in approvals
      BY <1>6 DEF OAuthInv, Approvals
    <2>6. \A j \in DOMAIN tokens : ApprovedFor(tokens[j], None)
      BY DEF OAuthInv, Approvals
    <2> QED
      BY <1>1, <1>6, <2>3, <2>4, <2>5, <2>6 DEF Approvals, ApprovedFor
  <1> QED
    BY <1>7, <1>8, <1>9, <1>10, <1>11 DEF OAuthInv

\* A new family begins with a row of its own number.
LEMMA IssueRefreshInv ==
  ASSUME OAuthInv, NEW r \in Reqs, IssueRefresh(r)
  PROVE  OAuthInv'
  <1> DEFINE n == Len(tokens) + 1
             t == NewToken(reqs[r].data, n, 0, FALSE)
  <1>1. /\ UNCHANGED <<logins, codes, approvals, grants, reused>>
        /\ tokens \in Seq(Token) /\ reqs \in [Reqs -> Request]
        /\ tokens' = Append(tokens, t)
        /\ reqs' = [reqs EXCEPT ![r] = Idle]
        /\ reqs[r].pc = "issue" /\ reqs[r].data \in Data
    BY DEF IssueRefresh, Ends, DbOnly, OAuthInv, Typed, Placed
  <1>2. t \in Token /\ t.parent = 0 /\ t.chain = n /\ n \in Nat \ {0}
    BY <1>1, LenProperties DEF NewToken, Token, Data
  <1>3. /\ t.user = reqs[r].data.user /\ t.client = reqs[r].data.client
        /\ t.scope = reqs[r].data.scope
    BY DEF NewToken
  <1> HIDE DEF t
  <1>4. /\ tokens' \in Seq(Token) /\ DOMAIN tokens' = DOMAIN tokens \cup {n}
        /\ n \notin DOMAIN tokens /\ tokens'[n] = t
        /\ \A j \in DOMAIN tokens : tokens'[j] = tokens[j]
    BY <1>1, <1>2, InsertedRow
  <1> HIDE DEF n
  <1>5. Idle \in Request /\ Idle.pc = "idle"
    BY DEF Idle, Request, Pcs
  <1>6. /\ reqs' \in [Reqs -> Request] /\ reqs'[r] = Idle
        /\ \A q \in Reqs : q # r => reqs'[q] = reqs[q]
    BY <1>1, <1>5
  <1>7. Typed'
    BY <1>1, <1>4, <1>6 DEF OAuthInv, Typed
  <1>8. \A q \in Reqs : Placed(q)'
    BY <1>1, <1>4, <1>5, <1>6 DEF OAuthInv, Placed
  <1>9. CodesHeld'
    <2>1. \A q \in Reqs : HeldCode(q)' \in {0, HeldCode(q)}
      BY <1>5, <1>6 DEF HeldCode
    <2> QED
      BY <1>1, <2>1, CodesFrame DEF OAuthInv
  <1>10. TokensKept'
    <2>1. \A q \in Reqs : reqs'[q].pc \in {"insert", "revoking"} =>
            reqs'[q] = reqs[q] /\ reqs[q].id \in DOMAIN tokens
      BY <1>5, <1>6 DEF OAuthInv, Placed
    <2>2. Rotating'
      BY <1>4, <2>1 DEF OAuthInv, TokensKept, Rotating
    <2>3. Succession'
      BY <1>2, <1>4 DEF OAuthInv, TokensKept, Succession
    <2>4. Families'
      BY <1>1, <1>2, <1>4 DEF OAuthInv, TokensKept, Families
    <2>5. Revoking'
      BY <1>2, <1>4, <2>1 DEF OAuthInv, TokensKept, Revoking, Families
    <2>6. ReplayEndsFamily'
      BY <1>1, <1>2, <1>4 DEF OAuthInv, TokensKept, ReplayEndsFamily, Families
    <2> QED
      BY <2>2, <2>3, <2>4, <2>5, <2>6 DEF TokensKept
  <1>11. Approvals'
    <2>1. ApprovedFor(t, None)
      BY <1>1, <1>3 DEF OAuthInv, Approvals, ApprovedFor
    <2>2. \A j \in DOMAIN tokens' : ApprovedFor(tokens'[j], None)
      BY <1>4, <2>1 DEF OAuthInv, Approvals
    <2>3. \A q \in Reqs : reqs'[q].pc \in {"load", "issue"} =>
            ApprovedFor(reqs'[q].data, reqs'[q].form)
      BY <1>5, <1>6 DEF OAuthInv, Approvals
    <2> QED
      BY <1>1, <2>2, <2>3 DEF OAuthInv, Approvals, ApprovedFor
  <1> QED
    BY <1>7, <1>8, <1>9, <1>10, <1>11 DEF OAuthInv

\* A presented refresh token is read; a family is about to be deleted.
LEMMA RotateReadInv ==
  ASSUME OAuthInv, NEW r \in Reqs, NEW i \in DOMAIN tokens, RotateRead(r, i)
  PROVE  OAuthInv'
  <1> DEFINE p == IF tokens[i].rotated THEN "revoke" ELSE "update"
             x == [reqs[r] EXCEPT !.pc = p, !.id = i]
  <1>1. /\ UNCHANGED <<logins, codes, tokens, approvals, grants, reused>>
        /\ tokens \in Seq(Token) /\ reqs \in [Reqs -> Request]
        /\ reqs' = [reqs EXCEPT ![r] = x]
        /\ reqs[r] = Idle
    BY DEF RotateRead, DbOnly, OAuthInv, Typed, Placed
  <1>2. i \in Nat
    BY <1>1, RowNumbers
  <1>3. x \in Request /\ x.pc \in {"revoke", "update"} /\ x.id = i /\ x.form = None
    <2>1. p \in {"revoke", "update"}
      OBVIOUS
    <2> HIDE DEF p
    <2>2. reqs[r] \in Request
      BY <1>1
    <2>3. reqs[r].form = None
      BY <1>1 DEF Idle
    <2> QED
      BY <1>2, <2>1, <2>2, <2>3 DEF Request, Pcs
  <1> HIDE DEF x
  <1>4. /\ reqs' \in [Reqs -> Request] /\ reqs'[r] = x
        /\ \A q \in Reqs : q # r => reqs'[q] = reqs[q]
    BY <1>1, <1>3
  <1>5. Typed'
    BY <1>1, <1>4 DEF OAuthInv, Typed
  <1>6. \A q \in Reqs : Placed(q)'
    BY <1>1, <1>3, <1>4 DEF OAuthInv, Placed
  <1>7. CodesHeld'
    <2>1. \A q \in Reqs : HeldCode(q)' \in {0, HeldCode(q)}
      BY <1>3, <1>4 DEF HeldCode
    <2> QED
      BY <1>1, <2>1, CodesFrame DEF OAuthInv
  <1>8. TokensKept'
    <2>1. Rotating'
      BY <1>1, <1>3, <1>4, RotatingFrame DEF OAuthInv, TokensKept
    <2> QED
      BY <1>1, <1>3, <1>4, <2>1, TokensFrame DEF OAuthInv
  <1>9. Approvals'
    BY <1>1, <1>3, <1>4, ApprovalsFrame DEF OAuthInv
  <1> QED
    BY <1>5, <1>6, <1>7, <1>8, <1>9 DEF OAuthInv

\* The row is locked by the one request that finds it unlocked and unrotated.
LEMMA RotateUpdateInv ==
  ASSUME OAuthInv, NEW r \in Reqs, RotateUpdate(r)
  PROVE  OAuthInv'
  <1> DEFINE i == reqs[r].id
             e == [tokens[i] EXCEPT !.lock = r]
             p == IF Unrotated(tokens[i]) THEN "insert" ELSE "revoke"
             x == [reqs[r] EXCEPT !.pc = p]
  <1>1. /\ UNCHANGED <<logins, codes, approvals, grants, reused>>
        /\ tokens \in Seq(Token) /\ reqs \in [Reqs -> Request]
        /\ reqs' = [reqs EXCEPT ![r] = x]
        /\ tokens' = IF Unrotated(tokens[i]) THEN [tokens EXCEPT ![i] = e] ELSE tokens
        /\ reqs[r].pc = "update" /\ reqs[r].form = None /\ tokens[i].lock = None
    BY DEF RotateUpdate, Goes, DbOnly, OAuthInv, Typed, Placed
  <1>2. i \in DOMAIN tokens /\ tokens[i] \in Token
    BY <1>1, ElementOfSeq, LenProperties DEF OAuthInv, Placed
  <1>3. x \in Request /\ x.pc = p /\ x.id = i /\ x.form = None /\ p \in {"insert", "revoke"}
    <2>1. p \in {"insert", "revoke"} /\ reqs[r] \in Request
      BY <1>1
    <2> HIDE DEF p
    <2> QED
      BY <1>1, <2>1 DEF Request, Pcs
  <1> HIDE DEF x
  <1>4. /\ reqs' \in [Reqs -> Request] /\ reqs'[r] = x
        /\ \A q \in Reqs : q # r => reqs'[q] = reqs[q]
    BY <1>1, <1>3
  <1>5. /\ e \in Token /\ e.chain = tokens[i].chain /\ e.parent = tokens[i].parent
        /\ e.rotated = tokens[i].rotated /\ e.raced = tokens[i].raced
        /\ e.present = tokens[i].present /\ e.lock = r
        /\ e.user = tokens[i].user /\ e.client = tokens[i].client /\ e.scope = tokens[i].scope
    BY <1>2 DEF Token
  <1> HIDE DEF e
  <1>6. /\ tokens' \in Seq(Token) /\ DOMAIN tokens' = DOMAIN tokens
        /\ \A j \in DOMAIN tokens :
             tokens'[j] = IF j = i /\ Unrotated(tokens[i]) THEN e ELSE tokens[j]
    BY <1>1, <1>2, <1>5, UpdatedRow
  <1>7. \A j \in DOMAIN tokens :
          /\ tokens'[j].chain = tokens[j].chain /\ tokens'[j].parent = tokens[j].parent
          /\ tokens'[j].rotated = tokens[j].rotated /\ tokens'[j].raced = tokens[j].raced
          /\ tokens'[j].present = tokens[j].present
          /\ tokens'[j].user = tokens[j].user /\ tokens'[j].client = tokens[j].client
          /\ tokens'[j].scope = tokens[j].scope
          /\ tokens[j].lock # None => tokens'[j].lock = tokens[j].lock
    BY <1>1, <1>5, <1>6
  <1>8. Typed'
    BY <1>1, <1>4, <1>6 DEF OAuthInv, Typed
  <1>9. \A q \in Reqs : Placed(q)'
    BY <1>1, <1>2, <1>3, <1>4, <1>6 DEF OAuthInv, Placed
  <1>10. CodesHeld'
    <2>1. \A q \in Reqs : HeldCode(q)' \in {0, HeldCode(q)}
      BY <1>3, <1>4 DEF HeldCode
    <2> QED
      BY <1>1, <2>1, CodesFrame DEF OAuthInv
  <1>11. TokensKept'
    <2>1. Rotating'
      <3> SUFFICES ASSUME NEW q \in Reqs, reqs'[q].pc = "insert"
                   PROVE  LET u == tokens'[reqs'[q].id] IN u.lock = q /\ u.present /\ ~u.rotated
        BY DEF Rotating
      <3>1. CASE q = r
        BY <1>2, <1>3, <1>4, <1>5, <1>6, <3>1 DEF Unrotated
      <3>2. CASE q # r
        <4>1. reqs'[q] = reqs[q] /\ reqs[q].id \in DOMAIN tokens
          BY <1>4, <3>2 DEF OAuthInv, Placed
        <4> QED
          BY <1>7, <4>1, McpOAuthAssumption DEF OAuthInv, TokensKept, Rotating
      <3> QED
        BY <3>1, <3>2
    <2> QED
      BY <1>1, <1>3, <1>4, <1>6, <1>7, <2>1, TokensFrame DEF OAuthInv
  <1>12. Approvals'
    BY <1>1, <1>3, <1>4, <1>6, <1>7, ApprovalsFrame DEF OAuthInv
  <1> QED
    BY <1>8, <1>9, <1>10, <1>11, <1>12 DEF OAuthInv

\* The successor is committed: it is the first of its parent, and it is
\* marked when its family is being deleted.
LEMMA RotateCommitInv ==
  ASSUME OAuthInv, NEW r \in Reqs, RotateCommit(r)
  PROVE  OAuthInv'
  <1> DEFINE i == reqs[r].id
             t == tokens[i]
             raced == t.raced \/ \E q \in Reqs : reqs[q].pc = "revoking" /\ tokens[reqs[q].id].chain = t.chain
             e == [t EXCEPT !.rotated = TRUE, !.lock = None]
             rows == [tokens EXCEPT ![i] = e]
             n == Len(tokens) + 1
             s == NewToken(t, t.chain, i, raced)
             d == [user |-> t.user, client |-> t.client, scope |-> t.scope, code |-> 0]
             x == [reqs[r] EXCEPT !.pc = "load", !.data = d]
  <1>1. /\ UNCHANGED <<logins, codes, approvals, grants, reused>>
        /\ tokens \in Seq(Token) /\ reqs \in [Reqs -> Request]
        /\ reqs' = [reqs EXCEPT ![r] = x]
        /\ tokens' = Append(rows, s)
        /\ reqs[r].pc = "insert" /\ reqs[r].form = None
    BY DEF RotateCommit, DbOnly, OAuthInv, Typed, Placed
  <1>2. i \in DOMAIN tokens /\ t \in Token /\ i # 0 /\ i \in Nat
    BY <1>1, RowNumbers, ElementOfSeq, LenProperties DEF OAuthInv, Placed
  <1>3. t.present /\ ~t.rotated /\ t.lock = r
    BY <1>1 DEF OAuthInv, TokensKept, Rotating
  <1>4. raced \in BOOLEAN
    BY <1>2 DEF Token
  <1>5. d \in Data /\ d.code = 0
    BY <1>2 DEF Token, Data
  <1>6. x \in Request /\ x.pc = "load" /\ x.data = d /\ x.form = None
    BY <1>1, <1>5 DEF Request, Pcs
  <1>7. /\ e \in Token /\ e.chain = t.chain /\ e.parent = t.parent
        /\ e.rotated /\ e.raced = t.raced /\ e.present = t.present
        /\ e.user = t.user /\ e.client = t.client /\ e.scope = t.scope
    BY <1>2 DEF Token
  <1>8. /\ s \in Token /\ s.parent = i /\ s.chain = t.chain /\ s.raced = raced
        /\ s.user = t.user /\ s.client = t.client /\ s.scope = t.scope
    <2> HIDE DEF raced
    <2> QED
      BY <1>2, <1>4 DEF NewToken, Token
  <1>9. /\ reqs' \in [Reqs -> Request] /\ reqs'[r] = x
        /\ \A q \in Reqs : q # r => reqs'[q] = reqs[q]
    BY <1>1, <1>6
  <1> HIDE DEF x, s, e, raced
  <1>10. /\ rows \in Seq(Token) /\ DOMAIN rows = DOMAIN tokens
         /\ \A j \in DOMAIN tokens : rows[j] = IF j = i THEN e ELSE tokens[j]
    BY <1>1, <1>2, <1>7, UpdatedRow
  <1>11. Len(rows) = Len(tokens)
    BY <1>1, <1>2, <1>7, ExceptSeq, LenProperties
  <1> HIDE DEF rows
  <1>12. /\ tokens' \in Seq(Token) /\ DOMAIN tokens' = DOMAIN tokens \cup {n}
         /\ n \notin DOMAIN tokens /\ tokens'[n] = s
         /\ \A j \in DOMAIN tokens : tokens'[j] = IF j = i THEN e ELSE tokens[j]
    BY <1>1, <1>8, <1>10, <1>11, InsertedRow
  <1> HIDE DEF n
  <1>13. \A j \in DOMAIN tokens :
           /\ tokens'[j].chain = tokens[j].chain /\ tokens'[j].parent = tokens[j].parent
           /\ tokens[j].rotated => tokens'[j].rotated
           /\ tokens'[j].raced = tokens[j].raced /\ tokens'[j].present = tokens[j].present
           /\ tokens'[j].user = tokens[j].user /\ tokens'[j].client = tokens[j].client
           /\ tokens'[j].scope = tokens[j].scope
           /\ j # i => tokens'[j] = tokens[j]
    BY <1>7, <1>12
  <1>14. Typed'
    BY <1>1, <1>9, <1>12 DEF OAuthInv, Typed
  <1>15. \A q \in Reqs : Placed(q)'
    BY <1>1, <1>5, <1>6, <1>9, <1>12 DEF OAuthInv, Placed
  <1>16. CodesHeld'
    <2>1. \A q \in Reqs : HeldCode(q)' \in {0, HeldCode(q)}
      BY <1>5, <1>6, <1>9 DEF HeldCode
    <2> QED
      BY <1>1, <2>1, CodesFrame DEF OAuthInv
  <1>17. TokensKept'
    <2>1. \A q \in Reqs : reqs'[q].pc \in {"insert", "revoking"} =>
            q # r /\ reqs'[q] = reqs[q] /\ reqs[q].id \in DOMAIN tokens
      BY <1>6, <1>9 DEF OAuthInv, Placed
    <2>2. Rotating'
      BY <1>3, <1>13, <2>1 DEF OAuthInv, TokensKept, Rotating
    <2>3. Succession'
      <3>1. \A j \in DOMAIN tokens : tokens[j].parent # i
        BY <1>2, <1>3 DEF OAuthInv, TokensKept, Succession
      <3> QED
        BY <1>2, <1>7, <1>8, <1>12, <1>13, <3>1 DEF OAuthInv, TokensKept, Succession
    <2>4. Families'
      <3>1. (\A j \in DOMAIN tokens : tokens[j].chain \in DOMAIN tokens) /\ reused \subseteq DOMAIN tokens
        BY DEF OAuthInv, TokensKept, Families
      <3>2. reused' = reused /\ t.chain \in DOMAIN tokens
        BY <1>1, <1>2, <3>1
      <3>3. \A j \in DOMAIN tokens' : tokens'[j].chain \in DOMAIN tokens'
        BY <1>8, <1>12, <1>13, <3>1, <3>2
      <3> QED
        BY <1>12, <3>1, <3>2, <3>3 DEF Families
    <2>5. Revoking'
      <3> SUFFICES ASSUME NEW q \in Reqs, reqs'[q].pc = "revoking", NEW j \in DOMAIN tokens',
                          tokens'[j].chain = tokens'[reqs'[q].id].chain, tokens'[j].present
                   PROVE  j \in reqs'[q].seen \/ tokens'[j].raced
        BY DEF Revoking
      <3>1. reqs'[q] = reqs[q] /\ reqs[q].pc = "revoking" /\ reqs[q].id \in DOMAIN tokens
        BY <2>1
      <3>2. CASE j \in DOMAIN tokens
        BY <1>13, <3>1, <3>2 DEF OAuthInv, TokensKept, Revoking
      <3>3. CASE j = n
        <4>1. tokens[reqs[q].id].chain = t.chain
          BY <1>8, <1>12, <1>13, <3>1, <3>3
        <4>2. raced
          BY <3>1, <4>1 DEF raced
        <4> QED
          BY <1>8, <1>12, <3>3, <4>2
      <3> QED
        BY <1>12, <3>2, <3>3
    <2>6. ReplayEndsFamily'
      <3>1. t.chain \in reused => raced
        BY <1>2, <1>3 DEF OAuthInv, TokensKept, ReplayEndsFamily, raced
      <3> QED
        BY <1>1, <1>8, <1>12, <1>13, <3>1 DEF OAuthInv, TokensKept, ReplayEndsFamily
    <2> QED
      BY <2>2, <2>3, <2>4, <2>5, <2>6 DEF TokensKept
  <1>18. Approvals'
    <2>1. ApprovedFor(t, None)
      BY <1>2 DEF OAuthInv, Approvals
    <2>2. ApprovedFor(s, None) /\ ApprovedFor(d, None)
      BY <1>8, <2>1 DEF ApprovedFor
    <2>3. \A j \in DOMAIN tokens' : ApprovedFor(tokens'[j], None)
      BY <1>12, <1>13, <2>2 DEF OAuthInv, Approvals, ApprovedFor
    <2>4. \A q \in Reqs : reqs'[q].pc \in {"load", "issue"} =>
            ApprovedFor(reqs'[q].data, reqs'[q].form)
      BY <1>6, <1>9, <2>2 DEF OAuthInv, Approvals
    <2> QED
      BY <1>1, <2>3, <2>4 DEF OAuthInv, Approvals, ApprovedFor
  <1> QED
    BY <1>14, <1>15, <1>16, <1>17, <1>18 DEF OAuthInv

\* The statement that deletes a family begins with all of its rows.
LEMMA RevokeStartsInv ==
  ASSUME OAuthInv, NEW r \in Reqs, RevokeStarts(r)
  PROVE  OAuthInv'
  <1> DEFINE i == reqs[r].id
             x == [reqs[r] EXCEPT !.pc = "revoking", !.seen = Family(i)]
  <1>1. /\ UNCHANGED <<logins, codes, tokens, approvals, grants, reused>>
        /\ tokens \in Seq(Token) /\ reqs \in [Reqs -> Request]
        /\ reqs' = [reqs EXCEPT ![r] = x]
        /\ reqs[r].pc = "revoke" /\ reqs[r].form = None /\ i \in DOMAIN tokens
    BY DEF RevokeStarts, DbOnly, OAuthInv, Typed, Placed
  <1>2. Family(i) \in SUBSET Nat
    BY <1>1, RowNumbers DEF Family
  <1>3. x \in Request /\ x.pc = "revoking" /\ x.id = i /\ x.form = None /\ x.seen = Family(i)
    BY <1>1, <1>2 DEF Request, Pcs
  <1> HIDE DEF x
  <1>4. /\ reqs' \in [Reqs -> Request] /\ reqs'[r] = x
        /\ \A q \in Reqs : q # r => reqs'[q] = reqs[q]
    BY <1>1, <1>3
  <1>5. Typed'
    BY <1>1, <1>4 DEF OAuthInv, Typed
  <1>6. \A q \in Reqs : Placed(q)'
    BY <1>1, <1>3, <1>4 DEF OAuthInv, Placed
  <1>7. CodesHeld'
    <2>1. \A q \in Reqs : HeldCode(q)' \in {0, HeldCode(q)}
      BY <1>3, <1>4 DEF HeldCode
    <2> QED
      BY <1>1, <2>1, CodesFrame DEF OAuthInv
  <1>8. TokensKept'
    <2>1. Rotating'
      BY <1>1, <1>3, <1>4, RotatingFrame DEF OAuthInv, TokensKept
    <2>2. Revoking'
      BY <1>1, <1>3, <1>4 DEF OAuthInv, TokensKept, Revoking, Family
    <2> QED
      BY <1>1, <2>1, <2>2 DEF OAuthInv, TokensKept, Succession, Families, ReplayEndsFamily
  <1>9. Approvals'
    BY <1>1, <1>3, <1>4, ApprovalsFrame DEF OAuthInv
  <1> QED
    BY <1>5, <1>6, <1>7, <1>8, <1>9 DEF OAuthInv

\* The rows of the family that the statement saw are gone; a row that a
\* rotation holds is not deleted under it.
LEMMA RevokeEndsInv ==
  ASSUME OAuthInv, NEW r \in Reqs, RevokeEnds(r)
  PROVE  OAuthInv'
  <1> DEFINE i == reqs[r].id
             seen == reqs[r].seen
  <1>1. /\ UNCHANGED <<logins, codes, approvals, grants>>
        /\ tokens \in Seq(Token) /\ reqs \in [Reqs -> Request]
        /\ reqs' = [reqs EXCEPT ![r] = Idle]
        /\ reqs[r].pc = "revoking" /\ i \in DOMAIN tokens
        /\ \A j \in seen : tokens[j].lock = None
        /\ reused' = reused \cup {tokens[i].chain}
        /\ tokens' = [j \in DOMAIN tokens |->
             IF j \in seen THEN [tokens[j] EXCEPT !.present = FALSE] ELSE tokens[j]]
    BY DEF RevokeEnds, Ends, DbOnly, OAuthInv, Typed, Placed
  <1>2. \A j \in DOMAIN tokens : tokens[j] \in Token
    BY <1>1, ElementOfSeq, LenProperties
  <1>3. \A j \in DOMAIN tokens :
          /\ tokens'[j] \in Token
          /\ tokens'[j].chain = tokens[j].chain /\ tokens'[j].parent = tokens[j].parent
          /\ tokens'[j].rotated = tokens[j].rotated /\ tokens'[j].raced = tokens[j].raced
          /\ tokens'[j].lock = tokens[j].lock
          /\ tokens'[j].present = IF j \in seen THEN FALSE ELSE tokens[j].present
          /\ tokens'[j].user = tokens[j].user /\ tokens'[j].client = tokens[j].client
          /\ tokens'[j].scope = tokens[j].scope
    BY <1>1, <1>2 DEF Token
  <1>4. tokens' \in Seq(Token) /\ DOMAIN tokens' = DOMAIN tokens
    <2>1. tokens' \in [DOMAIN tokens -> Token]
      BY <1>1, <1>3
    <2> QED
      BY <1>1, <2>1, UpdatedRows
  <1>5. Idle \in Request /\ Idle.pc = "idle"
    BY DEF Idle, Request, Pcs
  <1>6. /\ reqs' \in [Reqs -> Request] /\ reqs'[r] = Idle
        /\ \A q \in Reqs : q # r => reqs'[q] = reqs[q]
    BY <1>1, <1>5
  <1>7. Typed'
    BY <1>1, <1>4, <1>6 DEF OAuthInv, Typed
  <1>8. \A q \in Reqs : Placed(q)'
    BY <1>1, <1>4, <1>5, <1>6 DEF OAuthInv, Placed
  <1>9. CodesHeld'
    <2>1. \A q \in Reqs : HeldCode(q)' \in {0, HeldCode(q)}
      BY <1>5, <1>6 DEF HeldCode
    <2> QED
      BY <1>1, <2>1, CodesFrame DEF OAuthInv
  <1>10. TokensKept'
    <2>1. \A q \in Reqs : reqs'[q].pc \in {"insert", "revoking"} =>
            reqs'[q] = reqs[q] /\ reqs[q].id \in DOMAIN tokens
      BY <1>5, <1>6 DEF OAuthInv, Placed
    <2>2. Rotating'
      BY <1>1, <1>3, <2>1, McpOAuthAssumption DEF OAuthInv, TokensKept, Rotating
    <2>3. Succession'
      <3> SUFFICES ASSUME NEW j \in DOMAIN tokens, tokens'[j].parent # 0
                   PROVE  /\ tokens'[j].parent \in DOMAIN tokens /\ tokens'[tokens'[j].parent].rotated
                          /\ \A k \in DOMAIN tokens : tokens'[k].parent = tokens'[j].parent => k = j
        BY <1>4 DEF Succession
      <3>1. /\ tokens[j].parent \in DOMAIN tokens /\ tokens[tokens[j].parent].rotated
            /\ \A k \in DOMAIN tokens : tokens[k].parent = tokens[j].parent => k = j
        BY <1>3 DEF OAuthInv, TokensKept, Succession
      <3>2. \A k \in DOMAIN tokens : tokens'[k].parent = tokens[k].parent /\ tokens'[k].rotated = tokens[k].rotated
        BY <1>3
      <3> QED
        BY ONLY <3>1, <3>2
    <2>4. Families'
      BY <1>1, <1>3, <1>4 DEF OAuthInv, TokensKept, Families
    <2>5. Revoking'
      <3> SUFFICES ASSUME NEW q \in Reqs, reqs'[q].pc = "revoking", NEW j \in DOMAIN tokens,
                          tokens'[j].chain = tokens'[reqs'[q].id].chain, tokens'[j].present
                   PROVE  j \in reqs'[q].seen \/ tokens'[j].raced
        BY <1>4 DEF Revoking
      <3>1. reqs'[q] = reqs[q] /\ reqs[q].pc = "revoking" /\ reqs[q].id \in DOMAIN tokens
        BY <2>1
      <3>2. tokens[j].chain = tokens[reqs[q].id].chain /\ tokens'[j].raced = tokens[j].raced
        BY <1>3, <3>1
      <3>3. tokens[j].present
        BY <1>3
      <3> QED
        BY <3>1, <3>2, <3>3 DEF OAuthInv, TokensKept, Revoking
    <2>6. ReplayEndsFamily'
      BY <1>1, <1>3, <1>4 DEF OAuthInv, TokensKept, Revoking, ReplayEndsFamily
    <2> QED
      BY <2>2, <2>3, <2>4, <2>5, <2>6 DEF TokensKept
  <1>11. Approvals'
    BY <1>1, <1>3, <1>4, <1>5, <1>6, ApprovalsFrame DEF OAuthInv
  <1> QED
    BY <1>7, <1>8, <1>9, <1>10, <1>11 DEF OAuthInv

\* A process that dies loses its requests and their locks together.
LEMMA WorkerDiesInv ==
  ASSUME OAuthInv, NEW w, WorkerDies(w)
  PROVE  OAuthInv'
  <1>1. /\ UNCHANGED <<logins, codes, approvals, grants, reused>>
        /\ tokens \in Seq(Token) /\ reqs \in [Reqs -> Request]
        /\ reqs' = [r \in Reqs |-> IF WorkerOf[r] = w THEN Idle ELSE reqs[r]]
        /\ tokens' = [j \in DOMAIN tokens |->
             IF tokens[j].lock # None /\ WorkerOf[tokens[j].lock] = w
             THEN [tokens[j] EXCEPT !.lock = None] ELSE tokens[j]]
    BY DEF WorkerDies, DbOnly, OAuthInv, Typed
  <1>2. \A j \in DOMAIN tokens : tokens[j] \in Token
    BY <1>1, ElementOfSeq, LenProperties
  <1>3. \A j \in DOMAIN tokens :
          /\ tokens'[j] \in Token
          /\ tokens'[j].chain = tokens[j].chain /\ tokens'[j].parent = tokens[j].parent
          /\ tokens'[j].rotated = tokens[j].rotated /\ tokens'[j].raced = tokens[j].raced
          /\ tokens'[j].present = tokens[j].present
          /\ WorkerOf[tokens[j].lock] # w => tokens'[j].lock = tokens[j].lock
          /\ tokens'[j].user = tokens[j].user /\ tokens'[j].client = tokens[j].client
          /\ tokens'[j].scope = tokens[j].scope
    BY <1>1, <1>2 DEF Token
  <1>4. tokens' \in Seq(Token) /\ DOMAIN tokens' = DOMAIN tokens
    <2>1. tokens' \in [DOMAIN tokens -> Token]
      BY <1>1, <1>3
    <2> QED
      BY <1>1, <2>1, UpdatedRows
  <1>5. Idle \in Request /\ Idle.pc = "idle"
    BY DEF Idle, Request, Pcs
  <1>6. /\ reqs' \in [Reqs -> Request]
        /\ \A q \in Reqs : \/ reqs'[q] = Idle
                           \/ reqs'[q] = reqs[q] /\ WorkerOf[q] # w
    BY <1>1, <1>5
  <1>7. Typed'
    BY <1>1, <1>4, <1>6 DEF OAuthInv, Typed
  <1>8. \A q \in Reqs : Placed(q)'
    BY <1>1, <1>4, <1>5, <1>6 DEF OAuthInv, Placed
  <1>9. CodesHeld'
    <2>1. \A q \in Reqs : HeldCode(q)' \in {0, HeldCode(q)}
      BY <1>5, <1>6 DEF HeldCode
    <2> QED
      BY <1>1, <2>1, CodesFrame DEF OAuthInv
  <1>10. TokensKept'
    <2>1. \A q \in Reqs : reqs'[q].pc \in {"insert", "revoking"} =>
            reqs'[q] = reqs[q] /\ reqs[q].id \in DOMAIN tokens /\ WorkerOf[q] # w
      BY <1>5, <1>6 DEF OAuthInv, Placed
    <2>2. Rotating'
      BY <1>3, <2>1 DEF OAuthInv, TokensKept, Rotating
    <2> QED
      BY <1>1, <1>3, <1>4, <2>1, <2>2, TokensFrame DEF OAuthInv
  <1>11. Approvals'
    BY <1>1, <1>3, <1>4, <1>5, <1>6, ApprovalsFrame DEF OAuthInv
  <1> QED
    BY <1>7, <1>8, <1>9, <1>10, <1>11 DEF OAuthInv
-----------------------------------------------------------------------------
\* The server starts with empty tables.
LEMMA InitOAuth == Init => OAuthInv
  <1> SUFFICES ASSUME Init PROVE OAuthInv
    OBVIOUS
  <1>1. /\ codes = <<>> /\ tokens = <<>> /\ logins = {} /\ grants = {} /\ reused = {}
        /\ reqs = [r \in Reqs |-> Idle]
    BY DEF Init
  <1>2. Idle \in Request /\ Idle.pc = "idle"
    BY DEF Idle, Request, Pcs
  <1>3. Typed
    BY <1>1, <1>2 DEF Typed
  <1>4. \A r \in Reqs : Placed(r)
    BY <1>1, <1>2 DEF Placed
  <1>5. CodesHeld
    <2>1. \A r \in Reqs : HeldCode(r) = 0
      BY <1>1, <1>2 DEF HeldCode
    <2> QED
      BY <1>1, <2>1 DEF CodesHeld
  <1>6. TokensKept
    BY <1>1, <1>2 DEF TokensKept, Rotating, Succession, Families, Revoking, ReplayEndsFamily
  <1>7. Approvals
    BY <1>1, <1>2 DEF Approvals
  <1> QED
    BY <1>3, <1>4, <1>5, <1>6, <1>7 DEF OAuthInv

\* Every step of every process preserves the invariant.
LEMMA NextOAuth == OAuthInv /\ [Next]_vars => OAuthInv'
  <1> SUFFICES ASSUME OAuthInv, [Next]_vars PROVE OAuthInv'
    OBVIOUS
  <1>0. \A s \in logins : s.user \in Users
    BY DEF OAuthInv, Typed
  <1>1. CASE UNCHANGED vars
    BY <1>0, <1>1, QuietInv DEF vars
  <1>2. CASE \E c \in Clients, uris \in UriSets : Register(c, uris)
    BY <1>0, <1>2, QuietInv DEF Register
  <1>3. CASE \E p \in Params : AuthorizeGet(p) \/ AuthorizeRefused(p)
    BY <1>1, <1>3 DEF AuthorizeGet, AuthorizeRefused
  <1>4. ASSUME NEW p \in Params, NEW u \in Users, Login(p, u) PROVE OAuthInv'
    <2>1. \A s \in logins' : s.user \in Users
      BY <1>0, <1>4 DEF Login, NewLogin
    <2>2. UNCHANGED <<tokens, reqs, grants, reused>> /\ (IssueCode(p, u) \/ UNCHANGED <<codes, approvals>>)
      BY <1>4 DEF Login
    <2> QED
      BY <2>1, <2>2, QuietInv, IssueCodeInv
  <1>5. ASSUME NEW p \in Params, NEW s \in logins, Approve(p, s) PROVE OAuthInv'
    <2>1. s.user \in Users /\ IssueCode(p, s.user)
      BY <1>0, <1>5 DEF Approve
    <2>2. UNCHANGED <<tokens, reqs, grants, reused, logins>>
      BY <1>5 DEF Approve
    <2> QED
      BY <1>0, <2>1, <2>2, IssueCodeInv
  <1>6. CASE \E p \in Params, s \in logins : NotApproved(p, s)
    BY <1>1, <1>6 DEF NotApproved
  <1>7. CASE \E u \in Users : AccountChanges(u)
    BY <1>0, <1>7, QuietInv DEF AccountChanges
  <1>8. CASE \E i \in DOMAIN codes : CodeExpires(i)
    BY <1>8, CodeExpiresInv
  <1>9. CASE \E i \in DOMAIN tokens : TokenExpires(i) \/ Revoke(i)
    BY <1>9, TokenFadesInv
  <1>10. CASE \E r \in Reqs, i \in DOMAIN codes, f \in Forms : ConsumeRead(r, i, f)
    BY <1>10, ConsumeReadInv
  <1>11. CASE \E r \in Reqs, i \in DOMAIN tokens : RotateRead(r, i)
    BY <1>11, RotateReadInv
  <1>12. CASE \E r \in Reqs :
                \/ ConsumeDelete(r) \/ CheckCode(r) \/ LoadAndMint(r) \/ IssueRefresh(r)
                \/ RotateUpdate(r) \/ RotateCommit(r) \/ RevokeStarts(r) \/ RevokeEnds(r)
    BY <1>12, ConsumeDeleteInv, CheckCodeInv, LoadAndMintInv, IssueRefreshInv, RotateUpdateInv,
       RotateCommitInv, RevokeStartsInv, RevokeEndsInv
  <1>13. CASE \E w \in {WorkerOf[r] : r \in Reqs} : WorkerDies(w)
    BY <1>13, WorkerDiesInv
  <1>14. CASE \E g \in grants : McpRequest(g)
    BY <1>1, <1>14 DEF McpRequest
  <1> QED
    BY <1>1, <1>2, <1>3, <1>4, <1>5, <1>6, <1>7, <1>8, <1>9, <1>10, <1>11, <1>12, <1>13, <1>14
    DEF Next

\* The invariant holds of every behaviour of the server.
LEMMA SpecOAuth == Spec => []OAuthInv
  BY InitOAuth, NextOAuth, PTL DEF Spec

\* Whatever processes are presented with it at once, and wherever one of them
\* dies, a code is exchanged once and a refresh token has one successor
\* (_consume_authorization_code, _rotate_refresh_token).
THEOREM EachIsSpentOnce == Spec => []SpentOnce
  <1>1. OAuthInv => SpentOnce
    BY DEF OAuthInv, CodesHeld, TokensKept, Succession, SpentOnce
  <1> QED
    BY <1>1, SpecOAuth, PTL

\* Every access token was approved by its user for its client and scope and,
\* when it was got for a code, went to who knows the verifier.
THEOREM GrantsAreApproved == Spec => []GrantsWereApproved
  <1>1. OAuthInv => GrantsWereApproved
    BY DEF OAuthInv, Approvals, ApprovedFor, GrantsWereApproved
  <1> QED
    BY <1>1, SpecOAuth, PTL

\* A replay leaves of its family only the rows that a rotation committed
\* while the family was deleted.
THEOREM ReplayRevokesFamily == Spec => []ReplayEndsFamily
  <1>1. OAuthInv => ReplayEndsFamily
    BY DEF OAuthInv, TokensKept
  <1> QED
    BY <1>1, SpecOAuth, PTL
=============================================================================
