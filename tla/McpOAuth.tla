------------------------------ MODULE McpOAuth ------------------------------
(***************************************************************************)
(* The OAuth 2.1 authorization server of bolt_mcp (oauth/): registration,  *)
(* authorization by a user signed in with a Django session, authorization  *)
(* codes bound to a PKCE challenge, access tokens, and refresh tokens that *)
(* rotate within a family (chain_id) and detect replay.  The server runs   *)
(* as several worker processes over one database.                          *)
(*                                                                         *)
(* In a process the store's functions run one at a time, on the one thread *)
(* of sync_to_async(thread_sensitive=True); those of different processes   *)
(* interleave at their SQL statements.  A statement sees what was          *)
(* committed when it began; a row that another transaction has updated is  *)
(* waited for (READ COMMITTED).  A secret is the index of its row: hashing *)
(* keeps secrets apart.                                                    *)
(***************************************************************************)
EXTENDS Integers, Sequences, FiniteSets

CONSTANTS
  None,        \* an absent value
  Users, Clients,
  UriSets,     \* the redirect URIs a client may register
  Params,      \* [client, uri, challenge, scope, type, origin]: authorize requests
  Forms,       \* [uri, client, verifier]: token requests for a code
  AutoConsent, AllowRegistration,
  Required,    \* scopes /mcp asks for
  Reqs,        \* requests at the token endpoint
  WorkerOf,    \* the process that serves each
  MaxCodes, MaxTokens, MaxPasswords

\* A row that is not locked is told apart from one that a request has locked.
ASSUME McpOAuthAssumption == None \notin Reqs

\* compute_s256: one challenge per verifier.
S256(v) == <<"s256", v>>

VARIABLES
  clients,    \* registered client -> its redirect URIs
  users,      \* [state, password]
  logins,     \* Django sessions: [user, hash]
  codes,      \* AuthorizationCode rows, gone ones included
  tokens,     \* RefreshToken rows, gone ones included
  reqs,       \* [pc, form, id, data, seen]
  approvals,  \* history: what users approved
  grants,     \* history: access tokens minted
  reused      \* history: families whose replay was answered

vars == <<clients, users, logins, codes, tokens, reqs, approvals, grants, reused>>

Idle == [pc |-> "idle", form |-> None, id |-> 0, data |-> None, seen |-> {}]

Init ==
  /\ clients = [c \in {} |-> {}]
  /\ users = [u \in Users |-> [state |-> "active", password |-> 0]]
  /\ logins = {}
  /\ codes = <<>> /\ tokens = <<>>
  /\ reqs = [r \in Reqs |-> Idle]
  /\ approvals = {} /\ grants = {} /\ reused = {}

\* POST /register
Register(c, uris) ==
  /\ AllowRegistration
  /\ c \notin DOMAIN clients
  /\ clients' = [d \in DOMAIN clients \cup {c} |-> IF d = c THEN uris ELSE clients[d]]
  /\ UNCHANGED <<users, logins, codes, tokens, reqs, approvals, grants, reused>>

(***************************************************************************)
(* /authorize.  A GET shows a page; only a POST of the issuer's own origin *)
(* may sign in or decide.                                                  *)
(***************************************************************************)
\* get_client, and redirect_uri_allowed: an exact match.
GetClient(c) == IF c \in DOMAIN clients THEN clients[c] ELSE {}

RedirectUriAllowed(p) == p.uri \in GetClient(p.client)

Valid(p) ==
  /\ p.type = "code"
  /\ RedirectUriAllowed(p)
  /\ p.challenge # None

AuthorizeGet(p) == Valid(p) /\ UNCHANGED vars

\* 403 without the issuer's Origin, else an inline or a redirected error.
AuthorizeRefused(p) == ~(p.origin /\ Valid(p)) /\ UNCHANGED vars

NewCode(p, u) ==
  [client |-> p.client, user |-> u, uri |-> p.uri, challenge |-> p.challenge, scope |-> p.scope,
   expired |-> FALSE, present |-> TRUE, uses |-> 0]

\* _issue_code_redirect
IssueCode(p, u) ==
  /\ Len(codes) < MaxCodes
  /\ codes' = Append(codes, NewCode(p, u))
  /\ approvals' = approvals \cup {[user |-> u, client |-> p.client, uri |-> p.uri,
                                   challenge |-> p.challenge, scope |-> p.scope]}

\* _login: an active user gets a session that carries the hash of its password.
CanLogin(u) == users[u].state = "active"

NewLogin(u) == [user |-> u, hash |-> users[u].password]

Login(p, u) ==
  /\ p.origin /\ Valid(p) /\ CanLogin(u)
  /\ logins' = logins \cup {NewLogin(u)}
  /\ IF AutoConsent THEN IssueCode(p, u) ELSE UNCHANGED <<codes, approvals>>
  /\ UNCHANGED <<clients, users, tokens, reqs, grants, reused>>

\* _user_from_session: the session must carry the hash of the user's password now.
FromSession(s) == users[s.user].state = "active" /\ s.hash = users[s.user].password

Approve(p, s) ==
  /\ p.origin /\ Valid(p) /\ FromSession(s)
  /\ IssueCode(p, s.user)
  /\ UNCHANGED <<clients, users, logins, tokens, reqs, grants, reused>>

\* Denied, or the session no longer counts: back to the client or to the login.
NotApproved(p, s) == p.origin /\ Valid(p) /\ UNCHANGED vars

\* Elsewhere in Django: an account is closed, deleted, or changes its password.
AccountChanges(u) ==
  /\ users[u].state # "gone"
  /\ \/ users' = [users EXCEPT ![u].state = "inactive"]
     \/ users' = [users EXCEPT ![u].state = "gone"]
     \/ /\ users[u].password < MaxPasswords
        /\ users' = [users EXCEPT ![u].password = @ + 1]
  /\ UNCHANGED <<clients, logins, codes, tokens, reqs, approvals, grants, reused>>

\* UPDATE ... WHERE rotated = False finds the row.
Unrotated(t) == t.present /\ ~t.rotated

\* Time passes, where a row's age still matters.
CodeExpires(i) ==
  /\ codes[i].present
  /\ codes' = [codes EXCEPT ![i].expired = TRUE]
  /\ UNCHANGED <<clients, users, logins, tokens, reqs, approvals, grants, reused>>

TokenExpires(i) ==
  /\ Unrotated(tokens[i])
  /\ tokens' = [tokens EXCEPT ![i].expired = TRUE]
  /\ UNCHANGED <<clients, users, logins, codes, reqs, approvals, grants, reused>>

(***************************************************************************)
(* /token.  pc is the statement that is next; the pcs of InStore are       *)
(* within one function of the store, which holds the process's thread.     *)
(***************************************************************************)
InStore == {"delete", "update", "insert", "revoke", "revoking"}

ThreadFree(r) == \A q \in Reqs : WorkerOf[q] = WorkerOf[r] => reqs[q].pc \notin InStore

Goes(r, pc) == reqs' = [reqs EXCEPT ![r].pc = pc]

Ends(r) == reqs' = [reqs EXCEPT ![r] = Idle]

DbOnly == UNCHANGED <<clients, users, logins, approvals, grants>>

\* _consume_authorization_code: read the row, delete it by its key, and only
\* then look at its age.
ConsumeRead(r, i, f) ==
  /\ reqs[r].pc = "idle" /\ ThreadFree(r)
  /\ codes[i].present
  /\ reqs' = [reqs EXCEPT ![r] = [@ EXCEPT !.pc = "delete", !.form = f, !.id = i]]
  /\ UNCHANGED <<codes, tokens, reused>> /\ DbOnly

Claimed_Read(r) == TRUE

Claimed(r) == codes[reqs[r].id].present

ConsumeDelete(r) ==
  /\ reqs[r].pc = "delete"
  /\ codes' = [codes EXCEPT ![reqs[r].id].present = FALSE]
  /\ IF Claimed(r) /\ ~codes[reqs[r].id].expired THEN Goes(r, "check") ELSE Ends(r)
  /\ UNCHANGED <<tokens, reused>> /\ DbOnly

\* _token_authorization_code: the code is spent before what came with it is compared.
CodeChecks_NoPkce(c, f) ==
  /\ c.uri = f.uri
  /\ f.client # None => f.client = c.client

CodeChecks(c, f) ==
  /\ c.uri = f.uri
  /\ f.client # None => f.client = c.client
  /\ f.verifier # None /\ S256(f.verifier) = c.challenge

CheckCode(r) ==
  /\ reqs[r].pc = "check"
  /\ LET c == codes[reqs[r].id]
     IN  IF CodeChecks(c, reqs[r].form)
           THEN reqs' = [reqs EXCEPT ![r] =
                  [@ EXCEPT !.pc = "load",
                            !.data = [user |-> c.user, client |-> c.client, scope |-> c.scope,
                                      code |-> reqs[r].id]]]
           ELSE Ends(r)
  /\ UNCHANGED <<codes, tokens, reused>> /\ DbOnly

\* load_user finds the user whatever its state, unless it was deleted.
LoadUser(u) == users[u].state # "gone"

\* A token is minted; only a code gets a refresh token as well.
LoadAndMint(r) ==
  /\ reqs[r].pc = "load" /\ ThreadFree(r)
  /\ LET d == reqs[r].data
         known == LoadUser(d.user)
     IN  /\ grants' = IF known THEN grants \cup {[user |-> d.user, client |-> d.client, scope |-> d.scope,
                                                form |-> reqs[r].form]} ELSE grants
         /\ codes' = IF known /\ d.code # 0 THEN [codes EXCEPT ![d.code].uses = @ + 1] ELSE codes
         /\ IF known /\ d.code # 0 THEN Goes(r, "issue") ELSE Ends(r)
  /\ UNCHANGED <<clients, users, logins, tokens, approvals, reused>>

NewToken(d, chain, parent, raced) ==
  [chain |-> chain, user |-> d.user, client |-> d.client, scope |-> d.scope, parent |-> parent,
   rotated |-> FALSE, expired |-> FALSE, present |-> TRUE, lock |-> None, raced |-> raced]

\* _issue_refresh_token: a family of its own.
IssueRefresh(r) ==
  /\ reqs[r].pc = "issue" /\ ThreadFree(r)
  /\ Len(tokens) < MaxTokens
  /\ tokens' = Append(tokens, NewToken(reqs[r].data, Len(tokens) + 1, 0, FALSE))
  /\ Ends(r)
  /\ UNCHANGED <<codes, reused>> /\ DbOnly

(***************************************************************************)
(* _rotate_refresh_token, a transaction.  The update of the row is the     *)
(* lock; insert and commit are one step, for nobody sees the row before.   *)
(***************************************************************************)
RotateRead(r, i) ==
  /\ reqs[r].pc = "idle" /\ ThreadFree(r)
  /\ tokens[i].present
  /\ tokens[i].rotated \/ ~tokens[i].expired
  /\ reqs' = [reqs EXCEPT ![r] =
       [@ EXCEPT !.pc = IF tokens[i].rotated THEN "revoke" ELSE "update", !.id = i]]
  /\ UNCHANGED <<codes, tokens, reused>> /\ DbOnly

RotateUpdate(r) ==
  /\ reqs[r].pc = "update"
  /\ tokens[reqs[r].id].lock = None
  /\ IF Unrotated(tokens[reqs[r].id])
       THEN Goes(r, "insert") /\ tokens' = [tokens EXCEPT ![reqs[r].id].lock = r]
       ELSE Goes(r, "revoke") /\ UNCHANGED tokens
  /\ UNCHANGED <<codes, reused>> /\ DbOnly

RotateCommit(r) ==
  /\ reqs[r].pc = "insert"
  /\ Len(tokens) < MaxTokens
  /\ LET t == tokens[reqs[r].id]
         raced == t.raced \/ \E q \in Reqs : reqs[q].pc = "revoking" /\ tokens[reqs[q].id].chain = t.chain
     IN  /\ tokens' = Append([tokens EXCEPT ![reqs[r].id] = [@ EXCEPT !.rotated = TRUE, !.lock = None]],
                             NewToken(t, t.chain, reqs[r].id, raced))
         /\ reqs' = [reqs EXCEPT ![r] =
              [@ EXCEPT !.pc = "load",
                        !.data = [user |-> t.user, client |-> t.client, scope |-> t.scope, code |-> 0]]]
  /\ UNCHANGED <<codes, reused>> /\ DbOnly

\* DELETE ... WHERE chain_id: the rows committed when the statement begins ...
Family_Presented(i) == {i}

Family(i) == {j \in DOMAIN tokens : tokens[j].present /\ tokens[j].chain = tokens[i].chain}

RevokeStarts(r) ==
  /\ reqs[r].pc = "revoke"
  /\ reqs' = [reqs EXCEPT ![r] = [@ EXCEPT !.pc = "revoking", !.seen = Family(reqs[r].id)]]
  /\ UNCHANGED <<codes, tokens, reused>> /\ DbOnly

\* ... are deleted once no other transaction holds one of them.
RevokeEnds(r) ==
  /\ reqs[r].pc = "revoking"
  /\ \A j \in reqs[r].seen : tokens[j].lock = None
  /\ tokens' = [j \in DOMAIN tokens |-> IF j \in reqs[r].seen
                  THEN [tokens[j] EXCEPT !.present = FALSE] ELSE tokens[j]]
  /\ reused' = reused \cup {tokens[reqs[r].id].chain}
  /\ Ends(r)
  /\ UNCHANGED codes /\ DbOnly

\* POST /revoke deletes the one row.
Revoke(i) ==
  /\ tokens[i].present /\ tokens[i].lock = None
  /\ tokens' = [tokens EXCEPT ![i].present = FALSE]
  /\ UNCHANGED <<codes, reqs, reused>> /\ DbOnly

\* A process dies: its requests are lost and its transaction is rolled back.
WorkerDies(w) ==
  /\ \E r \in Reqs : WorkerOf[r] = w /\ reqs[r].pc # "idle"
  /\ reqs' = [r \in Reqs |-> IF WorkerOf[r] = w THEN Idle ELSE reqs[r]]
  /\ tokens' = [j \in DOMAIN tokens |->
       IF tokens[j].lock # None /\ WorkerOf[tokens[j].lock] = w
       THEN [tokens[j] EXCEPT !.lock = None] ELSE tokens[j]]
  /\ UNCHANGED <<codes, reused>> /\ DbOnly

\* _check_oauth at /mcp: the claims alone decide.
McpRequest(g) == Required \subseteq g.scope /\ UNCHANGED vars

Next ==
  \/ \E c \in Clients, uris \in UriSets : Register(c, uris)
  \/ \E p \in Params : AuthorizeGet(p) \/ AuthorizeRefused(p)
  \/ \E p \in Params, u \in Users : Login(p, u)
  \/ \E p \in Params, s \in logins : Approve(p, s) \/ NotApproved(p, s)
  \/ \E u \in Users : AccountChanges(u)
  \/ \E i \in DOMAIN codes : CodeExpires(i)
  \/ \E i \in DOMAIN tokens : TokenExpires(i) \/ Revoke(i)
  \/ \E r \in Reqs, i \in DOMAIN codes, f \in Forms : ConsumeRead(r, i, f)
  \/ \E r \in Reqs, i \in DOMAIN tokens : RotateRead(r, i)
  \/ \E r \in Reqs : \/ ConsumeDelete(r) \/ CheckCode(r) \/ LoadAndMint(r) \/ IssueRefresh(r)
                     \/ RotateUpdate(r) \/ RotateCommit(r) \/ RevokeStarts(r) \/ RevokeEnds(r)
  \/ \E w \in {WorkerOf[r] : r \in Reqs} : WorkerDies(w)
  \/ \E g \in grants : McpRequest(g)

Spec == Init /\ [][Next]_vars
-----------------------------------------------------------------------------
\* A code is exchanged once and a refresh token has one successor, whatever the
\* workers that are presented with it at the same time
\* (_consume_authorization_code, _rotate_refresh_token).
SpentOnce ==
  /\ \A i \in DOMAIN codes : codes[i].uses <= 1
  /\ \A i, j \in DOMAIN tokens : tokens[i].parent = tokens[j].parent /\ i # j => tokens[i].parent = 0

\* Every access token is one that a user approved, for this client and scope; one
\* got for a code, by who knows the verifier and names the same redirect URI.
GrantsWereApproved ==
  \A g \in grants : \E a \in approvals :
    /\ a.user = g.user /\ a.client = g.client /\ a.scope = g.scope
    /\ g.form # None => a.uri = g.form.uri /\ a.challenge = S256(g.form.verifier)

\* After a replay was answered "the session has been revoked", a token of the
\* family is left only where a rotation committed while the family was deleted.
ReplayEndsFamily ==
  \A j \in DOMAIN tokens : tokens[j].chain \in reused /\ tokens[j].present => tokens[j].raced
=============================================================================
