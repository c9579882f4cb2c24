----------------------------- MODULE MCMcpOAuth -----------------------------
(* Two workers; the second request is a replay, a rival or another client.  *)
EXTENDS McpOAuth, TLC

AnyWorker == Permutations(Reqs)

MCWorkerOf == [r \in Reqs |-> r]
P(client, uri, v) == [client |-> client, uri |-> uri, challenge |-> S256(v), scope |-> {"mcp"}, type |-> "code",
                      origin |-> TRUE]
MCParams == {P("k1", "a", "v1"), P("k2", "b", "v2"), [P("k1", "a", "v1") EXCEPT !.challenge = None],
             [P("k1", "a", "v2") EXCEPT !.origin = FALSE]}
F(uri, client, v) == [uri |-> uri, client |-> client, verifier |-> v]
MCForms == {F("a", None, "v1"), F("a", "k1", "v2"), F("b", "k1", "v1")}
=============================================================================
