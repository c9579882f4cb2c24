---------------------------- MODULE MCMcpSession ----------------------------
(* Two concurrent tool calls and a listener of one session.                *)
EXTENDS McpSession

P(name, source, required) == [name |-> name, source |-> source, required |-> required]

MCNatives == AddTool(AddTool(NoTools, "ask", Tool({P("ctx", "context", TRUE)}, {})),
                     "add", Tool({P("a", "argument", TRUE), P("b", "argument", FALSE),
                                  P("request", "request", TRUE)}, {"staff"}))

Route(method, path, handler, marked, params) ==
  [method |-> method, path |-> path, handler |-> handler, marked |-> marked,
   params |-> params, name |-> handler]

MCRoutes == <<Route("GET", "/a", "ha", TRUE, {P("q", "query", TRUE), P("db", "dependency", TRUE)}),
              Route("POST", "/b", "hb", FALSE, {P("f", "file", TRUE)})>>

How(explicit, allow) == [explicit |-> explicit, allow |-> allow, methods |-> {"GET", "POST"},
                         paths |-> {"/a", "/b"}, onlyMarked |-> TRUE]

MCExposures == {How(TRUE, {"ha"}), How(TRUE, {"hb"}), How(TRUE, {"other"}), How(FALSE, {})}
MCResources ==
  FoldLeft(AddResource, NoResources,
    <<[vars |-> {}, params |-> {}, uris |-> {"u1"}, converts |-> {}],
      [vars |-> {"id"}, params |-> {"key"}, uris |-> {"u4"}, converts |-> {"u4"}],
      [vars |-> {"id"}, params |-> {"id"}, uris |-> {"u2", "u3"}, converts |-> {"u2"}]>>)
MCStatics == MCResources.statics
MCTemplates == MCResources.templates
MCPrompts == AddPrompt([n \in {} |-> {}], "p", {P("who", "argument", FALSE)})
MCConfigs == [stateless : BOOLEAN, json : BOOLEAN]
MCPrincipals == {{}, {"staff"}}
Good == [accept |-> {"json", "sse"}, ctype |-> TRUE, body |-> "ok", version |-> TRUE]
MCEnvelopes == {Good, [Good EXCEPT !.accept = {"sse"}], [Good EXCEPT !.accept = {"json"}],
                [Good EXCEPT !.ctype = FALSE], [Good EXCEPT !.body = "batch"],
                [Good EXCEPT !.version = FALSE]}
Msg(method, id, arg) == [method |-> method, id |-> id, arg |-> arg]
MCMessages == {Msg("ping", TRUE, ""), Msg("unknown/method", FALSE, ""),
               Msg("notifications/initialized", FALSE, ""), Msg("resources/read", TRUE, "u3"),
               Msg("prompts/get", FALSE, "p"), Msg("resources/read", FALSE, "u2")}
MCToolCalls == {[name |-> "ask", args |-> {}], [name |-> "add", args |-> {"a"}],
                [name |-> "ha", args |-> {}],
                [name |-> "nobody", args |-> {}]}
=============================================================================
