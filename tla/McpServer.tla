----------------------------- MODULE McpServer -----------------------------
(***************************************************************************)
(* What an MCP server knows (bolt_mcp/server.py, registry.py,              *)
(* autoexpose.py): its tools, resources and prompts, which of them a       *)
(* request may see, and what a JSON-RPC method is answered with.  A tool   *)
(* is a record                                                             *)
(*   [ctx, guards, needs, request]                                         *)
(* : whether it takes a Context, the permissions its guards ask for, the   *)
(* arguments it requires, and whether the request is injected.  A route is *)
(* the part of a registered handler that expose_routes looks at.           *)
(***************************************************************************)
EXTENDS Integers, Sequences, FiniteSets, SequencesExt

\* A signature or a route is a set of parameters [name, source, required].
\* struct_from_signature keeps all but the injected ones ...
ArgsOfSignature(params) ==
  {p.name : p \in {q \in params : q.required /\ q.source \notin {"request", "context", "variadic"}}}

\* ... and struct_from_fields drops dependencies and the request.
ArgsOfFields(params) ==
  {p.name : p \in {q \in params : q.required /\ q.source \in {"path", "query", "body", "header", "cookie"}}}

Takes(params, source) == \E p \in params : p.source = source

\* ToolDef, as the decorator @mcp.tool builds it; an async generator is refused.
Tool(params, guards) ==
  [ctx |-> Takes(params, "context"), guards |-> guards,
   needs |-> ArgsOfSignature(params), request |-> Takes(params, "request")]

NoTools == [n \in {} |-> 0]

\* @mcp.tool and add_tool assign: a second tool of the name replaces the first.
AddTool(tools, name, def) ==
  [n \in DOMAIN tools \cup {name} |-> IF n = name THEN def ELSE tools[n]]

(***************************************************************************)
(* expose_routes: a walk over the routes that stops at the first refusal;  *)
(* what was added before stays.  how.explicit is a list of handlers        *)
(* (how.allow); otherwise method, path globs and the marker select.        *)
(***************************************************************************)
Selected(r, how) ==
  IF how.explicit THEN r.handler \in how.allow
  ELSE r.method \in how.methods /\ r.path \in how.paths /\ (how.onlyMarked => r.marked)

Unsupported(r) == Takes(r.params, "file") \/ Takes(r.params, "form")

ToolOfRoute(r) ==
  [ctx |-> FALSE, guards |-> {}, needs |-> ArgsOfFields(r.params), request |-> Takes(r.params, "request")]

ExposeRoute(acc, r, how) ==
  IF acc.err # "none" \/ ~Selected(r, how) THEN acc
  ELSE IF Unsupported(r) THEN [acc EXCEPT !.err = IF how.explicit THEN "unsupported" ELSE "none"]
  ELSE IF r.name \in DOMAIN acc.tools THEN [acc EXCEPT !.err = "duplicate"]
  ELSE [acc EXCEPT !.tools = AddTool(@, r.name, ToolOfRoute(r))]

ExposeRoutes(tools, routes, how) ==
  LET walked == FoldLeft(LAMBDA acc, r : ExposeRoute(acc, r, how),
                         [tools |-> tools, err |-> "none"], routes)
      missing == how.explicit /\ how.allow \ {routes[i].handler : i \in DOMAIN routes} # {}
  IN  IF walked.err = "none" /\ missing THEN [walked EXCEPT !.err = "missing"] ELSE walked

\* _guards_pass, for a principal given by its permissions.
GuardsPass(t, who) == t.guards \subseteq who

\* _resolve_tool: "ok", or the in-band error.
ResolveTool(tools, call, who) ==
  IF call.name \notin DOMAIN tools THEN "unknown"
  ELSE IF ~GuardsPass(tools[call.name], who) THEN "denied"
  ELSE IF tools[call.name].needs \subseteq call.args THEN "ok" ELSE "invalid"

IsStreamingTool(tools, name) == name \in DOMAIN tools /\ tools[name].ctx

\* @mcp.resource: a URI with variables is a template, whose variables must be
\* the handler's parameters; one without is static.  A template is the URIs it
\* matches and those whose variables convert.
NoResources == [statics |-> {}, templates |-> <<>>, err |-> FALSE]

AddResource(rs, r) ==
  CASE r.vars = {} -> [rs EXCEPT !.statics = @ \cup r.uris]
    [] r.vars # {} /\ r.vars # r.params -> [rs EXCEPT !.err = TRUE]
    [] OTHER -> [rs EXCEPT !.templates = Append(@, [matches |-> r.uris, converts |-> r.converts])]

(***************************************************************************)
(* _resolve_resource: a static resource of the URI, else the first         *)
(* template whose pattern matches, even when the variables it extracts do  *)
(* not convert.                                                            *)
(***************************************************************************)
ResolveResource(statics, templates, uri) ==
  LET matching == {i \in DOMAIN templates : uri \in templates[i].matches}
      first    == CHOOSE i \in matching : \A j \in matching : i <= j
  IN  CASE uri \in statics -> "static"
        [] uri \notin statics /\ matching = {} -> "unknown"
        [] OTHER -> IF uri \in templates[first].converts THEN "template" ELSE "invalid"

\* @mcp.prompt keeps the arguments its signature requires.
AddPrompt(prompts, name, params) ==
  [n \in DOMAIN prompts \cup {name} |-> IF n = name THEN ArgsOfSignature(params) ELSE prompts[n]]

GetPrompt(prompts, name, args) ==
  IF name \notin DOMAIN prompts THEN "unknown"
  ELSE IF prompts[name] \subseteq args THEN "ok" ELSE "invalid"

(***************************************************************************)
(* dispatch for the methods that neither stream nor run a tool: "result",  *)
(* "none", or "error", an McpError.                                        *)
(***************************************************************************)
Dispatch(server, method, arg) ==
  CASE method = "unknown/method" -> "error"
    [] method = "notifications/initialized" -> "none"
    [] method = "resources/read" ->
         IF ResolveResource(server.statics, server.templates, arg) \in {"static", "template"}
         THEN "result" ELSE "error"
    [] method = "prompts/get" ->
         IF GetPrompt(server.prompts, arg, {}) = "ok" THEN "result" ELSE "error"
    [] OTHER -> "result"
=============================================================================
