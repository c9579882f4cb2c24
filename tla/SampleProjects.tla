--------------------------- MODULE SampleProjects ---------------------------
(***************************************************************************)
(* The projects on which the Python side of a request is checked: APIs and *)
(* routers put together, and dependency functions shared by routes.        *)
(***************************************************************************)
EXTENDS Naturals, Sequences, FiniteSets

Q == INSTANCE SequencesExt

-----------------------------------------------------------------------------
(* Three APIs, of which leaf has middleware and main has one entry for       *)
(* Python and one for Rust; a router in another; a function with middleware  *)
(* of its own, one whose tokens can be revoked, one that runs with nothing   *)
(* before it, and a WebSocket.  A project is a sequence of up to three calls *)
(* or one of a few longer ones.                                              *)

AppMiddlewareDef ==
  [a \in {"main", "sub", "leaf", "merged", "docsapi"} |->
     CASE a = "main"    -> <<"cors", "M">>
       [] a = "leaf"    -> <<"L">>
       [] a = "docsapi" -> <<"login">>
       [] OTHER         -> <<>>]
RouterMiddlewareDef == [r \in {"outer", "inner"} |-> IF r = "outer" THEN <<"O">> ELSE <<"I">>]
RouteMiddlewareDef == [f \in {"f", "g", "h", "s", "docs"} |-> IF f = "f" THEN <<"R">> ELSE <<>>]
AuthOfDef == [f \in {"f", "g", "h", "s", "docs"} |-> IF f = "g" THEN <<"jwt1", "key">> ELSE <<>>]
SchemeOfDef == [b \in {"jwt1", "key"} |-> IF b = "key" THEN "api_key" ELSE "jwt"]

RouteCall(a, fns) == [op |-> "route", api |-> a, fns |-> fns, path |-> <<>>]
AddCall(r, f) == [op |-> "add", router |-> r, fn |-> f]
NestCall(r, c) == [op |-> "nest", router |-> r, child |-> c, prefix |-> <<"v2">>]
IncludeCall(a, r) == [op |-> "include", api |-> a, router |-> r, prefix |-> <<>>]
MountCall(a, b) == [op |-> "mount", api |-> a, sub |-> b, prefix |-> <<"m">>]
AsgiCall(a) == [op |-> "asgi", api |-> a, prefix |-> <<"f">>]

ShortCalls ==
  {RouteCall("main", <<"f">>), RouteCall("sub", <<"g">>), RouteCall("leaf", <<"f", "h">>),
   MountCall("main", "sub"), MountCall("sub", "leaf"),
   AddCall("inner", "f"), NestCall("outer", "inner"), IncludeCall("main", "outer")}

LongProjects ==
  {<<AddCall("inner", "f"), AddCall("outer", "g"), NestCall("outer", "inner"), IncludeCall("main", "outer"),
     IncludeCall("sub", "inner")>>,
   <<RouteCall("leaf", <<"f">>), RouteCall("sub", <<"s", "g">>), MountCall("main", "leaf"), MountCall("main", "sub")>>,
   <<AsgiCall("sub"), RouteCall("sub", <<"h">>), MountCall("main", "sub"), RouteCall("main", <<"f">>)>>,
   <<AsgiCall("sub"), AsgiCall("main"), RouteCall("sub", <<"s">>), MountCall("leaf", "sub"), MountCall("leaf", "sub")>>}

ProjectsDef == Q!SeqOf(ShortCalls, 3) \cup LongProjects

-----------------------------------------------------------------------------
(* Six dependency functions, shared by six routes that are registered in any *)
(* order.                                                                    *)

Param(name, mark) == [name |-> name, mark |-> mark, fn |-> "none", use_cache |-> FALSE]
Dep(f) == [name |-> f, mark |-> "depends", fn |-> f, use_cache |-> TRUE]
FreshDep(f) == [Dep(f) EXCEPT !.use_cache = FALSE]

FnsDef == {"user", "page", "meta", "opaque", "nested", "payload"}

Fn(params, reads, analysable, is_async) ==
  [params |-> params, reads |-> reads, analysable |-> analysable, is_async |-> is_async]

DeclDef ==
  [user |-> Fn({Param("authorization", "header")}, {}, TRUE, TRUE),
   page |-> Fn({Param("id", "bare")}, {}, TRUE, FALSE),
   meta |-> Fn({Param("request", "request")}, {"META"}, TRUE, TRUE),
   opaque |-> Fn({Param("request", "request"), Param("session", "cookie")}, {"build_absolute_uri"}, FALSE, FALSE),
   nested |-> Fn({Dep("meta"), Param("limit", "query")}, {}, TRUE, TRUE),
   payload |-> Fn({Param("data", "body")}, {}, TRUE, FALSE)]

DepRoute(method, path, params, reads) ==
  [method |-> method, path_params |-> path, params |-> params, reads |-> reads, analysable |-> TRUE]

DepRoutesDef ==
  {DepRoute("GET", {"id"}, <<Param("id", "bare"), Dep("page"), Dep("page")>>, {}),
   DepRoute("GET", {"id", "limit"}, <<Dep("page"), Dep("nested")>>, {}),
   DepRoute("GET", {}, <<Param("request", "request"), Dep("page"), Dep("user"), FreshDep("user")>>, {"headers"}),
   DepRoute("POST", {}, <<Dep("meta"), Dep("meta"), Dep("payload")>>, {}),
   DepRoute("GET", {}, <<Param("request", "request"), Dep("payload"), Dep("opaque")>>, {"get_full_path"}),
   DepRoute("GET", {}, <<Param("request", "request")>>, {"cookies"})}

=============================================================================
