----------------------------- MODULE HandlerCall -----------------------------
(***************************************************************************)
(* One call of one handler: the route is registered and its binder,        *)
(* injector and executor are compiled; a request comes, Rust converts what *)
(* the type hints name, the arguments are bound, the handler runs, and     *)
(* what it returns or raises becomes the answer.                           *)
(*                                                                         *)
(* A route is [path, method, params, colour, awaits, orm, middleware,      *)
(* decl], with params as in Binding and decl as in Responses; colour is    *)
(* "async", "sync" or "websocket", awaits is "none", "await" or            *)
(* "async_for", orm says that the analysis found blocking calls in the     *)
(* handler, and middleware that something else wants the event loop.       *)
(***************************************************************************)
EXTENDS Binding, Responses

CONSTANTS
  Routes,     \* what a program may register
  Requests,   \* what a client may send, by source: key -> value
  Results     \* what a handler may return

\* An empty list fits every schema.
EmptyListsFit == \A v \in Results : v.k = "list" /\ v.elem = "none" => v.valid

\* Python's signatures: no two parameters have one name.
SignaturesFit ==
  \A r \in Routes :
    /\ r.params \in Seq(Parameter)
    /\ \A i, j \in DOMAIN r.params : r.params[i].name = r.params[j].name => i = j

VARIABLES route, phase, request, call, returned, raised, wire

vars == <<route, phase, request, call, returned, raised, wire>>

Nothing == [k |-> "nothing", elem |-> "none", valid |-> FALSE, status |-> 0]
NoRequest == [path |-> <<>>]
NoWire == Raised("none")

Init ==
  /\ route \in Routes
  /\ phase = "new"
  /\ request = NoRequest
  /\ call = NoArgs
  /\ returned = Nothing
  /\ raised = "none"
  /\ wire = NoWire

\* _route_decorator: compile_binder may refuse the signature.
Register ==
  /\ phase = "new"
  /\ phase' = IF Bindable(route) THEN "registered" ELSE "refused"
  /\ UNCHANGED <<route, request, call, returned, raised, wire>>

----------------------------------------------------------------------------
(* _compile_handler_executor. *)

InjectorIsAsync(r) == HandlerPattern(Fields(r)) = "WITH_DEPS"

Specialised(r) ==
  ~RequestOnly(r) /\ ~r.orm /\ ~RustBinds(r) /\ ~InjectorIsAsync(r) /\ r.decl.multi = <<>>

\* No GET_AWAITABLE in the bytecode: every await has one, async for has none.
TriviallyAsync(r) == r.colour = "async" /\ r.awaits # "await"

\* Whether there is a _sync_executor, which runs the handler without a loop.
SyncExecutor(r) ==
  /\ Specialised(r)
  /\ TriviallyAsync(r) \/ r.colour = "sync"
  /\ ~Validates(r.decl) \/ InlineKind(r.decl) # "none"
SyncDispatched(r) == SyncExecutor(r) /\ ~r.middleware

\* Whether the answer of a plain function is made on the event loop: neither in
\* the thread of a handler that blocks nor on a worker of Rust's.
OnLoop(r) == r.colour = "sync" /\ ~r.orm /\ ~SyncDispatched(r)

\* The answer the executor of a route makes of what the handler returned.
Answer(r, v) ==
  IF r.decl.multi # <<>> THEN MultiAnswer(r.decl, v, OnLoop(r))
  ELSE IF ~Specialised(r) THEN GenericAnswer(r.decl, v, OnLoop(r))
  ELSE IF r.colour = "sync" THEN FastAnswerSync(r.decl, v, OnLoop(r))
  ELSE FastAnswer(r.decl, v)

----------------------------------------------------------------------------
Hints(r) == IF r.colour = "websocket" THEN TypeHints(WsFields(r)) ELSE TypeHints(Fields(r))

\* The pattern has matched, so the path names every brace.
Receive(q) ==
  /\ phase = "registered"
  /\ DOMAIN q.path = PathParams(route.path)
  /\ request' = q
  /\ phase' = "received"
  /\ UNCHANGED <<route, call, returned, raised, wire>>

\* validate_and_cache_typed_params.
Untyped(r, q) == \E k \in Hints(r) : \E m \in {q.path, q.query} : k \in DOMAIN m /\ m[k] = "bad"

RustRefuses ==
  /\ phase = "received"
  /\ Untyped(route, request)
  /\ wire' = ErrorWire(422, "errors")
  /\ phase' = "answered"
  /\ UNCHANGED <<route, request, call, returned, raised>>

\* The arguments Rust has bound, or the injector's.
Bound(r, q) ==
  IF r.colour = "websocket" THEN WsInjected(r, q)
  ELSE IF Prebound(r, q) # {} THEN CHOOSE x \in Prebound(r, q) : TRUE
  ELSE Injected(r, q)

Bind ==
  /\ phase = "received"
  /\ ~Untyped(route, request)
  /\ call' = Bound(route, request)
  /\ raised' = Bound(route, request).exc
  /\ phase' = IF raised' = "none" THEN "running" ELSE "failed"
  /\ UNCHANGED <<route, request, returned, wire>>

----------------------------------------------------------------------------
(* The handler, and what becomes of it. *)

HandlerReturns(v) ==
  /\ phase = "running" /\ route.colour # "websocket"
  /\ route.awaits = "none" \/ ~SyncDispatched(route)
  /\ returned' = v
  /\ phase' = "returned"
  /\ request' = NoRequest /\ call' = NoArgs
  /\ UNCHANGED <<route, raised, wire>>

\* The sync executor drives the coroutine once and closes it if it suspends.
HandlerSuspends ==
  /\ phase = "running" /\ route.awaits # "none" /\ SyncDispatched(route)
  /\ raised' = "RuntimeError"
  /\ phase' = "failed"
  /\ UNCHANGED <<route, request, call, returned, wire>>

HandlerRaises(e) ==
  /\ phase = "running"
  /\ raised' = e
  /\ phase' = "failed"
  /\ UNCHANGED <<route, request, call, returned, wire>>

Serialise ==
  /\ phase = "returned"
  /\ LET w == Answer(route, returned) IN
     IF w.exc = "none" THEN wire' = w /\ phase' = "answered" /\ UNCHANGED raised
     ELSE raised' = w.exc /\ phase' = "failed" /\ UNCHANGED wire
  /\ UNCHANGED <<route, request, call, returned>>

\* _handle_http_exception and _handle_generic_exception.  Outside debug mode;
\* a WebSocket whose handler failed is closed (module WsConnection).
HttpStatus == IF call.exc # "none" THEN 422 ELSE 404
Respond ==
  /\ phase = "failed"
  /\ wire' = IF route.colour = "websocket" THEN NoWire ELSE HandleException(raised, HttpStatus, FALSE)
  /\ phase' = "answered"
  /\ UNCHANGED <<route, request, call, returned, raised>>

\* What a handler may raise, the constructor of FileResponse in it included.
Exceptions == {"HTTPException", "FileNotFoundError", "PermissionError", "ValueError"}

Next ==
  \/ Register
  \/ \E q \in Requests : Receive(q)
  \/ RustRefuses
  \/ Bind
  \/ \E v \in Results : HandlerReturns(v)
  \/ HandlerSuspends
  \/ \E e \in Exceptions : HandlerRaises(e)
  \/ Serialise
  \/ Respond

Spec == Init /\ [][Next]_vars

----------------------------------------------------------------------------
(* Properties. *)

\* What a parameter is meant to get: what the client sent under its own key, or
\* its default (which is the marker where that stands for one).
KeyOf(f) == IF f.source = "header" THEN HeaderKey(f) ELSE FieldAlias(f)
Meant(f, q) ==
  IF f.source \in {"request", "dependency"} THEN Arg(f.source, f.name, "one", TRUE)
  ELSE IF f.source = "body" \/ (IsStruct(f.type) /\ f.source \notin {"path", "file"})
  THEN Arg(f.source, f.type, "struct", TRUE)
  ELSE IF KeyOf(f) \notin DOMAIN q[f.source] THEN Default(f)
  ELSE IF f.source = "file" THEN Arg("file", KeyOf(f), IF f.type = "UploadFiles" THEN "many" ELSE "one", TRUE)
  ELSE Arg(f.source, KeyOf(f), q[f.source][KeyOf(f)], TRUE)

\* What the code does otherwise: the hints are keyed by the name (an aliased
\* parameter, a hyphenated header) and there is none for a struct in a path, a
\* header or cookie that does not parse is zero, and the first of several bodies
\* serves all.
Unconverted(a) == Arg(a.src, a.key, a.val, FALSE)
HintMissed(f) == f.type # "str" /\ (KeyOf(f) # f.name \/ IsStruct(f.type))
Zeroed(f, a) == f.source \in {"header", "cookie"} /\ a.val = "zero"
SharesBody(fields, i) == fields[i].source = "body" /\ \E j \in DOMAIN fields \ {i} : fields[j].source = "body"

Own(fields, i, a, q) ==
  \/ a = Meant(fields[i], q)
  \/ HintMissed(fields[i]) /\ a = Unconverted(Meant(fields[i], q))
  \/ Zeroed(fields[i], a)
  \/ SharesBody(fields, i)

Bindings == IF route.colour = "websocket" THEN WsFields(route) ELSE Fields(route)
Carried == IF route.colour = "websocket" THEN WsRequest(request) ELSE request
ArgumentOf(i) == Received(Bindings, call, IF route.colour = "websocket" THEN 1 ELSE 0, i)

\* injector_simple passes the path parameters first.
Reordered ==
  /\ HandlerPattern(Bindings) = "SIMPLE" /\ (route.colour = "websocket" \/ ~RustBinds(route))
  /\ \E i, j \in Positional(Bindings) :
       i < j /\ Bindings[i].source = "query" /\ Bindings[j].source = "path"

\* A lone parameter of that name is given the request, and by position, whatever
\* it declares.
RequestByName ==
  /\ route.colour # "websocket" /\ RequestOnly(route)
  /\ Bindings[1].source # "request" \/ Bindings[1].kind # "pos"

\* Every parameter of a running handler, of a route or of a WebSocket, has the
\* value the request carries under the parameter's own key in its own source, of
\* the declared type, or its default, whichever injector or Rust plan bound it
\* (compile_argument_injector, _compile_rust_arg_bindings); the departures above
\* are the only ones.
ParametersAreOwn ==
  phase = "running" /\ ~Reordered /\ ~RequestByName =>
    \A i \in DOMAIN Bindings : Own(Bindings, i, ArgumentOf(i), Carried)

\* An unvalidated dict or list is encoded as the annotation has it, whatever
\* was returned; and Serializers in a list of other structs are not dumped.
TakenAtItsWord(d, v) ==
  /\ ~Validates(d) /\ SkipsConvert(d)
  /\ v.k \notin {"dict", "list"} \/ v.elem \in {"Serializer", "object"}
UndumpedItems(d, v) == InlineKind(d) = "list" /\ v.k = "list" /\ v.elem = "Serializer"

\* The specialised executors of a plain function that is dispatched on the loop,
\* behind any middleware, run a QuerySet's query there, where Django refuses it;
\* and so does every executor on the loop for a payload that is a QuerySet.
QueriedOnLoop(r, v) == OnLoop(r) /\ Queries(r.decl, v) /\ (v.k = "QuerySet" => SyncExecutor(r))

Outcome(w) == IF w.exc = "none" THEN w ELSE HandleException(w.exc, 404, FALSE)

\* The executors specialised at registration answer as serialize_response does:
\* the same status, content type and body for every value a handler may return,
\* an error included, but for the two cases above; and for a QuerySet evaluated on
\* the event loop, which is answered 500 whatever it holds.
SpecialisedAnswersAlike ==
  phase = "answered" /\ returned # Nothing /\ route.decl.multi = <<>> =>
    \/ wire = Outcome(Serialize(route.decl, returned))
    \/ TakenAtItsWord(route.decl, returned)
    \/ UndumpedItems(route.decl, returned)
    \/ QueriedOnLoop(route, returned) /\ wire.status = 500

\* A value that cannot be answered as declared is the server's fault and
\* answered 500.  Only a File is answered as if the client had asked for what is
\* not there, or not his to see: 404 if there is no such file, 403 if the server
\* may not open it, and 500 for any other failure to open it.
OpenStatus(e) == IF e = "FileNotFoundError" THEN 404 ELSE IF e = "PermissionError" THEN 403 ELSE 500
ServerIsBlamed ==
  phase = "answered" /\ returned # Nothing /\ raised # "none" =>
    wire.status = IF returned.k = "File" THEN OpenStatus(raised) ELSE 500

\* A request that cannot be bound is the client's fault and answered 422; a
\* value that does not fit the declared answer is the server's and answered 500,
\* though both are found by the same msgspec conversions.  What a File cannot
\* open is answered as open() fails.
BlameIsRight ==
  /\ phase = "answered" /\ route.colour # "websocket" /\ call.exc # "none" => wire.status = 422
  /\ ServerIsBlamed
=============================================================================
