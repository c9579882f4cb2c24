---------------------------- MODULE Dependencies ----------------------------
(***************************************************************************)
(* Depends(): what the registration of a route decides about its           *)
(* dependencies, and how a request resolves them.                          *)
(*                                                                         *)
(* Registration (api.py, analysis.py) walks the dependencies of a handler, *)
(* compiles each one for the route at hand, keeps the result in            *)
(* _handler_meta under the function alone, and collects the parts of a     *)
(* request that Rust must parse.  A request (_kwargs/model.py,             *)
(* dependencies.py) resolves the asynchronous dependencies concurrently    *)
(* when there are two of them, and the others in order.                    *)
(*                                                                         *)
(* Every request is assumed to carry what its handler and dependencies     *)
(* ask for.                                                                *)
(***************************************************************************)
EXTENDS Integers, Sequences, FiniteSets

CONSTANTS
  Fns,       \* dependency functions
  Decl,      \* their declarations: params, reads, analysable, is_async
  Routes     \* routes: method, path_params, params, reads, analysable

(***************************************************************************)
(* A parameter is [name, mark, fn, use_cache].  Its mark is the explicit   *)
(* marker, "request" for the request object, or "bare" when the source is  *)
(* to be inferred; fn and use_cache belong to the mark "depends".          *)
(***************************************************************************)
VARIABLES
  metas,     \* _handler_meta of the functions: their parameters' sources
  plan,      \* of the registered routes: the components Rust parses
  reg,       \* the route being registered, as a set of at most one
  todo,      \* dependencies still to walk
  visited,   \* dependencies walked for this route
  acc,       \* DependencyNeeds
  cur,       \* the route of the request being served, as a set
  phase,     \* "idle", "gather", "loop", "ran" or "failed"
  idx,       \* position in the argument loop
  task,      \* of each parameter: "new", "running", "done" or "failed"
  result,    \* of each parameter: the call whose value it is given
  dep_cache, \* values of this request: function -> call
  calls,     \* how often a function was called for this request
  starved    \* parameters of dependencies that were given None

vars == <<metas, plan, reg, todo, visited, acc, cur, phase, idx, task, result,
          dep_cache, calls, starved>>
regVars == <<plan, reg, todo, visited, acc>>
reqVars == <<cur, phase, idx, task, result, dep_cache, calls, starved>>

Components == {"body", "query", "headers", "cookies"}
NoCall == [fn |-> "none", n |-> 0]
Empty == [f \in {} |-> {}]

----------------------------------------------------------------------------
(* Registration. *)

\* infer_param_source, for a parameter of a simple type.
Source(p, pathParams) ==
  IF p.mark # "bare" THEN p.mark
  ELSE IF p.name \in pathParams THEN "path" ELSE "query"

\* compile_binder: the sources of the parameters, or TypeError for a body
\* in a method that has none.
Compilable(params, method, pathParams) ==
  method = "GET" => \A p \in params : Source(p, pathParams) # "body"

Compiled(params, pathParams) == [p \in params |-> Source(p, pathParams)]

RequestOnly(params) == Cardinality(params) = 1 /\ \A p \in params : p.mark = "request"

\* needs_body, needs_query, needs_headers and needs_cookies of compile_binder;
\* a function that takes the request alone has none of these keys.
BinderNeeds(meta) ==
  IF RequestOnly(DOMAIN meta) THEN {} ELSE
  {c \in Components : \E p \in DOMAIN meta :
     \/ c = "body" /\ meta[p] = "body"
     \/ c = "query" /\ meta[p] = "query"
     \/ c = "headers" /\ meta[p] = "header"
     \/ c = "cookies" /\ meta[p] = "cookie"}

\* _mark_request_component_attr.
AttrNeeds(attr) ==
  CASE attr \in Components               -> {attr}
    [] attr = "META"                     -> {"headers", "query"}
    [] attr = "get_full_path"            -> {"query"}
    [] attr = "build_absolute_uri"       -> {"headers", "query"}
    [] OTHER                             -> {}

Reads(f) == UNION {AttrNeeds(a) : a \in f.reads}

\* analyze_handler on a function that is given the request.
AnalysedNeeds(f, params) ==
  IF \A p \in params : p.mark # "request" THEN {}
  ELSE IF f.analysable THEN Reads(f) ELSE Components

ParamSet(r) == {r.params[i] : i \in DOMAIN r.params}

\* What the handler itself needs; a handler that takes the request alone is
\* given everything.
HandlerNeeds(r) ==
  IF RequestOnly(ParamSet(r)) THEN Components
  ELSE BinderNeeds(Compiled(ParamSet(r), r.path_params)) \union AnalysedNeeds(r, ParamSet(r))

DepsOf(params) == {p.fn : p \in {q \in params : q.mark = "depends"}}
DepIndices(r) == {i \in DOMAIN r.params : r.params[i].mark = "depends"}

\* The dependencies of a handler in the order of its parameters: s lists their
\* positions.
InOrder(s, r) ==
  /\ {s[i] : i \in DOMAIN s} = DepIndices(r)
  /\ \A i, j \in DOMAIN s : i < j => s[i] < s[j]

Init ==
  /\ metas = Empty
  /\ plan = Empty
  /\ reg = {}
  /\ todo = <<>>
  /\ visited = {}
  /\ acc = {}
  /\ cur = {}
  /\ phase = "idle"
  /\ idx = 1
  /\ task = <<>>
  /\ result = <<>>
  /\ dep_cache = Empty
  /\ calls = [f \in Fns |-> 0]
  /\ starved = {}

BeginRoute(r) ==
  /\ reg = {}
  /\ r \notin DOMAIN plan
  /\ reg' = {r}
  /\ \E s \in [1..Cardinality(DepIndices(r)) -> DepIndices(r)] :
       /\ InOrder(s, r)
       /\ todo' = [i \in DOMAIN s |-> r.params[s[i]].fn]
  /\ visited' = {}
  /\ acc' = {}
  /\ UNCHANGED <<metas, plan, reqVars>>

Saturated == acc = Components

\* _walk_dep_tree for the next dependency, whose own dependencies, if any,
\* come before its siblings.
WalkKnown ==
  /\ todo # <<>>
  /\ ~Saturated
  /\ Head(todo) \in visited
  /\ todo' = Tail(todo)
  /\ UNCHANGED <<metas, plan, reg, visited, acc, reqVars>>

WalkRaises ==
  /\ todo # <<>>
  /\ ~Saturated
  /\ Head(todo) \notin visited \union DOMAIN metas
  /\ \E r \in reg : ~Compilable(Decl[Head(todo)].params, r.method, r.path_params)
  /\ visited' = visited \union {Head(todo)}
  /\ acc' = Components
  /\ UNCHANGED <<metas, plan, reg, todo, reqVars>>

DepNeeds(f, meta) == BinderNeeds(meta) \union AnalysedNeeds(Decl[f], DOMAIN meta)

Walk ==
  \E r \in reg :
    LET f == Head(todo)
        meta == IF f \in DOMAIN metas THEN metas[f] ELSE Compiled(Decl[f].params, r.path_params)
        subs == DepsOf(DOMAIN meta)
    IN /\ todo # <<>>
       /\ ~Saturated
       /\ f \notin visited
       /\ f \in DOMAIN metas \/ Compilable(Decl[f].params, r.method, r.path_params)
       /\ metas' = [g \in DOMAIN metas \union {f} |-> IF g = f THEN meta ELSE metas[g]]
       /\ visited' = visited \union {f}
       /\ acc' = acc \union DepNeeds(f, meta)
       /\ \E s \in [1..Cardinality(subs) -> subs] :
            /\ {s[i] : i \in DOMAIN s} = subs
            /\ todo' = s \o Tail(todo)
       /\ UNCHANGED <<plan, reg, reqVars>>

EndRoute ==
  \E r \in reg :
    /\ todo = <<>> \/ Saturated
    /\ plan' = [x \in DOMAIN plan \union {r} |->
                  IF x = r THEN HandlerNeeds(r) \union acc ELSE plan[x]]
    /\ reg' = {}
    /\ todo' = <<>>
    /\ UNCHANGED <<metas, visited, acc, reqVars>>

----------------------------------------------------------------------------
(* A request. *)

Handler == CHOOSE r \in cur : TRUE
Params == Handler.params
AsyncIndices(r) == {i \in DepIndices(r) : Decl[r.params[i].fn].is_async}
CanParallel(r) == Cardinality(AsyncIndices(r)) >= 2

Receive(r) ==
  /\ reg = {} /\ DOMAIN plan = Routes
  /\ phase = "idle"
  /\ cur' = {r}
  /\ phase' = IF CanParallel(r) THEN "gather" ELSE "loop"
  /\ idx' = 1
  /\ task' = [i \in DOMAIN r.params |-> "new"]
  /\ result' = [i \in DOMAIN r.params |-> NoCall]
  /\ dep_cache' = Empty
  /\ calls' = [f \in Fns |-> 0]
  /\ starved' = {}
  /\ UNCHANGED <<metas, regVars>>

\* The maps the injector hands to resolve_dependency.
HasPathParams(r) == \E p \in ParamSet(r) : Source(p, r.path_params) = "path"

\* extract_dependency_value: the path, the query, then the source.  A request
\* has a bare parameter in its query if its path does not name it.
InQuery(r, p) == p.mark = "query" \/ (p.mark = "bare" /\ p.name \notin r.path_params)
Given(r, p, source) ==
  \/ p.name \in r.path_params /\ HasPathParams(r)
  \/ InQuery(r, p) /\ "query" \in plan[r]
  \/ source = "header" /\ "headers" \in plan[r]
  \/ source = "cookie" /\ "cookies" \in plan[r]

\* A dependency that is given the request lacks what it reads of it and Rust
\* did not parse; any other parameter lacks its value.
Lacking(r, f, meta) ==
  {p \in DOMAIN meta :
     IF p.mark = "request" THEN ~(Reads(Decl[f]) \subseteq plan[r]) ELSE ~Given(r, p, meta[p])}

\* resolve_dependency compiles what registration has not: with no path, as
\* the metadata of the handler has none.
MetaOf(f) == IF f \in DOMAIN metas THEN metas[f] ELSE Compiled(Decl[f].params, {})
CompilesNow(r, f) == f \in DOMAIN metas \/ Compilable(Decl[f].params, r.method, {})

Cached(p) == p.use_cache /\ p.fn \in DOMAIN dep_cache

\* The function of parameter i is called.
Call(i) ==
  LET f == Params[i].fn IN
  /\ CompilesNow(Handler, f)
  /\ metas' = [g \in DOMAIN metas \union {f} |-> MetaOf(g)]
  /\ calls' = [calls EXCEPT ![f] = @ + 1]
  /\ starved' = starved \union {<<f, p>> : p \in Lacking(Handler, f, MetaOf(f))}
  /\ result' = [result EXCEPT ![i] = [fn |-> f, n |-> calls[f] + 1]]

\* It has returned, and its value is kept for the request.
Remember_Never(p, call) == dep_cache
Remember(p, call) ==
  IF p.use_cache THEN [g \in DOMAIN dep_cache \union {p.fn} |->
                         IF g = p.fn THEN call ELSE dep_cache[g]]
  ELSE dep_cache

\* A task of gather runs up to its first await; the tasks start in order,
\* and one that was suspended goes on after all have started.
Startable(i) ==
  /\ phase \in {"gather", "failed"}
  /\ CanParallel(Handler)
  /\ i \in AsyncIndices(Handler)
  /\ task[i] = "new"
  /\ \A j \in AsyncIndices(Handler) : j < i => task[j] # "new"

TaskFromCache(i) ==
  /\ Startable(i)
  /\ Cached(Params[i])
  /\ task' = [task EXCEPT ![i] = "done"]
  /\ result' = [result EXCEPT ![i] = dep_cache[Params[i].fn]]
  /\ UNCHANGED <<metas, regVars, cur, phase, idx, dep_cache, calls, starved>>

TaskSuspends(i) ==
  /\ Startable(i)
  /\ ~Cached(Params[i])
  /\ Call(i)
  /\ task' = [task EXCEPT ![i] = "running"]
  /\ UNCHANGED <<regVars, cur, phase, idx, dep_cache>>

TaskReturns(i) ==
  /\ Startable(i)
  /\ ~Cached(Params[i])
  /\ Call(i)
  /\ task' = [task EXCEPT ![i] = "done"]
  /\ dep_cache' = Remember(Params[i], [fn |-> Params[i].fn, n |-> calls[Params[i].fn] + 1])
  /\ UNCHANGED <<regVars, cur, phase, idx>>

\* A function that cannot be compiled, or one that raises.
TaskRaises(i) ==
  /\ Startable(i)
  /\ ~Cached(Params[i])
  /\ task' = [task EXCEPT ![i] = "failed"]
  /\ phase' = "failed"
  /\ UNCHANGED <<metas, regVars, cur, idx, result, dep_cache, calls, starved>>

Resumable(i) ==
  /\ phase \in {"gather", "failed"}
  /\ i \in DOMAIN task
  /\ task[i] = "running"
  /\ \A j \in AsyncIndices(Handler) : task[j] # "new"

Resume(i) ==
  /\ Resumable(i)
  /\ task' = [task EXCEPT ![i] = "done"]
  /\ dep_cache' = Remember(Params[i], result[i])
  /\ UNCHANGED <<metas, regVars, cur, phase, idx, result, calls, starved>>

ResumeRaises(i) ==
  /\ Resumable(i)
  /\ task' = [task EXCEPT ![i] = "failed"]
  /\ phase' = "failed"
  /\ UNCHANGED <<metas, regVars, cur, idx, result, dep_cache, calls, starved>>

Gathered ==
  /\ phase = "gather"
  /\ \A i \in AsyncIndices(Handler) : task[i] = "done"
  /\ phase' = "loop"
  /\ UNCHANGED <<metas, regVars, cur, idx, task, result, dep_cache, calls, starved>>

\* The loop over the parameters: nothing of this request runs beside it.
AtParam == phase = "loop" /\ idx <= Len(Params)
ToResolve == AtParam /\ Params[idx].mark = "depends" /\ task[idx] = "new"

LoopTake ==
  /\ AtParam
  /\ ~ToResolve
  /\ idx' = idx + 1
  /\ UNCHANGED <<metas, regVars, cur, phase, task, result, dep_cache, calls, starved>>

LoopFromCache ==
  /\ ToResolve
  /\ Cached(Params[idx])
  /\ task' = [task EXCEPT ![idx] = "done"]
  /\ result' = [result EXCEPT ![idx] = dep_cache[Params[idx].fn]]
  /\ UNCHANGED <<metas, regVars, cur, phase, idx, dep_cache, calls, starved>>

LoopCalls ==
  /\ ToResolve
  /\ ~Cached(Params[idx])
  /\ Call(idx)
  /\ task' = [task EXCEPT ![idx] = "done"]
  /\ dep_cache' = Remember(Params[idx], [fn |-> Params[idx].fn, n |-> calls[Params[idx].fn] + 1])
  /\ UNCHANGED <<regVars, cur, phase, idx>>

LoopRaises ==
  /\ ToResolve
  /\ ~Cached(Params[idx])
  /\ phase' = "failed"
  /\ UNCHANGED <<metas, regVars, cur, idx, task, result, dep_cache, calls, starved>>

RunHandler ==
  /\ phase = "loop"
  /\ idx > Len(Params)
  /\ phase' = "ran"
  /\ UNCHANGED <<metas, regVars, cur, idx, task, result, dep_cache, calls, starved>>

\* All that belongs to the request has ended: after a failure the other
\* tasks of gather run on.
Respond ==
  /\ phase \in {"ran", "failed"}
  /\ \A i \in DOMAIN task : task[i] # "running" /\ ~Startable(i)
  /\ phase' = "idle"
  /\ UNCHANGED <<metas, regVars, cur, idx, task, result, dep_cache, calls, starved>>

Next ==
  \/ \E r \in Routes : BeginRoute(r) \/ Receive(r)
  \/ WalkKnown \/ WalkRaises \/ Walk \/ EndRoute
  \/ phase # "idle" /\ \E i \in DOMAIN task :
       TaskFromCache(i) \/ TaskSuspends(i) \/ TaskReturns(i) \/ TaskRaises(i)
         \/ Resume(i) \/ ResumeRaises(i)
  \/ Gathered \/ LoopTake \/ LoopFromCache \/ LoopCalls \/ LoopRaises \/ RunHandler \/ Respond

Spec == Init /\ [][Next]_vars
----------------------------------------------------------------------------
(* Properties. *)

\* Every variable has its type; a plan names components only.
TypeOK ==
  /\ DOMAIN metas \subseteq Fns
  /\ \A f \in DOMAIN metas : DOMAIN metas[f] = Decl[f].params
  /\ DOMAIN plan \subseteq Routes
  /\ \A r \in DOMAIN plan : plan[r] \subseteq Components
  /\ phase \in {"idle", "gather", "loop", "ran", "failed"}
  /\ \A i \in DOMAIN task : task[i] \in {"new", "running", "done", "failed"}

\* What a dependency asks for by a Query, Header or Cookie marker, or reads
\* of the request, is parsed for every route that uses it, however the
\* routes share it and in whatever order they are registered; and so is what
\* the handler itself reads.
DependenciesSeeRequest ==
  /\ \A x \in starved : x[2].mark \notin {"query", "header", "cookie", "request"}
  /\ \A r \in DOMAIN plan :
       (\E p \in ParamSet(r) : p.mark = "request") => Reads(r) \subseteq plan[r]

UsesOf(r, f) == {i \in DepIndices(r) : r.params[i].fn = f}
Caching(r, f) == \A i \in UsesOf(r, f) : r.params[i].use_cache

\* The handler runs with the value of a call of this request to the very
\* function each of its parameters names; and outside of gather, all the
\* parameters that name a cached dependency share the value of one call.
ArgumentsAreTheirs ==
  phase = "ran" =>
    /\ \A i \in DepIndices(Handler) :
         /\ result[i].fn = Params[i].fn
         /\ result[i].n \in 1..calls[Params[i].fn]
    /\ \A f \in Fns :
         Caching(Handler, f) /\ ~(Decl[f].is_async /\ CanParallel(Handler)) => calls[f] <= 1

----------------------------------------------------------------------------
(* What the documentation says and the code does not do. *)

\* dependencies.md: "Dependencies can accept the same parameters as handlers"
\* and "Dependencies can depend on other dependencies".
ParametersArrive == starved = {}
=============================================================================
