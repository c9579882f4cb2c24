------------------------------- MODULE Binding -------------------------------
(***************************************************************************)
(* From a handler's signature to the arguments of a call: the source of    *)
(* each parameter (typing.py), its extractor (_kwargs/extractors.py), the  *)
(* injector specialised for the route and the generic one it replaces      *)
(* (_kwargs/model.py, _kwargs/runtime.py), and the plan by which Rust      *)
(* binds simple arguments itself (middleware/compiler.py).                 *)
(*                                                                         *)
(* A parameter is a record of Params.  A struct is the set of its fields,  *)
(* [name, required, sequence, upload].                                     *)
(*                                                                         *)
(* A request is a record of maps, one per source, from keys to "one" (a    *)
(* scalar), "many" (a repeated key), "bad" (a scalar of the wrong type) or *)
(* "veto" (refused only by the struct's own validators), and of a body     *)
(* that is "valid", "invalid" or "malformed" JSON.                         *)
(***************************************************************************)
EXTENDS Params, Integers, Sequences, FiniteSets, SequencesExt

CONSTANTS
  Structs,    \* fields of the struct types, by type name
  Kebab       \* str.lower().replace("_", "-"), by name

Simple == {"str", "int", "uuid"}
IsStruct(type) == type \in DOMAIN Structs

\* A value or an exception.
Value(v) == [exc |-> "none", v |-> v]
Raise(e) == [exc |-> e, v |-> [src |-> "none", key |-> "none", val |-> "none", typed |-> FALSE]]

\* What an argument is: the place it was read from, and whether it has the
\* type the parameter declares.
Arg(src, key, val, typed) == [src |-> src, key |-> key, val |-> val, typed |-> typed]
Default(p) == Arg("default", p.name, p.default, p.default # "marker")

\* A map without keys.
NoMap == [k \in {} |-> "none"]

----------------------------------------------------------------------------
(* Sources. *)

\* extract_path_params: the braces of a pattern, a sequence of segments.
PathParams(path) == {path[i].name : i \in {j \in DOMAIN path : path[j].brace}}

InferSource(p, path) ==
  IF p.name \in PathParams(path) THEN "path"
  ELSE IF p.name \in {"request", "req"} THEN "request"
  ELSE IF p.type \notin Simple \union {"ints"} /\ IsStruct(p.type) THEN "body"
  ELSE "query"

\* FieldDefinition.from_parameter.
Source(p, path) ==
  IF p.mark = "depends" THEN "dependency"
  ELSE IF p.mark # "none" THEN p.mark
  ELSE InferSource(p, path)

FieldAlias(p) == IF p.alias = "" THEN p.name ELSE p.alias
IsOptional(p) == p.default # "none" \/ p.nullable
IsUploadFile(type) == type \in {"UploadFile", "UploadFiles"}

----------------------------------------------------------------------------
(* Extractors.  Each takes a field, a parameter with its source, and a     *)
(* request.                                                                *)

\* The common shape of the scalar extractors.
Lookup(f, key, map, typed) ==
  IF key \in DOMAIN map THEN Value(Arg(f.source, key, map[key], typed))
  ELSE IF IsOptional(f) THEN Value(Default(f))
  ELSE Raise("HTTPException")

SequenceFields(type) == {s.name : s \in {t \in Structs[type] : t.sequence}}
UploadFields(type) == {s \in Structs[type] : s.upload}

\* msgspec.convert of one value to the type of a struct's field.
Fits(s, val) == val = "veto" \/ (IF s.sequence THEN val = "many" ELSE val = "one")

\* _collect_struct_errors: the fields that are wrong or missing.
StructErrors(type, map) ==
  {s \in Structs[type] :
     IF s.name \in DOMAIN map THEN ~Fits(s, map[s.name]) ELSE s.required}

\* A single value of a sequence field becomes a list of one.
Wrapped(type, map) ==
  [k \in DOMAIN map |->
     IF k \in SequenceFields(type) /\ map[k] = "one" THEN "many" ELSE map[k]]

Vetoed(type, map) == \E s \in Structs[type] : s.name \in DOMAIN map /\ map[s.name] = "veto"

\* msgspec.convert of a map, with the errors the extractors make of a failure.
ConvertStruct(f, map) ==
  IF StructErrors(f.type, map) # {} THEN Raise("RequestValidationError")
  ELSE IF Vetoed(f.type, map) THEN Raise("ValidationError")
  ELSE Value(Arg(f.source, f.type, "struct", TRUE))

\* The fields of an upload struct may be in the form or among the files.
FormAndFiles(req) ==
  [k \in DOMAIN req.form \union DOMAIN req.file |->
     IF k \in DOMAIN req.file THEN req.file[k] ELSE req.form[k]]

ParamStruct(f, map) == ConvertStruct(f, Wrapped(f.type, map))
ParamStructWithFiles(f, req) == ConvertStruct(f, Wrapped(f.type, FormAndFiles(req)))

PathExtractor(f, req) ==
  LET key == FieldAlias(f) IN
  IF key \in DOMAIN req.path THEN Value(Arg("path", key, req.path[key], f.type = "str" \/ key \in req.typed))
  ELSE Raise("HTTPException")

QueryExtractor(f, req) ==
  IF IsStruct(f.type) THEN ParamStruct(f, req.query)
  ELSE Lookup(f, FieldAlias(f), req.query, f.type = "str" \/ FieldAlias(f) \in req.typed)

\* Rust keys the headers in kebab-case, and the type hints by the name.
HeaderKey(f) == Kebab[FieldAlias(f)]

HeaderStruct(f, req) ==
  LET map == [s \in {t.name : t \in {u \in Structs[f.type] : Kebab[u.name] \in DOMAIN req.header}} |->
                req.header[Kebab[s]]]
  IN IF \E s \in Structs[f.type] : s.required /\ s.name \notin DOMAIN map THEN Raise("HTTPException")
     ELSE IF StructErrors(f.type, map) # {} \/ Vetoed(f.type, map) THEN Raise("ValidationError")
     ELSE Value(Arg("header", f.type, "struct", TRUE))

HeaderExtractor(f, req) ==
  IF IsStruct(f.type) THEN HeaderStruct(f, req)
  ELSE Lookup(f, HeaderKey(f), req.header, f.type = "str" \/ HeaderKey(f) \in req.typed)

CookieExtractor(f, req) ==
  IF IsStruct(f.type) THEN ParamStruct(f, req.cookie)
  ELSE Lookup(f, FieldAlias(f), req.cookie, f.type = "str" \/ FieldAlias(f) \in req.typed)

FormExtractor(f, req) ==
  IF ~IsStruct(f.type) THEN Lookup(f, FieldAlias(f), req.form, TRUE)
  ELSE IF UploadFields(f.type) # {} THEN ParamStructWithFiles(f, req)
  ELSE ParamStruct(f, req.form)

\* create_file_extractor: one file of several where the annotation wants one.
FileExtractor(f, req) ==
  LET key == FieldAlias(f) IN
  IF key \in DOMAIN req.file THEN Value(Arg("file", key, IF f.type = "UploadFiles" THEN "many" ELSE "one", TRUE))
  ELSE IF IsOptional(f) THEN Value(Default(f))
  ELSE Raise("RequestValidationError")

\* The uploads an extractor leaves in files_map["_upload_files"].
Tracked(f, req) ==
  CASE f.source = "file" /\ IsUploadFile(f.type) -> {FieldAlias(f)} \intersect DOMAIN req.file
    [] f.source = "form" /\ IsStruct(f.type) ->
         {s.name : s \in UploadFields(f.type)} \intersect DOMAIN req.file
    [] OTHER -> {}

BodyExtractor(f, req) ==
  IF req.body = "valid" THEN Value(Arg("body", f.type, "struct", TRUE))
  ELSE IF req.body = "invalid" THEN Raise("ValidationError")
  ELSE Raise("RequestValidationError")

\* create_extractor_for_field; the injectors handle the request and the
\* dependencies, and a dependency is taken to yield its value.
Extract(f, req) ==
  IF f.source = "path" THEN PathExtractor(f, req)
  ELSE IF f.source = "query" THEN QueryExtractor(f, req)
  ELSE IF f.source = "header" THEN HeaderExtractor(f, req)
  ELSE IF f.source = "cookie" THEN CookieExtractor(f, req)
  ELSE IF f.source = "form" THEN FormExtractor(f, req)
  ELSE IF f.source = "file" THEN FileExtractor(f, req)
  ELSE IF f.source = "body" THEN BodyExtractor(f, req)
  ELSE Value(Arg(f.source, f.name, "one", TRUE))

----------------------------------------------------------------------------
(* compile_binder. *)

Field(p, path) ==
  [name |-> p.name, alias |-> p.alias, kind |-> p.kind, source |-> Source(p, path),
   type |-> p.type, nullable |-> p.nullable, default |-> p.default]
Fields(r) == [i \in DOMAIN r.params |-> Field(r.params[i], r.path)]
FieldSet(fields) == {fields[i] : i \in DOMAIN fields}
With(fields, sources) == \E f \in FieldSet(fields) : f.source \in sources

RequestOnly(r) == Len(r.params) = 1 /\ r.params[1].name \in {"request", "req"}

\* A body in a method that has none is refused at registration.
Bindable(r) ==
  \/ RequestOnly(r)
  \/ r.method \in {"GET", "HEAD", "DELETE", "OPTIONS"} => ~With(Fields(r), {"body"})

FieldHasUpload(f) == f.source = "form" /\ IsStruct(f.type) /\ UploadFields(f.type) # {}

\* body_struct_param: the only body parameter, if it is a struct.
BodyStruct(fields) ==
  LET bodies == {f \in FieldSet(fields) : f.source = "body"} IN
  IF Cardinality(bodies) = 1 /\ \A f \in bodies : IsStruct(f.type)
  THEN {f.name : f \in bodies} ELSE {}

Needs_NoCookies(fields) ==
  {s \in {"path", "query", "header"} : With(fields, {s})}
    \union (IF With(fields, {"form", "file"}) THEN {"form", "file", "header"} ELSE {})

\* The sources whose maps the injectors take from the request.
Needs(fields) ==
  {s \in {"path", "query", "header", "cookie"} : With(fields, {s})}
    \union (IF With(fields, {"form", "file"}) THEN {"form", "file", "header"} ELSE {})

HandlerPattern(fields) ==
  LET body == With(fields, {"body", "form", "file"})
      path == With(fields, {"path"})
      query == With(fields, {"query"})
  IN IF With(fields, {"dependency"}) THEN "WITH_DEPS"
     ELSE IF DOMAIN fields = {} THEN "NO_PARAMS"
     ELSE IF With(fields, {"request", "form", "file"}) THEN "FULL"
     ELSE IF With(fields, {"header", "cookie"}) THEN "FULL"
     ELSE IF body /\ ~path /\ ~query THEN "BODY_ONLY"
     ELSE IF path /\ ~query /\ ~body THEN "PATH_ONLY"
     ELSE IF query /\ ~path /\ ~body THEN "QUERY_ONLY"
     ELSE IF (path \/ query) /\ ~body THEN "SIMPLE"
     ELSE "FULL"

\* The keys whose values Rust converts, by the name and not by the alias.
TypeHints(fields) ==
  UNION {IF IsStruct(f.type) THEN {s.name : s \in Structs[f.type]} ELSE {f.name} :
           f \in {g \in FieldSet(fields) :
                     g.source \in {"path", "query", "header", "cookie"} /\ g.type # "str"}}

\* params_to_py_dict: a header or cookie that does not parse as its hint says
\* becomes zero.
Coerced(map, typed) == [k \in DOMAIN map |-> IF map[k] = "bad" /\ k \in typed THEN "zero" ELSE map[k]]

\* The request as the injectors see it.
Seen(fields, req) ==
  LET map(s) == IF s \in Needs(fields) THEN req[s] ELSE NoMap
  IN [path |-> map("path"), query |-> map("query"), header |-> Coerced(map("header"), TypeHints(fields)),
      cookie |-> Coerced(map("cookie"), TypeHints(fields)), form |-> map("form"), file |-> map("file"),
      body |-> req.body, typed |-> TypeHints(fields)]

----------------------------------------------------------------------------
(* Injectors. *)

NoArgs == [args |-> <<>>, kwargs |-> NoMap, uploads |-> {}, exc |-> "none"]

Place(acc, f, v) ==
  IF f.kind = "pos" THEN [acc EXCEPT !.args = Append(@, v)]
  ELSE [acc EXCEPT !.kwargs = (f.name :> v) @@ @]

\* The order in which the fields are handled: that of the signature, or the path
\* before the query.
Before(fields, order, i, j) ==
  IF order = "path_first" /\ (fields[i].source = "path") # (fields[j].source = "path")
  THEN fields[i].source = "path" ELSE i <= j

\* The parameters passed by position, and the place of one among them.
Positional(fields) == {i \in DOMAIN fields : fields[i].kind = "pos"}
Rank(fields, order, i) == Cardinality({j \in Positional(fields) : Before(fields, order, j, i)})

\* What field i is given; the body is decoded once, for the first that wants it.
Inject(fields, seen, i) ==
  Extract(fields[IF fields[i].source = "body"
                 THEN CHOOSE b \in DOMAIN fields : /\ fields[b].source = "body"
                                                   /\ \A c \in DOMAIN fields : fields[c].source = "body" => b <= c
                 ELSE i], seen)

\* args.append(value) or kwargs[name] = value for one field after the other,
\* unless one raises.
InjectAll(fields, seen, order) ==
  LET failing == {i \in DOMAIN fields : Inject(fields, seen, i).exc # "none"}
      first == CHOOSE i \in failing : \A j \in failing : Before(fields, order, i, j)
      at(n) == CHOOSE i \in Positional(fields) : Rank(fields, order, i) = n
      named == DOMAIN fields \ Positional(fields)
      by(k) == CHOOSE i \in named : fields[i].name = k
  IN IF failing # {} THEN [NoArgs EXCEPT !.exc = Inject(fields, seen, first).exc]
     ELSE [args |-> [n \in 1..Cardinality(Positional(fields)) |-> Inject(fields, seen, at(n)).v],
           kwargs |-> [k \in {fields[i].name : i \in named} |-> Inject(fields, seen, by(k)).v],
           uploads |-> UNION {Tracked(fields[i], seen) : i \in DOMAIN fields},
           exc |-> "none"]

InjectorRequestOnly(r) == [NoArgs EXCEPT !.args = <<Arg("request", r.params[1].name, "one", TRUE)>>]
InjectorNoParams == NoArgs
InjectorPathOnly(fields, seen) == InjectAll(fields, seen, "declared")
InjectorQueryOnly(fields, seen) == InjectAll(fields, seen, "declared")
InjectorBodyOnly(fields, seen) == InjectAll(fields, seen, "declared")

\* The path parameters, then the query parameters.
InjectorSimple(fields, seen) == InjectAll(fields, seen, "path_first")

InjectorWithDeps(fields, seen) == InjectAll(fields, seen, "declared")
InjectorFull(fields, seen) == InjectAll(fields, seen, "declared")

\* compile_argument_injector, applied to a request.
Injected(r, req) ==
  LET fields == Fields(r)
      seen == Seen(fields, req)
      pattern == HandlerPattern(fields)
  IN IF RequestOnly(r) THEN InjectorRequestOnly(r)
     ELSE IF pattern = "NO_PARAMS" THEN InjectorNoParams
     ELSE IF pattern = "PATH_ONLY" THEN InjectorPathOnly(fields, seen)
     ELSE IF pattern = "QUERY_ONLY" THEN InjectorQueryOnly(fields, seen)
     ELSE IF pattern = "BODY_ONLY" /\ Len(fields) = 1 THEN InjectorBodyOnly(fields, seen)
     ELSE IF pattern = "SIMPLE" THEN InjectorSimple(fields, seen)
     ELSE IF pattern = "WITH_DEPS" THEN InjectorWithDeps(fields, seen)
     ELSE InjectorFull(fields, seen)

\* _compile_rust_arg_bindings: the arguments Rust can bind itself.
RustBinds(r) ==
  /\ r.params # <<>> /\ ~RequestOnly(r)
  /\ \A f \in FieldSet(Fields(r)) :
       f.source \in {"path", "query", "header", "cookie"} /\ ~IsOptional(f) /\ f.type \in Simple

\* Rust binds in the order of the fields, and leaves a request that lacks one
\* to the injector.
Prebound(r, req) ==
  LET x == InjectAll(Fields(r), Seen(Fields(r), req), "declared") IN
  IF RustBinds(r) /\ x.exc = "none" THEN {x} ELSE {}

----------------------------------------------------------------------------
(* build_handler_arguments, which the injectors are specialised from.      *)

\* extract_parameter_value: no structs out of maps, no hyphens in headers, and
\* a body for no parameter but the single struct.
ParameterValue(f, seen, bodyStruct) ==
  LET key == FieldAlias(f)
      map == IF f.source \in {"path", "query", "header", "cookie", "form", "file"}
             THEN seen[f.source] ELSE NoMap
  IN CASE f.source = "request"                        -> Value(Arg("request", f.name, "one", TRUE))
       [] f.source = "dependency"                     -> Value(Arg("dependency", f.name, "one", TRUE))
       [] f.source = "body" /\ f.name \in bodyStruct  -> BodyExtractor(f, seen)
       [] f.source = "file" /\ key \in DOMAIN map ->
            Value(Arg("file", key, IF f.type = "UploadFiles" THEN "many" ELSE "one", FALSE))
       [] key \in DOMAIN map ->
            Value(Arg(f.source, key, map[key],
                      f.type = "str" \/ f.source = "form" \/ key \in seen.typed))
       [] f.source # "path" /\ IsOptional(f)          -> Value(Default(f))
       [] OTHER                                       -> Raise("HTTPException")

BuildArguments(fields, seen) ==
  FoldLeft(LAMBDA acc, f :
             LET x == ParameterValue(f, seen, BodyStruct(fields)) IN
             CASE acc.exc # "none" -> acc
               [] x.exc # "none"   -> [acc EXCEPT !.exc = x.exc]
               [] OTHER            -> Place(acc, f, x.v),
           NoArgs, fields)

----------------------------------------------------------------------------
(* WebSocket handlers. *)

\* compile_websocket_binder leaves the socket to Rust, which passes it first.
WsFields(r) ==
  [i \in {j \in DOMAIN r.params : r.params[j].type # "WebSocket"} |-> Field(r.params[i], r.path)]

\* build_websocket_request: a connection has no body and no form.
WsRequest(req) ==
  [path |-> req.path, query |-> req.query, header |-> req.header, cookie |-> req.cookie,
   form |-> NoMap, file |-> NoMap, body |-> "malformed"]

WsInjected(r, req) ==
  LET fields == WsFields(r)
      seen == Seen(fields, WsRequest(req))
      x == IF HandlerPattern(fields) = "SIMPLE" THEN InjectorSimple(fields, seen) ELSE InjectorFull(fields, seen)
  IN [args |-> <<Arg("websocket", "websocket", "one", TRUE)>> \o x.args,
      kwargs |-> x.kwargs, uploads |-> x.uploads, exc |-> x.exc]

----------------------------------------------------------------------------
\* The argument a call gives to parameter i, by its position or by its name; others
\* precede those of the injector.
Received(fields, x, others, i) ==
  IF fields[i].kind = "pos" THEN x.args[others + Rank(fields, "declared", i)]
  ELSE x.kwargs[fields[i].name]

=============================================================================
