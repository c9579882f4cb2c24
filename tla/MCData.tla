------------------------------- MODULE MCData -------------------------------
(***************************************************************************)
(* What a handler is given and what becomes of what it returns, one part   *)
(* per behaviour: which says which part, and the others rest.              *)
(*                                                                         *)
(*   call     HandlerCall: signatures of every pattern against requests    *)
(*            that carry, lack or misspell what they declare; declarations *)
(*            of every kind against results of every kind, for handlers of *)
(*            either colour                                                *)
(*   class    Serializers: classes that hide a field in each of the ways   *)
(*            there are, one nested in another, one derived from another   *)
(*   load     ModelLoading: a post with an author, an absent editor and    *)
(*            two notes; classes whose fields share relations, nest        *)
(*            others, take too many, or nest too deep                      *)
(*   django   DjangoStack: chains of Django's middleware around a handler, *)
(*            and plans in which up to two hooks answer or raise           *)
(*   page     Pagination: five rows in pages of one to three, with sizes   *)
(*            below, at and above the limits, of querysets with and        *)
(*            without an order, and of items with and without the key      *)
(***************************************************************************)
EXTENDS Calls, Params, Walks, Integers, Sequences, FiniteSets, TLC

P(name, type) ==
  [name |-> name, alias |-> "", kind |-> "pos", mark |-> "none", type |-> type, nullable |-> FALSE, default |-> "none"]
Kw(p) == [p EXCEPT !.kind = "kw"]
Opt(p) == [p EXCEPT !.default = "value"]
Null(p) == [p EXCEPT !.nullable = TRUE]
Marked(p) == [p EXCEPT !.default = "marker"]

F(name, required, sequence, upload) == [name |-> name, required |-> required, sequence |-> sequence, upload |-> upload]
MCStructs ==
  [Filter |-> {F("id", TRUE, FALSE, FALSE), F("tags", FALSE, TRUE, FALSE)},
   Post |-> {F("q", TRUE, FALSE, FALSE)},
   Upload |-> {F("q", FALSE, FALSE, FALSE), F("doc", TRUE, FALSE, TRUE)}]

MCKebab ==
  [k \in {"id", "q", "x_id", "tags", "X-Id", "doc"} |->
     CASE k \in {"x_id", "X-Id"} -> "x-id" [] OTHER -> k]

Lit(name) == [name |-> name, brace |-> FALSE]
Brace(name) == [name |-> name, brace |-> TRUE]
Plain == <<Lit("items")>>
ById == <<Lit("items"), Brace("id")>>

Decl(type, validate, class, status) ==
  [type |-> type, validate |-> validate, class |-> class, status |-> status, multi |-> <<>>]
Dict == Decl("dict", TRUE, "none", 200)
Multi(a, b, validate) ==
  [type |-> a, validate |-> validate, class |-> "none", status |-> 200,
   multi |-> <<[status |-> 200, type |-> a], [status |-> b, type |-> "dict"]>>]

R(method, path, params) ==
  [path |-> path, method |-> method, params |-> params, colour |-> "async", awaits |-> "none", orm |-> FALSE, middleware |-> FALSE, decl |-> Dict]

Signatures ==
  {R("GET", Plain, <<P("request", "object")>>),
   R("GET", ById, <<P("id", "int")>>),
   R("GET", ById, <<P("id", "str")>>),
   R("GET", Plain, <<QueryParam(P("req", "str"), "q")>>),
   R("GET", ById, <<PathParam(P("item", "int"), "id")>>),
   R("GET", ById, <<P("id", "int"), Opt(P("q", "str"))>>),
   R("GET", ById, <<Null(P("q", "str")), P("id", "int")>>),
   R("GET", ById, <<P("q", "str"), Kw(P("id", "uuid"))>>),
   R("GET", Plain, <<P("q", "int"), Null(QueryParam(P("x_id", "str"), ""))>>),
   R("GET", Plain, <<QueryParam(P("f", "Filter"), "")>>),
   R("GET", Plain, <<Marked(QueryParam(P("q", "str"), ""))>>),
   R("GET", Plain, <<HeaderParam(P("x_id", "int"), ""), Opt(CookieParam(P("q", "int"), "id"))>>),
   R("GET", Plain, <<HeaderParam(P("q", "int"), ""), CookieParam(P("id", "int"), "")>>),
   R("GET", Plain, <<HeaderParam(P("h", "Filter"), ""), Kw(P("request", "object"))>>),
   R("POST", Plain, <<P("body", "Post")>>),
   R("GET", Plain, <<P("body", "Post")>>),
   R("POST", ById, <<P("id", "int"), P("body", "Post"), Opt(P("q", "str"))>>),
   R("POST", Plain, <<BodyParam(P("a", "Post"), ""), BodyParam(P("b", "Filter"), "")>>),
   R("POST", Plain, <<FormParam(P("q", "str"), ""), FileParam(P("doc", "UploadFile"), "")>>),
   R("POST", Plain, <<FormParam(P("up", "Upload"), ""), Opt(HeaderParam(P("id", "str"), ""))>>),
   R("POST", Plain, <<Null(FileParam(P("files", "UploadFiles"), "doc")), FormParam(P("f", "Filter"), "")>>),
   R("GET", Plain, <<Depends(P("user", "object")), P("q", "int")>>),
   [R("GET", ById, <<P("ws", "WebSocket"), P("id", "int"), Opt(P("q", "str"))>>) EXCEPT !.colour = "websocket"]}

Declarations ==
  {Dict, Decl("none", TRUE, "none", 200), Decl("none", TRUE, "none", 204), Decl("dict_of", TRUE, "none", 200),
   Decl("Struct", TRUE, "none", 200), Decl("Struct", FALSE, "none", 200), Decl("Union", TRUE, "none", 200),
   Decl("Serializer", TRUE, "none", 200), Decl("Serializer", FALSE, "none", 200),
   Decl("list_Struct", TRUE, "none", 201), Decl("list_Struct", FALSE, "none", 200),
   Decl("list_Serializer", TRUE, "none", 200), Decl("list_Serializer", FALSE, "none", 200), Decl("list_int", TRUE, "none", 200),
   Decl("stream_Struct", TRUE, "none", 200), Decl("stream_str", FALSE, "SSE", 200), Decl("stream", TRUE, "none", 200),
   Multi("Struct", 404, TRUE), Multi("list_Struct", 0, FALSE)}

MCRoutes ==
  Signatures
  \union {[R("GET", Plain, <<>>) EXCEPT !.decl = d, !.colour = c] : d \in Declarations, c \in {"sync", "async"}}
  \union {[R("GET", Plain, <<>>) EXCEPT !.decl = d, !.colour = "sync", !.orm = o, !.middleware = TRUE] :
             d \in {Dict, Decl("none", TRUE, "none", 200), Decl("Struct", TRUE, "none", 200), Decl("list_Struct", TRUE, "none", 201),
                    Decl("list_Serializer", TRUE, "none", 200), Multi("list_Struct", 0, FALSE)}, o \in BOOLEAN}
  \union {[R("GET", Plain, <<>>) EXCEPT !.decl = d, !.awaits = a, !.orm = o, !.middleware = m] :
             d \in {Dict, Decl("Struct", TRUE, "none", 200), Decl("Serializer", TRUE, "none", 200)},
             a \in {"await", "async_for"}, o \in BOOLEAN, m \in BOOLEAN}

----------------------------------------------------------------------------
(* Requests: each with one part that varies. *)

Empty == [k \in {} |-> ""]
Q(path, query, header, cookie, form, file, body) ==
  [path |-> path, query |-> query, header |-> header, cookie |-> cookie, form |-> form, file |-> file, body |-> body]
Partial(keys, vals) == UNION {[S -> vals] : S \in SUBSET keys}

Queries == Partial({"id", "q"}, {"one", "bad"}) \union {("id" :> "one") @@ ("tags" :> v) : v \in {"one", "veto"}}
MCRequests ==
  {Q(p, q, Empty, Empty, Empty, Empty, b) :
     p \in {Empty, "id" :> "one", "id" :> "bad"}, q \in Queries, b \in {"valid", "invalid"}}
  \union {Q(Empty, "q" :> "one", h, c, Empty, Empty, "malformed") :
            h \in Partial({"q", "x-id", "id"}, {"one", "bad"}), c \in Partial({"id"}, {"one", "bad"})}
  \union {Q(Empty, Empty, Empty, Empty, m, f, "malformed") :
            m \in Partial({"id", "q"}, {"one"}) \union {("id" :> "one") @@ ("tags" :> "many")},
            f \in Partial({"doc"}, {"one", "many"})}

V(k, elem, valid, status) == [k |-> k, elem |-> elem, valid |-> valid, status |-> status]
MCResults ==
  {V(k, "none", b, 0) : k \in {"dict", "None", "QuerySet", "object"}, b \in BOOLEAN}
  \union {V(k, "none", TRUE, 0) : k \in {"bytes", "str", "Serializer", "Struct", "OtherStruct", "Paginated", "generator", "object_iterator"}}
  \union {V("list", e, b, 0) : e \in {"dict", "Struct", "OtherStruct", "Serializer", "object"}, b \in BOOLEAN}
  \union {V(k, e, b, s) : k \in {"JSON", "Response", "tuple"}, e \in {"dict", "Struct", "None"}, b \in BOOLEAN, s \in {200, 404}}
  \union {V(k, "none", b, 200) : k \in {"PlainText", "HTML", "File", "FileResponse", "Streaming", "SSE", "Django"}, b \in {TRUE}}
  \union {V("File", e, FALSE, 200) : e \in {"FileNotFoundError", "PermissionError", "IsADirectoryError"}}
  \union {V(k, "QuerySet", TRUE, 200) : k \in {"JSON", "tuple"}}
  \union {V("list", "none", TRUE, 0), V("Redirect", "none", TRUE, 307), V("DjangoRedirect", "none", TRUE, 302)}

----------------------------------------------------------------------------
(* Serializer classes. *)

Column(name, mark, default) == [name |-> name, mark |-> mark, default |-> default, type |-> "str", checks |-> <<>>]
Class(members) == [mro |-> <<>>, fields |-> members, write_only |-> {}, computed |-> {}, model_checks |-> <<>>]
Refusing(f) == [f EXCEPT !.checks = <<"keep", "refuse">>]

account == Class({Refusing(Column("id", "none", FALSE)), Column("secret", "write_only", TRUE)})
post == [Class({[Column("id", "none", TRUE) EXCEPT !.checks = <<"fix", "keep">>, !.type = "literal"],
                [Column("owner", "none", FALSE) EXCEPT !.type = "account"],
                Column("draft", "exclude", FALSE)})
         EXCEPT !.computed = {"slug"}, !.model_checks = <<"refuse", "draft">>]
admin == [Class({Refusing(Column("id", "plain", FALSE)), Column("secret", "write_only", TRUE),
                [Column("key", "none", TRUE) EXCEPT !.checks = <<"refuse", "set">>, !.type = "literal"]})
          EXCEPT !.mro = <<"account">>, !.write_only = {"key"}]

Shape == {"id", "secret", "slug"}

----------------------------------------------------------------------------
(* Objects and the serializers made from them. *)

From(name, source) ==
  [name |-> name, source |-> source, nested |-> <<>>, many |-> FALSE, has_default |-> FALSE, max_items |-> 0]
Nest(name, source, class) == [From(name, source) EXCEPT !.nested = <<class>>]
Optional(f) == [f EXCEPT !.has_default = TRUE]
Notes(limit) == [Nest("notes", <<"notes">>, "Note") EXCEPT !.many = TRUE, !.max_items = limit]

Links == (<<"post", "author">> :> <<"ann">>) @@ (<<"post", "editor">> :> <<>>)
         @@ (<<"post", "notes">> :> <<"n1", "n2">>)
         @@ (<<"ann", "firm">> :> <<"acme">>) @@ (<<"ann", "badge">> :> <<>>)

LoadedClasses ==
  [Post |-> {From("author_name", <<"author", "name">>), Nest("author", <<"author">>, "User"), Notes(2)},
   User |-> {From("firm", <<"firm", "name">>), Optional(From("badge", <<"badge">>)), Optional(From("title", <<"title">>))},
   Note |-> {From("text", <<"text">>)},
   Short |-> {From("firm", <<"author", "firm", "name">>), From("boss", <<"author", "firm">>),
              From("editor_id", <<"editor">>), From("editor_name", <<"editor", "name">>), Notes(1)},
   Tree |-> {Nest("author", <<"author">>, "Branch"), From("author_firm", <<"author", "firm", "name">>)},
   Branch |-> {Nest("firm", <<"firm">>, "Leaf"), From("firm_name", <<"firm", "name">>)},
   Leaf |-> {From("name", <<"name">>)}]

----------------------------------------------------------------------------
(* Middleware classes with every kind of hook, alone, together and around    *)
(* each other, and plans in which up to two hooks answer or raise.           *)

Middleware(id, hooks, sets, marks, lengths) ==
  [id |-> id, hooks |-> hooks, sets |-> sets, marks |-> marks, lengths |-> lengths]
session == Middleware("session", {"request", "response"}, {"session"}, {}, FALSE)
csrf    == Middleware("csrf", {"request", "view", "response"}, {"csrf_cookie_needs_reset"},
                      {"csrf_processing_done"}, TRUE)
late    == Middleware("late", {"response"}, {}, {}, FALSE)
custom  == Middleware("custom", {}, {"custom"}, {}, FALSE)

\* A name set twice with two paths, one deleted and set again, one deleted, one
\* with a Max-Age of 0 and one with another.
Cookie(name, value, path, age, expires) ==
  [name |-> name, value |-> value, path |-> path, age |-> age, expires |-> expires]
CookiesDef ==
  <<Cookie("a", "1", "/", <<60>>, FALSE), Cookie("b", "", "/", <<0>>, TRUE), Cookie("a", "2", "/x", <<>>, FALSE),
    Cookie("b", "2", "/", <<>>, FALSE), Cookie("c", "", "/", <<0>>, TRUE), Cookie("d", "1", "/", <<0>>, FALSE),
    Cookie("e", "1", "/x", <<60>>, FALSE)>>

SettingsDef == <<[path |-> "session", class |-> session, imports |-> TRUE],
                 [path |-> "gone", class |-> late, imports |-> FALSE],
                 [path |-> "csrf", class |-> csrf, imports |-> TRUE]>>
Off == [all |-> FALSE, include |-> {}, exclude |-> {}]
ConfigsDef == {Off, [Off EXCEPT !.all = TRUE], [Off EXCEPT !.all = TRUE, !.exclude = {"session"}],
               [Off EXCEPT !.include = {"session", "gone"}]}

Stack(cs) == [kind |-> "stack", cs |-> cs]
Wrapper(c) == [kind |-> "wrapper", cs |-> <<c>>]
ChainsDef ==
  {<<>>, <<Stack(<<>>)>>, <<Stack(<<late, csrf>>)>>, <<Stack(<<session, custom, csrf>>)>>,
   <<Stack(<<custom>>)>>, <<Stack(<<custom, session>>), Stack(<<late>>)>>,
   <<Wrapper(session), Wrapper(csrf)>>, <<Stack(<<session>>), Wrapper(late)>>, <<Wrapper(custom), Stack(<<csrf>>)>>}

Hooks == {<<"session", "request">>, <<"session", "response">>, <<"csrf", "request">>,
          <<"csrf", "view">>, <<"csrf", "response">>, <<"late", "response">>, <<"custom", "call">>}
Acts == [Hooks -> {"pass", "answer", "raise"}]
PlansDef == {[x \in Hooks \cup {<<"handler", "">>} |-> IF x \in Hooks THEN a[x] ELSE h] :
               a \in {b \in Acts : Cardinality({x \in Hooks : b[x] # "pass"}) <= 2},
               h \in {"bytes", "file", "stream", "raise"}}

----------------------------------------------------------------------------
(* Pages. *)

MCKey == [id \in 1..5 |-> 10 - id]
MCOrders == {[id \in 1..5 |-> -id], [id \in 1..5 |-> (2 * id) % 5]}
MCSizes == {<<>>, <<"bad">>, <<"int", 0>>, <<"int", 1>>, <<"int", 9>>}

----------------------------------------------------------------------------
VARIABLES
  which, run,
  attrs, instance, errors, out,
  cached, calls, fields, loads, table, failures

handler == <<route, callPhase, received, call, returned, raised, wire>>
class == <<attrs, instance, errors, out>>
load == <<cached, calls, fields, loads, table, failures>>
page == <<rows, scheme, size, queryset, asked, walkPc, total, shown, constant, writes>>

Serial == INSTANCE Serializers WITH
  Declared <- [account |-> account, post |-> post, admin |-> admin],
  Subsets <- {{"id", "secret"}, {"slug", "owner"}},
  Views <- {<<>>, <<<<"exclude", {"id"}>>>>, <<<<"only", Shape>>, <<"exclude", {"slug"}>>>>,
            <<<<"only", Shape>>, <<"only", {"id", "owner"}>>>>, <<<<"exclude", {"id"}>>, <<"exclude", {"slug"}>>>>}

Loading == INSTANCE ModelLoading WITH
  Kind <- [author |-> "forward_one", editor |-> "forward_one", firm |-> "forward_one",
           badge |-> "reverse_one", notes |-> "many"],
  Link <- Links,
  Attrs <- [post |-> {"title"}, ann |-> {"name"}, acme |-> {"name"}, n1 |-> {"text"}, n2 |-> {"text"}],
  Classes <- LoadedClasses,
  Root <- "post", RootClasses <- {"Post", "Short", "Tree"}, MaxDepth <- 1, MaxFailures <- 1

Django == INSTANCE DjangoStack WITH
  Chains <- ChainsDef, Cookies <- CookiesDef, Plans <- PlansDef, Settings <- SettingsDef, Configs <- ConfigsDef

CallRests ==
  /\ route = <<>> /\ callPhase = "none" /\ received = Call!NoRequest /\ call = Call!NoArgs
  /\ returned = Call!Nothing /\ raised = "none" /\ wire = Call!NoWire
LoadRests ==
  /\ cached = {} /\ calls = <<>> /\ fields = <<>> /\ loads = <<>> /\ table = <<>> /\ failures = 0
PageRests ==
  /\ rows = {} /\ scheme = "page" /\ size = <<>> /\ queryset = "ordered" /\ asked = <<>> /\ walkPc = "end" /\ total = 0
  /\ shown = <<>> /\ constant = {} /\ writes = 0

DjangoRests == run = <<>>

MCInit ==
  /\ Serial!Init
  /\ \/ which = "call" /\ Call!Init /\ LoadRests /\ PageRests /\ DjangoRests
     \/ which = "class" /\ CallRests /\ LoadRests /\ PageRests /\ DjangoRests
     \/ which = "load" /\ Loading!Init /\ CallRests /\ PageRests /\ DjangoRests
     \/ which = "page" /\ Pages!Init /\ CallRests /\ LoadRests /\ DjangoRests
     \/ which = "django" /\ Django!Init /\ CallRests /\ LoadRests /\ PageRests

\* A call ends with its answer, and so does a chain.
MCNext ==
  \/ which = "call" /\ Call!Next /\ UNCHANGED <<which, class, load, page, run>>
  \/ which = "class" /\ Serial!Next /\ UNCHANGED <<which, handler, load, page, run>>
  \/ which = "load" /\ Loading!Next /\ UNCHANGED <<which, handler, class, page, run>>
  \/ which = "page" /\ Pages!Next /\ UNCHANGED <<which, handler, class, load, run>>
  \/ which = "django" /\ Django!Next /\ UNCHANGED <<which, handler, class, load, page>>
  \/ which \in {"call", "django"} /\ UNCHANGED <<which, handler, class, load, page, run>>

MCSpec == MCInit /\ [][MCNext]_<<which, handler, class, load, page, run>>

\* Whatever order serializer classes are defined and used in, and whichever path
\* serves it (the native one, the selective one, a view, a nested dump), a dump
\* holds exactly the declared fields that are neither write-only nor excluded,
\* the computed ones, and nothing the caller filtered out; but for a class first
\* used after a class it derives from.
DumpsAsDeclared == which = "class" => Serial!DumpsAsDeclared

\* A serializer instance holds nothing of the client's that a check of its fields
\* refuses: no field() object stands for a value, and no value that a nested type,
\* a literal type or a validator refuses is left in it.  What else it holds one of
\* the class's own validators put there, unchecked against the type, and none that
\* ran later refused it; but for the same classes.
AcceptedIsValid == which = "class" => Serial!AcceptedIsValid

\* However the field tasks of afrom_model interleave and whatever was loaded
\* before, it returns what from_model makes of the object with every relation
\* loaded, and raises only if that does or a query failed; and no call has two
\* loads of one relation of one object in flight, or loads again what it has,
\* however many of its fields go through it.
AsyncLikeLoaded == which = "load" => Loading!AsyncLikeLoaded /\ Loading!OneLoadAtATime

\* The flat loops of DjangoMiddlewareStack call what Django's nested middleware
\* would call, in the same order, and so does the compatibility chain where a
\* class with only __call__ stands between.
DjangoOrder == which = "django" => Django!DjangoOrder

\* Stacks are transparent: the handler sees what the process_request or __call__
\* of Django's middleware set in any of them, on the fast path of hooks and behind
\* a class with only __call__, and nothing that process_view set, which is called
\* after the copy.  What the handler answers arrives with the last cookie of each
\* name (whole, if it is the only one and its Max-Age is not 0), a file or stream
\* as such, without the length Django computed for an empty body.
StackIsTransparent == which = "django" => Django!StackSetsAttributes /\ Django!AnswerSurvives
=============================================================================
