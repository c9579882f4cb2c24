---------------------------- MODULE DjangoStack ----------------------------
(***************************************************************************)
(* Django middleware inside Bolt's chain (middleware/django_adapter.py,    *)
(* django_loader.py).  A layer of the chain is a DjangoMiddlewareStack of  *)
(* several classes or a DjangoMiddleware wrapper around one.  A class is   *)
(*   [id, hooks, sets, marks, lengths]                                     *)
(* : its hooks, the attributes its process_request (or __call__) and its   *)
(* process_view set on Django's request, and whether its process_response  *)
(* states a Content-Length.  A class without hooks only has __call__.      *)
(*                                                                         *)
(* A cookie is [name, value, path, age, expires]: a Max-Age, if it has one *)
(* (<<n>>), and whether it has a date to expire at.                        *)
(*                                                                         *)
(* A plan says what each hook does: pass, answer or raise.  Running a      *)
(* chain gives the hooks called, in order, what the handler saw of the     *)
(* attributes, and the response.                                           *)
(***************************************************************************)
EXTENDS Integers, Sequences, FiniteSets, SequencesExt

CONSTANTS
  Chains,     \* chains of layers considered
  Cookies,    \* cookies the handler sets, in order
  Plans,      \* plans: <<class id, hook>> and <<"handler", "">> -> act
  Settings,   \* settings.MIDDLEWARE, the paths with the classes they import
  Configs     \* django_middleware=...: [include, exclude, all]

VARIABLES
  run      \* [chain, plan, out]: the chain, and what running it gave

CallOnly(c) == c.hooks = {}

\* load_django_middleware: what is listed and not excluded, and can be imported.
Load(config) ==
  SelectSeq(Settings, LAMBDA m : /\ config.all \/ m.path \in config.include
                                 /\ m.path \notin config.exclude
                                 /\ m.imports)

(***************************************************************************)
(* Responses.  _body_kind "file" and "stream" are kept aside while Django  *)
(* sees an empty body; cookies move to Django's jar and back.  The jar has *)
(* one cookie per name: setting it again keeps what attributes it had and  *)
(* is not given anew, and a path is always given.                          *)
(***************************************************************************)
Response(by, kind, cookies) ==
  [by |-> by, kind |-> kind, kept |-> "none", cookies |-> cookies, length |-> FALSE]

Preserved(kind) == kind \in {"file", "stream"}

InJar(jar, c) ==
  IF \E i \in DOMAIN jar : jar[i].name = c.name
  THEN [i \in DOMAIN jar |->
          IF jar[i].name # c.name THEN jar[i]
          ELSE [c EXCEPT !.age = IF @ = <<>> THEN jar[i].age ELSE @, !.expires = @ \/ jar[i].expires]]
  ELSE Append(jar, c)

ToDjango(r) ==
  [r EXCEPT !.kept = IF Preserved(r.kind) THEN r.kind ELSE @, !.kind = "bytes",
            !.cookies = FoldLeft(InJar, <<>>, @)]

\* A Max-Age of 0 is taken for none.  Rust states the length of a file or a
\* stream itself.
FromJar(jar) == [i \in DOMAIN jar |-> IF jar[i].age = <<0>> THEN [jar[i] EXCEPT !.age = <<>>] ELSE jar[i]]

ToBolt(r) ==
  LET b == [r EXCEPT !.cookies = FromJar(@)]
  IN  IF r.kept = "none" THEN b ELSE [b EXCEPT !.kind = r.kept, !.kept = "none", !.length = FALSE]

(***************************************************************************)
(* A request on its way: the hooks called, attributes on the Django        *)
(* requests made so far (objs) and on Bolt's (bolt), the Django request of *)
(* _request_context (0: none), the middleware entered, the response, and   *)
(* whether an exception is under way.                                      *)
(***************************************************************************)
Start == [trace |-> <<>>, objs |-> <<>>, bolt |-> {}, ctx |-> 0, saw |-> {},
          entered |-> <<>>, res |-> <<>>, raised |-> FALSE]

Stopped(st) == st.raised \/ st.res # <<>>

\* _to_django_request
NewRequest(st) == [st EXCEPT !.objs = Append(@, {})]

\* _sync_request_attributes: the attributes of Django's own middleware; what any
\* other class sets stays on Django's request.
Synced == {"user", "session", "messages", "csrf_processing_done", "csrf_cookie_needs_reset"}

Sync_UserOnly(st, obj) == [st EXCEPT !.bolt = @ \cup (st.objs[obj] \cap {"user"})]

Sync(st, obj) == [st EXCEPT !.bolt = @ \cup (st.objs[obj] \cap Synced)]

Act(st, c, h, act) ==
  LET called == [st EXCEPT !.trace = Append(@, <<c.id, h>>)]
  IN  CASE act = "raise"  -> [called EXCEPT !.raised = TRUE, !.res = <<>>]
        [] act = "answer" -> [called EXCEPT !.res = <<Response(c.id, "bytes", <<>>)>>]
        [] OTHER -> called

\* A hook on the way in, which leaves its attributes on Django's request.
HookIn(st, c, h, obj, plan) ==
  IF Stopped(st) \/ h \notin c.hooks THEN st
  ELSE LET s == Act(st, c, h, plan[<<c.id, h>>])
       IN  [s EXCEPT !.objs[obj] = @ \cup IF h = "request" THEN c.sets ELSE c.marks]

\* process_response may replace the response.
HookOut(st, c, plan) ==
  IF st.raised \/ "response" \notin c.hooks THEN st
  ELSE LET s == Act(st, c, "response", plan[<<c.id, "response">>])
       IN  IF s.raised THEN s ELSE [s EXCEPT !.res = <<[@[1] EXCEPT !.length = @ \/ c.lengths]>>]

Handler(st, plan) ==
  LET called == [st EXCEPT !.trace = Append(@, <<"handler", "">>), !.saw = st.bolt]
  IN  IF plan[<<"handler", "">>] = "raise" THEN [called EXCEPT !.raised = TRUE]
      ELSE [called EXCEPT !.res = <<Response("handler", plan[<<"handler", "">>], Cookies)>>]

AsDjango(st) == IF st.raised THEN st ELSE [st EXCEPT !.res = <<ToDjango(@[1])>>]

AsBolt(st) == IF st.raised THEN st ELSE [st EXCEPT !.res = <<ToBolt(@[1])>>]

RECURSIVE Bolt(_, _, _, _)

(***************************************************************************)
(* DjangoMiddlewareStack.__call__, all classes with hooks: three loops.    *)
(***************************************************************************)
EnterFlat(st, c, obj, plan) ==
  IF Stopped(st) THEN st ELSE HookIn([st EXCEPT !.entered = Append(@, c)], c, "request", obj, plan)

Leaves_All(cs, entered) == Reverse(cs)

Leaves(cs, entered) == Reverse(entered)

Flat(st, chain, k, plan) ==
  LET cs  == chain[k].cs
      obj == Len(st.objs) + 1
      requested == FoldLeft(LAMBDA s, c : EnterFlat(s, c, obj, plan),
                            [NewRequest(st) EXCEPT !.entered = <<>>], cs)
      viewed == IF Stopped(requested) THEN requested
                ELSE FoldLeft(LAMBDA s, c : HookIn(s, c, "view", obj, plan),
                              Sync(requested, obj), requested.entered)
      answered == IF Stopped(viewed) THEN viewed ELSE AsDjango(Bolt(viewed, chain, k + 1, plan))
      out == FoldLeft(LAMBDA s, c : HookOut(s, c, plan), answered, Leaves(cs, requested.entered))
  IN  AsBolt(out)

(***************************************************************************)
(* _build_compatibility_chain: one layer per class, hooks around the rest; *)
(* the innermost runs the view hooks of what was entered, then the rest of *)
(* Bolt's chain.  Leaving a layer pops its entry, also by an exception.    *)
(***************************************************************************)
RECURSIVE Compatible(_, _, _, _, _, _)

Terminal(st, chain, k, obj, plan) ==
  LET viewed == FoldLeft(LAMBDA s, c : HookIn(s, c, "view", obj, plan), Sync(st, obj), st.entered)
  IN  IF Stopped(viewed) THEN viewed ELSE AsDjango(Bolt(viewed, chain, k + 1, plan))

HookLayer(st, chain, k, i, obj, plan) ==
  LET c == chain[k].cs[i]
      asked == HookIn([st EXCEPT !.entered = Append(@, c)], c, "request", obj, plan)
      got   == IF Stopped(asked) THEN asked ELSE Compatible(asked, chain, k, i + 1, obj, plan)
  IN  HookOut([got EXCEPT !.entered = st.entered], c, plan)

CallLayer(st, chain, k, i, obj, plan) ==
  LET c == chain[k].cs[i]
      s == Act(st, c, "call", plan[<<c.id, "call">>])
      t == [s EXCEPT !.objs[obj] = @ \cup c.sets]
  IN  IF Stopped(t) THEN t ELSE Compatible(t, chain, k, i + 1, obj, plan)

Compatible(st, chain, k, i, obj, plan) ==
  IF i > Len(chain[k].cs) THEN Terminal(st, chain, k, obj, plan)
  ELSE IF CallOnly(chain[k].cs[i]) THEN CallLayer(st, chain, k, i, obj, plan)
  ELSE HookLayer(st, chain, k, i, obj, plan)

\* Both chains with __call__ run within a context that is reset at the end.
Nested(st, chain, k, plan) ==
  LET obj == Len(st.objs) + 1
      s   == Compatible([NewRequest(st) EXCEPT !.ctx = obj, !.entered = <<>>], chain, k, 1, obj, plan)
  IN  AsBolt([s EXCEPT !.ctx = st.ctx])

\* _create_middleware_instance: which of the ways a stack takes.
Stack(st, chain, k, plan) ==
  LET cs == chain[k].cs
  IN  CASE cs = <<>> -> Bolt(st, chain, k + 1, plan)
        [] cs # <<>> /\ \A i \in DOMAIN cs : ~CallOnly(cs[i]) -> Flat(st, chain, k, plan)
        [] OTHER -> Nested(st, chain, k, plan)

(***************************************************************************)
(* DjangoMiddleware.__call__: the Django request of the context, or a new  *)
(* one; MiddlewareMixin.__acall__ calls the bridge, which converts the     *)
(* attributes once the rest of the chain has answered.  A class with only  *)
(* a synchronous __call__ gets a coroutine from the bridge, and fails.     *)
(***************************************************************************)
Bridge(st, chain, k, obj, plan) ==
  LET got == Bolt(st, chain, k + 1, plan)
  IN  IF got.raised THEN got ELSE AsDjango(Sync(got, obj))

Wrapper(st, chain, k, plan) ==
  LET c   == chain[k].cs[1]
      own == st.ctx = 0
      s0  == IF own THEN [NewRequest(st) EXCEPT !.ctx = Len(st.objs) + 1] ELSE st
      obj == s0.ctx
      asked == IF CallOnly(c) THEN Act(s0, c, "call", plan[<<c.id, "call">>])
               ELSE HookIn(s0, c, "request", obj, plan)
      got == CASE Stopped(asked) -> asked
               [] ~Stopped(asked) /\ CallOnly(c) -> [asked EXCEPT !.raised = TRUE]
               [] OTHER -> Bridge(asked, chain, k, obj, plan)
      out == HookOut(got, c, plan)
  IN  AsBolt([out EXCEPT !.ctx = st.ctx])

Bolt(st, chain, k, plan) ==
  CASE k > Len(chain) -> Handler(st, plan)
    [] k <= Len(chain) /\ chain[k].kind = "stack" -> Stack(st, chain, k, plan)
    [] OTHER -> Wrapper(st, chain, k, plan)

Run(chain, plan) == Bolt(Start, chain, 1, plan)

\* BoltAPI(django_middleware=...) puts one stack in front of the chain.
Chain(config, chain) ==
  LET loaded == Load(config)
      cs == [i \in DOMAIN loaded |-> loaded[i].class]
  IN  IF loaded = <<>> THEN chain ELSE <<[kind |-> "stack", cs |-> cs]>> \o chain

Init == \E chain \in Chains, plan \in Plans, config \in Configs :
          run = [chain |-> Chain(config, chain), plan |-> plan, out |-> Start]

Serve ==
  /\ run.out = Start
  /\ run' = [run EXCEPT !.out = Run(run.chain, run.plan)]

Next == Serve

Spec == Init /\ [][Next]_run
-----------------------------------------------------------------------------
Served == run.out # Start

Quiet == \A x \in DOMAIN run.plan : run.plan[x] # "raise" /\ (x[2] = "call" => run.plan[x] = "pass")

\* Calls of a stack's hooks in the order of Django: requests inwards up to the
\* first answer, then the view hooks, then the handler, and process_response
\* outwards of exactly the middleware that was entered.
Expected(cs, plan) ==
  LET answers(h) == {i \in DOMAIN cs : h \in cs[i].hooks /\ plan[<<cs[i].id, h>>] = "answer"}
      depth   == IF answers("request") = {} THEN Len(cs)
                 ELSE CHOOSE i \in answers("request") : \A j \in answers("request") : i <= j
      reached == SubSeq(cs, 1, depth)
      vdepth  == IF answers("view") = {} THEN Len(cs)
                 ELSE CHOOSE i \in answers("view") : \A j \in answers("view") : i <= j
      calls(seq, h) == LET with == SelectSeq(seq, LAMBDA c : h \in c.hooks)
                       IN  [i \in DOMAIN with |-> <<with[i].id, h>>]
  IN  calls(reached, "request")
      \o (IF answers("request") = {} THEN calls(SubSeq(cs, 1, vdepth), "view") ELSE <<>>)
      \o (IF answers("request") \cup answers("view") = {} THEN <<<<"handler", "">>>> ELSE <<>>)
      \o calls(Reverse(reached), "response")

\* The flat loops of a stack call what Django's nested middleware would call,
\* in the same order, and so does the compatibility chain where a class with
\* only __call__ stands between (DjangoMiddlewareStack.__call__).
DjangoOrder ==
  (Served /\ Quiet /\ Len(run.chain) = 1 /\ run.chain[1].kind = "stack") =>
    SelectSeq(run.out.trace, LAMBDA e : e[2] # "call") =
      Expected(SelectSeq(run.chain[1].cs, LAMBDA c : ~CallOnly(c)), run.plan)

\* The last cookie of each name arrives through any number of layers; with its
\* own attributes if it is the only one of its name, but for a Max-Age of 0.
CookiesArrive(arrived) ==
  \A i \in DOMAIN Cookies :
    LET c == Cookies[i]
        others == {j \in DOMAIN Cookies : j # i /\ Cookies[j].name = c.name}
    IN  (\A j \in others : j < i) =>
          \E d \in Range(arrived) :
            /\ d.name = c.name /\ d.value = c.value /\ d.path = c.path
            /\ others = {} => d.expires = c.expires /\ (c.age # <<0>> => d.age = c.age)

\* What the handler answered arrives: its file or stream as such, without the
\* length Django computed for the empty body, and with its cookies.
AnswerSurvives ==
  (Served /\ run.out.res # <<>>) =>
    LET r == run.out.res[1]
    IN  /\ r.by = "handler" => r.kind = run.plan[<<"handler", "">>] /\ CookiesArrive(r.cookies)
        /\ Preserved(r.kind) => ~r.length

\* A handler behind stacks sees what Django's middleware set in any of them on its
\* way in, also where a class with only __call__ stands between (Terminal, Flat),
\* and nothing that process_view set, which comes after the copy.
StackSetsAttributes ==
  (Served /\ \A k \in DOMAIN run.chain : run.chain[k].kind = "stack") =>
    (<<"handler", "">> \in Range(run.out.trace) =>
       run.out.saw =
         Synced \cap UNION {c.sets : c \in UNION {Range(run.chain[k].cs) : k \in DOMAIN run.chain}})
=============================================================================
