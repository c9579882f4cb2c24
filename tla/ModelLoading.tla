---------------------------- MODULE ModelLoading ----------------------------
(***************************************************************************)
(* Making a serializer instance from a Django object                       *)
(* (python/django_bolt/serializers/base.py).  from_model reads only what   *)
(* is already loaded.  afrom_model runs one task per field, loads the      *)
(* relations the fields go through, and shares the loads in flight between *)
(* the fields of one call; a nested serializer is a call of its own.       *)
(*                                                                         *)
(* The state follows one afrom_model of Root, with every call it makes.  A *)
(* call is named by the fields and positions that lead to it.  A value is  *)
(* a tuple whose first element tells its kind: "obj" and "objs" for model  *)
(* objects, "attr", "pk", "none", "list", "inst", "missing", "unloaded".   *)
(***************************************************************************)
EXTENDS Naturals, Sequences, FiniteSets, TLC

CONSTANTS
  Kind,         \* [relation -> "forward_one", "reverse_one" or "many"]
  Link,         \* [<<object, relation>> -> the related objects, in order]
  Attrs,        \* [object -> its plain attributes]
  Classes,      \* [serializer class -> its set of field specs]
  Root,         \* the object
  RootClasses,  \* and the classes it may be made into
  MaxDepth,     \* max_depth
  MaxFailures   \* bound on the queries the database fails

VARIABLES
  cached,       \* the <<object, relation>> pairs loaded on their objects
  calls,        \* [call -> object, class and depth]
  fields,       \* [<<call, field>> -> the state of its task]
  loads,        \* the load tasks, in the order they were created
  table,        \* relation_tasks: [<<call, object, relation>> -> load]
  failures      \* queries that failed so far

vars == <<cached, calls, fields, loads, table, failures>>

Nothing == <<"none">>
Missing == <<"missing">>
Error == <<"error">>
Objs(v) == IF v[1] = "objs" THEN v[2] ELSE IF v[1] = "obj" THEN <<v[2]>> ELSE <<>>

----------------------------------------------------------------------------
(* Following a dotted source.  Walk goes as far as it can without a query: *)
(* it ends with the value, or at a relation that is not loaded.            *)

Related(o, r) ==
  IF Kind[r] = "many" THEN <<"objs", Link[<<o, r>>]>>
  ELSE IF Link[<<o, r>>] = <<>> THEN Nothing ELSE <<"obj", Link[<<o, r>>][1]>>

(* The last part of a path to one object is its foreign key, not the object. *)
IsKey(f, i, r) == i = Len(f.source) /\ f.nested = <<>> /\ Kind[r] = "forward_one"
ForeignKey(o, r) == IF Link[<<o, r>>] = <<>> THEN Nothing ELSE <<"pk", Link[<<o, r>>][1]>>

IsRelation(o, part) == <<o, part>> \in DOMAIN Link

RECURSIVE Walk(_, _, _, _)
Walk(cur, f, i, loaded) ==
  IF i > Len(f.source) THEN [at |-> i, v |-> cur]
  ELSE LET part == f.source[i] IN
       CASE cur = Nothing -> [at |-> i, v |-> Nothing]
         [] cur[1] = "obj" /\ IsRelation(cur[2], part) ->
              IF IsKey(f, i, part) THEN [at |-> i, v |-> ForeignKey(cur[2], part)]
              ELSE IF <<cur[2], part>> \in loaded THEN Walk(Related(cur[2], part), f, i + 1, loaded)
              ELSE [at |-> i, v |-> <<"unloaded", cur[2], part>>]
         [] cur[1] = "obj" /\ part \in Attrs[cur[2]] -> Walk(<<"attr", cur[2], part>>, f, i + 1, loaded)
         [] OTHER -> [at |-> i, v |-> Missing]

Regular(v) ==
  CASE v[1] = "obj" -> <<"pk", v[2]>>
    [] v[1] = "objs" -> <<"list", [i \in DOMAIN v[2] |-> <<"pk", v[2][i]>>]>>
    [] OTHER -> v

TooMany(f, v) == f.many /\ Len(Objs(v)) > f.max_items

(* cls(...data): what is missing is left to the default, if there is one.  *)
Make(c, got) ==
  LET given == {f \in Classes[c] : got[f.name] # Missing}
  IN IF \E f \in Classes[c] \ given : ~f.has_default THEN Error
     ELSE <<"inst", c, [n \in {f.name : f \in given} |-> got[n]]>>

----------------------------------------------------------------------------
(* from_model: the same, at once, over what is loaded. *)

RECURSIVE FromModel(_, _, _, _)
ConvertSync(v, f, depth, loaded) ==
  LET made == [i \in DOMAIN Objs(v) |-> FromModel(Objs(v)[i], f.nested[1], depth + 1, loaded)]
  IN CASE f.nested = <<>> -> Regular(v)
       [] f.nested # <<>> /\ v = Nothing -> Nothing
       [] f.nested # <<>> /\ TooMany(f, v) -> Error
       [] f.nested # <<>> /\ v[1] \notin {"obj", "objs"} -> v
       [] OTHER -> IF \E i \in DOMAIN made : made[i] = Error THEN Error
                   ELSE IF f.many THEN <<"list", made>> ELSE made[1]

ExtractSync(o, f, depth, loaded) ==
  LET v == Walk(<<"obj", o>>, f, 1, loaded).v
  IN CASE v = Missing -> Missing
       [] v[1] = "unloaded" -> IF f.has_default THEN Missing ELSE Error
       [] OTHER -> ConvertSync(v, f, depth, loaded)

FromModel(o, c, depth, loaded) ==
  IF depth > MaxDepth THEN Error
  ELSE LET got == [n \in {f.name : f \in Classes[c]} |->
                     ExtractSync(o, CHOOSE f \in Classes[c] : f.name = n, depth, loaded)]
       IN IF \E n \in DOMAIN got : got[n] = Error THEN Error ELSE Make(c, got)

----------------------------------------------------------------------------
(* afrom_model *)

Spec_(id) == CHOOSE f \in Classes[calls[id[1]].cls] : f.name = id[2]
FieldsOf(call) == {<<call, f.name>> : f \in Classes[calls[call].cls]}

(* A call has ended when a field raised, or when all have their values and *)
(* the instance is made.  gather does not stop the tasks that are left.    *)
Outcome(call) ==
  CASE calls[call].depth > MaxDepth -> Error
    [] calls[call].depth <= MaxDepth /\ \E id \in FieldsOf(call) : fields[id].pc = "raised" -> Error
    [] calls[call].depth <= MaxDepth /\ \A id \in FieldsOf(call) : fields[id].pc = "done" ->
         Make(calls[call].cls, [n \in {id[2] : id \in FieldsOf(call)} |-> fields[<<call, n>>].v])
    [] OTHER -> <<"pending">>

Started(call, o, c, depth) ==
  IF depth > MaxDepth THEN <<>>
  ELSE [id \in {<<call, f.name>> : f \in Classes[c]} |-> [pc |-> "run", v |-> <<"obj", o>>, at |-> 1, load |-> 0]]

Set(id, pc, v, at, load) == fields' = [fields EXCEPT ![id] = [pc |-> pc, v |-> v, at |-> at, load |-> load]]

(* _load_relation_async starts: a foreign key that is null needs no query  *)
(* and is not kept on the object.                                          *)
NoQuery(o, r) == Kind[r] = "forward_one" /\ Link[<<o, r>>] = <<>>
NewLoad(call, o, r) == [key |-> <<call, o, r>>, state |-> IF NoQuery(o, r) THEN "ok" ELSE "flight"]

GetOrLoad(id, o, r, at) ==
  LET key == <<id[1], o, r>>
  IN /\ IF key \in DOMAIN table
        THEN /\ Set(id, "wait", <<"obj", o>>, at, table[key])
             /\ UNCHANGED <<loads, table>>
        ELSE /\ loads' = Append(loads, NewLoad(id[1], o, r))
             /\ table' = (key :> Len(loads) + 1) @@ table
             /\ Set(id, "wait", <<"obj", o>>, at, Len(loads) + 1)
     /\ UNCHANGED calls

(* One nested call per object, gathered. *)
StartNested(id, v) ==
  LET f == Spec_(id)
      depth == calls[id[1]].depth + 1
      new == {Append(id[1], <<id[2], i>>) : i \in DOMAIN Objs(v)}
      object(s) == Objs(v)[s[Len(s)][2]]
  IN /\ calls' = [s \in new |-> [obj |-> object(s), cls |-> f.nested[1], depth |-> depth]] @@ calls
     /\ fields' = [x \in UNION {DOMAIN Started(s, object(s), f.nested[1], depth) : s \in new} |->
                     [pc |-> "run", v |-> <<"obj", object(x[1])>>, at |-> 1, load |-> 0]]
                  @@ [fields EXCEPT ![id] = [pc |-> "nested", v |-> v, at |-> 1, load |-> 0]]

(* Mutant: the limit on nested items is left to the synchronous variant. *)
ConvertAsync_NoLimit(id, v) ==
  IF Spec_(id).nested = <<>> \/ v[1] \notin {"obj", "objs"}
  THEN Set(id, "done", Regular(v), 1, 0) /\ UNCHANGED calls
  ELSE StartNested(id, v)

(* The value of a field: as it is, or through nested calls. *)
ConvertAsync(id, v) ==
  LET f == Spec_(id)
  IN CASE f.nested = <<>> -> Set(id, "done", Regular(v), 1, 0) /\ UNCHANGED calls
       [] f.nested # <<>> /\ TooMany(f, v) -> Set(id, "raised", Error, 1, 0) /\ UNCHANGED calls
       [] f.nested # <<>> /\ v[1] \notin {"obj", "objs"} -> Set(id, "done", v, 1, 0) /\ UNCHANGED calls
       [] OTHER -> StartNested(id, v)

(* A field task runs from where it is to its next await, or to its end.    *)
Resume(id, cur, at) ==
  LET w == Walk(cur, Spec_(id), at, cached)
  IN IF w.v[1] = "unloaded" THEN GetOrLoad(id, w.v[2], w.v[3], w.at)
     ELSE /\ IF w.v = Missing THEN Set(id, "done", Missing, 1, 0) /\ UNCHANGED calls ELSE ConvertAsync(id, w.v)
          /\ UNCHANGED <<loads, table>>

Run(id) ==
  /\ fields[id].pc = "run"
  /\ Resume(id, fields[id].v, fields[id].at)
  /\ UNCHANGED <<cached, failures>>

(* The load it waited for has ended: it goes on with the task's result, or *)
(* raises and removes the failed task, unless another has taken its place. *)
Woken(id) ==
  LET l == fields[id].load
      key == loads[l].key
  IN /\ fields[id].pc = "wait"
     /\ loads[l].state # "flight"
     /\ IF loads[l].state = "ok"
        THEN Resume(id, Related(key[2], key[3]), fields[id].at + 1)
        ELSE /\ Set(id, "raised", Error, 1, 0)
             /\ table' = IF key \in DOMAIN table /\ table[key] = l
                         THEN [k \in DOMAIN table \ {key} |-> table[k]] ELSE table
             /\ UNCHANGED <<calls, loads>>
     /\ UNCHANGED <<cached, failures>>

(* gather over the nested calls: all made, or the first that raised. *)
NestedDone(id) ==
  LET subs == {c \in DOMAIN calls : Len(c) = Len(id[1]) + 1 /\ SubSeq(c, 1, Len(id[1])) = id[1] /\ c[Len(c)][1] = id[2]}
      made == [i \in DOMAIN Objs(fields[id].v) |-> Outcome(Append(id[1], <<id[2], i>>))]
  IN /\ fields[id].pc = "nested"
     /\ \/ /\ \E s \in subs : Outcome(s) = Error
           /\ Set(id, "raised", Error, 1, 0)
        \/ /\ \A s \in subs : Outcome(s)[1] = "inst"
           /\ Set(id, "done", IF Spec_(id).many THEN <<"list", made>> ELSE made[1], 1, 0)
     /\ UNCHANGED <<cached, calls, loads, table, failures>>

(* The database answers: the relation is kept on the object; a reverse     *)
(* relation without a row is kept as None.  Or the query fails.            *)
LoadRelation(l, fails) ==
  /\ loads[l].state = "flight"
  /\ fails => failures < MaxFailures
  /\ failures' = IF fails THEN failures + 1 ELSE failures
  /\ cached' = IF fails THEN cached ELSE cached \cup {<<loads[l].key[2], loads[l].key[3]>>}
  /\ loads' = [loads EXCEPT ![l].state = IF fails THEN "failed" ELSE "ok"]
  /\ UNCHANGED <<calls, fields, table>>

Ended == Outcome(<<>>)[1] # "pending"

(* Relations are preloaded from the object outwards. *)
Preloads ==
  {S \in SUBSET DOMAIN Link :
     \A k \in S : k[1] = Root \/ \E l \in S : \E i \in DOMAIN Link[l] : Link[l][i] = k[1]}

Init ==
  /\ cached \in Preloads
  /\ \E c \in RootClasses :
       /\ calls = (<<>> :> [obj |-> Root, cls |-> c, depth |-> 0])
       /\ fields = Started(<<>>, Root, c, 0)
  /\ loads = <<>>
  /\ table = <<>>
  /\ failures = 0

(* What still runs after the answer is of no account, except for the loads *)
(* it leaves on the objects.                                               *)
Next ==
  \/ \E id \in DOMAIN fields : Run(id) \/ Woken(id) \/ NestedDone(id)
  \/ \E l \in DOMAIN loads, fails \in BOOLEAN : LoadRelation(l, fails)
  \/ Ended /\ UNCHANGED vars

Spec == Init /\ [][Next]_vars

----------------------------------------------------------------------------
(* Properties *)

(* However the field tasks interleave and whatever was loaded before, what *)
(* afrom_model returns is what from_model makes of the object with every   *)
(* relation loaded, and it raises only if that does or a query failed      *)
(* (serializers/base.py:1558-1713).                                        *)
AsyncLikeLoaded ==
  Ended =>
    LET whole == FromModel(Root, calls[<<>>].cls, 0, DOMAIN Link)
    IN Outcome(<<>>) = whole \/ (Outcome(<<>>) = Error /\ failures > 0)

(* One call never has two loads of the same relation of the same object in *)
(* flight, nor loads again what it has loaded, however many of its fields  *)
(* go through it (serializers/base.py:1312-1335).                          *)
OneLoadAtATime ==
  \A i, j \in DOMAIN loads :
    i # j /\ loads[i].key = loads[j].key => "failed" \in {loads[i].state, loads[j].state}
=============================================================================
