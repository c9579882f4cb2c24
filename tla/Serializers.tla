----------------------------- MODULE Serializers -----------------------------
(***************************************************************************)
(* Serializer classes (python/django_bolt/serializers).  A class is made   *)
(* in two parts.  __init_subclass__ sets what can be known before msgspec  *)
(* has built the struct; the field() markers are read when the class is    *)
(* first used, by _lazy_collect_field_configs, which then raises a flag    *)
(* on the class.  Flags and tables are class attributes: what a class has  *)
(* not set itself it reads from the class it derives from.                 *)
(*                                                                         *)
(* A class is identified by [base, sub, only]: a declared class, or what   *)
(* base.subset(only) made of one, which derives from Serializer and not    *)
(* from base.  Values: "v" as given, "bad" for one a type or a validator   *)
(* refuses, "none", "default", "marker" for a field() object left in a     *)
(* field, and "set" for whatever a validator put in the place of a value.  *)
(***************************************************************************)
EXTENDS Naturals, Sequences, FiniteSets, SequencesExt, TLC

CONSTANTS
  Declared,   \* [class name -> declaration]
  Subsets,    \* the sets of names subset() is called with
  Views       \* chains of only() and exclude(): sequences of <<how, names>>

VARIABLES
  attrs,      \* [class -> the attributes it has set itself]
  instance,   \* the serializer instance at hand, or NoInstance
  errors,     \* what the last construction reported, {} if it succeeded
  out         \* the last dump: its class, options and keys

vars == <<attrs, instance, errors, out>>

Id(c) == [base |-> c, sub |-> FALSE, only |-> {}]
NoInstance == [cls |-> Id("none"), vals |-> <<>>]
NoDump == [cls |-> Id("none"), keys |-> {}, due |-> {}]

Names(fs) == {f.name : f \in fs}

(* What subset() keeps: the listed fields with their types, defaults and   *)
(* markers, the listed computed fields, and of a field's validators the    *)
(* last, for they are stored under one name.  Model validators are not     *)
(* copied.                                                                 *)
Subset(d, only) ==
  [mro |-> <<>>,
   fields |-> {[f EXCEPT !.checks = IF @ = <<>> THEN @ ELSE <<@[Len(@)]>>] : f \in {g \in d.fields : g.name \in only}},
   write_only |-> d.write_only \cap only,
   computed |-> d.computed \cap only,
   model_checks |-> <<>>]

Decl(id) == IF id.sub THEN Subset(Declared[id.base], id.only) ELSE Declared[id.base]
Above(id) == [i \in DOMAIN Decl(id).mro |-> Id(Decl(id).mro[i])]

----------------------------------------------------------------------------
(* Class attributes *)

Marked(d, m) == Names({f \in d.fields : f.mark = m})
Nested(d) == {f \in d.fields : f.type \in DOMAIN Declared}
Literals(d) == {f \in d.fields : f.type = "literal"}

FastPath(d, write_only, excluded) ==
  d.computed = {} /\ write_only = {} /\ Nested(d) = {} /\ excluded = {}

InitSubclass(d) ==
  [collected |-> FALSE, write_only |-> d.write_only, markers |-> FALSE,
   fast |-> FastPath(d, d.write_only, {}), specs |-> {}, model_specs |-> {}]

Collected(id) ==
  attrs[id].collected \/ \E i \in DOMAIN Above(id) : attrs[Above(id)[i]].collected

BuildDumpFieldSpecs(d, write_only) ==
  Names(d.fields) \ (write_only \cup Marked(d, "exclude"))

(* Mutant: only Config.write_only hides a field. *)
LazyCollect_ConfigOnly(d) ==
  [collected |-> TRUE, write_only |-> d.write_only,
   markers |-> \E f \in d.fields : f.mark # "none",
   fast |-> FastPath(d, d.write_only, Marked(d, "exclude")),
   specs |-> BuildDumpFieldSpecs(d, d.write_only),
   model_specs |-> Names(d.fields)]

LazyCollect(d) ==
  LET write_only == d.write_only \cup Marked(d, "write_only")
  IN [collected |-> TRUE, write_only |-> write_only,
      markers |-> \E f \in d.fields : f.mark # "none",
      fast |-> FastPath(d, write_only, Marked(d, "exclude")),
      specs |-> BuildDumpFieldSpecs(d, write_only),
      model_specs |-> Names(d.fields)]

(* The attributes once the class is ready, for a use of it. *)
Ready(id) == IF Collected(id) THEN attrs[id] ELSE LazyCollect(Decl(id))
UseClasses(ids) == attrs' = [c \in DOMAIN attrs |-> IF c \in ids THEN Ready(c) ELSE attrs[c]]

(* __model_field_specs__ is the one table __init_subclass__ does not reset. *)
ModelFieldSpecs(id) ==
  IF Ready(id).collected THEN Ready(id).model_specs
  ELSE LET i == CHOOSE i \in DOMAIN Above(id) :
                  attrs[Above(id)[i]].collected /\ \A j \in 1..(i - 1) : ~attrs[Above(id)[j]].collected
       IN attrs[Above(id)[i]].model_specs

(* What was made and dumped is kept by callers, not by the classes; one    *)
(* instance is followed at a time.                                         *)
Idle == instance = NoInstance /\ errors = {} /\ out = NoDump
Forget == ~Idle /\ instance' = NoInstance /\ errors' = {} /\ out' = NoDump /\ UNCHANGED attrs

(* class C(Parent): ... *)
Define(c) ==
  /\ Id(c) \notin DOMAIN attrs
  /\ \A i \in DOMAIN Declared[c].mro : Id(Declared[c].mro[i]) \in DOMAIN attrs
  /\ \A f \in Nested(Declared[c]) : Id(f.type) \in DOMAIN attrs
  /\ attrs' = (Id(c) :> InitSubclass(Declared[c])) @@ attrs
  /\ Idle /\ UNCHANGED <<instance, errors, out>>

(* C.subset(...), and C.fields(set name), which calls it.  It reads what   *)
(* C's definition has set and does not use C.                              *)
DefineSubset(c, only) ==
  LET id == [base |-> c, sub |-> TRUE, only |-> only]
  IN /\ Id(c) \in DOMAIN attrs
     /\ id \notin DOMAIN attrs
     /\ only \subseteq Names(Declared[c].fields) \cup Declared[c].computed
     /\ attrs' = (id :> InitSubclass(Decl(id))) @@ attrs
     /\ Idle /\ UNCHANGED <<instance, errors, out>>

----------------------------------------------------------------------------
(* Construction *)

(* msgspec fills what was not given with the default, which is the marker  *)
(* for a field() field; __post_init__ replaces it if the class says that   *)
(* it has markers.  A marker without a default is then an error.           *)
Filled(d, has_markers, given) ==
  [n \in Names(d.fields) |->
     LET f == CHOOSE f \in d.fields : f.name = n
     IN CASE n \in DOMAIN given -> given[n]
          [] n \notin DOMAIN given /\ f.mark = "none" -> "default"
          [] n \notin DOMAIN given /\ f.mark # "none" /\ has_markers /\ f.default -> "default"
          [] OTHER -> "marker"]
Missing(d, given) ==
  {f.name : f \in {g \in d.fields : ~g.default /\ g.mark = "none" /\ g.name \notin DOMAIN given}}

(* A validator returns a value, returns None to keep the one it was given, *)
(* or raises; the field is set once, after the last.  "fix" makes a bad    *)
(* value good, "set" returns a value of its own, and "refuse" raises for   *)
(* what is bad and for what another validator made up.                     *)
Doubtful == {"bad", "set"}
RECURSIVE RunChecks(_, _)
RunChecks(checks, v) ==
  IF checks = <<>> THEN v
  ELSE CASE Head(checks) = "fix" -> RunChecks(Tail(checks), IF v \in Doubtful THEN "v" ELSE v)
         [] Head(checks) = "set" -> RunChecks(Tail(checks), "set")
         [] Head(checks) = "refuse" /\ v \in Doubtful -> "raise"
         [] OTHER -> RunChecks(Tail(checks), v)

(* Nested and literal fields are checked first; a custom validator runs    *)
(* whatever they reported, and nothing checks the type of what it returns. *)
(* A validator sees the marker as any value.                               *)
TypeErrors_NestedOnly(d, vals) ==
  {f.name : f \in {g \in Nested(d) : vals[g.name] = "bad"}}

TypeErrors(d, vals) ==
  {f.name : f \in {g \in Nested(d) \cup Literals(d) :
     vals[g.name] = "bad" \/ (g \in Literals(d) /\ vals[g.name] = "none")}}
FieldErrors(d, vals) == {f.name : f \in {g \in d.fields : RunChecks(g.checks, vals[g.name]) = "raise"}}
Validated(d, vals) ==
  [n \in DOMAIN vals |->
     LET f == CHOOSE f \in d.fields : f.name = n
         v == RunChecks(f.checks, vals[n])
     IN IF v = "raise" THEN vals[n] ELSE v]

(* A model validator raises ("refuse") or modifies the instance (the name  *)
(* of the field it sets); the next one runs either way.                    *)
RunModelCheck(seen, check) ==
  IF check # "refuse" THEN [seen EXCEPT !.vals[check] = "set"]
  ELSE IF \E n \in DOMAIN seen.vals : seen.vals[n] \in Doubtful THEN [seen EXCEPT !.errors = {"body"}]
  ELSE seen
ModelValidated(d, vals) == FoldLeft(RunModelCheck, [vals |-> vals, errors |-> {}], d.model_checks)

PostInit(id, given) ==
  LET d == Decl(id)
      vals == Filled(d, Ready(id).markers, given)
      checked == ModelValidated(d, Validated(d, vals))
      found == TypeErrors(d, vals) \cup FieldErrors(d, vals) \cup checked.errors
      unfixed == {n \in DOMAIN vals : Ready(id).markers /\ vals[n] = "marker"}
  IN /\ UseClasses({id} \cup {Id(f.type) : f \in {g \in Nested(d) : vals[g.name] = "v"}})
     /\ errors' = IF unfixed # {} THEN unfixed ELSE found
     /\ instance' = IF errors' = {} THEN [cls |-> id, vals |-> checked.vals] ELSE NoInstance
     /\ out' = NoDump

(* C(name=value, ...).  msgspec refuses a missing argument first.           *)
Construct(id, given) ==
  /\ Idle
  /\ IF Missing(Decl(id), given) # {}
     THEN errors' = Missing(Decl(id), given) /\ UNCHANGED <<attrs, instance, out>>
     ELSE PostInit(id, given)

(* C.from_model(row): the fields of __model_field_specs__ are given.       *)
FromModel(id, row) ==
  LET given == [n \in ModelFieldSpecs(id) \cap DOMAIN row |-> row[n]]
  IN /\ Idle
     /\ Names(Decl(id).fields) \subseteq DOMAIN row
     /\ IF Missing(Decl(id), given) # {}
        THEN /\ UseClasses({id})
             /\ errors' = Missing(Decl(id), given)
             /\ UNCHANGED <<instance, out>>
        ELSE PostInit(id, given)

----------------------------------------------------------------------------
(* Dumping *)

(* A view's pair of field sets, each <<>> while there is none. *)
Unfiltered == [include |-> <<>>, exclude |-> <<>>]
Only(filter, names) ==
  [filter EXCEPT !.include = IF @ = <<>> THEN <<names>> ELSE <<@[1] \cap names>>]
Exclude(filter, names) ==
  [filter EXCEPT !.exclude = IF @ = <<>> THEN <<names>> ELSE <<@[1] \cup names>>]
Narrow(filter, pick) ==
  IF pick[1] = "only" THEN Only(filter, pick[2]) ELSE Exclude(filter, pick[2])

Passes(n, filter) ==
  /\ filter.include = <<>> \/ n \in filter.include[1]
  /\ filter.exclude = <<>> \/ n \notin filter.exclude[1]

(* A nested instance is dumped by its own class, on either of its paths.   *)
(* Its class was used when the instance was made.                          *)
DumpKeys(a, d) == IF a.fast THEN Names(d.fields) ELSE a.specs \cup d.computed
NestedKeys(f) == {<<f.name, k>> : k \in DumpKeys(Ready(Id(f.type)), Declared[f.type])}

DumpImpl(id, a, vals, opts, filter) ==
  LET d == Decl(id)
      kept == {f \in d.fields :
                 /\ f.name \in a.specs
                 /\ Passes(f.name, filter)
                 /\ ~(opts.exclude_none /\ vals[f.name] = "none")
                 /\ ~(opts.exclude_defaults /\ f.default /\ vals[f.name] = "default")}
  IN {<<f.name>> : f \in kept}
     \cup UNION {NestedKeys(f) : f \in {g \in kept : g \in Nested(d) /\ vals[g.name] = "v"}}
     \cup {<<n>> : n \in {m \in d.computed : Passes(m, filter)}}

Quick(a, opts) == a.fast /\ ~opts.exclude_none /\ ~opts.exclude_defaults

(* instance.dump(...), and C.dump_many([instance]), which decides by C. *)
Dump(opts) ==
  LET id == instance.cls
  IN /\ instance # NoInstance
     /\ UseClasses({id})
     /\ out' = [cls |-> id, due |-> <<opts, <<>>, instance.vals>>,
                keys |-> IF Quick(Ready(id), opts) THEN {<<n>> : n \in Names(Decl(id).fields)}
                         ELSE DumpImpl(id, Ready(id), instance.vals, opts, Unfiltered)]
     /\ UNCHANGED <<instance, errors>>

(* C.only(...) and C.exclude(...), narrowed further, or C.use(set name),   *)
(* then view.dump(instance): never the fast path.                          *)
ViewDump(opts, view) ==
  LET id == instance.cls
      filter == FoldLeft(Narrow, Unfiltered, view)
  IN /\ instance # NoInstance
     /\ UseClasses({id})
     /\ out' = [cls |-> id, due |-> <<opts, view, instance.vals>>,
                keys |-> DumpImpl(id, Ready(id), instance.vals, opts, filter)]
     /\ UNCHANGED <<instance, errors>>

----------------------------------------------------------------------------
Opts == [exclude_none : BOOLEAN, exclude_defaults : BOOLEAN]
Inputs(d) == UNION {[S -> {"v", "bad", "none"}] : S \in SUBSET Names(d.fields)}
Rows(d) == [Names(d.fields) -> {"v", "none"}]

Init ==
  /\ attrs = <<>>
  /\ instance = NoInstance
  /\ errors = {}
  /\ out = NoDump

Next ==
  \/ \E c \in DOMAIN Declared : Define(c)
  \/ \E c \in DOMAIN Declared, only \in Subsets : DefineSubset(c, only)
  \/ \E id \in DOMAIN attrs : \E given \in Inputs(Decl(id)) : Construct(id, given)
  \/ \E id \in DOMAIN attrs : \E row \in Rows(Decl(id)) : FromModel(id, row)
  \/ \E opts \in Opts : Dump(opts)
  \/ \E opts \in Opts, view \in Views : ViewDump(opts, view)
  \/ Forget

Spec == Init /\ [][Next]_vars

----------------------------------------------------------------------------
(* Properties *)

Hidden(d) == d.write_only \cup Marked(d, "write_only") \cup Marked(d, "exclude")
Shown(d) == (Names(d.fields) \ Hidden(d)) \cup d.computed

(* What a dump of these values should hold, from the declaration alone. *)
Expected(d, opts, view, vals) ==
  LET shown == {n \in Shown(d) :
                  /\ \A i \in DOMAIN view : (n \in view[i][2]) = (view[i][1] = "only")
                  /\ n \in DOMAIN vals =>
                       /\ ~(opts.exclude_none /\ vals[n] = "none")
                       /\ ~(opts.exclude_defaults /\ vals[n] = "default")}
      inner == {f \in Nested(d) : f.name \in shown /\ vals[f.name] = "v"}
  IN {<<n>> : n \in shown} \cup UNION {{<<f.name, k>> : k \in Shown(Declared[f.type])} : f \in inner}

(* A class that is first used after a class it derives from finds that     *)
(* class's __field_configs_collected__ set and never collects its own.     *)
Shadowed(id) == ~attrs[id].collected /\ Collected(id)

(* Whatever order classes are defined and used in, and whichever path      *)
(* serves it (the native one, the selective one, a view, a nested dump), a *)
(* dump holds exactly the declared fields that are neither write-only nor  *)
(* excluded, the computed ones, and nothing the caller filtered out        *)
(* (serializers/base.py:2120-2261), but for a shadowed class.              *)
DumpsAsDeclared ==
  out # NoDump /\ ~Shadowed(out.cls) =>
    out.keys = Expected(Decl(out.cls), out.due[1], out.due[2], out.due[3])

(* The value a validator last put in a field is refused by none that runs  *)
(* later; model validators run after those of the fields.                  *)
SetLast(checks, it) == \E i \in DOMAIN checks : checks[i] = it /\ \A j \in (i + 1)..Len(checks) : checks[j] # "refuse"
PutByValidator(d, f) ==
  \/ SetLast(d.model_checks, f.name)
  \/ SetLast(f.checks, "set") /\ \A i \in DOMAIN d.model_checks : d.model_checks[i] # "refuse"

(* An instance of a declared class holds nothing of the client's that a    *)
(* check of its fields refuses: no field() object stands for a value, and  *)
(* no value that a nested type, a literal type or a validator refuses is   *)
(* left in it.  What else it holds was put there by one of the class's own *)
(* validators, whose values no type is checked against, and no validator   *)
(* that ran later refused it (serializers/base.py:653-930); but for a      *)
(* shadowed class.                                                         *)
AcceptedIsValid ==
  instance # NoInstance /\ ~instance.cls.sub /\ ~Shadowed(instance.cls) =>
    \A n \in DOMAIN instance.vals :
      LET f == CHOOSE f \in Decl(instance.cls).fields : f.name = n
      IN /\ instance.vals[n] # "marker"
         /\ instance.vals[n] = "none" => f.type # "literal"
         /\ instance.vals[n] = "bad" =>
              f.type = "str" /\ \A i \in DOMAIN f.checks : f.checks[i] # "refuse"
         /\ instance.vals[n] = "set" => PutByValidator(Decl(instance.cls), f)
=============================================================================
