------------------------------ MODULE GqlMulti ------------------------------
(***************************************************************************)
(* entgqlmulti: SchemaHook, run at the end of every code generation, cuts  *)
(* one GraphQL schema per API out of the full one, as the ApiConfig        *)
(* annotations of the entities say, and writes each to its file.  The      *)
(* APIs, the types to prune and the types still needed are Go maps, so     *)
(* each is gone through in an order the run chooses.                       *)
(*                                                                         *)
(* A type is named <<kind, name>>; a schema is a function from type names  *)
(* to sets of fields [name, type, args], an order's enum to one field for  *)
(* each value, named for the field the value orders by; Builtin stands for *)
(* the scalars of GraphQL itself.                                          *)
(***************************************************************************)
EXTENDS Naturals, Sequences, FiniteSets, SequencesExt, Functions

CONSTANTS
    Full,           \* the schema entgql made of all entities
    Common,         \* the types addCommonTypes takes from it
    Begins,         \* pairs <<name, prefix>> of field names, the prefix a proper one
    Builtin,
    Api,            \* the APIs with an output path
    WorkLists       \* [Api -> the lists of targets annotations may give it]

\* One type name stands for one entity, and none is a root's.
ASSUME GqlParameters ==
    /\ \A n \in DOMAIN Full : \A f \in Full[n] : \A r \in {f.type} \cup f.args : r = Builtin \/ r = <<r[1], r[2]>>
    /\ Common \subseteq DOMAIN Full /\ Api # {}
    /\ \A a \in Api : <<>> \in WorkLists[a]
    /\ \A a \in Api : \A w \in WorkLists[a] :
          /\ w \in Seq(Range(w))
          /\ \A i \in DOMAIN w :
                DOMAIN w[i] = {"entity", "typeName", "fields", "query", "filters", "orderBy", "mutations"}
          /\ \A i, j \in DOMAIN w : w[i].typeName = w[j].typeName => w[i].entity = w[j].entity
          /\ \A i \in DOMAIN w : w[i].typeName \notin {"Query", "Mutation"}

VARIABLES
    annotations,    \* [Api -> the work its entities' targets amount to]
    files,          \* [Api -> [work, schema]]: what was written, for which work
    ok,             \* the last run returned nil
    stage,          \* of the run: "idle", "apis", "targets", "prune", "need"
    pending,        \* APIs the run has still to look at
    api,            \* the one it builds
    at,             \* targets of it done
    schema,         \* its schema so far
    left,           \* the types the stage has still to look at
    needed          \* types the stage "need" will look at

build == <<stage, pending, api, at, schema, left, needed>>
vars == <<annotations, files, ok, build>>

\* Also a file that a failed write cut short: of its text nothing is said.
NoFile == [work |-> <<>>, schema |-> <<>>]

---------------------------------------------------------------------------
(* Names and fields *)

Object(n)     == <<"object", n>>
Connection(n) == <<"connection", n>>
Edge(n)       == <<"edge", n>>
Order(n)      == <<"order", n>>
OrderField(n) == <<"orderField", n>>
Where(n)      == <<"where", n>>
CreateInput(n) == <<"create", n>>
UpdateInput(n) == <<"update", n>>
PageInfo      == Object("PageInfo")
Cursor        == <<"scalar", "Cursor">>

Field(name, type, args) == [name |-> name, type |-> type, args |-> args]
HasPrefix(name, prefix) == name = prefix \/ <<name, prefix>> \in Begins

FilterFields(fields, allowed) == { f \in fields : f.name \in allowed }

\* Fields of an object type that is not in this API go; Connections stay.
FilterEdgeFields(fields, present) ==
    { f \in fields : f.type # Builtin /\ f.type[1] = "object" /\ f.type \in DOMAIN Full => f.type[2] \in present }

\* Mistake: the filter type is copied whole.
BugFilterWhereInputFields(fields, allowed) == fields

FilterWhereInputFields(fields, allowed) ==
    { f \in fields :
        \/ f.name \in {"not", "and", "or"}
        \/ HasPrefix(f.name, "id") /\ "id" \in allowed
        \/ /\ ~HasPrefix(f.name, "id")
           /\ HasPrefix(f.name, "has") \/ \E a \in allowed : HasPrefix(f.name, a) }

Restricted(t) == t.fields # {}

\* A schema of one type; AddTypes, where a later definition replaces an earlier one.
One(n, fields) == [m \in {n} |-> fields]
AddTypes(new, old) == [n \in DOMAIN new \cup DOMAIN old |-> IF n \in DOMAIN new THEN new[n] ELSE old[n]]
Taken(n, fields) == IF n \in DOMAIN Full THEN One(n, fields) ELSE <<>>

\* The types of a schema's fields, and those its fields and arguments name.
FieldTypes(fields) == { f.type : f \in fields } \ {Builtin}
References(fields) == (UNION { {f.type} \cup f.args : f \in fields }) \ {Builtin}

\* The schema entgql makes: but for Connections and Query's node, no field takes
\* arguments; objects name output types, inputs scalars and enums, filters also
\* filters; an order names its field enum, whose values have no type.  The common
\* types name each other, and none is a filter or an input.
ASSUME EntgqlSchema ==
    /\ \A n \in DOMAIN Full : \A f \in Full[n] : f.type # Builtin =>
          /\ n[1] = "object" => f.type[1] \in {"object", "connection", "scalar", "enum"} \/ f.type \in Common
          /\ n[1] \in {"create", "update"} => f.type[1] \in {"scalar", "enum"}
          /\ n[1] = "where" => f.type[1] \in {"scalar", "enum"} \/ (f.type[1] = "where" /\ f.type \in DOMAIN Full)
    /\ \A n \in DOMAIN Full : \A f \in Full[n] : f.args \subseteq {Builtin} \/ (f.type # Builtin /\ f.type[1] = "connection")
    /\ \A n \in DOMAIN Full : n = Order(n[2]) =>
          References(Full[n]) \subseteq Common \cup {OrderField(n[2])} /\ OrderField(n[2]) \in DOMAIN Full
    /\ \A n \in DOMAIN Full : n = OrderField(n[2]) => References(Full[n]) = {}
    /\ \A n \in Common : References(Full[n]) \subseteq Common /\ n[1] \notin {"where", "create", "update", "orderField"}
    /\ {PageInfo, Cursor} \subseteq Common
    /\ \A a \in Api : \A w \in WorkLists[a] : \A i \in DOMAIN w : Builtin # Connection(w[i].typeName)

---------------------------------------------------------------------------
(* What one target adds *)

EntityFields(t, present) ==
    LET all == Full[Object(t.entity)] IN
    IF Restricted(t) THEN FilterFields(all, t.fields) ELSE FilterEdgeFields(all, present)

ConnectionTypes(n) ==
    AddTypes(
        One(Connection(n), {Field("edges", Edge(n), {}), Field("pageInfo", PageInfo, {}), Field("totalCount", Builtin, {})}),
        One(Edge(n), {Field("node", Object(n), {}), Field("cursor", Cursor, {})}))

QueryTypes(t) ==
    IF ~t.query THEN <<>>
    ELSE LET e == t.entity
             order == IF t.orderBy
                      THEN AddTypes(Taken(Order(e), Full[Order(e)]), Taken(OrderField(e), Full[OrderField(e)])) ELSE <<>>
             where == IF t.filters
                      THEN Taken(Where(e), IF Restricted(t) THEN FilterWhereInputFields(Full[Where(e)], t.fields)
                                                            ELSE Full[Where(e)]) ELSE <<>>
         IN  AddTypes(ConnectionTypes(t.typeName), AddTypes(order, where))

QueryField(t) ==
    Field(t.typeName, Connection(t.typeName),
          {Cursor} \cup (IF t.orderBy THEN {Order(t.entity)} ELSE {}) \cup (IF t.filters THEN {Where(t.entity)} ELSE {}))

Inputs(t) == IF t.mutations THEN { n \in {CreateInput(t.entity), UpdateInput(t.entity)} : n \in DOMAIN Full } ELSE {}
InputTypes(t) ==
    [n \in Inputs(t) |-> IF Restricted(t) THEN FilterFields(Full[n], t.fields) ELSE Full[n]]
MutationFields(t) == { Field(n, Object(t.typeName), {n}) : n \in Inputs(t) }

Root(name, fields) == IF fields = {} THEN <<>> ELSE One(Object(name), fields)

---------------------------------------------------------------------------
(* The run *)

\* The schema under construction is local to its build.
Leave(next) ==
    /\ stage' = next /\ api' = CHOOSE a \in Api : TRUE
    /\ at' = 0 /\ schema' = <<>> /\ left' = {} /\ needed' = {}

Init ==
    /\ annotations \in [Api -> UNION Range(WorkLists)] /\ \A a \in Api : annotations[a] \in WorkLists[a]
    /\ files = [a \in Api |-> NoFile] /\ ok = FALSE
    /\ stage = "idle" /\ pending = {} /\ api = (CHOOSE a \in Api : TRUE) /\ at = 0
    /\ schema = <<>> /\ left = {} /\ needed = {}

EditAnnotations ==
    /\ stage = "idle"
    /\ \E a \in Api : \E w \in WorkLists[a] : annotations' = [annotations EXCEPT ![a] = w]
    /\ ok' = FALSE /\ UNCHANGED <<files, build>>

Start ==
    /\ stage = "idle"
    /\ stage' = "apis" /\ pending' = Api /\ ok' = FALSE
    /\ UNCHANGED <<annotations, files, api, at, schema, left, needed>>

\* Mistake: a run with nothing to do for an API is over.
BugNextApi ==
    /\ stage = "apis"
    /\ \E a \in pending :
          IF annotations[a] = <<>> THEN pending' = {} /\ UNCHANGED <<stage, schema, api>>
          ELSE pending' = pending \ {a} /\ stage' = "targets" /\ api' = a /\ schema' = [n \in Common |-> Full[n]]
    /\ UNCHANGED <<annotations, files, ok, at, left, needed>>

\* An API no entity has a target for is passed over: its file stays.
NextApi ==
    /\ stage = "apis"
    /\ \E a \in pending :
          /\ pending' = pending \ {a}
          /\ IF annotations[a] = <<>> THEN UNCHANGED <<stage, schema, api>>
             ELSE stage' = "targets" /\ api' = a /\ schema' = [n \in Common |-> Full[n]]
    /\ UNCHANGED <<annotations, files, ok, at, left, needed>>

Return ==
    /\ stage = "apis" /\ pending = {}
    /\ Leave("idle") /\ ok' = TRUE
    /\ UNCHANGED <<annotations, files, pending>>

Work == annotations[api]
Present == { Work[i].typeName : i \in DOMAIN Work }

AddTarget ==
    /\ stage = "targets" /\ at < Len(Work) /\ Object(Work[at + 1].entity) \in DOMAIN Full
    /\ LET t      == Work[at + 1]
           entity == One(Object(t.typeName), EntityFields(t, Present))
           inputs == InputTypes(t)
       IN  /\ schema' = AddTypes(inputs, AddTypes(QueryTypes(t), AddTypes(entity, schema)))
           /\ needed' = needed \cup FieldTypes(EntityFields(t, Present))
                               \cup UNION { FieldTypes(inputs[n]) : n \in DOMAIN inputs }
    /\ at' = at + 1 /\ UNCHANGED <<annotations, files, ok, stage, pending, api, left>>

\* An entity that the full schema does not hold ends the run with an error.
Fail ==
    /\ stage = "targets" /\ at < Len(Work) /\ Object(Work[at + 1].entity) \notin DOMAIN Full
    /\ Leave("idle") /\ pending' = {}
    /\ UNCHANGED <<annotations, files, ok>>

WhereTypes == { n \in DOMAIN schema : n[1] = "where" }

TargetsDone ==
    /\ stage = "targets" /\ at = Len(Work)
    /\ stage' = "prune" /\ left' = WhereTypes
    /\ UNCHANGED <<annotations, files, ok, pending, api, at, schema, needed>>

\* Mistake: judged by the full schema.
BugPruned(fields) == { f \in fields : FieldTypes({f}) \subseteq DOMAIN Full }

Pruned(fields) ==
    { f \in fields : \A r \in FieldTypes({f}) : r[1] = "where" => r \in DOMAIN schema }

\* Mistake: a type with an orphan reference is left out altogether.
BugPrune ==
    /\ stage = "prune"
    /\ \E n \in left :
          /\ schema' = IF Pruned(schema[n]) = schema[n] THEN schema ELSE RestrictDomain(schema, LAMBDA m : m # n)
          /\ left' = left \ {n}
    /\ UNCHANGED <<annotations, files, ok, stage, pending, api, at, needed>>

\* pruneOrphanWhereInputFields, one type after the other.
Prune ==
    /\ stage = "prune"
    /\ \E n \in left : schema' = [schema EXCEPT ![n] = Pruned(@)] /\ left' = left \ {n}
    /\ UNCHANGED <<annotations, files, ok, stage, pending, api, at, needed>>

PruneDone ==
    /\ stage = "prune" /\ left = {}
    /\ stage' = "need"
    /\ LET all == needed \cup UNION { FieldTypes(schema[n]) : n \in WhereTypes } IN needed' = all /\ left' = all
    /\ UNCHANGED <<annotations, files, ok, pending, api, at, schema>>

\* A scalar or enum is copied, a type nobody knows becomes a scalar; the rest stays out.
Need ==
    /\ stage = "need"
    /\ \E n \in left :
          /\ left' = left \ {n}
          /\ schema' = IF n \notin DOMAIN schema /\ (n \in DOMAIN Full => n[1] \in {"scalar", "enum"})
                       THEN AddTypes(One(n, {}), schema) ELSE schema
    /\ UNCHANGED <<annotations, files, ok, stage, pending, api, at, needed>>

Assembled ==
    AddTypes(schema,
    AddTypes(Root("Query", { QueryField(Work[i]) : i \in { j \in DOMAIN Work : Work[j].query } }),
             Root("Mutation", UNION { MutationFields(Work[i]) : i \in DOMAIN Work })))

\* WriteFile; when it fails the run ends, and the file is as it was or cut short.
Write ==
    /\ stage = "need" /\ left = {}
    /\ \/ Leave("apis") /\ files' = [files EXCEPT ![api] = [work |-> Work, schema |-> Assembled]] /\ UNCHANGED pending
       \/ Leave("idle") /\ pending' = {} /\ files' \in {files, [files EXCEPT ![api] = NoFile]}
    /\ UNCHANGED <<annotations, ok>>

Next ==
    \/ EditAnnotations \/ Start \/ NextApi \/ Return
    \/ AddTarget \/ Fail \/ TargetsDone \/ Prune \/ PruneDone \/ Need \/ Write

Spec == Init /\ [][Next]_vars

---------------------------------------------------------------------------
(* What the files promise *)

Output(a) == files[a].schema
Targets(a) == Range(files[a].work)

TypeOK ==
    /\ DOMAIN annotations = Api /\ \A a \in Api : annotations[a] \in WorkLists[a]
    /\ \A a \in Api : files[a].work \in WorkLists[a] /\ (files[a].work = <<>> <=> Output(a) = <<>>)
    /\ ok \in BOOLEAN /\ (ok => stage = "idle" /\ pending = {})
    /\ stage \in {"idle", "apis", "targets", "prune", "need"} /\ pending \subseteq Api /\ api \in Api
    /\ at \in 0..Len(Work) /\ left \subseteq needed \cup DOMAIN schema

\* A predicate on a related entity survives exactly where that entity's own
\* predicates are in the same file, whatever order targets, APIs and types
\* were gone through (USECASES.md:183).
PredicatesFollowTheirEntity ==
    \A a \in Api : \A n \in DOMAIN Output(a) : n[1] = "where" =>
        /\ \A f \in Output(a)[n] : \A r \in FieldTypes({f}) : r[1] = "where" => r \in DOMAIN Output(a)
        /\ (\A t \in Targets(a) : Where(t.entity) = n => ~Restricted(t)) =>
              \A f \in Full[n] : f \in Output(a)[n] \/ (f.type[1] = "where" /\ f.type \notin DOMAIN Output(a))

\* Where a file names a type it does not hold, it is a Connection kept with its
\* arguments (a query's, where the entity has no order or filter type, among
\* them), or an edge a target asks for by name: nothing else is left dangling.
OrphansAreKept ==
    \A a \in Api : \A n \in DOMAIN Output(a) : \A f \in Output(a)[n] :
        \/ f.type # Builtin /\ f.type[1] = "connection"
        \/ \E t \in Targets(a) : n = Object(t.typeName) /\ f.name \in t.fields
        \/ References({f}) \subseteq DOMAIN Output(a)

\* Types, and the two together: what of a file's references is closed.
FilesAreClosed == TypeOK /\ PredicatesFollowTheirEntity /\ OrphansAreKept

\* The types that show an entity's fields; its targets share all but the object.
Shown(t) ==
    {Object(t.typeName)} \cup Inputs(t)
    \cup (IF t.query /\ t.filters THEN {Where(t.entity)} ELSE {})
    \cup (IF t.query /\ t.orderBy THEN {OrderField(t.entity)} ELSE {})

\* Those that no later target replaces.
LastShown(w, i) == Shown(w[i]) \ UNION { Shown(w[j]) : j \in i + 1 .. Len(w) }

\* What a type lets be seen of an entity is what the last target to give the type
\* lets be seen, whichever of the entity's targets is the wider: an object and an
\* input the fields it lists, a filter the predicates that begin with one of them
\* or with "has".  Only the order's enum has the values of hidden fields too, and
\* only where a target asks for the order (USECASES.md:165, :210, :228).
HiddenFieldsStayHidden ==
    \A a \in Api :
        LET w        == files[a].work
            file     == Output(a)
            Names(n) == { f.name : f \in file[n] } IN
        /\ \A i \in DOMAIN w : Restricted(w[i]) => \A n \in LastShown(w, i) \cap DOMAIN file :
              CASE n[1] = "where" -> \A name \in Names(n) \ {"not", "and", "or"} :
                                        HasPrefix(name, "has") \/ \E s \in w[i].fields : HasPrefix(name, s)
                [] n[1] = "orderField" -> file[n] = Full[n]
                [] OTHER -> Names(n) \subseteq w[i].fields
        /\ \A n \in DOMAIN file : n[1] \in {"where", "create", "update", "orderField"} => \E i \in DOMAIN w : n \in Shown(w[i])

\* The same annotations give the same file, however the maps are gone through.
Reproducible == [][\A a \in Api : files'[a].work = files[a].work => files'[a] = files[a]]_files

\* After a run that returned nil each file is what the annotations ask for,
\* except that an API that lost its last target keeps the file it had.
FilesFollowAnnotations ==
    ok => \A a \in Api : annotations[a] = <<>> \/ files[a].work = annotations[a]
=============================================================================
