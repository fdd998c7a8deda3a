----------------------------- MODULE PolyCodegen -----------------------------
(***************************************************************************)
(* entpoly's code generation and the life of its morph map.  A run of the  *)
(* generator takes the polymorphic edges out of ent's graph, collects what *)
(* they declare and renders the morph map; the program built from it       *)
(* stores morph keys in rows, and rows outlive programs: types are added,  *)
(* renamed and listed as parents while rows keep the keys they were        *)
(* written with.                                                           *)
(***************************************************************************)
EXTENDS Naturals, FiniteSets, SequencesExt

CONSTANTS
    Entity,         \* kinds of parent rows, whatever their types are called
    ParentName,     \* what those types can be called
    NodeOrder,      \* all type names, in the order of ent's graph
    Key, Snake,     \* morph keys, and the default key of each parent name
    ChildType, PivotType, HolderType,
    ChildMorph, PivotMorph,
    Singular,       \* the pivot's table name made singular
    NoName, NoMorph, NoMixin, NoError, NoState, NoProgram,
    MaxEdits        \* bound: edits of schema and morph map

Name == ParentName \cup {ChildType, PivotType, HolderType}

\* Two types of one default key would have one package and one table.
ASSUME PolyNames ==
    /\ NodeOrder \in Seq(Name) /\ Range(NodeOrder) = Name
    /\ ChildType \notin {PivotType, HolderType} /\ PivotType # HolderType
    /\ {ChildType, PivotType, HolderType} \cap ParentName = {} /\ NoName \notin Name
    /\ Snake \in Injection(ParentName, Key)
    /\ IsFiniteSet(Entity)
    /\ NoMorph \notin {ChildMorph, PivotMorph, Singular}
    /\ NoError \notin {"no parents", "no columns", "lists drifted apart", "no pivot"}
    /\ MaxEdits \in Nat

VARIABLES
    schema,         \* what the developer has written, see Schemas
    aliases,        \* WithMorphMap: a function from some keys to names
    made,           \* what the last run of the generator left: its state and graph
    program,        \* the program built last
    rows,           \* child rows: the stored key, and the kind of parent meant
    edits

vars == <<schema, aliases, made, program, rows, edits>>

---------------------------------------------------------------------------
(* The schema and the graph ent loads from it *)

Lists == UNION { SetToSeqs(s) : s \in SUBSET Entity }

\* names: of the kinds that have a type; listed: MorphTo's parents; mixin: those
\* of MixinAllowed, {} for a string column; hosts: types with a back-reference;
\* through, morph: of the holder's edge.
Schemas == [names: [Entity -> ParentName \cup {NoName}], listed: Lists,
            mixin: (SUBSET Entity) \cup {NoMixin}, hosts: SUBSET Entity,
            through: {PivotType, NoName}, morph: {PivotMorph, NoMorph}]

Typed(s) == { e \in Entity : s.names[e] # NoName }
NamesIn(s, list) == [i \in DOMAIN list |-> s.names[list[i]]]

Edge(kind, morph, allowed, target, through) ==
    [kind |-> kind, morph |-> morph, allowed |-> allowed, target |-> target, through |-> through]

\* The two discriminator columns; the type column's values, none for a string.
Columns(morph, values) == {[morph |-> morph, of |-> "id", values |-> {}],
                           [morph |-> morph, of |-> "type", values |-> values]}

\* MixinAllowed takes the default keys.
FieldsOf(s, n) ==
    CASE n = ChildType /\ s.mixin # NoMixin -> Columns(ChildMorph, { Snake[s.names[e]] : e \in s.mixin })
      [] n = PivotType -> Columns(PivotMorph, {})
      [] OTHER -> {}

EdgesOf(s, n) ==
    CASE n = ChildType -> <<Edge("morphTo", ChildMorph, NamesIn(s, s.listed), NoName, NoName),
                            Edge("plain", NoMorph, <<>>, HolderType, NoName)>>
      [] n = PivotType -> <<Edge("plain", NoMorph, <<>>, HolderType, NoName),
                            Edge("morphTo", PivotMorph, NamesIn(s, s.listed), NoName, NoName)>>
      [] n = HolderType -> IF s.listed = <<>> THEN <<>>
                           ELSE <<Edge("morphedByMany", s.morph, <<>>, s.names[s.listed[1]], s.through)>>
      [] OTHER -> IF \E e \in s.hosts : s.names[e] = n
                  THEN <<Edge("morphMany", ChildMorph, <<>>, ChildType, NoName)>> ELSE <<>>

\* Every edge has brought its target a foreign key; a MorphTo's is its first parent.
TargetOf(e) == IF e.kind = "morphTo" THEN (IF e.allowed = <<>> THEN NoName ELSE e.allowed[1]) ELSE e.target

\* The types there are, each at its place in NodeOrder; a foreign key has a field
\* of its own, hidden, that is named after the key's owner and edge.
Graph(s) ==
    LET present == {ChildType, PivotType, HolderType} \cup { s.names[e] : e \in Typed(s) }
        Fks(n) == UNION { { [owner |-> o, edge |-> e] : e \in { d \in Range(EdgesOf(s, o)) : TargetOf(d) = n } }
                          : o \in present }
        Node(n) == [name |-> n, edges |-> EdgesOf(s, n), fields |-> FieldsOf(s, n), fks |-> Fks(n),
                     hidden |-> Fks(n)]
    IN  [i \in { j \in DOMAIN NodeOrder : NodeOrder[j] \in present } |-> Node(NodeOrder[i])]

NodeNames(g) == { node.name : node \in Range(g) }
FindType(g, n) == { node \in Range(g) : node.name = n }
Poly(e) == e.kind # "plain"

---------------------------------------------------------------------------
(* preprocess *)

lookupAlias(map, n) == \E k \in DOMAIN map : map[k] = n

\* A default key goes over whatever the map had under it.
Put(map, k, n) == [j \in DOMAIN map \cup {k} |-> IF j = k THEN n ELSE map[j]]
Registered(map, n) == IF lookupAlias(map, n) THEN map ELSE Put(map, Snake[n], n)

\* Those of a list that are in a set, one after the other.
RegisterAll(map, list, those) ==
    LET upTo[i \in 0 .. Len(list)] ==
            IF i = 0 THEN map
            ELSE IF list[i] \in those THEN Registered(upTo[i - 1], list[i]) ELSE upTo[i - 1]
    IN  upTo[Len(list)]

MorphTos(nodes) == UNION { { e.morph : e \in { d \in Range(node.edges) : d.kind = "morphTo" } } : node \in nodes }

\* Mistake: gathered when the holder's turn comes, when earlier types have no edges left.
BugPivotMorphOf(g, n) ==
    LET left == { g[i] : i \in { j \in DOMAIN g : \E h \in DOMAIN g \cap 1..j : g[h].name = HolderType } }
        own  == MorphTos(left \cap FindType(g, n))
    IN  IF own = {} THEN NoMorph ELSE CHOOSE m \in own : TRUE

\* The morph name of a type's own MorphTo, gathered before any edge is stripped;
\* a type has one such edge here.
PivotMorphOf(g, n) ==
    LET own == MorphTos(FindType(g, n))
    IN  IF own = {} THEN NoMorph ELSE CHOOSE m \in own : TRUE

TypeColumn(node, morph) == { f \in node.fields : f.morph = morph /\ f.of = "type" }
HasColumns(node, morph) == { f.of : f \in { c \in node.fields : c.morph = morph } } = {"id", "type"}
Values(node, morph) == UNION { f.values : f \in TypeColumn(node, morph) }

Fails(st, what) == [st EXCEPT !.err = what]

\* Mistake: the two lists are not compared.
BugHandleMorphTo(st, g, node, e) ==
    IF e.allowed = <<>> THEN Fails(st, "no parents")
    ELSE IF ~HasColumns(node, e.morph) THEN Fails(st, "no columns")
    ELSE [st EXCEPT !.children = @ \cup {[type |-> node.name, morph |-> e.morph, allowed |-> e.allowed,
                                          values |-> Values(node, e.morph)]},
                    !.morphMap = RegisterAll(@, e.allowed, Range(e.allowed))]

HandleMorphTo(st, g, node, e) ==
    LET values == Values(node, e.morph) IN
    IF e.allowed = <<>> THEN Fails(st, "no parents")
    ELSE IF ~HasColumns(node, e.morph) THEN Fails(st, "no columns")
    ELSE IF values # {} /\ values # { Snake[n] : n \in Range(e.allowed) } THEN Fails(st, "lists drifted apart")
    ELSE [st EXCEPT !.children = @ \cup {[type |-> node.name, morph |-> e.morph, allowed |-> e.allowed,
                                          values |-> values]},
                    !.morphMap = RegisterAll(@, e.allowed, Range(e.allowed))]

HandleParent(st, g, node, e) == [st EXCEPT !.parents = @ \cup {node.name}]

\* An explicit morph name goes before the pivot's own, that before the table's.
HandleHolder(st, g, node, e) ==
    LET own == PivotMorphOf(g, e.through)
        morph == IF e.morph # NoMorph THEN e.morph ELSE IF own # NoMorph THEN own ELSE Singular
    IN  IF e.through = NoName THEN Fails(st, "no pivot")
        ELSE [st EXCEPT !.holders = @ \cup {[type |-> node.name, target |-> e.target, pivot |-> e.through, morph |-> morph]},
                        !.parents = @ \cup {e.target}]

Handled(st, g, node, e) ==
    IF st.err # NoError THEN st
    ELSE CASE e.kind = "morphTo" -> HandleMorphTo(st, g, node, e)
           [] e.kind = "morphMany" -> HandleParent(st, g, node, e)
           [] e.kind = "morphedByMany" -> HandleHolder(st, g, node, e)
           [] OTHER -> st

Visited(st, g, node) ==
    LET upTo[i \in 0 .. Len(node.edges)] ==
            IF i = 0 THEN st ELSE Handled(upTo[i - 1], g, node, node.edges[i])
    IN  upTo[Len(node.edges)]

\* Mistake: the keys' fields are forgotten.
BugStripped(g) ==
    [i \in DOMAIN g |-> [g[i] EXCEPT !.edges = Restrict(@, { j \in DOMAIN @ : ~Poly(@[j]) }),
                                     !.fks = { fk \in @ : ~Poly(fk.edge) }]]

\* The edges go, and so do the foreign keys they had brought and, by name, the
\* keys' fields.
Stripped(g) ==
    LET ghosts(node) == { fk \in node.fks : Poly(fk.edge) } IN
    [i \in DOMAIN g |-> [g[i] EXCEPT !.edges = Restrict(@, { j \in DOMAIN @ : ~Poly(@[j]) }),
                                     !.fks = @ \ ghosts(g[i]),
                                     !.hidden = @ \ ghosts(g[i])]]

\* Mistake: the map starts empty, the aliases are left out.
BugSeed(map) == [k \in {} |-> NoName]

Seed(map) == map

preprocess(g, map) ==
    LET start == [err |-> NoError, morphMap |-> Seed(map), children |-> {}, holders |-> {}, parents |-> {}, graph |-> g]
        upTo[i \in 0 .. Len(NodeOrder)] ==
            IF i = 0 THEN start
            ELSE IF i \in DOMAIN g THEN Visited(upTo[i - 1], g, g[i]) ELSE upTo[i - 1]
        seen  == upTo[Len(NodeOrder)]
    IN  IF seen.err # NoError THEN seen
        ELSE [seen EXCEPT !.morphMap = RegisterAll(@, NodeOrder, seen.parents), !.graph = Stripped(g)]

---------------------------------------------------------------------------
(* The program: polymorphic.go, and whether it compiles *)

\* Types whose morph key the code names.
Participants(st) == (UNION { Range(c.allowed) : c \in st.children }) \cup st.parents

\* One constant and one method per type, of types that exist; the columns the
\* holder's queries name exist on the pivot.
Compiles(st) ==
    /\ \A k, l \in DOMAIN st.morphMap : st.morphMap[k] = st.morphMap[l] => k = l
    /\ Range(st.morphMap) \subseteq NodeNames(st.graph)
    /\ Participants(st) \subseteq Range(st.morphMap)
    /\ \A h \in st.holders : \A node \in FindType(st.graph, h.pivot) : HasColumns(node, h.morph)

KeyOf(p, n) == CHOOSE k \in DOMAIN p.morphMap : p.morphMap[k] = n

\* The child's edge, as the program knows it.
ChildEdge(st) == CHOOSE c \in st.children : c.type = ChildType

Built(s, st) ==
    [morphMap |-> st.morphMap, names |-> s.names, listed |-> { e \in Typed(s) : s.names[e] \in Range(ChildEdge(st).allowed) },
     values |-> ChildEdge(st).values]

\* The key that set<Morph> stores for a parent.
StoredKey(p, e) == KeyOf(p, p.names[e])

\* The column's validator.
Accepts(p, k) == p.values = {} \/ k \in p.values

\* Query<Morph>: whose table a stored key leads to, none if the type is unknown.
Resolve(p, k) == { e \in p.listed : StoredKey(p, e) = k }

---------------------------------------------------------------------------
(* Actions *)

\* Keys of a kind of parent in rows, and the one the running program may yet store.
KeysStoredFor(e) ==
    { r.key : r \in { x \in rows : x.entity = e } }
    \cup (IF program # NoProgram /\ e \in program.listed THEN {StoredKey(program, e)} ELSE {})

Edited == edits < MaxEdits /\ edits' = edits + 1 /\ UNCHANGED <<made, program, rows>>

AddType ==
    /\ Edited
    /\ \E e \in Entity \ Typed(schema), n \in ParentName \ Range(schema.names) :
          schema' = [schema EXCEPT !.names[e] = n]
    /\ UNCHANGED aliases

\* MorphTo and MixinAllowed are two lists, and the holder's edge has two options.
EditLists ==
    /\ Edited
    /\ \E list \in Lists, mixin \in (SUBSET Typed(schema)) \cup {NoMixin} :
          /\ Range(list) \subseteq Typed(schema)
          /\ schema' = [schema EXCEPT !.listed = list, !.mixin = mixin]
    /\ UNCHANGED aliases

EditHolder ==
    /\ Edited
    /\ \E through \in {PivotType, NoName}, morph \in {PivotMorph, NoMorph} :
          schema' = [schema EXCEPT !.through = through, !.morph = morph]
    /\ UNCHANGED aliases

\* The documented workflow: the keys stored for the old name are kept for the new.
Rename ==
    /\ Edited
    /\ \E e \in Typed(schema), n \in ParentName \ Range(schema.names) :
       LET old  == schema.names[e]
           kept == KeysStoredFor(e) \cup { k \in DOMAIN aliases : aliases[k] = old }
       IN  /\ \A k \in DOMAIN aliases \cap kept : aliases[k] = old
           /\ schema' = [schema EXCEPT !.names[e] = n]
           /\ aliases' = [k \in DOMAIN aliases \cup kept |-> IF k \in kept THEN n ELSE aliases[k]]

\* A new alias, of a type that has no rows under another key; not another type's key.
Register ==
    /\ Edited
    /\ \E e \in Typed(schema), k \in Key \ DOMAIN aliases :
          /\ KeysStoredFor(e) \subseteq {k}
          /\ \A x \in Typed(schema) \ {e} : k \notin KeysStoredFor(x) \cup {Snake[schema.names[x]]}
          /\ aliases' = Put(aliases, k, schema.names[e])
    /\ UNCHANGED schema

\* go generate and a build; a program that does not compile replaces none.
Generate ==
    LET st == preprocess(Graph(schema), aliases) IN
    /\ made' = st
    /\ program' = IF st.err = NoError /\ Compiles(st) THEN Built(schema, st) ELSE program
    /\ UNCHANGED <<schema, aliases, rows, edits>>

Write ==
    /\ program # NoProgram
    /\ \E e \in program.listed :
          /\ Accepts(program, StoredKey(program, e))
          /\ rows' = rows \cup {[key |-> StoredKey(program, e), entity |-> e]}
    /\ UNCHANGED <<schema, aliases, made, program, edits>>

Init ==
    /\ \E e \in Entity, n \in ParentName, hosts \in SUBSET Entity, morph \in {PivotMorph, NoMorph} :
       \E mixin \in {{}, {e}} :
          schema = [names |-> [x \in Entity |-> IF x = e THEN n ELSE NoName], listed |-> <<e>>,
                    mixin |-> mixin, hosts |-> hosts, through |-> PivotType, morph |-> morph]
    /\ aliases = [k \in {} |-> NoName]
    /\ made = NoState /\ program = NoProgram /\ rows = {} /\ edits = 0

Next == AddType \/ EditLists \/ EditHolder \/ Rename \/ Register \/ Generate \/ Write

Spec == Init /\ [][Next]_vars

---------------------------------------------------------------------------
(* Properties *)

MapsOf(from, to) == UNION { [d -> to] : d \in SUBSET from }

\* Types; what a run without error records is complete.
TypeOK ==
    /\ schema \in Schemas /\ aliases \in MapsOf(Key, ParentName) /\ edits \in 0..MaxEdits
    /\ rows \subseteq [key: Key, entity: Entity]
    /\ made # NoState =>
          /\ made.morphMap \in MapsOf(Key, ParentName) /\ made.parents \subseteq ParentName
          /\ made.holders \subseteq [type: {HolderType}, target: ParentName, pivot: {PivotType}, morph: {PivotMorph, Singular}]
          /\ \A c \in made.children : c.type \in {ChildType, PivotType} /\ c.allowed # <<>>
    /\ program # NoProgram => program.values \subseteq Key /\ program.listed \subseteq Entity

\* Default keys and aliases clash in the program's map: k is the default key of a
\* type that was put over the alias of another (preprocess gives it to every type
\* without one), or is the default key of e's own, and an alias goes before it.
TakenOver(k, e) ==
    LET map == program.morphMap
        own == program.names[e]
    IN  \/ k \in DOMAIN map /\ map[k] # own /\ Snake[map[k]] = k
        \/ k = Snake[own] /\ \E j \in DOMAIN map : Snake[map[j]] # j /\ (j = k \/ map[j] = own)

\* A stored key leads back to the parent it was written for, through every
\* rename and new type (docs/morph-map.md, "Renaming workflow"), unless a type's
\* default key is another's alias.
RowsKeepTheirParent ==
    program # NoProgram =>
        \A r \in rows :
           \/ TakenOver(r.key, r.entity)
           \/ Resolve(program, r.key) = {r.entity} \cap program.listed

\* The code generated compiles unless the morph map has two keys for a type or
\* a type that is gone, or one type's default key is another's alias: every type
\* whose key the code names has been given one, by whichever edge it came in, and
\* the columns a holder's queries read are its pivot's, whichever type is visited
\* first (preprocess.go, case 19).
BuildsUnlessMapAtFault ==
    made # NoState /\ made.err = NoError /\ ~Compiles(made) =>
        \/ \E k, l \in DOMAIN made.morphMap : k # l /\ made.morphMap[k] = made.morphMap[l]
        \/ \E k \in DOMAIN made.morphMap : made.morphMap[k] \notin NodeNames(made.graph)
        \/ \E n \in Participants(made) : \E m \in Participants(made) \ {n} :
              ~lookupAlias(made.morphMap, n) /\ Snake[m] \in DOMAIN aliases

\* A type's column accepts what its setter stores, so long as the parents go by
\* their default keys; a parent list that drifted from the column's is refused.
ColumnTakesDefaultKeys ==
    program # NoProgram =>
        \A e \in program.listed :
           StoredKey(program, e) = Snake[program.names[e]] => Accepts(program, StoredKey(program, e))

\* Mixin and morph map agree: the column's validator accepts every key that the
\* setters store (mixin.go, "Users with custom morph maps still get the right
\* value because preprocess re-resolves keys against the extension's morph map").
ColumnTakesEveryKey ==
    program # NoProgram => \A e \in program.listed : Accepts(program, StoredKey(program, e))

\* ent gets a graph in which edges and foreign keys still belong together: the
\* other edges all there, no polymorphic one, no key without its edge, and no
\* hidden field without its key (cases 8, 11).
\* Types are checked with it.
EdgesKeepTheirKeys ==
    TypeOK /\ (made # NoState /\ made.err = NoError =>
        /\ { fk.edge : fk \in UNION { node.fks : node \in Range(made.graph) } }
             = UNION { Range(node.edges) : node \in Range(made.graph) }
        /\ \A node \in Range(made.graph) : node.hidden = node.fks /\ \A e \in Range(node.edges) : ~Poly(e))
=============================================================================
