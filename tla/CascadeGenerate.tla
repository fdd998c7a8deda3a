--------------------------- MODULE CascadeGenerate ---------------------------
(***************************************************************************)
(* collectCascadeNodes (entcascade/generate.go): the generator walks the   *)
(* graph's nodes in order and keeps a program for every annotated type     *)
(* that has operations.  The schema is chosen once, from Schemas.          *)
(***************************************************************************)
EXTENDS CascadePolicy, FiniteSets

CONSTANTS
    Schemas,      \* the schemas to generate from
    ChainBound    \* longest dependency chain the properties look at

\* An ent graph: edges lead to its types, and so do the junctions they go through.
EdgesOf(s) ==
    [name : STRING, target : Types(s), rel : EdgeKinds, inverse : BOOLEAN, ownFK : BOOLEAN,
     col : STRING, through : Types(s) \cup {NoType}]

ASSUME SchemasShape ==
    \A s \in Schemas : /\ s.types \in Seq(STRING)
                       /\ \A t \in Types(s) : s.edges[t] \in Seq(EdgesOf(s))

VARIABLES
    schema,       \* the graph being generated from
    next,         \* position of the next node in schema.types
    nodes         \* programs kept so far: annotated type -> statements

vars == <<schema, next, nodes>>

Init ==
    /\ schema \in Schemas
    /\ next = 1
    /\ nodes = <<>>

Current == schema.types[next]

\* A node with functions joins the result.
Collect ==
    /\ next <= Len(schema.types)
    /\ HasFunctions(schema, Current)
    /\ nodes' = [t \in DOMAIN nodes \cup {Current} |->
                    IF t = Current THEN ProgramOf(schema, t) ELSE nodes[t]]
    /\ next' = next + 1
    /\ UNCHANGED schema

\* A node without annotation or without operations is passed over.
Pass ==
    /\ next <= Len(schema.types)
    /\ ~HasFunctions(schema, Current)
    /\ next' = next + 1
    /\ UNCHANGED <<schema, nodes>>

Next == Collect \/ Pass

Spec == Init /\ [][Next]_vars

-----------------------------------------------------------------------------
\* A dependency chain from root: every link but the last is a hard delete.
IsChain(p, root) ==
    /\ p # <<>> /\ p[1].parent = root
    /\ \A i \in 1 .. Len(p) - 1 : p[i].mode = "delete" /\ p[i + 1].parent = p[i].child

ChainsFrom(deps, root) == { p \in BoundedSeq(deps, ChainBound) : IsChain(p, root) }

\* Types whose rows are deleted for an M2M edge, with nothing below them.
Junctions(s) == { te[2].through : te \in { x \in DeclaredEdges(s) : x[2].rel = "M2M" } }

\* No chain meets a type twice or goes on from a junction.
Acyclic(deps, root) ==
    \A p \in ChainsFrom(deps, root) :
        /\ p[Len(p)].child # root
        /\ \A i, j \in DOMAIN p : i # j => p[i].child # p[j].child
        /\ \A i \in 1 .. Len(p) - 1 : p[i].child \notin Junctions(schema)

\* The chain of columns a statement of a program stands at the end of.
ChainOf(prog, i) ==
    LET chain[k \in DOMAIN prog] ==
            LET here == <<prog[k].type, prog[k].col>>
            IN  IF prog[k].src = 0 THEN <<here>> ELSE Append(chain[prog[k].src], here)
    IN  chain[i]

EffectOf(kind) == IF kind \in {"bulk", "drop"} THEN "delete" ELSE kind

-----------------------------------------------------------------------------
\* Types, which WellScoped needs to be read.
TypeOK ==
    /\ schema \in Schemas
    /\ next \in 1 .. Len(schema.types) + 1
    /\ DOMAIN nodes \subseteq ToSet(schema.types)
    /\ \A t \in DOMAIN nodes : \A i \in DOMAIN nodes[t] :
          nodes[t][i].kind \in StmtKinds

\* Statements read variables inside the block of the query that fills them, blocks
\* nest, and the drop at the end of a block repeats its query's predicate.
Scoped(p) ==
    \A i \in DOMAIN p :
        /\ p[i].src # 0 => /\ p[i].src < i /\ i < p[p[i].src].end
                           /\ p[p[i].src].kind = "query"
        /\ p[i].kind = "query" =>
              /\ i < p[i].end /\ p[i].end < Len(p)
              /\ p[p[i].end] = [p[i] EXCEPT !.kind = "drop"]
              /\ \A k \in DOMAIN p : i < k /\ k < p[i].end =>
                    p[k].src >= i /\ (p[k].kind = "query" => p[k].end < p[i].end)

\* i stands in the block of the query q.  The deepest such block is the scope of
\* what i declares, and the drop that ends a block belongs to it.
InBlock(p, q, i) == p[q].kind = "query" /\ q < i /\ i <= p[q].end

SameScope(p, i, j) == \A q \in DOMAIN p : InBlock(p, q, i) <=> InBlock(p, q, j)

\* Go's rule: i sees what is declared before it in a block it stands in.
Sees(p, i, d) ==
    p[d].kind = "query" /\ d < i /\ \A q \in DOMAIN p : InBlock(p, q, d) => InBlock(p, q, i)

\* No scope declares a name twice, and the name a statement reads is, of those in
\* sight, declared last by the query that the statement was generated for.
NamesResolve(p) ==
    /\ \A i, j \in DOMAIN p :
          /\ p[i].kind = "query" /\ p[j].kind = "query" /\ i # j
          /\ VarName(p, i) = VarName(p, j)
          => ~SameScope(p, i, j)
    /\ \A i \in DOMAIN p : LET v == p[i].src IN
          v # 0 => /\ Sees(p, i, v)
                   /\ \A d \in DOMAIN p :
                         Sees(p, i, d) /\ VarName(p, d) = VarName(p, v) => d <= v

\* Every program is scoped and ends with the entity itself, and its names mean what
\* they should: the emitted Go compiles, and every statement reads the ids it is
\* meant to, however often a type occurs (resolveOps, nameTracker).
WellScoped ==
    TypeOK /\ \A t \in DOMAIN nodes : LET p == nodes[t] IN
        Scoped(p) /\ NamesResolve(p) /\ p[Len(p)].kind = "self" /\ p[Len(p)].type = t

\* When the declared dependencies below a type have no type cycle, its program
\* touches exactly the declared dependency chains, each with its declared effect:
\* nothing is missed, nothing shared or skipped is touched (buildOps, buildChildOps).
ReachesAllDependents ==
    \A t \in DOMAIN nodes :
        LET deps == Dependents(schema)
            p == nodes[t]
        IN Acyclic(deps, t) =>
             { <<ChainOf(p, i), EffectOf(p[i].kind)>> :
                   i \in { j \in DOMAIN p : p[j].kind \notin {"query", "self"} } }
             = { << [k \in DOMAIN c |-> <<c[k].child, c[k].col>>], c[Len(c)].mode >> :
                   c \in ChainsFrom(deps, t) }

\* The types of statement i and of the blocks it is in: the path from the root.
Around(p, i) ==
    { p[q].type : q \in { x \in DOMAIN p : x = i \/ (p[x].kind = "query" /\ x < i /\ i <= p[x].end) } }

\* Rows of a type are deleted only after a statement of the same block has dealt
\* with every dependent of theirs, unless the dependent's type is already on the
\* path from the root or the rows are those of a junction: children go before
\* parents (the order the nested block of opNestedCascade promises), also in schemas
\* with type cycles.
DependentsFirst ==
    \A t \in DOMAIN nodes : LET p == nodes[t] IN
        \A i \in DOMAIN p : \A d \in Dependents(schema) :
            /\ \/ p[i].kind \in {"drop", "self"}
               \/ p[i].kind = "bulk" /\ p[i].type \notin Junctions(schema)
            /\ d.parent = p[i].type /\ d.child \notin Around(p, i) \cup {t}
            => \E k \in 1 .. i - 1 :
                  /\ p[k].type = d.child /\ p[k].col = d.col /\ EffectOf(p[k].kind) = d.mode
                  /\ \/ p[i].kind = "self" /\ p[k].src = 0
                     \/ p[i].kind = "drop" /\ p[k].src # 0 /\ p[p[k].src].end = i
=============================================================================
