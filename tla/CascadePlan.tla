----------------------------- MODULE CascadePlan -----------------------------
(***************************************************************************)
(* The code generator of entcascade (entcascade/generate.go): from the ent *)
(* graph and the Cascade() annotations it derives, for every annotated     *)
(* type, the straight-line program of SQL statements that the generated    *)
(* function cascadeDelete<Type>Ops executes.                               *)
(*                                                                         *)
(* A schema is a record                                                    *)
(*   [types, edges, ann, softTypes]                                        *)
(* types is the sequence of node types in graph order, edges[t] the        *)
(* sequence of edges of t, ann[t] the Cascade() annotation of t or NoAnn,  *)
(* softTypes the types that have a "deleted_at" field.  An edge is         *)
(*   [name, target, rel, inverse, ownFK, col, through]                     *)
(* with rel one of "O2M" "M2O" "O2O" "M2M"; col is the foreign key column  *)
(* (Rel.Columns[0]) or NoCol; through the junction type or NoType.         *)
(*                                                                         *)
(* A statement is a record [kind, type, col, src, end]: it acts on the     *)
(* rows of type whose column col holds an id in the variable src.  src = 0 *)
(* is the function's own argument (id or ids), any other src is the        *)
(* position of the "query" statement that filled the variable.  A query    *)
(* and the matching "drop" at position end delimit the block guarded by    *)
(* len(ids) > 0 in the generated code.  Which variable a statement means   *)
(* is one thing, what it is called in the emitted text another: VarName    *)
(* gives the names, and CascadeGenerate reads them by Go's scopes.         *)
(***************************************************************************)
EXTENDS Naturals, Sequences, FiniteSets, SequencesExt

NoCol  == "-"
NoType == "-"
NoAnn  == [skip |-> {}, unlink |-> {}, soft |-> {}, hard |-> {}, present |-> FALSE]

EdgeKinds == {"O2M", "M2O", "O2O", "M2M"}
StmtKinds == {"query", "bulk", "drop", "soft", "unlink", "self"}

-----------------------------------------------------------------------------
(* Edge classification.                                                    *)

\* The foreign key lives on the target: O2M, or O2O not owning its key.
KeyOnTarget(e) == e.rel = "O2M" \/ (e.rel = "O2O" /\ ~e.ownFK)

\* The edges an annotation leaves in the cascade.
InCascade(a, e) ==
    /\ ~e.inverse
    /\ e.name \notin a.skip
    /\ e.col # NoCol

\* Mutation: detection of deleted_at comes before the explicit rules.
BugEdgeMode(s, a, e) ==
    IF e.target \in s.softTypes THEN "soft"
    ELSE IF e.name \in a.unlink THEN "unlink"
    ELSE IF e.name \in a.soft THEN "soft"
    ELSE "delete"

\* The rule ladder of one edge: unlink, soft, hard, else deleted_at decides.
EdgeMode(s, a, e) ==
    IF e.name \in a.unlink THEN "unlink"
    ELSE IF e.name \in a.soft THEN "soft"
    ELSE IF e.name \in a.hard THEN "delete"
    ELSE IF e.target \in s.softTypes THEN "soft"
    ELSE "delete"

-----------------------------------------------------------------------------
(* Operations.  An operation (deleteOp) stands here for the statements it  *)
(* is resolved to, with positions of its own.                              *)

Stmt(kind, type, col, end) == [kind |-> kind, type |-> type, col |-> col, src |-> 0, end |-> end]

Leaf(kind, type, col) == <<Stmt(kind, type, col, 1)>>

\* resolveOps puts a block n positions on; its argument becomes the variable arg.
Shift(block, n, arg) ==
    [i \in DOMAIN block |->
        [block[i] EXCEPT !.src = IF @ = 0 THEN arg ELSE @ + n, !.end = @ + n]]

Joined(code, op) == code \o Shift(op, Len(code), 0)

\* Operations one after the other.
ResolveOps(ops) ==
    LET upTo[i \in 0 .. Len(ops)] == IF i = 0 THEN <<>> ELSE Joined(upTo[i - 1], ops[i])
    IN  upTo[Len(ops)]

\* Mutation: the queried rows are deleted before their dependents.
BugNested(e, kids) ==
    LET body == Shift(ResolveOps(kids), 2, 1)
    IN  <<Stmt("query", e.target, e.col, 2), Stmt("drop", e.target, e.col, 2)>> \o body

\* opNestedCascade: query the ids, run the children's operations, delete.
Nested(e, kids) ==
    LET body == Shift(ResolveOps(kids), 1, 1)
        last == Len(body) + 2
    IN  <<Stmt("query", e.target, e.col, last)>> \o body \o <<Stmt("drop", e.target, e.col, last)>>

\* An M2M edge deletes its junction rows; without a Through type it is a
\* comment in the generated code.
M2MOp(e) == IF e.through # NoType THEN Leaf("bulk", e.through, e.col) ELSE <<>>

\* A hard delete runs the target's own operations first and is a bulk delete
\* when there are none.
DirectOp(e, kids) == IF kids = <<>> THEN Leaf("bulk", e.target, e.col) ELSE Nested(e, kids)

\* below[left][t]: the operations of t when only the types left are not on the
\* path from the root (visited).
EdgeOp(s, a, e, below, left) ==
    IF e.rel = "M2M" THEN M2MOp(e)
    ELSE IF EdgeMode(s, a, e) = "delete" THEN DirectOp(e, below[left \ {e.target}][e.target])
    ELSE Leaf(EdgeMode(s, a, e), e.target, e.col)

\* The loop over the edges of a type: an operation for each of those in play.
WithEdge(ops, isInPlay, op) == IF isInPlay THEN Append(ops, op) ELSE ops

OpsOf(s, t, inPlay, below, left) ==
    LET es == s.edges[t]
        upTo[i \in 0 .. Len(es)] ==
            IF i = 0 THEN <<>>
            ELSE WithEdge(upTo[i - 1], es[i] \in inPlay, EdgeOp(s, s.ann[t], es[i], below, left))
    IN  upTo[Len(es)]

Types(s) == ToSet(s.types)

\* Below the root, edges to a type on the path are dropped, whatever their rule.
InPlayBelow(s, t, left) ==
    { e \in ToSet(s.edges[t]) :
        /\ InCascade(s.ann[t], e)
        /\ \/ e.rel = "M2M" /\ e.through # NoType
           \/ KeyOnTarget(e) /\ e.target \in left }

\* Mutation: the annotations of types below the root are not consulted.
BugBuildChildOps(s) ==
    LET bare == [s EXCEPT !.ann = [t \in Types(s) |-> NoAnn]]
        ops[left \in SUBSET Types(s)] ==
            [t \in Types(s) |-> OpsOf(bare, t, InPlayBelow(bare, t, left), ops, left)]
    IN  ops

BuildChildOps(s) ==
    LET ops[left \in SUBSET Types(s)] ==
            [t \in Types(s) |-> OpsOf(s, t, InPlayBelow(s, t, left), ops, left)]
    IN  ops

\* The edges of an annotated type; only here a type may point at itself.
InPlay(s, t) ==
    { e \in ToSet(s.edges[t]) : InCascade(s.ann[t], e) /\ (e.rel = "M2M" \/ KeyOnTarget(e)) }

BuildOps(s, t) == OpsOf(s, t, InPlay(s, t), BuildChildOps(s), Types(s) \ {t})

\* The generated function: the edges' statements, then the entity itself.
Generated(t, ops) ==
    LET body == ResolveOps(ops)
    IN  Append(body, Stmt("self", t, NoCol, Len(body) + 1))

\* Mutation: names are not counted.
BugVarName(p, i) == <<p[i].type, 1>>

\* nameTracker.next: a variable is named for the type it holds ids of, whose first
\* letter is turned to lower case (type names begin with a capital), and numbered
\* where the function has had one of that name.  A function has a tracker of its own.
VarName(p, i) ==
    <<p[i].type, Cardinality({ j \in 1 .. i : p[j].kind = "query" /\ p[j].type = p[i].type })>>

\* collectCascadeNodes: a type gets functions when it is annotated and has
\* at least one operation.
HasFunctions(s, t) == s.ann[t].present /\ BuildOps(s, t) # <<>>

ProgramOf(s, t) == Generated(t, BuildOps(s, t))
=============================================================================
