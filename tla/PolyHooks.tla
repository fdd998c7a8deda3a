----------------------------- MODULE PolyHooks -------------------------------
(***************************************************************************)
(* The hooks that entpoly's template emits for Required(), Touch() and     *)
(* Cascade(), as RegisterPolyHooks installs them, around ent's create,     *)
(* update and delete.  One step is one SQL statement: on a plain client    *)
(* each is committed by itself, so other callers act between them; in a    *)
(* caller's serializable transaction (Transactional) they are undone       *)
(* together.                                                               *)
(***************************************************************************)
EXTENDS Naturals, Sequences, FiniteSets

CONSTANTS
    Row,            \* rows that can exist: <<type, id>>; ids repeat across types
    NoRow,          \* a NULL discriminator
    Keep,           \* a mutation leaves the relation alone
    Relation,       \* MorphTo edges in the order of generation: records
                    \* [child, parents, required, touch, cascade]
    Caller,
    InitLive, InitRef,
    SaveForms,      \* what each caller calls: a subset of
                    \* {"create", "update", "updateOne", "updateOneID"}
    DeleteForms,    \* and a subset of {"delete", "deleteOne"}
    Transactional,  \* callers wrap each call in a serializable transaction
    CanFail,        \* statements may fail for reasons of the database
    MaxSaves,       \* bound: saves begun
    MaxDepth        \* bound: nested deletes before the process runs out of stack

VARIABLES
    live,           \* rows stored
    ref,            \* discriminator columns of each row, one pair per relation
    stamp,          \* updated_at of each row
    used,           \* ids handed out
    now,            \* the clock: saves so far
    undo,           \* what the open transaction would restore, or {}
    pc,             \* where each caller is: "idle", "save", "touch", "delete"
    call,           \* the mutation a caller runs
    todo,           \* relations whose touch hooks have still to stamp a parent
    stack,          \* its nested deletes, innermost first
    out,            \* how its last call ended
    late            \* history: rows others saved while its delete ran

vars == <<live, ref, stamp, used, now, undo, pc, call, todo, stack, out, late>>
db == <<live, ref, stamp, used, now>>

Rels == DOMAIN Relation
RelationsOf(type) == { r \in Rels : Relation[r].child = type }

Forms == {"create", "update", "updateOne", "updateOneID"}

\* The markers are no rows; callers use ent's forms of save; the rows stored at
\* the start have their required relations and name parents of allowed types.
ASSUME PolyParameters ==
    /\ NoRow \notin Row /\ Keep \notin Row \cup {NoRow}
    /\ SaveForms \in [Caller -> SUBSET Forms]
    /\ DeleteForms \in [Caller -> SUBSET {"delete", "deleteOne"}]
    /\ InitLive \subseteq Row
    /\ InitRef \in [Row -> [Rels -> Row \cup {NoRow}]]
    /\ \A x \in InitLive : \A r \in RelationsOf(x[1]) :
          /\ Relation[r].required => InitRef[x][r] # NoRow
          /\ InitRef[x][r] # NoRow => InitRef[x][r][1] \in Relation[r].parents
    /\ Rels \subseteq Nat \ {0} /\ MaxSaves \in Nat /\ MaxDepth \in Nat \ {0}
NoCall == [op |-> "none"]

\* Mutant: the cascade hooks land on the child type.
BugCascadeHooks(type) == { r \in Rels : type = Relation[r].child /\ Relation[r].cascade }

\* The cascade hooks installed on a parent type.
CascadeHooks(type) == { r \in Rels : type \in Relation[r].parents /\ Relation[r].cascade }

\* Hooks nest in the order they are registered, which is that of the relations:
\* what runs before the statement runs outermost first, what runs after it last.
Outermost(hooks) == { r \in hooks : \A q \in hooks : r <= q }
Innermost(hooks) == { r \in hooks : \A q \in hooks : q <= r }

\* Mutant: bulk updates escape the required hook.
BugRequiredRejects(m) ==
    \E r \in RelationsOf(m.type) :
        /\ Relation[r].required
        /\ IF m.op = "create" THEN m.asg[r] \notin Row ELSE m.op # "update" /\ m.asg[r] = NoRow

\* The required hook: a create must set the relation, an update must not clear it.
RequiredRejects(m) ==
    \E r \in RelationsOf(m.type) :
        /\ Relation[r].required
        /\ IF m.op = "create" THEN m.asg[r] \notin Row ELSE m.asg[r] = NoRow

\* Mutant: the old value is preferred to the one being set.
BugTouchTarget(m, r) ==
    IF m.op = "updateOne" THEN m.old[r]
    ELSE IF m.asg[r] \in Row THEN m.asg[r] ELSE NoRow

\* The parent a touch hook finds after the save: the one the mutation sets,
\* else the old value, which only an update of a loaded node can still give
\* (bulk updates have none, and after an UpdateOneID it may not be read).
TouchTarget(m, r) ==
    IF m.asg[r] \in Row THEN m.asg[r]
    ELSE IF m.op = "updateOne" THEN m.old[r] ELSE NoRow

\* The touch hooks that find a parent to stamp.
Touches(m) == { r \in RelationsOf(m.type) : Relation[r].touch /\ TouchTarget(m, r) # NoRow }

\* Mutant: the children are selected by id without the type.
BugSelected(type, sel) ==
    { x \in live : /\ x[1] = type
                   /\ IF sel.rel = 0 THEN x \in sel.rows
                      ELSE ref[x][sel.rel] # NoRow /\ \E p \in sel.rows : p[2] = ref[x][sel.rel][2] }

\* Mutant: the children are selected by type without the id.
BugSelectedType(type, sel) ==
    { x \in live : /\ x[1] = type
                   /\ IF sel.rel = 0 THEN x \in sel.rows
                      ELSE ref[x][sel.rel] # NoRow /\ \E p \in sel.rows : p[1] = ref[x][sel.rel][1] }

\* Rows a predicate selects: the rows sel.rows, or those whose discriminator
\* of relation sel.rel names one of them.
Selected(type, sel) ==
    { x \in live : /\ x[1] = type
                   /\ IF sel.rel = 0 THEN x \in sel.rows ELSE ref[x][sel.rel] \in sel.rows }

Unread == {NoRow}       \* ids not enumerated yet

\* A delete in progress: its predicate, the cascade hooks it has not left yet and
\* the ids the outermost of them has still to deal with.
Frame(type, sel, one) ==
    [type |-> type, sel |-> sel, one |-> one, hooks |-> CascadeHooks(type), ids |-> Unread]

\* The innermost delete, which may be in a cascade hook.
Top(c) == Head(stack[c])
InHook(c) == pc[c] = "delete" /\ Top(c).hooks # {}

----------------------------------------------------------------------------
Init ==
    /\ live = InitLive
    /\ ref = InitRef
    /\ stamp = [x \in Row |-> 0]
    /\ used = InitLive
    /\ now = 0
    /\ undo = {}
    /\ pc = [c \in Caller |-> "idle"]
    /\ call = [c \in Caller |-> NoCall]
    /\ todo = [c \in Caller |-> {}]
    /\ stack = [c \in Caller |-> <<>>]
    /\ out = [c \in Caller |-> "none"]
    /\ late = [c \in Caller |-> {}]

\* The caller's transaction, if it uses one, opens before the call.
Opens(c) ==
    /\ pc[c] = "idle" /\ undo = {}
    /\ undo' = IF Transactional THEN {[live |-> live, ref |-> ref, stamp |-> stamp]} ELSE {}

\* A call returns; the caller commits on success and rolls back on an error.
Returns(c, result) ==
    /\ pc' = [pc EXCEPT ![c] = "idle"]
    /\ call' = [call EXCEPT ![c] = NoCall]
    /\ todo' = [todo EXCEPT ![c] = {}]
    /\ stack' = [stack EXCEPT ![c] = <<>>]
    /\ out' = [out EXCEPT ![c] = result]
    /\ late' = [late EXCEPT ![c] = {}]
    /\ undo' = {}

Undone ==
    IF undo = {} THEN UNCHANGED <<live, ref, stamp>>
    ELSE \E u \in undo : live' = u.live /\ ref' = u.ref /\ stamp' = u.stamp

\* What a mutation may assign to the relations of a type: nothing, NULL, or a
\* parent of an allowed type that exists or once did.
Assignments(type) ==
    { asg \in [Rels -> {Keep, NoRow} \cup used] :
        \A r \in Rels :
            \/ asg[r] = Keep
            \/ r \in RelationsOf(type) /\ (asg[r] = NoRow \/ asg[r][1] \in Relation[r].parents) }

\* The rows a mutation may name when it is built: the loaded node or the id given.
\* (Bound: a create needs an id that was not handed out.)
Named(op, type) ==
    CASE op \in {"updateOne", "updateOneID"} -> { x \in live : x[1] = type }
      [] op = "create" /\ \A x \in Row \ used : x[1] # type -> {}
      [] OTHER -> {NoRow}

\* The mutation a builder holds; an update of a node remembers the node's values.
NewMutation(op, type, x, asg) ==
    [op |-> op, type |-> type, row |-> x, asg |-> asg, at |-> now + 1,
     old |-> IF op = "updateOne" THEN ref[x] ELSE <<>>]

\* A save starts.  The required hook, outermost, returns before any statement.
BeginSave(c) ==
    /\ Opens(c) /\ now < MaxSaves
    /\ now' = now + 1
    /\ \E op \in SaveForms[c], type \in { Relation[r].child : r \in Rels } :
       \E asg \in Assignments(type), x \in Named(op, type) :
          /\ ~ RequiredRejects(NewMutation(op, type, x, asg))
          /\ call' = [call EXCEPT ![c] = NewMutation(op, type, x, asg)]
    /\ pc' = [pc EXCEPT ![c] = "save"]
    /\ UNCHANGED <<live, ref, stamp, used, todo, stack, out, late>>

\* The rows the statement writes.
Written(m, x) ==
    CASE m.op = "create" -> {x}
      [] m.op = "update" -> { y \in live : y[1] = m.type }
      [] OTHER           -> live \cap {m.row}

Assigned(m, x) ==
    [r \in Rels |-> IF m.asg[r] # Keep THEN m.asg[r] ELSE IF m.op = "create" THEN NoRow ELSE ref[x][r]]

\* INSERT or UPDATE; the touch hooks then find their parents.
Save(c) ==
    /\ pc[c] = "save"
    /\ LET m == call[c] IN
       \E x \in IF m.op = "create" THEN { y \in Row \ used : y[1] = m.type } ELSE {m.row} :
          LET rows == Written(m, x) IN
          /\ m.op \in {"updateOne", "updateOneID"} => rows # {}
          /\ live' = live \cup rows
          /\ used' = used \cup rows
          /\ ref' = [y \in Row |-> IF y \in rows THEN Assigned(m, y) ELSE ref[y]]
          /\ late' = [d \in Caller |-> IF pc[d] = "delete" THEN late[d] \cup rows ELSE {}]
          /\ todo' = [todo EXCEPT ![c] = Touches(m)]
    /\ pc' = [pc EXCEPT ![c] = "touch"]
    /\ UNCHANGED <<stamp, now, undo, call, stack, out>>

\* A touch hook updates its parent by id, and needs it stored.
Touch(c) ==
    /\ pc[c] = "touch"
    /\ \E r \in Innermost(todo[c]) :
          /\ TouchTarget(call[c], r) \in live
          /\ stamp' = [stamp EXCEPT ![TouchTarget(call[c], r)] = now]
          /\ todo' = [todo EXCEPT ![c] = @ \ {r}]
    /\ UNCHANGED <<live, ref, used, now, undo, pc, call, stack, out, late>>

SaveReturns(c) ==
    /\ pc[c] = "touch" /\ todo[c] = {}
    /\ Returns(c, "ok")
    /\ UNCHANGED db

\* The row to update, the parent to stamp or the row to delete is gone.
NotFound(c) ==
    /\ \/ pc[c] = "delete" /\ ~ InHook(c) /\ Top(c).one /\ Selected(Top(c).type, Top(c).sel) = {}
       \/ pc[c] = "save" /\ call[c].op \in {"updateOne", "updateOneID"} /\ call[c].row \notin live
       \/ pc[c] = "touch" /\ \E r \in Innermost(todo[c]) : TouchTarget(call[c], r) \notin live
    /\ Returns(c, "error")
    /\ Undone
    /\ UNCHANGED <<used, now>>

----------------------------------------------------------------------------
\* A delete of the rows of a type, or of one row by id.
BeginDelete(c) ==
    /\ Opens(c)
    /\ \E op \in DeleteForms[c], type \in UNION { Relation[r].parents : r \in Rels } :
       \E S \in IF op = "delete" THEN { { x \in Row : x[1] = type } }
                ELSE { {x} : x \in { y \in used : y[1] = type } } :
          /\ call' = [call EXCEPT ![c] = [op |-> op, roots |-> S \cap live, before |-> live]]
          /\ stack' = [stack EXCEPT ![c] = <<Frame(type, [rel |-> 0, rows |-> S], op = "deleteOne")>>]
    /\ pc' = [pc EXCEPT ![c] = "delete"]
    /\ UNCHANGED <<db, todo, out, late>>

\* Mutant: only deletes by id cascade.
BugEnumerate(c) ==
    /\ InHook(c) /\ Top(c).ids = Unread
    /\ stack' = [stack EXCEPT ![c][1].ids = IF Top(c).one THEN Top(c).sel.rows ELSE {}]
    /\ UNCHANGED <<db, undo, pc, call, todo, out, late>>

\* A cascade hook asks which parents will go: the id it was given, or a query.
Enumerate(c) ==
    /\ InHook(c) /\ Top(c).ids = Unread
    /\ stack' = [stack EXCEPT ![c][1].ids =
                   IF Top(c).one THEN Top(c).sel.rows ELSE Selected(Top(c).type, Top(c).sel)]
    /\ UNCHANGED <<db, undo, pc, call, todo, out, late>>

\* It deletes the children of one of them, through the same client: the
\* child type's own cascade hooks run first.
DeleteChildren(c) ==
    /\ InHook(c) /\ Top(c).ids # Unread
    /\ Len(stack[c]) < MaxDepth
    /\ \E r \in Outermost(Top(c).hooks), p \in Top(c).ids :
          stack' = [stack EXCEPT ![c] =
            <<Frame(Relation[r].child, [rel |-> r, rows |-> {p}], FALSE)>>
            \o <<[Top(c) EXCEPT !.ids = @ \ {p}]>> \o Tail(@)]
    /\ UNCHANGED <<db, undo, pc, call, todo, out, late>>

NextHook(c) ==
    /\ InHook(c) /\ Top(c).ids = {}
    /\ stack' = [stack EXCEPT ![c][1].ids = Unread, ![c][1].hooks = @ \ Outermost(@)]
    /\ UNCHANGED <<db, undo, pc, call, todo, out, late>>

\* The DELETE statement; its predicate is evaluated now.
Delete(c) ==
    LET gone == Selected(Top(c).type, Top(c).sel) IN
    /\ pc[c] = "delete" /\ ~ InHook(c)
    /\ Top(c).one => gone # {}
    /\ live' = live \ gone
    /\ IF Len(stack[c]) = 1
       THEN Returns(c, "ok")
       ELSE /\ stack' = [stack EXCEPT ![c] = Tail(@)]
            /\ UNCHANGED <<undo, pc, call, todo, out, late>>
    /\ UNCHANGED <<ref, stamp, used, now>>

\* The recursion exhausts the stack of the process.
Overflow(c) ==
    /\ InHook(c) /\ Top(c).ids \notin {Unread, {}} /\ Len(stack[c]) = MaxDepth
    /\ Returns(c, "crash")
    /\ Undone
    /\ UNCHANGED <<used, now>>

\* Any statement may fail, or the process die, before it has an effect.
Fail(c) ==
    /\ CanFail /\ pc[c] # "idle"
    /\ Returns(c, "error")
    /\ Undone
    /\ UNCHANGED <<used, now>>

Steps(c) ==
    \/ Save(c) \/ Touch(c) \/ SaveReturns(c) \/ NotFound(c)
    \/ Enumerate(c) \/ DeleteChildren(c) \/ NextHook(c) \/ Delete(c) \/ Overflow(c)

Next == \E c \in Caller : BeginSave(c) \/ BeginDelete(c) \/ Steps(c) \/ Fail(c)

Spec == Init /\ [][Next]_vars

\* A goroutine that can run, runs.
FairSpec == Spec /\ \A c \in Caller : WF_vars(Steps(c))

----------------------------------------------------------------------------
\* What other connections see.
Committed == IF undo = {} THEN [live |-> live, ref |-> ref, stamp |-> stamp]
             ELSE CHOOSE u \in undo : TRUE

Mutation == [op : Forms, type : { Relation[r].child : r \in Rels }, row : Row \cup {NoRow},
             asg : [Rels -> Row \cup {NoRow, Keep}], at : 1 .. MaxSaves,
             old : {<<>>} \cup [Rels -> Row \cup {NoRow}]]
Removal == [op : {"delete", "deleteOne"}, roots : SUBSET Row, before : SUBSET Row]

\* TypeOK: rows, clock and the position of every call stay in their domains.
TypeOK ==
    /\ live \subseteq used /\ used \subseteq Row
    /\ ref \in [Row -> [Rels -> Row \cup {NoRow}]]
    /\ stamp \in [Row -> 0 .. now] /\ now \in 0 .. MaxSaves
    /\ Cardinality(undo) <= 1
    /\ \A c \in Caller :
          /\ pc[c] \in {"idle", "save", "touch", "delete"}
          /\ out[c] \in {"none", "ok", "error", "crash"}
          /\ call[c] \in CASE pc[c] = "idle"   -> {NoCall}
                           [] pc[c] = "delete" -> Removal
                           [] OTHER            -> Mutation
          /\ todo[c] \subseteq Rels /\ Len(stack[c]) <= MaxDepth
          /\ (stack[c] # <<>>) = (pc[c] = "delete")
          /\ late[c] \subseteq Row

\* Where a relation only cascades, nothing looks for the parent a save names.
Guarded(r) == Relation[r].cascade /\ Relation[r].touch

\* NoOrphans: nobody ever sees a row whose relation, one that cascades and is
\* touched, names a row that is not stored (children go before their parents, and
\* a save whose parent is gone fails in its touch hook); with types, for the runs.
NoOrphans ==
    TypeOK /\ \A x \in Committed.live : \A r \in RelationsOf(x[1]) :
        Guarded(r) /\ Committed.ref[x][r] # NoRow => Committed.ref[x][r] \in Committed.live

\* RequiredHolds: no stored row lacks a required relation, whatever mixture of
\* creates, updates and deletes ran, with or without a transaction.
RequiredHolds ==
    \A x \in live : \A r \in RelationsOf(x[1]) : Relation[r].required => ref[x][r] # NoRow

\* ImplementsStore: each call, with all its hooks, is one step of the store or none.
Store == INSTANCE PolyStore WITH live <- Committed.live, ref <- Committed.ref, stamp <- Committed.stamp
ImplementsStore == Store!Spec

\* ChildrenGoFirst: a row a delete removes leaves no child behind that was
\* attached before the delete began, unless the row itself was moved meanwhile;
\* this holds on a plain client too, between other callers' statements.
ChildrenGoFirst ==
    [][\A c \in Caller : pc[c] = "delete" /\ stack'[c] # stack[c] =>
         \A y \in (live \ live') \ late[c], x \in live' \ late[c] :
            \A r \in RelationsOf(x[1]) : Relation[r].cascade => ref[x][r] # y]_vars

\* OverflowNeedsCycle: nested deletes exhaust the stack only on rows that hang on
\* each other in a cycle (MaxDepth is more than the number of rows).
OverflowNeedsCycle ==
    [][\A c \in Caller : out'[c] = "crash" /\ out[c] # "crash" =>
         \E S \in SUBSET live : S # {} /\ \A x \in S : \E r \in RelationsOf(x[1]) :
            Relation[r].cascade /\ ref[x][r] \in S]_vars

\* SavedIsTouched: a save that returns success has stamped every parent it was
\* given, at or after the time it began.
SavedIsTouched ==
    [][\A c \in Caller : pc[c] = "touch" /\ pc'[c] = "idle" /\ out'[c] = "ok" =>
         \A r \in RelationsOf(call[c].type) :
            Relation[r].touch /\ call[c].asg[r] \in Row => stamp[call[c].asg[r]] >= call[c].at]_vars
=============================================================================
