-------------------------- MODULE PolyHooks_proofs ---------------------------
(***************************************************************************)
(* What the hooks of entpoly promise, for every schema, every number of    *)
(* callers, every form of save and any depth of nesting, on a plain client *)
(* and in transactions, with failures.  First: the required hook keeps     *)
(* every stored row's required relations set.                              *)
(***************************************************************************)
EXTENDS PolyHooks, FiniteSetTheorems, TLAPS

\* In a database with rows S and discriminators f no required relation is empty.
Filled(S, f) ==
    /\ S \subseteq Row
    /\ f \in [Row -> [Rels -> Row \cup {NoRow}]]
    /\ \A x \in S : \A r \in RelationsOf(x[1]) : Relation[r].required => f[x][r] # NoRow

\* A mutation on its way to the database passed the required hook and names a
\* row of its type.
Passed(m) ==
    /\ m.asg \in [Rels -> Row \cup {NoRow, Keep}]
    /\ m.op \in {"updateOne", "updateOneID"} => m.row[1] = m.type
    /\ m.op \in Forms
    /\ ~ RequiredRejects(m)

Inv ==
    /\ Filled(live, ref)
    /\ used \subseteq Row
    /\ \A u \in undo : Filled(u.live, u.ref)
    /\ pc \in [Caller -> {"idle", "save", "touch", "delete"}]
    /\ call = [c \in Caller |-> call[c]]
    /\ \A c \in Caller : pc[c] = "save" => Passed(call[c])

LEMMA InitInv == Init => Inv
  BY PolyParameters DEF Init, Inv, Filled, NoCall

\* What an allowed mutation writes to a row of its type leaves no required
\* relation empty.
LEMMA AssignedFilled ==
  ASSUME NEW m, NEW x \in Row, Passed(m), x[1] = m.type,
         ref \in [Row -> [Rels -> Row \cup {NoRow}]],
         m.op # "create" => \A r \in RelationsOf(x[1]) : Relation[r].required => ref[x][r] # NoRow
  PROVE  /\ Assigned(m, x) \in [Rels -> Row \cup {NoRow}]
         /\ \A r \in RelationsOf(x[1]) : Relation[r].required => Assigned(m, x)[r] # NoRow
<1>1. \A r \in Rels : Assigned(m, x)[r] \in Row \cup {NoRow}
  BY DEF Assigned, Passed
<1>2. ASSUME NEW r \in RelationsOf(x[1]), Relation[r].required
      PROVE  Assigned(m, x)[r] # NoRow
  <2>1. r \in Rels /\ r \in RelationsOf(m.type)
    BY DEF RelationsOf
  <2>2. CASE m.op = "create"
    <3>1. m.asg[r] \in Row
      BY <1>2, <2>1, <2>2 DEF Passed, RequiredRejects
    <3> QED  BY <2>1, <3>1, PolyParameters DEF Assigned
  <2>3. CASE m.op # "create"
    <3>1. m.asg[r] # NoRow
      BY <1>2, <2>1, <2>3 DEF Passed, RequiredRejects
    <3> QED  BY <1>2, <2>1, <2>3, <3>1 DEF Assigned
  <2> QED  BY <2>2, <2>3
<1> QED  BY <1>1, <1>2 DEF Assigned

\* A call that returns, with its transaction committed or undone.
LEMMA ReturnInv ==
  ASSUME Inv, NEW c \in Caller, NEW result, Returns(c, result),
         Filled(live', ref'), used' \subseteq Row
  PROVE  Inv'
  BY DEF Inv, Returns, Passed, RequiredRejects, NoCall

\* Rolling back returns to a database that was filled.
LEMMA UndoneFilled == ASSUME Inv, Undone PROVE Filled(live', ref')
<1>1. CASE undo = {}
  BY <1>1 DEF Inv, Undone, Filled
<1>2. CASE undo # {}
  <2>1. PICK u \in undo : live' = u.live /\ ref' = u.ref
    BY <1>2 DEF Undone
  <2> QED  BY <2>1 DEF Inv
<1> QED  BY <1>1, <1>2

\* A save starts with a mutation that passed the required hook.
LEMMA BeginSaveInv == ASSUME Inv, NEW c \in Caller, BeginSave(c) PROVE Inv'
<1>1. PICK op \in SaveForms[c], type \in { Relation[r].child : r \in Rels } :
        \E asg \in Assignments(type), x \in Named(op, type) :
          /\ ~ RequiredRejects(NewMutation(op, type, x, asg))
          /\ call' = [call EXCEPT ![c] = NewMutation(op, type, x, asg)]
  BY Zenon DEF BeginSave
<1>2. PICK asg \in Assignments(type), x \in Named(op, type) :
          /\ ~ RequiredRejects(NewMutation(op, type, x, asg))
          /\ call' = [call EXCEPT ![c] = NewMutation(op, type, x, asg)]
  BY Zenon, <1>1
<1> DEFINE m == NewMutation(op, type, x, asg)
<1>3. Passed(m)
  <2>1. m.asg \in [Rels -> Row \cup {NoRow, Keep}]
    BY DEF NewMutation, Assignments, Inv
  <2>2. m.op \in Forms
    BY PolyParameters DEF NewMutation
  <2>3. m.op \in {"updateOne", "updateOneID"} => m.row[1] = m.type
    BY DEF NewMutation, Named
  <2> QED  BY <1>2, <2>1, <2>2, <2>3 DEF Passed
<1>4. call' = [call EXCEPT ![c] = m]
  BY <1>2
<1> HIDE DEF m
<1>5. pc' = [pc EXCEPT ![c] = "save"] /\ UNCHANGED <<live, ref, used>>
  BY DEF BeginSave
<1>6. \A u \in undo' : Filled(u.live, u.ref)'
  <2>1. undo' \subseteq {[live |-> live, ref |-> ref, stamp |-> stamp]}
    BY DEF BeginSave, Opens
  <2> QED  BY <1>5, <2>1 DEF Inv, Filled
<1>7. \A d \in Caller : pc'[d] = "save" => Passed(call'[d])
  BY <1>3, <1>4, <1>5 DEF Inv
<1>8. Filled(live', ref') /\ used' \subseteq Row
  BY <1>5 DEF Inv
<1>9. pc' \in [Caller -> {"idle", "save", "touch", "delete"}] /\ call' = [d \in Caller |-> call'[d]]
  BY <1>4, <1>5 DEF Inv
<1> QED  BY <1>6, <1>7, <1>8, <1>9 DEF Inv

\* The statement fills what it writes.
LEMMA SaveInv == ASSUME Inv, NEW c \in Caller, Save(c) PROVE Inv'
<1> DEFINE m == call[c]
<1>1. Passed(m) /\ pc[c] = "save"
  BY DEF Save, Inv
<1>2. PICK x \in IF m.op = "create" THEN { y \in Row \ used : y[1] = m.type } ELSE {m.row} :
        /\ live' = live \cup Written(m, x)
        /\ used' = used \cup Written(m, x)
        /\ ref' = [y \in Row |-> IF y \in Written(m, x) THEN Assigned(m, y) ELSE ref[y]]
  BY Zenon DEF Save
<1> HIDE DEF m
<1>3. \A y \in Written(m, x) : y \in Row /\ y[1] = m.type /\ (m.op # "create" => y \in live)
  <2>1. CASE m.op = "create"
    BY <1>2, <2>1 DEF Written
  <2>2. CASE m.op = "update"
    BY <1>2, <2>2 DEF Written, Inv, Filled
  <2>3. CASE m.op \in {"updateOne", "updateOneID"}
    BY <1>1, <1>2, <2>3 DEF Written, Inv, Filled, Passed
  <2> QED  BY <1>1, <2>1, <2>2, <2>3 DEF Passed, Forms
<1>4. ASSUME NEW y \in Written(m, x)
      PROVE  /\ Assigned(m, y) \in [Rels -> Row \cup {NoRow}]
             /\ \A r \in RelationsOf(y[1]) : Relation[r].required => Assigned(m, y)[r] # NoRow
  BY <1>1, <1>3, <1>4, AssignedFilled DEF Inv, Filled
<1>5. Filled(live', ref')
  <2>1. live' \subseteq Row /\ ref' \in [Row -> [Rels -> Row \cup {NoRow}]]
    BY <1>2, <1>3, <1>4 DEF Inv, Filled
  <2>2. ASSUME NEW y \in live', NEW r \in RelationsOf(y[1]), Relation[r].required
        PROVE  ref'[y][r] # NoRow
    <3>1. CASE y \in Written(m, x)
      BY <1>2, <1>3, <1>4, <2>2, <3>1
    <3>2. CASE y \notin Written(m, x)
      BY <1>2, <2>1, <2>2, <3>2 DEF Inv, Filled
    <3> QED  BY <3>1, <3>2
  <2> QED  BY <2>1, <2>2 DEF Filled
<1>6. used' \subseteq Row
  BY <1>2, <1>3 DEF Inv
<1>7. pc' = [pc EXCEPT ![c] = "touch"] /\ UNCHANGED <<undo, call>>
  BY DEF Save
<1> QED  BY <1>5, <1>6, <1>7 DEF Inv

LEMMA BeginDeleteInv == ASSUME Inv, NEW c \in Caller, BeginDelete(c) PROVE Inv'
<1>1. pc' = [pc EXCEPT ![c] = "delete"] /\ UNCHANGED <<live, ref, used>>
  BY DEF BeginDelete, db
<1>2. \A u \in undo' : Filled(u.live, u.ref)'
  <2>1. undo' \subseteq {[live |-> live, ref |-> ref, stamp |-> stamp]}
    BY DEF BeginDelete, Opens
  <2> QED  BY <1>1, <2>1 DEF Inv, Filled
<1>3. \E e : call' = [call EXCEPT ![c] = e]
  BY DEF BeginDelete
<1>4. call' = [d \in Caller |-> call'[d]] /\ \A d \in Caller : d # c => call'[d] = call[d]
  BY <1>3 DEF Inv
<1> QED  BY <1>1, <1>2, <1>4 DEF Inv

\* The DELETE of the innermost call; it may return to the caller.
LEMMA DeleteInv == ASSUME Inv, NEW c \in Caller, Delete(c) PROVE Inv'
<1>1. live' \subseteq live /\ UNCHANGED <<ref, used>>
  BY DEF Delete
<1>2. Filled(live', ref') /\ used' \subseteq Row
  BY <1>1 DEF Inv, Filled
<1>3. CASE Returns(c, "ok")
  BY <1>2, <1>3, ReturnInv
<1>4. CASE UNCHANGED <<undo, pc, call>>
  BY <1>2, <1>4 DEF Inv
<1> QED  BY <1>3, <1>4 DEF Delete

\* Steps that leave rows, discriminators and the caller's place alone.
LEMMA QuietInv ==
  ASSUME Inv, UNCHANGED <<live, ref, used, undo, pc, call>>
  PROVE  Inv'
  BY DEF Inv

LEMMA NextInv == Inv /\ [Next]_vars => Inv'
<1> SUFFICES ASSUME Inv, [Next]_vars PROVE Inv'
  OBVIOUS
<1>1. ASSUME NEW c \in Caller, BeginSave(c) PROVE Inv'
  BY <1>1, BeginSaveInv
<1>2. ASSUME NEW c \in Caller, BeginDelete(c) PROVE Inv'
  BY <1>2, BeginDeleteInv
<1>3. ASSUME NEW c \in Caller, Steps(c) PROVE Inv'
  <2>1. CASE Save(c)
    BY <2>1, SaveInv
  <2>2. CASE Touch(c) \/ Enumerate(c) \/ DeleteChildren(c) \/ NextHook(c)
    BY <2>2, QuietInv DEF Touch, Enumerate, DeleteChildren, NextHook, db
  <2>3. CASE SaveReturns(c)
    <3>1. Returns(c, "ok") /\ UNCHANGED <<live, ref, used>>
      BY <2>3 DEF SaveReturns, db
    <3> QED  BY <3>1, ReturnInv DEF Inv
  <2>4. CASE NotFound(c)
    <3>1. Returns(c, "error") /\ Undone /\ UNCHANGED used
      BY <2>4 DEF NotFound
    <3> QED  BY <3>1, ReturnInv, UndoneFilled DEF Inv
  <2>5. CASE Delete(c)
    BY <2>5, DeleteInv
  <2>6. CASE Overflow(c)
    <3>1. Returns(c, "crash") /\ Undone /\ UNCHANGED used
      BY <2>6 DEF Overflow
    <3> QED  BY <3>1, ReturnInv, UndoneFilled DEF Inv
  <2> QED  BY <1>3, <2>1, <2>2, <2>3, <2>4, <2>5, <2>6 DEF Steps
<1>4. ASSUME NEW c \in Caller, Fail(c) PROVE Inv'
  <2>1. Returns(c, "error") /\ Undone /\ UNCHANGED used
    BY <1>4 DEF Fail
  <2> QED  BY <2>1, ReturnInv, UndoneFilled DEF Inv
<1>5. CASE UNCHANGED vars
  BY <1>5, QuietInv DEF vars
<1> QED  BY <1>1, <1>2, <1>3, <1>4, <1>5 DEF Next

\* Whatever callers do, with or without transactions, no stored row ever lacks
\* a required relation (the required hook, polymorphic.tmpl 828-855).
THEOREM RequiredAlwaysHolds == Spec => []RequiredHolds
<1>1. Inv => RequiredHolds
  BY DEF Inv, Filled, RequiredHolds
<1> QED  BY InitInv, NextInv, <1>1, PTL DEF Spec

----------------------------------------------------------------------------
(***************************************************************************)
(* Types, and who may run at one time: with transactions, one caller.      *)
(***************************************************************************)
Types == { Relation[r].child : r \in Rels } \cup UNION { Relation[r].parents : r \in Rels }

Frames == [type : Types, sel : [rel : {0} \cup Rels, rows : SUBSET Row], one : BOOLEAN,
           hooks : SUBSET Rels, ids : (SUBSET Row) \cup {Unread}]

Stored(S, f, t) ==
    /\ S \subseteq used
    /\ f \in [Row -> [Rels -> Row \cup {NoRow}]]
    /\ t \in [Row -> 0 .. now]

\* A mutation that has begun; one of a loaded node remembers that node's parents.
Held(m) ==
    /\ m \in Mutation /\ m.at <= now
    /\ m.op = "updateOne" => m.old \in [Rels -> Row \cup {NoRow}]

\* Where a caller is, and what it holds there.
Placed(c) ==
    /\ pc[c] \in {"idle", "save", "touch", "delete"}
    /\ pc[c] = "idle" => call[c] = NoCall
    /\ pc[c] = "delete" => call[c] \in Removal
    /\ pc[c] \in {"save", "touch"} => Held(call[c])
    /\ Len(stack[c]) <= MaxDepth
    /\ (stack[c] # <<>>) = (pc[c] = "delete")

TypeInv ==
    /\ Stored(live, ref, stamp)
    /\ used \subseteq Row
    /\ now \in 0 .. MaxSaves
    /\ undo = {} \/ \E u : undo = {u} /\ Stored(u.live, u.ref, u.stamp)
    /\ pc = [c \in Caller |-> pc[c]]
    /\ call = [c \in Caller |-> call[c]]
    /\ out \in [Caller -> {"none", "ok", "error", "crash"}]
    /\ todo \in [Caller -> SUBSET Rels]
    /\ stack \in [Caller -> Seq(Frames)]
    /\ late \in [Caller -> SUBSET Row]
    /\ \A c \in Caller : Placed(c)

\* Whoever is inside a call of a transactional program holds the transaction.
Exclusive ==
    /\ ~ Transactional => undo = {}
    /\ Transactional /\ undo = {} => \A c \in Caller : pc[c] = "idle"
    /\ Transactional => \A c, d \in Caller : pc[c] # "idle" /\ pc[d] # "idle" => c = d

\* The parents whose touch hook has run are stamped.
Touched(c) ==
    pc[c] = "touch" =>
        \A r \in Touches(call[c]) \ todo[c] : stamp[TouchTarget(call[c], r)] >= call[c].at

CallInv == TypeInv /\ Exclusive /\ \A c \in Caller : Touched(c)

LEMMA InitTypes == Init => CallInv
<1> SUFFICES ASSUME Init PROVE CallInv
  OBVIOUS
<1>1. Stored(live, ref, stamp) /\ used \subseteq Row /\ now \in 0 .. MaxSaves
  BY PolyParameters DEF Init, Stored
<1>2. \A c \in Caller : Placed(c)
  BY PolyParameters DEF Init, Placed
<1> QED  BY <1>1, <1>2 DEF Init, CallInv, TypeInv, Exclusive, Touched

\* A call that returns leaves the other callers where they are.
LEMMA ReturnTypes ==
  ASSUME CallInv, NEW c \in Caller, NEW result \in {"ok", "error", "crash"}, Returns(c, result),
         pc[c] # "idle", Stored(live, ref, stamp)', UNCHANGED <<used, now>>,
         Transactional \/ UNCHANGED stamp
  PROVE  CallInv'
<1>1. \A d \in Caller : d # c => pc'[d] = pc[d] /\ call'[d] = call[d] /\ todo'[d] = todo[d] /\ stack'[d] = stack[d]
  BY DEF CallInv, TypeInv, Returns
<1>2. pc'[c] = "idle" /\ call'[c] = NoCall /\ stack'[c] = <<>>
  BY DEF CallInv, TypeInv, Returns
<1>3. ASSUME NEW d \in Caller PROVE Placed(d)'
  <2>1. CASE d = c
    BY <1>2, <2>1, PolyParameters DEF Placed
  <2>2. CASE d # c
    BY <1>1, <2>2 DEF CallInv, TypeInv, Placed, Held
  <2> QED  BY <2>1, <2>2
<1>4. Transactional => \A d \in Caller : pc'[d] = "idle"
  BY <1>1, <1>2 DEF CallInv, Exclusive
<1>5. ASSUME NEW d \in Caller PROVE Touched(d)'
  <2>1. CASE d = c \/ Transactional
    BY <1>2, <1>4, <2>1 DEF Touched
  <2>2. CASE d # c /\ ~ Transactional
    BY <1>1, <2>2 DEF CallInv, Touched
  <2> QED  BY <2>1, <2>2
<1>6. Exclusive'
  BY <1>4 DEF CallInv, Exclusive, Returns
<1>7. /\ pc' = [d \in Caller |-> pc'[d]] /\ call' = [d \in Caller |-> call'[d]]
      /\ out' \in [Caller -> {"none", "ok", "error", "crash"}]
      /\ todo' \in [Caller -> SUBSET Rels] /\ late' \in [Caller -> SUBSET Row]
  BY DEF CallInv, TypeInv, Returns
<1>8. stack' \in [Caller -> Seq(Frames)]
  BY DEF CallInv, TypeInv, Returns
<1> QED  BY <1>3, <1>5, <1>6, <1>7, <1>8 DEF CallInv, TypeInv, Returns

\* Rolling back returns to what was stored when the transaction opened; a plain
\* client has nothing to roll back.
LEMMA UndoneTypes ==
  ASSUME CallInv, Undone, UNCHANGED <<used, now>>
  PROVE  Stored(live, ref, stamp)' /\ (Transactional \/ UNCHANGED stamp)
<1>1. CASE undo = {}
  BY <1>1 DEF CallInv, TypeInv, Undone, Stored, Exclusive
<1>2. CASE undo # {}
  <2>1. PICK u \in undo : live' = u.live /\ ref' = u.ref /\ stamp' = u.stamp
    BY <1>2 DEF Undone
  <2> QED  BY <1>2, <2>1 DEF CallInv, TypeInv, Stored, Exclusive
<1> QED  BY <1>1, <1>2

\* Steps of a caller inside its call that do not move the caller: only its
\* own touches, its own stack, the rows or the stamps change.
LEMMA InsideTypes ==
  ASSUME CallInv, UNCHANGED <<used, now, undo, pc, call, out, late>>,
         Stored(live, ref, stamp)',
         todo' \in [Caller -> SUBSET Rels], stack' \in [Caller -> Seq(Frames)],
         \A d \in Caller : (stack'[d] # <<>>) = (stack[d] # <<>>) /\ Len(stack'[d]) <= MaxDepth,
         \A d \in Caller : Touched(d)'
  PROVE  CallInv'
<1>1. ASSUME NEW d \in Caller PROVE Placed(d)'
  BY DEF CallInv, TypeInv, Placed, Held
<1>2. Exclusive'
  BY DEF CallInv, Exclusive
<1>3. undo' = {} \/ \E u : undo' = {u} /\ Stored(u.live, u.ref, u.stamp)'
  BY DEF CallInv, TypeInv, Stored
<1> QED  BY <1>1, <1>2, <1>3 DEF CallInv, TypeInv

\* A call that begins opens its transaction.
LEMMA OpenTypes ==
  ASSUME CallInv, NEW c \in Caller, Opens(c), NEW p, p \in {"save", "delete"},
         pc' = [pc EXCEPT ![c] = p], NEW e, call' = [call EXCEPT ![c] = e],
         IF p = "save" THEN Held(e)' ELSE e \in Removal,
         UNCHANGED <<live, ref, stamp, used, todo, out, late>>,
         now' \in now .. MaxSaves,
         stack' \in [Caller -> Seq(Frames)],
         \A d \in Caller \ {c} : stack'[d] = stack[d],
         (stack'[c] # <<>>) = (p = "delete"), Len(stack'[c]) <= MaxDepth
  PROVE  CallInv'
<1>0. pc[c] = "idle" /\ undo = {} /\ now \in Nat /\ now' \in Nat /\ now <= now' /\ MaxSaves \in Nat
  BY PolyParameters DEF Opens, CallInv, TypeInv
<1>1. \A d \in Caller : d # c => pc'[d] = pc[d] /\ call'[d] = call[d]
  BY DEF CallInv, TypeInv
<1>2. pc'[c] = p /\ call'[c] = e
  BY DEF CallInv, TypeInv
<1>3. ASSUME NEW d \in Caller PROVE Placed(d)'
  <2>1. CASE d = c
    BY <1>2, <2>1 DEF Placed
  <2>2. CASE d # c
    <3>1. Placed(d)
      BY DEF CallInv, TypeInv
    <3>2. pc[d] \in {"save", "touch"} => Held(call[d])'
      BY <1>0, <1>1, <2>2, <3>1, PolyParameters DEF Placed, Held, Mutation
    <3> QED  BY <1>1, <2>2, <3>1, <3>2 DEF Placed
  <2> QED  BY <2>1, <2>2
<1>4. ASSUME NEW d \in Caller PROVE Touched(d)'
  BY <1>1, <1>2 DEF CallInv, Touched
<1>5. Stored(live, ref, stamp)'
  BY <1>0 DEF CallInv, TypeInv, Stored
<1>6. undo' = {} \/ \E u : undo' = {u} /\ Stored(u.live, u.ref, u.stamp)'
  <2>1. CASE Transactional
    <3>1. undo' = {[live |-> live, ref |-> ref, stamp |-> stamp]}
      BY <2>1 DEF Opens
    <3> QED  BY <1>5, <3>1 DEF Stored
  <2>2. CASE ~ Transactional
    BY <2>2 DEF Opens
  <2> QED  BY <2>1, <2>2
<1>7. Exclusive'
  <2>1. CASE Transactional
    <3>1. \A d \in Caller : pc[d] = "idle"
      BY <1>0, <2>1 DEF CallInv, Exclusive
    <3>2. undo' # {}
      BY <2>1 DEF Opens
    <3> QED  BY <1>1, <2>1, <3>1, <3>2 DEF Exclusive
  <2>2. CASE ~ Transactional
    BY <2>2 DEF Opens, Exclusive
  <2> QED  BY <2>1, <2>2
<1>8. pc' = [d \in Caller |-> pc'[d]] /\ call' = [d \in Caller |-> call'[d]]
  BY DEF CallInv, TypeInv
<1> QED  BY <1>0, <1>3, <1>4, <1>5, <1>6, <1>7, <1>8 DEF CallInv, TypeInv

\* A save starts: the mutation is well-formed and young.
LEMMA BeginSaveTypes == ASSUME CallInv, NEW c \in Caller, BeginSave(c) PROVE CallInv'
<1>1. PICK op \in SaveForms[c], type \in { Relation[r].child : r \in Rels } :
        \E asg \in Assignments(type), x \in Named(op, type) :
          call' = [call EXCEPT ![c] = NewMutation(op, type, x, asg)]
  BY Zenon DEF BeginSave
<1>2. PICK asg \in Assignments(type), x \in Named(op, type) :
          call' = [call EXCEPT ![c] = NewMutation(op, type, x, asg)]
  BY Zenon, <1>1
<1> DEFINE m == NewMutation(op, type, x, asg)
<1>3. op \in Forms
  BY PolyParameters
<1>4. now' = now + 1 /\ now \in Nat /\ now' \in now .. MaxSaves /\ now + 1 \in 1 .. MaxSaves
  BY PolyParameters DEF BeginSave, CallInv, TypeInv
<1>5. x \in Row \cup {NoRow}
  BY DEF Named, CallInv, TypeInv, Stored
<1>6. asg \in [Rels -> Row \cup {NoRow, Keep}]
  <2>1. asg \in [Rels -> {Keep, NoRow} \cup used]
    BY DEF Assignments
  <2> QED  BY <2>1 DEF CallInv, TypeInv
<1>7. op = "updateOne" => ref[x] \in [Rels -> Row \cup {NoRow}]
  BY DEF Named, CallInv, TypeInv, Stored
<1>8. m \in Mutation /\ m.at <= now' /\ (m.op = "updateOne" => m.old \in [Rels -> Row \cup {NoRow}])
  BY <1>3, <1>4, <1>5, <1>6, <1>7 DEF NewMutation, Mutation
<1>9. call' = [call EXCEPT ![c] = m]
  BY <1>2
<1> HIDE DEF m
<1>10. pc[c] = "idle" /\ stack' = stack
  BY DEF BeginSave, Opens
<1>11. stack'[c] = <<>> /\ Len(stack'[c]) <= MaxDepth /\ stack' \in [Caller -> Seq(Frames)]
  BY <1>10, PolyParameters DEF CallInv, TypeInv, Placed
<1> QED  BY <1>4, <1>8, <1>9, <1>10, <1>11, OpenTypes DEF BeginSave, Held

\* A frame that has done nothing is a frame.
LEMMA FrameTyped ==
  ASSUME NEW type \in Types, NEW sel \in [rel : {0} \cup Rels, rows : SUBSET Row], NEW one \in BOOLEAN
  PROVE  Frame(type, sel, one) \in Frames
<1>1. CascadeHooks(type) \in SUBSET Rels
  BY DEF CascadeHooks
<1>2. Unread \in (SUBSET Row) \cup {Unread}
  OBVIOUS
<1> QED  BY Zenon, <1>1, <1>2 DEF Frame, Frames

\* The parts of a frame, and frames with other hooks and ids.
LEMMA FrameParts ==
  ASSUME NEW f \in Frames
  PROVE  /\ f.type \in Types /\ f.sel.rows \in SUBSET Row /\ f.sel.rel \in {0} \cup Rels
         /\ f.hooks \in SUBSET Rels /\ f.ids \in (SUBSET Row) \cup {Unread} /\ f.one \in BOOLEAN
         /\ f = [type |-> f.type, sel |-> f.sel, one |-> f.one, hooks |-> f.hooks, ids |-> f.ids]
         /\ \A ids \in (SUBSET Row) \cup {Unread}, hooks \in SUBSET Rels :
              /\ [f EXCEPT !.ids = ids] \in Frames
              /\ [f EXCEPT !.ids = ids, !.hooks = hooks] \in Frames
  BY DEF Frames

\* A delete starts with one frame.
LEMMA BeginDeleteTypes == ASSUME CallInv, NEW c \in Caller, BeginDelete(c) PROVE CallInv'
<1>1. PICK op \in DeleteForms[c], type \in UNION { Relation[r].parents : r \in Rels } :
       \E S \in IF op = "delete" THEN { { x \in Row : x[1] = type } }
                ELSE { {x} : x \in { y \in used : y[1] = type } } :
          /\ call' = [call EXCEPT ![c] = [op |-> op, roots |-> S \cap live, before |-> live]]
          /\ stack' = [stack EXCEPT ![c] = <<Frame(type, [rel |-> 0, rows |-> S], op = "deleteOne")>>]
  BY Zenon DEF BeginDelete
<1>2. PICK S \in IF op = "delete" THEN { { x \in Row : x[1] = type } }
                 ELSE { {x} : x \in { y \in used : y[1] = type } } :
          /\ call' = [call EXCEPT ![c] = [op |-> op, roots |-> S \cap live, before |-> live]]
          /\ stack' = [stack EXCEPT ![c] = <<Frame(type, [rel |-> 0, rows |-> S], op = "deleteOne")>>]
  BY Zenon, <1>1
<1> DEFINE e == [op |-> op, roots |-> S \cap live, before |-> live]
           f == Frame(type, [rel |-> 0, rows |-> S], op = "deleteOne")
<1>3. S \subseteq Row
  <2>1. CASE op = "delete"
    BY <1>2, <2>1
  <2>2. CASE op # "delete"
    BY <1>2, <2>2 DEF CallInv, TypeInv
  <2> QED  BY <2>1, <2>2
<1>4. e \in Removal
  <2>1. op \in {"delete", "deleteOne"}
    BY PolyParameters
  <2>2. live \subseteq Row
    BY DEF CallInv, TypeInv, Stored
  <2> QED  BY <1>3, <2>1, <2>2 DEF Removal
<1>5. f \in Frames
  <2>1. [rel |-> 0, rows |-> S] \in [rel : {0} \cup Rels, rows : SUBSET Row] /\ type \in Types
    BY <1>3 DEF Types
  <2>2. (op = "deleteOne") \in BOOLEAN
    OBVIOUS
  <2> QED  BY <2>1, <2>2, FrameTyped
<1> HIDE DEF e, f
<1>6. call' = [call EXCEPT ![c] = e] /\ stack' = [stack EXCEPT ![c] = <<f>>]
  BY <1>2 DEF e, f
<1>7. stack' \in [Caller -> Seq(Frames)] /\ stack'[c] = <<f>>
  BY <1>5, <1>6 DEF CallInv, TypeInv
<1>8. stack'[c] # <<>> /\ Len(stack'[c]) <= MaxDepth
  BY <1>7, PolyParameters
<1>9. \A d \in Caller \ {c} : stack'[d] = stack[d]
  BY <1>6 DEF CallInv, TypeInv
<1>10. now' \in now .. MaxSaves
  BY PolyParameters DEF BeginDelete, db, CallInv, TypeInv
<1> QED  BY <1>4, <1>6, <1>7, <1>8, <1>9, <1>10, OpenTypes DEF BeginDelete, db

\* The statement of a save.
LEMMA SaveTypes == ASSUME Inv, CallInv, NEW c \in Caller, Save(c) PROVE CallInv'
<1>1. Stored(live, ref, stamp)' /\ used' \subseteq Row
  <2>1. Filled(live', ref') /\ used' \subseteq Row
    BY SaveInv DEF Inv
  <2>2. live' \subseteq used' /\ UNCHANGED <<stamp, now>>
    <3>1. PICK x : live' = live \cup Written(call[c], x) /\ used' = used \cup Written(call[c], x)
      BY DEF Save
    <3> QED  BY <3>1 DEF Save, CallInv, TypeInv, Stored
  <2> QED  BY <2>1, <2>2 DEF Filled, Stored, CallInv, TypeInv
<1>2. used \subseteq used' /\ UNCHANGED <<stamp, now, undo, call, stack, out>>
  BY DEF Save
<1>3. pc[c] = "save" /\ pc' = [pc EXCEPT ![c] = "touch"] /\ todo' = [todo EXCEPT ![c] = Touches(call[c])]
  BY DEF Save
<1>4. \A d \in Caller : d # c => pc'[d] = pc[d] /\ todo'[d] = todo[d]
  BY <1>3 DEF CallInv, TypeInv
<1>5. pc'[c] = "touch" /\ todo'[c] = Touches(call[c])
  BY <1>3 DEF CallInv, TypeInv
<1>6. \A d \in Caller : Placed(d)'
  BY <1>2, <1>3, <1>4, <1>5 DEF CallInv, TypeInv, Placed, Held
<1>7. \A d \in Caller : Touched(d)'
  BY <1>2, <1>4, <1>5 DEF CallInv, Touched
<1>8. Exclusive'
  BY <1>2, <1>3, <1>4, <1>5 DEF CallInv, Exclusive
<1>9. todo' \in [Caller -> SUBSET Rels] /\ pc' = [d \in Caller |-> pc'[d]]
  BY <1>3 DEF CallInv, TypeInv, Touches, RelationsOf
<1>10. late' \in [Caller -> SUBSET Row]
  <2>1. PICK x : used' = used \cup Written(call[c], x) /\
                 late' = [d \in Caller |-> IF pc[d] = "delete" THEN late[d] \cup Written(call[c], x) ELSE {}]
    BY DEF Save
  <2> QED  BY <1>1, <2>1 DEF CallInv, TypeInv
<1>11. undo' = {} \/ \E u : undo' = {u} /\ Stored(u.live, u.ref, u.stamp)'
  BY <1>2 DEF CallInv, TypeInv, Stored
<1> QED  BY <1>1, <1>2, <1>6, <1>7, <1>8, <1>9, <1>10, <1>11 DEF CallInv, TypeInv

\* A touch hook stamps its parent with the time.
LEMMA TouchTypes == ASSUME CallInv, NEW c \in Caller, Touch(c) PROVE CallInv'
<1>1. PICK r \in Innermost(todo[c]) :
        /\ TouchTarget(call[c], r) \in live
        /\ stamp' = [stamp EXCEPT ![TouchTarget(call[c], r)] = now]
        /\ todo' = [todo EXCEPT ![c] = @ \ {r}]
  BY DEF Touch
<1> DEFINE p == TouchTarget(call[c], r)
<1> HIDE DEF p
<1>2. p \in Row /\ stamp' = [stamp EXCEPT ![p] = now] /\ now \in Nat
  BY <1>1, PolyParameters DEF CallInv, TypeInv, Stored, p
<1>3. Stored(live, ref, stamp)'
  BY <1>2 DEF Touch, CallInv, TypeInv, Stored
<1>4. todo' \in [Caller -> SUBSET Rels] /\ stack' \in [Caller -> Seq(Frames)]
  BY <1>1 DEF Touch, CallInv, TypeInv
<1>5. \A x \in Row : stamp[x] \in Nat /\ stamp'[x] \in Nat /\ stamp'[x] >= stamp[x]
  BY <1>2 DEF CallInv, TypeInv, Stored
<1>6. ASSUME NEW d \in Caller PROVE Touched(d)'
  <2>1. SUFFICES ASSUME pc[d] = "touch", NEW q \in Touches(call[d]) \ todo'[d]
                 PROVE  stamp'[TouchTarget(call[d], q)] >= call[d].at
    BY DEF Touched, Touch, Touches
  <2>2. call[d] \in Mutation /\ call[d].at <= now /\ call[d].at \in Nat
    BY <2>1 DEF CallInv, TypeInv, Placed, Held, Mutation
  <2>3. TouchTarget(call[d], q) \in Row
    BY <2>1, <2>2 DEF Touches, TouchTarget, Mutation, RelationsOf, CallInv, TypeInv, Placed, Held
  <2>4. CASE q \notin todo[d]
    <3>1. stamp[TouchTarget(call[d], q)] >= call[d].at
      BY <2>1, <2>4 DEF CallInv, Touched
    <3> QED  BY <1>5, <2>2, <2>3, <3>1
  <2>5. CASE q \in todo[d]
    <3>1. d = c /\ q = r
      BY <1>1, <2>1, <2>5 DEF CallInv, TypeInv
    <3>2. stamp'[TouchTarget(call[d], q)] = now
      BY <1>2, <3>1 DEF p, CallInv, TypeInv, Stored
    <3> QED  BY <2>2, <3>2, <1>2
  <2> QED  BY <2>4, <2>5
<1>7. \A d \in Caller : (stack'[d] # <<>>) = (stack[d] # <<>>) /\ Len(stack'[d]) <= MaxDepth
  BY DEF Touch, CallInv, TypeInv, Placed
<1> QED  BY <1>3, <1>4, <1>6, <1>7, InsideTypes DEF Touch

\* A delete that moves its innermost frame.
LEMMA StackTypes ==
  ASSUME CallInv, NEW c \in Caller, pc[c] = "delete", NEW s \in Seq(Frames), s # <<>>, Len(s) <= MaxDepth,
         stack' = [stack EXCEPT ![c] = s], UNCHANGED <<used, now, undo, pc, call, out, late, todo, ref, stamp>>,
         live' \subseteq live
  PROVE  CallInv'
<1>1. \A d \in Caller : (stack'[d] # <<>>) = (stack[d] # <<>>) /\ Len(stack'[d]) <= MaxDepth
  <2>1. stack'[c] = s /\ \A d \in Caller : d # c => stack'[d] = stack[d]
    BY DEF CallInv, TypeInv
  <2> QED  BY <2>1 DEF CallInv, TypeInv, Placed
<1>2. stack' \in [Caller -> Seq(Frames)] /\ todo' \in [Caller -> SUBSET Rels] /\ Stored(live, ref, stamp)'
  BY DEF CallInv, TypeInv, Stored
<1>3. \A d \in Caller : Touched(d)'
  BY DEF CallInv, Touched
<1> QED  BY <1>1, <1>2, <1>3, InsideTypes

\* What the innermost frame is made of.
LEMMA TopTyped ==
  ASSUME CallInv, NEW c \in Caller, pc[c] = "delete"
  PROVE  /\ stack[c] \in Seq(Frames) /\ stack[c] # <<>> /\ Len(stack[c]) \in 1 .. MaxDepth
         /\ Top(c) = stack[c][1] /\ Top(c) \in Frames
         /\ Tail(stack[c]) \in Seq(Frames) /\ Len(Tail(stack[c])) = Len(stack[c]) - 1
  BY PolyParameters DEF CallInv, TypeInv, Placed, Top

LEMMA EnumerateTypes == ASSUME CallInv, NEW c \in Caller, Enumerate(c) PROVE CallInv'
<1> DEFINE ids == IF Top(c).one THEN Top(c).sel.rows ELSE Selected(Top(c).type, Top(c).sel)
           s == [stack[c] EXCEPT ![1].ids = ids]
<1>1. pc[c] = "delete"
  BY DEF Enumerate, InHook
<1>2. ids \subseteq Row
  BY <1>1, TopTyped DEF Selected, CallInv, TypeInv, Stored, Frames
<1>3. stack' = [stack EXCEPT ![c] = s]
  BY DEF Enumerate
<1> HIDE DEF ids
<1>4. s \in Seq(Frames) /\ s # <<>> /\ Len(s) <= MaxDepth
  <2>1. [stack[c][1] EXCEPT !.ids = ids] \in Frames
    BY <1>1, <1>2, TopTyped DEF Frames
  <2>2. s = [stack[c] EXCEPT ![1] = [stack[c][1] EXCEPT !.ids = ids]]
    BY <1>1, TopTyped
  <2> QED  BY <1>1, <2>1, <2>2, TopTyped
<1> HIDE DEF s
<1> QED  BY <1>1, <1>3, <1>4, StackTypes DEF Enumerate, db

LEMMA NextHookTypes == ASSUME CallInv, NEW c \in Caller, NextHook(c) PROVE CallInv'
<1> DEFINE s == [stack[c] EXCEPT ![1].ids = Unread, ![1].hooks = @ \ Outermost(@)]
           f == [stack[c][1] EXCEPT !.ids = Unread, !.hooks = @ \ Outermost(@)]
<1>1. pc[c] = "delete" /\ stack' = [stack EXCEPT ![c] = s]
  BY DEF NextHook, InHook
<1>2. s \in Seq(Frames) /\ s # <<>> /\ Len(s) <= MaxDepth
  <2>1. f \in Frames
    BY <1>1, TopTyped, FrameParts DEF Outermost
  <2>2. s = [stack[c] EXCEPT ![1] = f]
    BY <1>1, TopTyped
  <2> HIDE DEF f, s
  <2> QED  BY <1>1, <2>1, <2>2, TopTyped
<1> HIDE DEF s
<1> QED  BY <1>1, <1>2, StackTypes DEF NextHook, db

LEMMA DeleteChildrenTypes == ASSUME CallInv, NEW c \in Caller, DeleteChildren(c) PROVE CallInv'
<1>1. PICK r \in Outermost(Top(c).hooks), p \in Top(c).ids :
          stack' = [stack EXCEPT ![c] =
            <<Frame(Relation[r].child, [rel |-> r, rows |-> {p}], FALSE)>>
            \o <<[Top(c) EXCEPT !.ids = @ \ {p}]>> \o Tail(@)]
  BY DEF DeleteChildren
<1> DEFINE f == Frame(Relation[r].child, [rel |-> r, rows |-> {p}], FALSE)
           g == [Top(c) EXCEPT !.ids = @ \ {p}]
           s == <<f>> \o <<g>> \o Tail(stack[c])
<1>2. pc[c] = "delete" /\ Len(stack[c]) < MaxDepth /\ Top(c).ids # Unread
  BY DEF DeleteChildren, InHook
<1>3. r \in Rels /\ p \in Row
  BY <1>2, TopTyped, FrameParts DEF Outermost
<1>4. f \in Frames
  BY <1>3, FrameTyped DEF Types
<1>5. g \in Frames
  BY <1>2, TopTyped, FrameParts
<1>6. stack' = [stack EXCEPT ![c] = s]
  BY <1>1
<1> HIDE DEF f, g
<1>7. s \in Seq(Frames) /\ s # <<>> /\ Len(s) <= MaxDepth
  BY <1>2, <1>4, <1>5, TopTyped, PolyParameters
<1> HIDE DEF s
<1> QED  BY <1>2, <1>6, <1>7, StackTypes DEF DeleteChildren, db

LEMMA DeleteTypes == ASSUME CallInv, NEW c \in Caller, Delete(c) PROVE CallInv'
<1>1. pc[c] = "delete" /\ live' \subseteq live /\ UNCHANGED <<ref, stamp, used, now>>
  BY DEF Delete
<1>2. CASE Len(stack[c]) = 1
  <2>1. Stored(live, ref, stamp)' /\ Returns(c, "ok")
    BY <1>1, <1>2 DEF Delete, CallInv, TypeInv, Stored
  <2> QED  BY <1>1, <2>1, ReturnTypes
<1>3. CASE Len(stack[c]) # 1
  <2>1. Tail(stack[c]) # <<>> /\ Len(Tail(stack[c])) <= MaxDepth
    <3> DEFINE t == Tail(stack[c])
    <3>1. t \in Seq(Frames) /\ Len(t) = Len(stack[c]) - 1 /\ Len(stack[c]) \in 1 .. MaxDepth
      BY <1>1, TopTyped
    <3> HIDE DEF t
    <3>2. Len(t) >= 1 /\ Len(t) <= MaxDepth
      <4>1. MaxDepth \in Nat
        BY PolyParameters
      <4>2. PICK n \in 1 .. MaxDepth : Len(stack[c]) = n
        BY <3>1
      <4> QED  BY <1>3, <3>1, <4>1, <4>2
    <3>3. t # <<>>
      BY <3>2
    <3> QED  BY <3>2, <3>3 DEF t
  <2> QED  BY <1>1, <1>3, <2>1, TopTyped, StackTypes DEF Delete
<1> QED  BY <1>2, <1>3

LEMMA NextTypes == Inv /\ CallInv /\ [Next]_vars => CallInv'
<1> SUFFICES ASSUME Inv, CallInv, [Next]_vars PROVE CallInv'
  OBVIOUS
<1>1. ASSUME NEW c \in Caller, BeginSave(c) PROVE CallInv'
  BY <1>1, BeginSaveTypes
<1>2. ASSUME NEW c \in Caller, BeginDelete(c) PROVE CallInv'
  BY <1>2, BeginDeleteTypes
<1>3. ASSUME NEW c \in Caller, Steps(c) PROVE CallInv'
  <2>1. CASE Save(c)
    BY <2>1, SaveTypes
  <2>2. CASE Touch(c)
    BY <2>2, TouchTypes
  <2>3. CASE SaveReturns(c)
    <3>1. Stored(live, ref, stamp)'
      BY <2>3 DEF SaveReturns, db, CallInv, TypeInv, Stored
    <3> QED  BY <2>3, <3>1, ReturnTypes DEF SaveReturns, db
  <2>4. CASE NotFound(c)
    <3>1. Returns(c, "error") /\ pc[c] # "idle" /\ Undone /\ UNCHANGED <<used, now>>
      BY <2>4 DEF NotFound
    <3> QED  BY <3>1, UndoneTypes, ReturnTypes
  <2>5. CASE Overflow(c)
    <3>1. Returns(c, "crash") /\ pc[c] # "idle" /\ Undone /\ UNCHANGED <<used, now>>
      BY <2>5 DEF Overflow, InHook
    <3> QED  BY <3>1, UndoneTypes, ReturnTypes
  <2> QED  BY <1>3, <2>1, <2>2, <2>3, <2>4, <2>5, EnumerateTypes, DeleteChildrenTypes, NextHookTypes, DeleteTypes
           DEF Steps
<1>4. ASSUME NEW c \in Caller, Fail(c) PROVE CallInv'
  <2>1. Returns(c, "error") /\ pc[c] # "idle" /\ Undone /\ UNCHANGED <<used, now>>
    BY <1>4 DEF Fail
  <2> QED  BY <2>1, UndoneTypes, ReturnTypes
<1>5. CASE UNCHANGED vars
  <2>1. \A d \in Caller : (stack'[d] # <<>>) = (stack[d] # <<>>) /\ Len(stack'[d]) <= MaxDepth
    BY <1>5 DEF vars, CallInv, TypeInv, Placed
  <2>2. (\A d \in Caller : Touched(d)') /\ Stored(live, ref, stamp)'
    BY <1>5 DEF vars, CallInv, TypeInv, Touched, Stored
  <2>3. todo' \in [Caller -> SUBSET Rels] /\ stack' \in [Caller -> Seq(Frames)]
    BY <1>5 DEF vars, CallInv, TypeInv
  <2> QED  BY <1>5, <2>1, <2>2, <2>3, InsideTypes DEF vars
<1> QED  BY <1>1, <1>2, <1>3, <1>4, <1>5 DEF Next

\* A save that returns success has stamped every parent it was given, at or after
\* the time it began, on a plain client and in a transaction (the touch hooks,
\* polymorphic.tmpl 887-945).
THEOREM SaveAlwaysTouches == Spec => SavedIsTouched
<1> DEFINE Step == \A c \in Caller : pc[c] = "touch" /\ pc'[c] = "idle" /\ out'[c] = "ok" =>
         \A r \in RelationsOf(call[c].type) :
            Relation[r].touch /\ call[c].asg[r] \in Row => stamp[call[c].asg[r]] >= call[c].at
<1>1. Inv /\ CallInv /\ [Next]_vars => [Step]_vars
  <2> SUFFICES ASSUME CallInv, Next, NEW c \in Caller, pc[c] = "touch", pc'[c] = "idle", out'[c] = "ok",
                      NEW r \in RelationsOf(call[c].type), Relation[r].touch, call[c].asg[r] \in Row
               PROVE  stamp[call[c].asg[r]] >= call[c].at
    BY DEF vars
  <2>1. PICK d \in Caller : BeginSave(d) \/ BeginDelete(d) \/ Steps(d) \/ Fail(d)
    BY DEF Next
  <2>2. todo[c] = {}
    BY <2>1 DEF BeginSave, BeginDelete, Steps, Fail, Save, Touch, SaveReturns, NotFound, Enumerate, DeleteChildren,
                NextHook, Delete, Overflow, InHook, Returns, CallInv, TypeInv
  <2>3. TouchTarget(call[c], r) = call[c].asg[r] /\ r \in Touches(call[c])
    BY PolyParameters DEF TouchTarget, Touches
  <2> QED  BY <2>2, <2>3 DEF CallInv, Touched
<1> QED  BY InitInv, NextInv, InitTypes, NextTypes, <1>1, PTL DEF Spec, SavedIsTouched

---------------------------------------------------------------------------
(* The cascade hooks take children before their parents, on a plain client *)
(* between other callers' statements; in serializable transactions nobody  *)
(* ever sees an orphan.                                                    *)

\* Discriminators name parents of types their relation allows.
Allowed(S, f) ==
    \A x \in S : \A r \in RelationsOf(x[1]) : f[x][r] # NoRow => f[x][r][1] \in Relation[r].parents

AllowedInv ==
    /\ Allowed(live, ref)
    /\ \A u \in undo : Allowed(u.live, u.ref)
    /\ \A c \in Caller : pc[c] = "save" =>
          \A r \in RelationsOf(call[c].type) :
             call[c].asg[r] \in Row => call[c].asg[r][1] \in Relation[r].parents

LEMMA AllowedInit == Init => AllowedInv
  BY PolyParameters DEF Init, AllowedInv, Allowed

LEMMA AllowedUndone == ASSUME AllowedInv, Undone PROVE Allowed(live', ref')
<1>1. CASE undo = {}
  BY <1>1 DEF AllowedInv, Undone, Allowed
<1>2. CASE undo # {}
  <2>1. PICK u \in undo : live' = u.live /\ ref' = u.ref
    BY <1>2 DEF Undone
  <2> QED  BY <2>1 DEF AllowedInv, Allowed
<1> QED  BY <1>1, <1>2

LEMMA AllowedReturn ==
  ASSUME AllowedInv, CallInv, NEW c \in Caller, NEW result, Returns(c, result), Allowed(live', ref')
  PROVE  AllowedInv'
<1>1. \A d \in Caller : pc'[d] = "save" => pc[d] = "save" /\ call'[d] = call[d]
  BY DEF CallInv, TypeInv, Returns
<1> QED  BY <1>1 DEF AllowedInv, Allowed, Returns

\* A save stores what the setters let through.
LEMMA AllowedSave == ASSUME Inv, CallInv, AllowedInv, NEW c \in Caller, Save(c) PROVE AllowedInv'
<1> DEFINE m == call[c]
<1>1. Passed(m) /\ pc[c] = "save"
  BY DEF Save, Inv
<1>2. PICK x \in IF m.op = "create" THEN { y \in Row \ used : y[1] = m.type } ELSE {m.row} :
        /\ live' = live \cup Written(m, x)
        /\ ref' = [y \in Row |-> IF y \in Written(m, x) THEN Assigned(m, y) ELSE ref[y]]
  BY Zenon DEF Save
<1>3. \A r \in RelationsOf(m.type) : m.asg[r] \in Row => m.asg[r][1] \in Relation[r].parents
  BY <1>1 DEF AllowedInv
<1> HIDE DEF m
<1>4. \A y \in Written(m, x) : y \in Row /\ y[1] = m.type /\ (m.op # "create" => y \in live)
  <2>1. CASE m.op = "create"
    BY <1>2, <2>1 DEF Written
  <2>2. CASE m.op = "update"
    BY <1>2, <2>2 DEF Written, Inv, Filled
  <2>3. CASE m.op \in {"updateOne", "updateOneID"}
    BY <1>1, <1>2, <2>3 DEF Written, Inv, Filled, Passed
  <2> QED  BY <1>1, <2>1, <2>2, <2>3 DEF Passed, Forms
<1>5. ASSUME NEW y \in live', NEW r \in RelationsOf(y[1]), ref'[y][r] # NoRow
      PROVE  ref'[y][r][1] \in Relation[r].parents
  <2>0. r \in Rels /\ live \subseteq Row /\ ref \in [Row -> [Rels -> Row \cup {NoRow}]]
    BY DEF RelationsOf, CallInv, TypeInv, Stored
  <2>1. CASE y \in Written(m, x)
    <3>1. ref'[y] = Assigned(m, y) /\ y[1] = m.type
      BY <1>2, <1>4, <2>1
    <3>2. CASE m.asg[r] # Keep
      <4>1. m.asg[r] \in Row
        BY <1>1, <1>5, <2>0, <3>1, <3>2 DEF Assigned, Passed
      <4> QED  BY <1>3, <1>5, <2>0, <3>1, <3>2, <4>1 DEF Assigned
    <3>3. CASE m.asg[r] = Keep
      <4>1. m.op # "create" /\ ref'[y][r] = ref[y][r]
        BY <1>5, <2>0, <3>1, <3>3 DEF Assigned
      <4> QED  BY <1>4, <1>5, <2>1, <4>1 DEF AllowedInv, Allowed
    <3> QED  BY <3>2, <3>3
  <2>2. CASE y \notin Written(m, x)
    BY <1>2, <1>5, <2>0, <2>2 DEF AllowedInv, Allowed
  <2> QED  BY <2>1, <2>2
<1>6. \A d \in Caller : pc'[d] = "save" => pc[d] = "save"
  BY DEF Save, CallInv, TypeInv
<1>7. UNCHANGED <<undo, call>>
  BY DEF Save
<1> QED  BY <1>5, <1>6, <1>7 DEF AllowedInv, Allowed

LEMMA AllowedBegin ==
  ASSUME AllowedInv, CallInv, NEW c \in Caller, BeginSave(c) \/ BeginDelete(c)
  PROVE  AllowedInv'
<1>1. UNCHANGED <<live, ref>> /\ undo' \subseteq {[live |-> live, ref |-> ref, stamp |-> stamp]}
  BY DEF BeginSave, BeginDelete, Opens, db
<1>2. ASSUME NEW d \in Caller, pc'[d] = "save", NEW r \in RelationsOf(call'[d].type), call'[d].asg[r] \in Row
      PROVE  call'[d].asg[r][1] \in Relation[r].parents
  <2>1. CASE d # c \/ BeginDelete(c)
    <3>1. pc[d] = "save" /\ call'[d] = call[d]
      BY <1>2, <2>1 DEF BeginSave, BeginDelete, CallInv, TypeInv
    <3> QED  BY <1>2, <3>1 DEF AllowedInv
  <2>2. CASE d = c /\ BeginSave(c)
    <3>1. PICK op \in SaveForms[c], type \in { Relation[q].child : q \in Rels } :
            \E asg \in Assignments(type), x \in Named(op, type) :
              call' = [call EXCEPT ![c] = NewMutation(op, type, x, asg)]
      BY <2>2, Zenon DEF BeginSave
    <3>2. PICK asg \in Assignments(type), x \in Named(op, type) :
              call' = [call EXCEPT ![c] = NewMutation(op, type, x, asg)]
      BY Zenon, <3>1
    <3>3. call'[d] = NewMutation(op, type, x, asg)
      BY <2>2, <3>2 DEF CallInv, TypeInv
    <3>4. call'[d].asg = asg
      BY <3>3 DEF NewMutation
    <3>5. r \in Rels /\ asg[r] \in Row
      BY <1>2, <3>4 DEF RelationsOf
    <3> QED  BY <3>4, <3>5, PolyParameters DEF Assignments
  <2> QED  BY <2>1, <2>2
<1> QED  BY <1>1, <1>2 DEF AllowedInv, Allowed

\* Steps that leave the rows or only remove some.
LEMMA AllowedQuiet ==
  ASSUME AllowedInv, live' \subseteq live, UNCHANGED <<ref, undo, pc, call>>
  PROVE  AllowedInv'
  BY DEF AllowedInv, Allowed

LEMMA AllowedNext == Inv /\ CallInv /\ AllowedInv /\ [Next]_vars => AllowedInv'
<1> SUFFICES ASSUME Inv, CallInv, AllowedInv, [Next]_vars PROVE AllowedInv'
  OBVIOUS
<1>1. ASSUME NEW c \in Caller, BeginSave(c) \/ BeginDelete(c) PROVE AllowedInv'
  BY <1>1, AllowedBegin
<1>2. ASSUME NEW c \in Caller, Steps(c) PROVE AllowedInv'
  <2>1. CASE Save(c)
    BY <2>1, AllowedSave
  <2>2. CASE Touch(c) \/ Enumerate(c) \/ DeleteChildren(c) \/ NextHook(c)
    BY <2>2, AllowedQuiet DEF Touch, Enumerate, DeleteChildren, NextHook, db
  <2>3. CASE SaveReturns(c)
    <3>1. Returns(c, "ok") /\ Allowed(live', ref')
      BY <2>3 DEF SaveReturns, db, AllowedInv
    <3> QED  BY <3>1, AllowedReturn
  <2>4. CASE NotFound(c) \/ Overflow(c)
    <3>1. PICK result : Returns(c, result) /\ Undone
      BY <2>4 DEF NotFound, Overflow
    <3> QED  BY <3>1, AllowedReturn, AllowedUndone
  <2>5. CASE Delete(c)
    <3>1. live' \subseteq live /\ ref' = ref
      BY <2>5 DEF Delete
    <3>2. CASE Returns(c, "ok")
      <4>1. Allowed(live', ref')
        BY <3>1 DEF AllowedInv, Allowed
      <4> QED  BY <3>2, <4>1, AllowedReturn
    <3>3. CASE UNCHANGED <<undo, pc, call>>
      BY <3>1, <3>3, AllowedQuiet
    <3> QED  BY <2>5, <3>2, <3>3 DEF Delete
  <2> QED  BY <1>2, <2>1, <2>2, <2>3, <2>4, <2>5 DEF Steps
<1>3. ASSUME NEW c \in Caller, Fail(c) PROVE AllowedInv'
  <2>1. Returns(c, "error") /\ Undone
    BY <1>3 DEF Fail
  <2> QED  BY <2>1, AllowedReturn, AllowedUndone
<1>4. CASE UNCHANGED vars
  BY <1>4, AllowedQuiet DEF vars
<1> QED  BY <1>1, <1>2, <1>3, <1>4 DEF Next

----------------------------------------------------------------------------
(***************************************************************************)
(* What the nested deletes of a call have dealt with.                      *)
(***************************************************************************)
\* Children of p by relation r have still to go: the frame has not left the hook
\* of r, and if that hook enumerated its ids, p is one of them or the one the
\* frame above was begun for.
Waits(f, r, p, pending) ==
    /\ r \in f.hooks
    /\ r \in Outermost(f.hooks) /\ f.ids # Unread => p \in f.ids \cup pending

Pending(s, i) == IF i = 1 THEN {} ELSE s[i - 1].sel.rows

\* A child that hangs on a row some frame is about to remove waits for that
\* frame, unless another caller saved one of the two meanwhile.
FrameHandled(c, i) ==
    \A x \in live \ late[c] : \A r \in RelationsOf(x[1]) :
        /\ Relation[r].cascade
        /\ ref[x][r] \in Selected(stack[c][i].type, stack[c][i].sel) \ late[c]
        => Waits(stack[c][i], r, ref[x][r], Pending(stack[c], i))

\* A frame was begun by the hook the frame below is in.
FrameChained(s, i) ==
    /\ s[i].one => s[i].sel.rel = 0
    /\ i > 1 => /\ s[i - 1].sel.rel \in Outermost(s[i].hooks)
                /\ s[i - 1].type = Relation[s[i - 1].sel.rel].child

ChildrenHandled(c) ==
    pc[c] = "delete" => \A i \in 1 .. Len(stack[c]) : FrameHandled(c, i) /\ FrameChained(stack[c], i)

\* In a transaction, a delete has only removed rows.
Shrunk == \A c \in Caller, u \in undo : pc[c] = "delete" => live \subseteq u.live

\* Everything but late saves stands still for a delete while others act, or is removed.
LEMMA HandledByOthers ==
  ASSUME CallInv, NEW c \in Caller, ChildrenHandled(c), pc[c] = "delete", stack'[c] = stack[c],
         late[c] \subseteq late'[c], live' \ late'[c] \subseteq live,
         \A x \in live' \ late'[c] : ref'[x] = ref[x]
  PROVE  ChildrenHandled(c)'
<1> SUFFICES ASSUME NEW i \in 1 .. Len(stack[c]) PROVE FrameHandled(c, i)' /\ FrameChained(stack'[c], i)
  BY DEF ChildrenHandled
<1>1. FrameChained(stack'[c], i)
  BY DEF ChildrenHandled
<1>2. ASSUME NEW x \in live' \ late'[c], NEW r \in RelationsOf(x[1]), Relation[r].cascade,
             ref'[x][r] \in Selected(stack[c][i].type, stack[c][i].sel)' \ late'[c]
      PROVE  Waits(stack[c][i], r, ref'[x][r], Pending(stack[c], i))
  <2>1. x \in live \ late[c] /\ ref'[x] = ref[x]
    OBVIOUS
  <2>2. ref[x][r] \in Selected(stack[c][i].type, stack[c][i].sel) \ late[c]
    BY <1>2, <2>1 DEF Selected
  <2> QED  BY <1>2, <2>1, <2>2 DEF ChildrenHandled, FrameHandled
<1> QED  BY <1>1, <1>2 DEF FrameHandled

LEMMA HandledEnumerate ==
  ASSUME CallInv, NEW c \in Caller, ChildrenHandled(c), Enumerate(c)
  PROVE  ChildrenHandled(c)'
<1> DEFINE s == stack[c]
           t == stack'[c]
           ids == IF Top(c).one THEN Top(c).sel.rows ELSE Selected(Top(c).type, Top(c).sel)
<1>1. pc[c] = "delete" /\ UNCHANGED <<live, ref, late, pc>> /\ Top(c) = s[1]
  BY TopTyped DEF Enumerate, InHook, db
<1>2. t = [s EXCEPT ![1].ids = ids]
  BY DEF Enumerate, CallInv, TypeInv
<1> HIDE DEF ids
<1>3. Len(t) = Len(s) /\ \A i \in 1 .. Len(s) : s[i] \in Frames /\ (i # 1 => t[i] = s[i])
  BY <1>1, <1>2, TopTyped
<1>4. t[1] = [s[1] EXCEPT !.ids = ids] /\ s[1] \in Frames
  BY <1>1, <1>2, TopTyped
<1>5. t[1].type = s[1].type /\ t[1].sel = s[1].sel /\ t[1].one = s[1].one /\ t[1].hooks = s[1].hooks /\ t[1].ids = ids
  BY <1>4 DEF Frames
<1> HIDE DEF s, t
<1>6. ASSUME NEW i \in 1 .. Len(s) PROVE FrameHandled(c, i)' /\ FrameChained(t, i)
  <2>1. FrameHandled(c, i) /\ FrameChained(s, i)
    BY <1>1 DEF ChildrenHandled, s
  <2>2. t[i].type = s[i].type /\ t[i].sel = s[i].sel /\ t[i].one = s[i].one /\ t[i].hooks = s[i].hooks
    BY <1>3, <1>5
  <2>3. i > 1 => t[i - 1].type = s[i - 1].type /\ t[i - 1].sel = s[i - 1].sel
    BY <1>3, <1>5
  <2>4. FrameChained(t, i)
    BY <2>1, <2>2, <2>3 DEF FrameChained
  <2>5. Pending(t, i) = Pending(s, i)
    BY <2>3 DEF Pending
  <2>6. ASSUME NEW x \in live \ late[c], NEW r \in RelationsOf(x[1]), Relation[r].cascade,
               ref[x][r] \in Selected(s[i].type, s[i].sel) \ late[c]
        PROVE  Waits(t[i], r, ref[x][r], Pending(t, i))
    <3>1. Waits(s[i], r, ref[x][r], Pending(s, i))
      BY <2>1, <2>6 DEF FrameHandled, s
    <3>2. CASE i # 1
      BY <1>3, <2>5, <3>1, <3>2
    <3>3. CASE i = 1
      <4>1. ref[x][r] \in ids
        BY <1>1, <2>1, <2>6, <3>3 DEF ids, Selected, FrameChained
      <4> QED  BY <1>5, <2>2, <3>1, <3>3, <4>1 DEF Waits
    <3> QED  BY <3>2, <3>3
  <2> QED  BY <1>1, <2>2, <2>4, <2>6 DEF FrameHandled, Selected, t
<1> QED  BY <1>1, <1>3, <1>6 DEF ChildrenHandled, t

LEMMA HandledNextHook ==
  ASSUME CallInv, NEW c \in Caller, ChildrenHandled(c), NextHook(c)
  PROVE  ChildrenHandled(c)'
<1> DEFINE s == stack[c]
           t == stack'[c]
           hooks == Top(c).hooks \ Outermost(Top(c).hooks)
           f == [s[1] EXCEPT !.ids = Unread, !.hooks = hooks]
<1>1. pc[c] = "delete" /\ UNCHANGED <<live, ref, late, pc>> /\ Top(c) = s[1] /\ Top(c).ids = {}
  BY TopTyped DEF NextHook, InHook, db
<1>2. t = [s EXCEPT ![1] = f]
  <2>1. t = [s EXCEPT ![1].ids = Unread, ![1].hooks = @ \ Outermost(@)]
    BY DEF NextHook, CallInv, TypeInv
  <2> QED  BY <1>1, <2>1, TopTyped
<1>4. s[1] \in Frames /\ Len(s) \in Nat \ {0} /\ s \in Seq(Frames)
  BY <1>1, TopTyped
<1> HIDE DEF hooks
<1>3. Len(t) = Len(s) /\ \A i \in 1 .. Len(s) : s[i] \in Frames /\ (i # 1 => t[i] = s[i])
  BY <1>1, <1>2, TopTyped
<1>8. t[1] = f
  <2> HIDE DEF f
  <2> QED  BY <1>2, <1>4
<1>5. t[1].type = s[1].type /\ t[1].sel = s[1].sel /\ t[1].one = s[1].one /\ t[1].hooks = hooks /\ t[1].ids = Unread
  BY <1>4, <1>8 DEF Frames
<1> HIDE DEF s, t
<1>6. ASSUME NEW i \in 1 .. Len(s) PROVE FrameHandled(c, i)' /\ FrameChained(t, i)
  <2>1. FrameHandled(c, i) /\ FrameChained(s, i)
    BY <1>1 DEF ChildrenHandled, s
  <2>2. t[i].type = s[i].type /\ t[i].sel = s[i].sel /\ t[i].one = s[i].one
    BY <1>3, <1>5
  <2>3. i > 1 => t[i - 1].type = s[i - 1].type /\ t[i - 1].sel = s[i - 1].sel
    BY <1>3, <1>5
  <2>4. FrameChained(t, i)
    BY <1>3, <2>1, <2>2, <2>3 DEF FrameChained
  <2>5. Pending(t, i) = Pending(s, i)
    BY <2>3 DEF Pending
  <2>6. ASSUME NEW x \in live \ late[c], NEW r \in RelationsOf(x[1]), Relation[r].cascade,
               ref[x][r] \in Selected(s[i].type, s[i].sel) \ late[c]
        PROVE  Waits(t[i], r, ref[x][r], Pending(t, i))
    <3>1. Waits(s[i], r, ref[x][r], Pending(s, i))
      BY <2>1, <2>6 DEF FrameHandled, s
    <3>2. CASE i # 1
      BY <1>3, <2>5, <3>1, <3>2
    <3>3. CASE i = 1
      <4>1. r \notin Outermost(s[1].hooks)
        BY <1>1, <3>1, <3>3 DEF Waits, Pending, Unread
      <4> QED  BY <1>1, <1>5, <3>1, <3>3, <4>1 DEF Waits, hooks
    <3> QED  BY <3>2, <3>3
  <2> QED  BY <1>1, <2>2, <2>4, <2>6 DEF FrameHandled, Selected, t
<1> QED  BY <1>1, <1>3, <1>6 DEF ChildrenHandled, t

\* A frame that has done nothing leaves every child waiting.
LEMMA NewFrameWaits ==
  ASSUME AllowedInv, CallInv, NEW type, NEW sel, NEW one, NEW pending,
         NEW x \in live, NEW r \in RelationsOf(x[1]), Relation[r].cascade, ref[x][r] \in Selected(type, sel)
  PROVE  Waits(Frame(type, sel, one), r, ref[x][r], pending)
<1>1. ref[x][r] \in Row /\ ref[x][r][1] = type /\ r \in Rels
  BY DEF Selected, CallInv, TypeInv, Stored, RelationsOf
<1>2. type \in Relation[r].parents
  BY <1>1, PolyParameters DEF AllowedInv, Allowed
<1> QED  BY <1>1, <1>2 DEF Waits, Frame, CascadeHooks

\* What a frame has dealt with is told by the frame, what is pending and the rows.
LEMMA FramePrime ==
  ASSUME NEW c \in Caller, live' \subseteq live, UNCHANGED <<ref, late>>, NEW i, NEW f, NEW pending,
         stack'[c][i] = f, Pending(stack'[c], i) = pending,
         \A x \in live' \ late[c] : \A r \in RelationsOf(x[1]) :
            Relation[r].cascade /\ ref[x][r] \in Selected(f.type, f.sel) \ late[c]
               => Waits(f, r, ref[x][r], pending)
  PROVE  FrameHandled(c, i)'
<1>1. Selected(f.type, f.sel)' \subseteq Selected(f.type, f.sel)
  BY DEF Selected
<1> QED  BY <1>1 DEF FrameHandled

\* One hook is the outermost.
LEMMA OutermostUnique ==
  ASSUME NEW hooks \in SUBSET Rels, NEW q \in Outermost(hooks), NEW r \in Outermost(hooks)
  PROVE  q = r
<1>1. q \in Nat /\ r \in Nat /\ q <= r /\ r <= q
  BY PolyParameters DEF Outermost
<1> QED  BY <1>1

LEMMA HandledDeleteChildren ==
  ASSUME AllowedInv, CallInv, NEW c \in Caller, ChildrenHandled(c), DeleteChildren(c)
  PROVE  ChildrenHandled(c)'
<1> DEFINE s == stack[c]
           t == stack'[c]
<1>1. pc[c] = "delete" /\ UNCHANGED <<live, ref, late, pc>> /\ Top(c) = s[1] /\ Top(c).ids # Unread
  BY TopTyped DEF DeleteChildren, InHook, db
<1>2. PICK h \in Outermost(Top(c).hooks), p \in Top(c).ids :
          stack' = [stack EXCEPT ![c] =
            <<Frame(Relation[h].child, [rel |-> h, rows |-> {p}], FALSE)>>
            \o <<[Top(c) EXCEPT !.ids = @ \ {p}]>> \o Tail(@)]
  BY DEF DeleteChildren
<1>0. PICK f, g : f = Frame(Relation[h].child, [rel |-> h, rows |-> {p}], FALSE) /\ g = [Top(c) EXCEPT !.ids = @ \ {p}]
  OBVIOUS
<1>3. t = <<f>> \o <<g>> \o Tail(s)
  BY <1>0, <1>2 DEF CallInv, TypeInv
<1>4. f.type = Relation[h].child /\ f.sel = [rel |-> h, rows |-> {p}] /\ ~ f.one
  BY <1>0 DEF Frame
<1>5. g.type = s[1].type /\ g.sel = s[1].sel /\ g.one = s[1].one /\ g.hooks = s[1].hooks /\ g.ids = s[1].ids \ {p}
  BY <1>0, <1>1, TopTyped DEF Frames
<1>6. Len(t) = Len(s) + 1 /\ Len(s) \in Nat /\ t[1] = f /\ t[2] = g /\ \A i \in 3 .. Len(t) : t[i] = s[i - 1]
  BY <1>1, <1>3, TopTyped
<1> HIDE DEF s, t
<1>7. ASSUME NEW i \in 1 .. Len(t) PROVE FrameHandled(c, i)' /\ FrameChained(t, i)
  <2>1. CASE i = 1
    <3>1. FrameChained(t, i)
      BY <1>4, <1>6, <2>1 DEF FrameChained
    <3>2. FrameHandled(c, i)'
      <4>1. t[i] = f /\ Pending(t, i) = {}
        BY <1>6, <2>1 DEF Pending
      <4>2. ASSUME NEW x \in live, NEW r \in RelationsOf(x[1]), Relation[r].cascade,
                   ref[x][r] \in Selected(f.type, f.sel)
            PROVE  Waits(f, r, ref[x][r], {})
        BY <1>0, <1>4, <4>2, NewFrameWaits
      <4> QED  BY <1>1, <4>1, <4>2, FramePrime DEF t
    <3> QED  BY <3>1, <3>2
  <2>2. CASE i = 2
    <3>1. FrameHandled(c, 1) /\ FrameChained(s, 1)
      BY <1>1, TopTyped DEF ChildrenHandled, s
    <3>2. FrameChained(t, i)
      BY <1>1, <1>4, <1>5, <1>6, <2>2, <3>1 DEF FrameChained
    <3>3. ASSUME NEW x \in live \ late[c], NEW r \in RelationsOf(x[1]), Relation[r].cascade,
                 ref[x][r] \in Selected(s[1].type, s[1].sel) \ late[c]
          PROVE  Waits(g, r, ref[x][r], {p})
      <4>1. Waits(s[1], r, ref[x][r], Pending(s, 1))
        BY <3>1, <3>3 DEF FrameHandled, s
      <4> QED  BY <1>1, <1>5, <4>1 DEF Waits, Pending
    <3>4. Pending(t, 2) = {p} /\ t[i] = g
      BY <1>4, <1>6, <2>2 DEF Pending
    <3> QED  BY <1>1, <1>5, <2>2, <3>2, <3>3, <3>4, FramePrime DEF t
  <2>3. CASE i > 2
    <3>1. i - 1 \in 1 .. Len(s) /\ i - 1 # 1 /\ t[i] = s[i - 1]
      BY <1>6, <2>3
    <3>2. FrameHandled(c, i - 1) /\ FrameChained(s, i - 1)
      BY <1>1, <3>1 DEF ChildrenHandled, s
    <3>3. t[i - 1].type = s[i - 1 - 1].type /\ t[i - 1].sel = s[i - 1 - 1].sel
      BY SMTT(30), <1>5, <1>6, <2>3
    <3>4. FrameChained(t, i)
      BY <2>3, <3>1, <3>2, <3>3 DEF FrameChained
    <3>5. Pending(t, i) = Pending(s, i - 1)
      BY <2>3, <3>1, <3>3 DEF Pending
    <3> QED  BY <1>1, <3>1, <3>2, <3>4, <3>5 DEF FrameHandled, Selected, s, t
  <2> QED  BY <2>1, <2>2, <2>3
<1> QED  BY <1>1, <1>7 DEF ChildrenHandled, t

\* The children of the row it was begun for are gone when a nested delete returns.
LEMMA HandledDelete ==
  ASSUME CallInv, NEW c \in Caller, ChildrenHandled(c), Delete(c)
  PROVE  ChildrenHandled(c)'
<1>1. CASE Len(stack[c]) = 1
  <2>1. pc'[c] = "idle"
    BY <1>1 DEF Delete, Returns, CallInv, TypeInv
  <2> QED  BY <2>1 DEF ChildrenHandled
<1>2. CASE Len(stack[c]) # 1
  <2> DEFINE s == stack[c]
             t == stack'[c]
  <2>1. /\ pc[c] = "delete" /\ UNCHANGED <<ref, late, pc>> /\ Top(c) = s[1]
        /\ live' = live \ Selected(s[1].type, s[1].sel)
    BY <1>2, TopTyped DEF Delete
  <2>2. t = Tail(s) /\ s \in Seq(Frames) /\ Len(s) \in Nat \ {0}
    BY SMTT(30), <1>2, <2>1, TopTyped DEF Delete, CallInv, TypeInv
  <2>3. Len(t) = Len(s) - 1 /\ \A i \in 1 .. Len(t) : t[i] = s[i + 1] /\ i + 1 \in 1 .. Len(s) /\ s[i + 1] \in Frames
    <3> HIDE DEF s, t
    <3> QED  BY <2>2
  <2>4. s[1] \in Frames
    BY <2>2
  <2>5. ASSUME NEW i \in 1 .. Len(t) PROVE FrameHandled(c, i)' /\ FrameChained(t, i)
    <3>0. i > 1 => t[i - 1] = s[i]
      <4> SUFFICES ASSUME i > 1 PROVE t[i - 1] = s[i]
        OBVIOUS
      <4>1. i - 1 \in 1 .. Len(t) /\ i - 1 + 1 = i
        BY <2>2, <2>3
      <4> HIDE DEF s, t
      <4> QED  BY <2>3, <4>1
    <3>1. FrameHandled(c, i + 1) /\ FrameChained(s, i + 1) /\ t[i] = s[i + 1]
      BY <2>1, <2>3 DEF ChildrenHandled
    <3>2. i + 1 > 1 /\ i + 1 - 1 = i /\ i + 1 # 1
      BY <2>3
    <3> HIDE DEF s, t
    <3>3. FrameChained(t, i)
      BY <3>0, <3>1, <3>2 DEF FrameChained
    <3>4. ASSUME NEW x \in live' \ late[c], NEW r \in RelationsOf(x[1]), Relation[r].cascade,
                 ref[x][r] \in Selected(t[i].type, t[i].sel) \ late[c]
          PROVE  Waits(t[i], r, ref[x][r], Pending(t, i))
      <4>1. Waits(s[i + 1], r, ref[x][r], s[i].sel.rows)
        BY <2>1, <3>1, <3>2, <3>4 DEF FrameHandled, Pending, s
      <4>2. CASE i > 1
        BY <3>0, <3>1, <4>1, <4>2 DEF Pending
      <4>3. CASE i = 1
        <5>1. s[1].sel.rel \in Outermost(s[2].hooks) /\ s[1].type = Relation[s[1].sel.rel].child
          BY <3>1, <4>3 DEF FrameChained
        <5>2. r \in Rels /\ x[1] = Relation[r].child /\ s[2] \in Frames
          BY <2>3, <4>3 DEF RelationsOf
        <5>3. ASSUME r \in Outermost(s[2].hooks), ref[x][r] \in s[1].sel.rows PROVE FALSE
          <6>1. r = s[1].sel.rel
            <7>1. s[2].hooks \in SUBSET Rels
              BY <5>2, FrameParts
            <7> QED  BY <5>1, <5>3, <7>1, OutermostUnique
          <6>2. r # 0
            BY <5>2, PolyParameters
          <6> QED  BY <2>1, <3>4, <5>1, <5>2, <5>3, <6>1, <6>2 DEF Selected
        <5> QED  BY <3>1, <4>1, <4>3, <5>3 DEF Waits, Pending
      <4> QED  BY <4>2, <4>3
    <3>5. live' \subseteq live
      BY <2>1
    <3>6. PICK f, pending : f = t[i] /\ pending = Pending(t, i)
      OBVIOUS
    <3>7. FrameHandled(c, i)'
      BY <2>1, <3>4, <3>5, <3>6, FramePrime DEF t
    <3> QED  BY <3>3, <3>7
  <2> QED  BY <2>1, <2>5 DEF ChildrenHandled
<1> QED  BY <1>1, <1>2

LEMMA HandledBegin ==
  ASSUME AllowedInv, CallInv, NEW c \in Caller, BeginDelete(c)
  PROVE  ChildrenHandled(c)'
<1>1. PICK op, type, S :
          stack' = [stack EXCEPT ![c] = <<Frame(type, [rel |-> 0, rows |-> S], op = "deleteOne")>>]
  <2>1. PICK op \in DeleteForms[c], type \in UNION { Relation[r].parents : r \in Rels } :
       \E S \in IF op = "delete" THEN { { x \in Row : x[1] = type } }
                ELSE { {x} : x \in { y \in used : y[1] = type } } :
          /\ call' = [call EXCEPT ![c] = [op |-> op, roots |-> S \cap live, before |-> live]]
          /\ stack' = [stack EXCEPT ![c] = <<Frame(type, [rel |-> 0, rows |-> S], op = "deleteOne")>>]
    BY Zenon DEF BeginDelete
  <2>2. PICK S \in IF op = "delete" THEN { { x \in Row : x[1] = type } }
                   ELSE { {x} : x \in { y \in used : y[1] = type } } :
          stack' = [stack EXCEPT ![c] = <<Frame(type, [rel |-> 0, rows |-> S], op = "deleteOne")>>]
    BY Zenon, <2>1
  <2> QED  BY Zenon, <2>2
<1>2. PICK f, sel, one : f = Frame(type, sel, one) /\ sel = [rel |-> 0, rows |-> S] /\ one = (op = "deleteOne")
  OBVIOUS
<1>3. stack'[c] = <<f>> /\ Len(stack'[c]) = 1 /\ stack'[c][1] = f
  BY <1>1, <1>2 DEF CallInv, TypeInv
<1>4. UNCHANGED <<live, ref, late>> /\ f.type = type /\ f.sel = sel /\ sel.rel = 0
  BY <1>2 DEF BeginDelete, db, Frame
<1>5. FrameChained(stack'[c], 1)
  BY <1>3, <1>4 DEF FrameChained
<1>6. FrameHandled(c, 1)'
  <2>1. ASSUME NEW x \in live, NEW r \in RelationsOf(x[1]), Relation[r].cascade,
               ref[x][r] \in Selected(f.type, f.sel)
        PROVE  Waits(f, r, ref[x][r], {})
    BY <1>2, <1>4, <2>1, NewFrameWaits
  <2>2. Pending(stack'[c], 1) = {}
    BY DEF Pending
  <2>3. \A x \in live' \ late[c] : \A r \in RelationsOf(x[1]) :
           Relation[r].cascade /\ ref[x][r] \in Selected(f.type, f.sel) \ late[c]
              => Waits(f, r, ref[x][r], {})
    BY <1>4, <2>1
  <2>4. live' \subseteq live /\ UNCHANGED <<ref, late>>
    BY <1>4
  <2> QED  BY <1>3, <2>2, <2>3, <2>4, FramePrime
<1> QED  BY <1>3, <1>5, <1>6 DEF ChildrenHandled

\* The steps of one caller.
Acts(c) == BeginSave(c) \/ BeginDelete(c) \/ Steps(c) \/ Fail(c)

\* What another caller's step does to a delete in progress.
LEMMA OthersMove ==
  ASSUME CallInv, NEW c \in Caller, NEW d \in Caller, d # c, pc[c] = "delete", Acts(d)
  PROVE  /\ stack'[c] = stack[c] /\ late[c] \subseteq late'[c] /\ live' \ late'[c] \subseteq live
         /\ \A x \in live' \ late'[c] : ref'[x] = ref[x]
<1>1. CASE BeginSave(d) \/ BeginDelete(d) \/ Touch(d) \/ Enumerate(d) \/ DeleteChildren(d) \/ NextHook(d)
  BY <1>1 DEF BeginSave, BeginDelete, Touch, Enumerate, DeleteChildren, NextHook, db, CallInv, TypeInv
<1>2. ASSUME NEW result, Returns(d, result)
      PROVE  stack'[c] = stack[c] /\ late'[c] = late[c]
  BY <1>2 DEF Returns, CallInv, TypeInv
<1>3. ASSUME pc[d] # "idle", Undone PROVE UNCHANGED <<live, ref>>
  BY <1>3 DEF Undone, CallInv, Exclusive
<1>4. CASE SaveReturns(d)
  BY <1>2, <1>4 DEF SaveReturns, db
<1>5. CASE NotFound(d) \/ Overflow(d) \/ Fail(d)
  <2>1. (\E result : Returns(d, result)) /\ Undone /\ pc[d] # "idle"
    BY <1>5 DEF NotFound, Overflow, Fail, InHook
  <2> QED  BY <1>2, <1>3, <2>1
<1>6. CASE Delete(d)
  <2>1. live' \subseteq live /\ ref' = ref
    BY <1>6 DEF Delete
  <2>2. stack'[c] = stack[c] /\ late'[c] = late[c]
    <3>1. CASE Len(stack[d]) = 1
      BY <1>2, <1>6, <3>1 DEF Delete
    <3>2. CASE Len(stack[d]) # 1
      BY <1>6, <3>2 DEF Delete, CallInv, TypeInv
    <3> QED  BY <3>1, <3>2
  <2> QED  BY <2>1, <2>2
<1>7. CASE Save(d)
  <2>1. PICK rows :
          /\ live' = live \cup rows
          /\ ref' = [y \in Row |-> IF y \in rows THEN Assigned(call[d], y) ELSE ref[y]]
          /\ late' = [e \in Caller |-> IF pc[e] = "delete" THEN late[e] \cup rows ELSE {}]
    BY <1>7, Zenon DEF Save
  <2>2. late'[c] = late[c] \cup rows /\ stack'[c] = stack[c] /\ live \subseteq Row
    BY <1>7, <2>1 DEF Save, CallInv, TypeInv, Stored
  <2> QED  BY <2>1, <2>2
<1> QED  BY <1>1, <1>4, <1>5, <1>6, <1>7 DEF Acts, Steps

LEMMA DeleteInvNext ==
  ASSUME CallInv, AllowedInv, CallInv', NEW c \in Caller, ChildrenHandled(c), [Next]_vars
  PROVE  ChildrenHandled(c)'
<1>1. ASSUME NEW d \in Caller, d # c, Acts(d) PROVE ChildrenHandled(c)'
  <2>1. pc'[c] = "delete" => pc[c] = "delete"
    BY <1>1 DEF Acts, BeginSave, BeginDelete, Steps, Fail, Save, Touch, SaveReturns, NotFound, Enumerate, DeleteChildren,
                NextHook, Delete, Overflow, Returns, CallInv, TypeInv
  <2> QED  BY <1>1, <2>1, OthersMove, HandledByOthers DEF ChildrenHandled
<1>2. ASSUME Acts(c) PROVE ChildrenHandled(c)'
  <2>1. CASE BeginSave(c) \/ Save(c) \/ Touch(c) \/ SaveReturns(c) \/ NotFound(c) \/ Overflow(c) \/ Fail(c)
    <3>1. pc'[c] # "delete"
      BY <2>1 DEF BeginSave, Save, Touch, SaveReturns, NotFound, Overflow, Fail, Returns, CallInv, TypeInv
    <3> QED  BY <3>1 DEF ChildrenHandled
  <2> QED  BY <1>2, <2>1, HandledBegin, HandledEnumerate, HandledDeleteChildren, HandledNextHook, HandledDelete
           DEF Acts, Steps
<1>3. CASE UNCHANGED vars
  BY <1>3, HandledByOthers DEF vars, ChildrenHandled
<1> QED  BY <1>1, <1>2, <1>3 DEF Next, Acts

\* With a transaction only its caller moves, and a delete only removes rows.
LEMMA ShrunkNext == CallInv /\ CallInv' /\ Shrunk /\ [Next]_vars => Shrunk'
<1> SUFFICES ASSUME CallInv, CallInv', Shrunk, [Next]_vars, NEW c \in Caller, NEW u \in undo', pc'[c] = "delete"
             PROVE  live' \subseteq u.live
  BY DEF Shrunk
<1>1. Transactional
  BY DEF CallInv, Exclusive
<1>2. CASE UNCHANGED vars
  BY <1>2 DEF vars, Shrunk
<1>3. ASSUME NEW d \in Caller, Acts(d) PROVE live' \subseteq u.live
  <2>1. CASE BeginSave(d) \/ BeginDelete(d)
    <3>1. undo' = {[live |-> live, ref |-> ref, stamp |-> stamp]} /\ live' = live
      BY <1>1, <2>1 DEF BeginSave, BeginDelete, Opens, db
    <3> QED  BY <3>1
  <2>2. CASE Save(d)
    <3>1. pc[d] = "save" /\ pc' = [pc EXCEPT ![d] = "touch"]
      BY <2>2 DEF Save
    <3>2. d # c /\ pc[c] = "delete"
      BY <3>1 DEF CallInv, TypeInv
    <3> QED  BY <1>1, <3>1, <3>2 DEF CallInv, Exclusive
  <2>3. CASE Touch(d) \/ Enumerate(d) \/ DeleteChildren(d) \/ NextHook(d)
    BY <2>3 DEF Touch, Enumerate, DeleteChildren, NextHook, db, Shrunk
  <2>4. CASE SaveReturns(d) \/ NotFound(d) \/ Overflow(d) \/ Fail(d)
    BY <2>4 DEF SaveReturns, NotFound, Overflow, Fail, Returns
  <2>5. CASE Delete(d)
    <3>1. live' \subseteq live /\ UNCHANGED <<undo, pc>>
      BY <2>5 DEF Delete, Returns
    <3> QED  BY <3>1 DEF Shrunk
  <2> QED  BY <1>3, <2>1, <2>2, <2>3, <2>4, <2>5 DEF Acts, Steps
<1> QED  BY <1>2, <1>3 DEF Next, Acts

HooksInv == Inv /\ CallInv /\ AllowedInv /\ Shrunk /\ \A c \in Caller : ChildrenHandled(c)

LEMMA HooksInit == Init => HooksInv
<1>1. Init => Shrunk /\ \A c \in Caller : ChildrenHandled(c)
  BY DEF Init, Shrunk, ChildrenHandled
<1> QED  BY <1>1, InitInv, InitTypes, AllowedInit DEF HooksInv

LEMMA HooksNext == HooksInv /\ [Next]_vars => HooksInv'
  BY NextInv, NextTypes, AllowedNext, ShrunkNext, DeleteInvNext DEF HooksInv

\* A row a delete removes leaves no child behind that was attached before the
\* delete began, on a plain client too (the cascade hooks, polymorphic.tmpl 970-994).
THEOREM ChildrenAlwaysGoFirst == Spec => ChildrenGoFirst
<1> DEFINE Step == \A c \in Caller : pc[c] = "delete" /\ stack'[c] # stack[c] =>
         \A y \in (live \ live') \ late[c], x \in live' \ late[c] :
            \A r \in RelationsOf(x[1]) : Relation[r].cascade => ref[x][r] # y
<1>1. HooksInv /\ [Next]_vars => [Step]_vars
  <2> SUFFICES ASSUME HooksInv, Next, NEW c \in Caller, pc[c] = "delete", stack'[c] # stack[c],
                      NEW y \in (live \ live') \ late[c], NEW x \in live' \ late[c],
                      NEW r \in RelationsOf(x[1]), Relation[r].cascade, ref[x][r] = y
               PROVE  FALSE
    BY DEF vars
  <2>1. Acts(c)
    BY OthersMove DEF Next, Acts, HooksInv
  <2>2. CASE Delete(c)
    <3>1. Top(c) = stack[c][1] /\ 1 \in 1 .. Len(stack[c]) /\ Top(c).hooks = {}
      BY <2>2, TopTyped DEF Delete, InHook, HooksInv
    <3>2. y \in Selected(Top(c).type, Top(c).sel) /\ x \in live
      BY <2>2 DEF Delete
    <3>3. FrameHandled(c, 1)
      BY <3>1 DEF HooksInv, ChildrenHandled
    <3> QED  BY <3>1, <3>2, <3>3 DEF FrameHandled, Waits
  <2>3. CASE NotFound(c) \/ Overflow(c) \/ Fail(c)
    <3>1. Undone
      BY <2>3 DEF NotFound, Overflow, Fail
    <3>2. live \subseteq live'
      BY <3>1 DEF Undone, HooksInv, Shrunk
    <3> QED  BY <3>2
  <2>4. CASE BeginSave(c) \/ BeginDelete(c) \/ Save(c) \/ Touch(c) \/ SaveReturns(c)
    BY <2>4 DEF BeginSave, BeginDelete, Opens, Save, Touch, SaveReturns
  <2>5. CASE Enumerate(c) \/ DeleteChildren(c) \/ NextHook(c)
    BY <2>5 DEF Enumerate, DeleteChildren, NextHook, db
  <2> QED  BY <2>1, <2>2, <2>3, <2>4, <2>5 DEF Acts, Steps
<1> QED  BY HooksInit, HooksNext, <1>1, PTL DEF Spec, ChildrenGoFirst

----------------------------------------------------------------------------
(***************************************************************************)
(* With serializable transactions, what is committed never holds an orphan *)
(* of a relation that cascades and is touched.                             *)
(***************************************************************************)
\* No discriminator that is kept names a row that is not stored.
Whole(S, f) ==
    \A x \in S : \A r \in RelationsOf(x[1]) : Guarded(r) /\ f[x][r] # NoRow => f[x][r] \in S

\* While a save is in its touch hooks, a parent it named may be missing; the
\* hook that will look for it has still to run.
Wanted(p) == \E c \in Caller : pc[c] = "touch" /\ \E q \in todo[c] : TouchTarget(call[c], q) = p

WholeInv ==
    /\ \A u \in undo : Whole(u.live, u.ref)
    /\ \A x \in live : \A r \in RelationsOf(x[1]) :
          Guarded(r) /\ ref[x][r] # NoRow => ref[x][r] \in live \/ Wanted(ref[x][r])
    /\ late = [c \in Caller |-> {}]

\* The rows stored at the start hang together.
StartsWhole == Whole(InitLive, InitRef)

LEMMA WholeUnlessTouching ==
  ASSUME WholeInv, \A c \in Caller : pc[c] # "touch" \/ todo[c] = {}
  PROVE  Whole(live, ref)
  BY DEF WholeInv, Whole, Wanted

LEMMA WholeCommitted ==
  ASSUME Whole(live', ref'), \A u \in undo' : Whole(u.live, u.ref), late' = [c \in Caller |-> {}]
  PROVE  WholeInv'
  BY DEF WholeInv, Whole

LEMMA WholeReturn ==
  ASSUME WholeInv, NEW c \in Caller, NEW result, Returns(c, result), Whole(live', ref')
  PROVE  WholeInv'
<1>1. undo' = {} /\ late' = [d \in Caller |-> {}]
  BY DEF Returns, WholeInv
<1> QED  BY <1>1, WholeCommitted

LEMMA WholeUndone ==
  ASSUME Transactional, CallInv, WholeInv, NEW c \in Caller, pc[c] # "idle", Undone
  PROVE  Whole(live', ref')
<1>1. PICK u \in undo : live' = u.live /\ ref' = u.ref
  BY DEF CallInv, Exclusive, Undone
<1> QED  BY <1>1 DEF WholeInv, Whole

\* What a save writes has its parents stored or wanted.
LEMMA WholeSave ==
  ASSUME Transactional, Inv, CallInv, CallInv', WholeInv, NEW c \in Caller, Save(c)
  PROVE  WholeInv'
<1> DEFINE m == call[c]
<1>1. Passed(m) /\ pc[c] = "save" /\ \A d \in Caller : d # c => pc[d] = "idle"
  BY DEF Save, Inv, CallInv, Exclusive
<1>2. PICK x \in IF m.op = "create" THEN { y \in Row \ used : y[1] = m.type } ELSE {m.row} :
        /\ live' = live \cup Written(m, x)
        /\ ref' = [y \in Row |-> IF y \in Written(m, x) THEN Assigned(m, y) ELSE ref[y]]
        /\ late' = [d \in Caller |-> IF pc[d] = "delete" THEN late[d] \cup Written(m, x) ELSE {}]
  BY Zenon DEF Save
<1>3. pc'[c] = "touch" /\ todo'[c] = Touches(m) /\ UNCHANGED <<call, undo>>
  BY DEF Save, CallInv, TypeInv
<1>4. Whole(live, ref)
  BY <1>1, WholeUnlessTouching
<1> HIDE DEF m
<1>5. \A y \in Written(m, x) : y \in Row /\ y[1] = m.type /\ (m.op # "create" => y \in live)
  <2>1. CASE m.op = "create"
    BY <1>2, <2>1 DEF Written
  <2>2. CASE m.op = "update"
    BY <1>2, <2>2 DEF Written, Inv, Filled
  <2>3. CASE m.op \in {"updateOne", "updateOneID"}
    BY <1>1, <1>2, <2>3 DEF Written, Inv, Filled, Passed
  <2> QED  BY <1>1, <2>1, <2>2, <2>3 DEF Passed, Forms
<1>6. ASSUME NEW y \in live', NEW r \in RelationsOf(y[1]), Guarded(r), NEW p, p = ref'[y][r], p # NoRow
      PROVE  p \in live' \/ Wanted(p)'
  <2>0. r \in Rels /\ live \subseteq Row /\ ref \in [Row -> [Rels -> Row \cup {NoRow}]]
    BY DEF RelationsOf, CallInv, TypeInv, Stored
  <2>1. CASE y \in Written(m, x) /\ m.asg[r] # Keep
    <3>1. ref'[y][r] = m.asg[r] /\ m.asg[r] \in Row
      BY <1>1, <1>2, <1>5, <1>6, <2>0, <2>1 DEF Assigned, Passed
    <3>2. TouchTarget(m, r) = m.asg[r]
      BY <3>1 DEF TouchTarget
    <3>3. r \in Touches(m)
      BY <1>5, <1>6, <2>0, <2>1, <3>1, <3>2 DEF Touches, Guarded
    <3> QED  BY <1>3, <1>6, <3>1, <3>2, <3>3 DEF Wanted, m
  <2>2. CASE y \in Written(m, x) /\ m.asg[r] = Keep
    <3>1. y \in live /\ ref'[y][r] = ref[y][r]
      BY <1>2, <1>5, <1>6, <2>0, <2>2 DEF Assigned
    <3> QED  BY <1>2, <1>4, <1>6, <3>1 DEF Whole
  <2>3. CASE y \notin Written(m, x)
    BY <1>2, <1>4, <1>6, <2>0, <2>3 DEF Whole
  <2> QED  BY <2>1, <2>2, <2>3
<1>7. late' = [d \in Caller |-> {}]
  BY <1>1, <1>2
<1>8. \A u \in undo' : Whole(u.live, u.ref)
  BY <1>3 DEF WholeInv
<1> QED  BY <1>6, <1>7, <1>8 DEF WholeInv

\* A touch hook found its parent.
LEMMA WholeTouch == ASSUME CallInv, WholeInv, NEW c \in Caller, Touch(c) PROVE WholeInv'
<1>1. PICK q \in Innermost(todo[c]) :
        TouchTarget(call[c], q) \in live /\ todo' = [todo EXCEPT ![c] = @ \ {q}]
  BY DEF Touch
<1>2. UNCHANGED <<live, ref, pc, call, undo, late>>
  BY DEF Touch
<1>3. \A p : Wanted(p) /\ p \notin live => Wanted(p)'
  BY <1>1, <1>2 DEF Wanted, CallInv, TypeInv
<1> QED  BY <1>2, <1>3 DEF WholeInv

\* The rows a delete removes have no children left.
LEMMA WholeDelete ==
  ASSUME Transactional, HooksInv, WholeInv, NEW c \in Caller, Delete(c)
  PROVE  WholeInv'
<1>1. pc[c] = "delete" /\ Top(c) = stack[c][1] /\ 1 \in 1 .. Len(stack[c]) /\ Top(c).hooks = {}
  BY TopTyped DEF Delete, InHook, HooksInv
<1>2. \A d \in Caller : pc[d] # "touch"
  BY <1>1 DEF HooksInv, CallInv, Exclusive
<1>3. Whole(live, ref)
  BY <1>2, WholeUnlessTouching
<1>4. live' = live \ Selected(Top(c).type, Top(c).sel) /\ ref' = ref
  BY DEF Delete
<1>5. FrameHandled(c, 1) /\ late[c] = {}
  BY <1>1 DEF HooksInv, ChildrenHandled, WholeInv
<1>6. Whole(live', ref')
  BY <1>1, <1>3, <1>4, <1>5 DEF Whole, Guarded, FrameHandled, Waits
<1>7. CASE Returns(c, "ok")
  BY <1>6, <1>7, WholeReturn
<1>8. CASE UNCHANGED <<undo, late>>
  BY <1>6, <1>8, WholeCommitted DEF WholeInv
<1> QED  BY <1>7, <1>8 DEF Delete

LEMMA WholeNext ==
  ASSUME Transactional
  PROVE  HooksInv /\ HooksInv' /\ WholeInv /\ [Next]_vars => WholeInv'
<1> SUFFICES ASSUME HooksInv, HooksInv', WholeInv, [Next]_vars PROVE WholeInv'
  OBVIOUS
<1>1. CASE UNCHANGED vars
  BY <1>1 DEF vars, WholeInv, Wanted
<1>2. ASSUME NEW c \in Caller, Acts(c) PROVE WholeInv'
  <2>1. CASE BeginSave(c) \/ BeginDelete(c)
    <3>1. undo' = {[live |-> live, ref |-> ref, stamp |-> stamp]} /\ UNCHANGED <<live, ref, late>> /\ undo = {}
      BY <2>1 DEF BeginSave, BeginDelete, Opens, db
    <3>2. Whole(live, ref)
      BY <3>1, WholeUnlessTouching DEF HooksInv, CallInv, Exclusive
    <3> QED  BY <3>1, <3>2, WholeCommitted DEF WholeInv
  <2>2. CASE Save(c)
    BY <2>2, WholeSave DEF HooksInv
  <2>3. CASE Touch(c)
    BY <2>3, WholeTouch DEF HooksInv
  <2>4. CASE SaveReturns(c)
    <3>1. \A d \in Caller : pc[d] # "touch" \/ todo[d] = {}
      BY <2>4 DEF SaveReturns, HooksInv, CallInv, Exclusive
    <3>2. Whole(live', ref') /\ Returns(c, "ok")
      BY <2>4, <3>1, WholeUnlessTouching DEF SaveReturns, db
    <3> QED  BY <3>2, WholeReturn
  <2>5. CASE NotFound(c) \/ Overflow(c) \/ Fail(c)
    <3>1. Undone /\ pc[c] # "idle" /\ \E result : Returns(c, result)
      BY <2>5 DEF NotFound, Overflow, Fail, InHook
    <3> QED  BY <3>1, WholeReturn, WholeUndone DEF HooksInv
  <2>6. CASE Enumerate(c) \/ DeleteChildren(c) \/ NextHook(c)
    <3>1. UNCHANGED <<live, ref, undo, pc, call, todo, late>>
      BY <2>6 DEF Enumerate, DeleteChildren, NextHook, db
    <3> QED  BY <3>1 DEF WholeInv, Wanted
  <2>7. CASE Delete(c)
    BY <2>7, WholeDelete
  <2> QED  BY <1>2, <2>1, <2>2, <2>3, <2>4, <2>5, <2>6, <2>7 DEF Acts, Steps
<1> QED  BY <1>1, <1>2 DEF Next, Acts

LEMMA TypesOK == CallInv => TypeOK
<1> SUFFICES ASSUME CallInv PROVE TypeOK
  OBVIOUS
<1>1. Cardinality(undo) <= 1
  <2>1. CASE undo = {}
    BY <2>1, FS_EmptySet
  <2>2. CASE undo # {}
    <3>1. PICK u : undo = {u}
      BY <2>2 DEF CallInv, TypeInv
    <3>2. Cardinality(undo) = 1
      BY Zenon, <3>1, FS_Singleton
    <3> QED  BY <3>2
  <2> QED  BY <2>1, <2>2
<1>2. ASSUME NEW c \in Caller
      PROVE  /\ pc[c] \in {"idle", "save", "touch", "delete"}
             /\ out[c] \in {"none", "ok", "error", "crash"}
             /\ call[c] \in CASE pc[c] = "idle"   -> {NoCall}
                           [] pc[c] = "delete" -> Removal
                           [] OTHER            -> Mutation
             /\ todo[c] \subseteq Rels /\ Len(stack[c]) <= MaxDepth
             /\ (stack[c] # <<>>) = (pc[c] = "delete")
             /\ late[c] \subseteq Row
  BY DEF CallInv, TypeInv, Placed, Held
<1> QED  BY <1>1, <1>2 DEF CallInv, TypeInv, Stored, TypeOK

\* In serializable transactions, and on a database that begins without orphans,
\* nobody ever sees a row whose relation names a row that is not stored, where the
\* relation cascades and is touched: children go before their parents, and a save
\* whose parent is gone fails in its touch hook (polymorphic.tmpl 887-994).
THEOREM NeverOrphans ==
  ASSUME Transactional, StartsWhole
  PROVE  Spec => []NoOrphans
<1>1. Init => WholeInv
  BY DEF Init, WholeInv, StartsWhole, Whole
<1>2. HooksInv /\ WholeInv => NoOrphans
  <2> SUFFICES ASSUME HooksInv, WholeInv PROVE NoOrphans
    OBVIOUS
  <2>1. TypeOK
    BY TypesOK DEF HooksInv
  <2>2. Whole(Committed.live, Committed.ref)
    <3>1. CASE undo = {}
      <4>1. Whole(live, ref)
        BY <3>1, WholeUnlessTouching DEF HooksInv, CallInv, Exclusive
      <4> QED  BY <3>1, <4>1 DEF Committed
    <3>2. CASE undo # {}
      <4>1. PICK u \in undo : Committed = u
        BY <3>2 DEF Committed
      <4> QED  BY <4>1 DEF WholeInv
    <3> QED  BY <3>1, <3>2
  <2> QED  BY <2>1, <2>2 DEF NoOrphans, Whole
<1>3. HooksInv /\ HooksInv' /\ WholeInv /\ [Next]_vars => WholeInv'
  BY WholeNext
<1> QED  BY HooksInit, HooksNext, <1>1, <1>2, <1>3, PTL DEF Spec

----------------------------------------------------------------------------
(***************************************************************************)
(* With serializable transactions each call, with all its hooks, is one    *)
(* step of PolyStore, whatever was stored at the start.  While a           *)
(* transaction is open, the invariant says which step its commit would be. *)
(***************************************************************************)
\* In transactions nothing is saved while a delete runs.
LateInv == late = [c \in Caller |-> {}]

LEMMA LateNext ==
  ASSUME Transactional
  PROVE  HooksInv /\ LateInv /\ [Next]_vars => LateInv'
<1> SUFFICES ASSUME HooksInv, LateInv, [Next]_vars PROVE LateInv'
  OBVIOUS
<1>1. CASE UNCHANGED vars
  BY <1>1 DEF vars, LateInv
<1>2. ASSUME NEW c \in Caller, Acts(c) PROVE LateInv'
  <2>1. CASE \E result : Returns(c, result)
    BY <2>1 DEF Returns, LateInv
  <2>2. CASE UNCHANGED late
    BY <2>2 DEF LateInv
  <2>3. CASE Save(c)
    <3>1. \A d \in Caller : pc[d] # "delete"
      BY <2>3 DEF Save, HooksInv, CallInv, Exclusive
    <3>2. PICK rows : late' = [d \in Caller |-> IF pc[d] = "delete" THEN late[d] \cup rows ELSE {}]
      BY <2>3, Zenon DEF Save
    <3> QED  BY <3>1, <3>2 DEF LateInv
  <2>4. Save(c) \/ UNCHANGED late \/ \E result : Returns(c, result)
    BY <1>2, Zenon DEF Acts, Steps, BeginSave, BeginDelete, Touch, SaveReturns, NotFound, Enumerate,
                       DeleteChildren, NextHook, Delete, Overflow, Fail
  <2> QED  BY <2>1, <2>2, <2>3, <2>4
<1> QED  BY <1>1, <1>2 DEF Next, Acts

\* A set of the rows of u that holds the children of its rows; the least one
\* that holds S.
TreeClosed(u, C) ==
    \A x \in u.live : \A r \in RelationsOf(x[1]) : Relation[r].cascade /\ u.ref[x][r] \in C => x \in C
Tree(u, S) == { x \in u.live : \A C \in SUBSET u.live : S \subseteq C /\ TreeClosed(u, C) => x \in C }

LEMMA TreeProperties ==
  ASSUME NEW u, NEW S \in SUBSET u.live
  PROVE  /\ S \subseteq Tree(u, S) /\ Tree(u, S) \subseteq u.live
         /\ TreeClosed(u, Tree(u, S))
         /\ \A C \in SUBSET u.live : S \subseteq C /\ TreeClosed(u, C) => Tree(u, S) \subseteq C
<1>1. TreeClosed(u, Tree(u, S))
  <2> SUFFICES ASSUME NEW x \in u.live, NEW r \in RelationsOf(x[1]), Relation[r].cascade, u.ref[x][r] \in Tree(u, S),
                      NEW C \in SUBSET u.live, S \subseteq C, TreeClosed(u, C)
               PROVE  x \in C
    BY DEF TreeClosed, Tree
  <2>1. u.ref[x][r] \in C
    BY DEF Tree
  <2> QED  BY <2>1 DEF TreeClosed
<1> QED  BY <1>1 DEF Tree

\* The same for rows named by a call, which need not be stored.
Reach(u, S) == { x \in Row : \A C \in SUBSET Row : S \subseteq C /\ TreeClosed(u, C) => x \in C }

LEMMA ReachProperties ==
  ASSUME NEW u, u.live \subseteq Row, NEW S \in SUBSET Row
  PROVE  /\ S \subseteq Reach(u, S) /\ Reach(u, S) \subseteq Row
         /\ TreeClosed(u, Reach(u, S))
         /\ S \subseteq u.live => Reach(u, S) = Tree(u, S)
<1>1. TreeClosed(u, Reach(u, S))
  <2> SUFFICES ASSUME NEW x \in u.live, NEW r \in RelationsOf(x[1]), Relation[r].cascade, u.ref[x][r] \in Reach(u, S),
                      NEW C \in SUBSET Row, S \subseteq C, TreeClosed(u, C)
               PROVE  x \in C
    BY DEF TreeClosed, Reach
  <2>1. u.ref[x][r] \in C
    BY DEF Reach
  <2> QED  BY <2>1 DEF TreeClosed
<1>2. ASSUME S \subseteq u.live PROVE Reach(u, S) = Tree(u, S)
  <2>1. Reach(u, S) \subseteq Tree(u, S)
    BY <1>2, TreeProperties DEF Reach
  <2>2. S \subseteq Reach(u, S) \cap u.live /\ TreeClosed(u, Reach(u, S) \cap u.live)
    BY <1>1, <1>2 DEF TreeClosed, Reach
  <2> QED  BY <1>2, <2>1, <2>2, TreeProperties
<1> QED  BY <1>1, <1>2 DEF Reach

\* The frame deletes rows that hang on those named, on behalf of them.
FrameIn(u, roots, f) ==
    /\ f \in Frames
    /\ f.sel.rows \cap u.live \subseteq Reach(u, roots)
    /\ f.sel.rel # 0 \/ f.one => f.sel.rows \subseteq Reach(u, roots)
    /\ f.ids # Unread => f.ids \subseteq Reach(u, roots)
    /\ f.sel.rel # 0 => f.type = Relation[f.sel.rel].child /\ Relation[f.sel.rel].cascade
    /\ f.hooks \subseteq CascadeHooks(f.type)

\* The frame the call began with.
FrameBottom(u, roots, f) ==
    /\ f.sel.rel = 0 /\ roots = f.sel.rows \cap u.live
    /\ \A x \in f.sel.rows : x[1] = f.type
    /\ f.one => \E x \in Row : f.sel.rows = {x}

\* What a delete was asked to remove: a row by its id, which may be gone, or the
\* rows there were.
Asked(c) ==
    LET f == stack[c][Len(stack[c])] IN IF f.one THEN f.sel.rows ELSE call[c].roots

\* A delete that began in u has removed rows that hang on those it was asked for,
\* and left none that hang on a row it removed.
Removing(c, u) ==
    LET s == stack[c] IN
    /\ ref = u.ref /\ stamp = u.stamp
    /\ u.live \ live \subseteq Reach(u, Asked(c))
    /\ \A x \in live : \A r \in RelationsOf(x[1]) : Relation[r].cascade => ref[x][r] \notin u.live \ live
    /\ \A i \in 1 .. Len(s) : FrameIn(u, Asked(c), s[i])
    /\ FrameBottom(u, call[c].roots, s[Len(s)])

\* A save that began in u has not written yet.
Fresh(c, u) ==
    /\ live = u.live /\ ref = u.ref /\ stamp = u.stamp
    /\ \A p \in Row : u.stamp[p] < now
    /\ call[c].op = "updateOne" => call[c].old = u.ref[call[c].row]
    /\ \A r \in Rels : call[c].asg[r] # Keep => r \in RelationsOf(call[c].type)

\* A save that began in u has written the rows S and stamped the parents whose
\* touch hooks have run.
Wrote(c, u, S) ==
    LET m == call[c]
        done == Touches(m) \ todo[c]
    IN  /\ live = u.live \cup S
        /\ IF m.op = "create" THEN \E x \in Row \ u.live : S = {x} ELSE S \subseteq u.live
        /\ \A x \in S : x[1] = m.type
        /\ m.op = "updateOne" => S = {m.row} /\ m.old = u.ref[m.row]
        /\ \A x \in Row \ S : ref[x] = u.ref[x]
        /\ \A x \in S : \A r \in Rels :
              ref[x][r] = IF m.asg[r] # Keep THEN m.asg[r] ELSE IF m.op = "create" THEN NoRow ELSE u.ref[x][r]
        /\ \A r \in Rels : m.asg[r] # Keep => r \in RelationsOf(m.type)
        /\ todo[c] \subseteq Touches(m)
        /\ \A p \in Row : /\ u.stamp[p] < now
                          /\ stamp[p] = IF \E q \in done : TouchTarget(m, q) = p THEN now ELSE u.stamp[p]
        /\ \A q \in done : TouchTarget(m, q) \in live

Progress(c, u) ==
    /\ pc[c] = "save" => Fresh(c, u)
    /\ pc[c] = "touch" => \E S \in SUBSET Row : Wrote(c, u, S)
    /\ pc[c] = "delete" => Removing(c, u)

ProgressInv == \A c \in Caller, u \in undo : Progress(c, u)

\* In a transaction only one caller moves.
LEMMA OneActor ==
  ASSUME Transactional, CallInv, NEW c \in Caller, NEW d \in Caller, Acts(d), pc'[c] # "idle"
  PROVE  c = d
<1> SUFFICES ASSUME c # d PROVE FALSE
  OBVIOUS
<1>1. pc'[c] = pc[c]
  <2>1. CASE BeginSave(d) \/ BeginDelete(d) \/ Fail(d)
    BY <2>1 DEF BeginSave, BeginDelete, Fail, Returns, CallInv, TypeInv
  <2>2. CASE Save(d) \/ Touch(d) \/ SaveReturns(d) \/ NotFound(d) \/ Overflow(d)
    BY <2>2 DEF Save, Touch, SaveReturns, NotFound, Overflow, Returns, CallInv, TypeInv
  <2>3. CASE Enumerate(d) \/ DeleteChildren(d) \/ NextHook(d) \/ Delete(d)
    BY <2>3 DEF Enumerate, DeleteChildren, NextHook, Delete, Returns, CallInv, TypeInv
  <2> QED  BY <2>1, <2>2, <2>3 DEF Acts, Steps
<1>2. pc[d] = "idle"
  BY <1>1 DEF CallInv, Exclusive
<1>3. undo = {}
  BY <1>2 DEF Acts, BeginSave, BeginDelete, Opens, Steps, Fail, Save, Touch, SaveReturns, NotFound, Enumerate,
              DeleteChildren, NextHook, Delete, Overflow, InHook
<1> QED  BY <1>1, <1>3 DEF CallInv, Exclusive

\* The rows a frame selects hang on those the call named.
LEMMA SelectedInReach ==
  ASSUME CallInv, NEW u \in undo, live \subseteq u.live, ref = u.ref, u.live \subseteq Row,
         NEW roots \in SUBSET Row, NEW f, FrameIn(u, roots, f)
  PROVE  Selected(f.type, f.sel) \subseteq Reach(u, roots)
<1> SUFFICES ASSUME NEW x \in Selected(f.type, f.sel) PROVE x \in Reach(u, roots)
  OBVIOUS
<1>1. x \in live /\ x \in Row /\ x[1] = f.type
  BY DEF Selected, CallInv, TypeInv, Stored
<1>2. CASE f.sel.rel = 0
  BY <1>1, <1>2 DEF Selected, FrameIn
<1>3. CASE f.sel.rel # 0
  <2> DEFINE h == f.sel.rel
  <2>1. h \in Rels /\ f.type = Relation[h].child /\ Relation[h].cascade
    BY <1>3, FrameParts DEF FrameIn
  <2>2. u.ref[x][h] \in f.sel.rows
    BY <1>3 DEF Selected
  <2>3. h \in RelationsOf(x[1])
    BY <1>1, <2>1 DEF RelationsOf
  <2>4. u.ref[x][h] \in Reach(u, roots)
    BY <1>3, <2>2 DEF FrameIn
  <2> QED  BY <1>1, <2>1, <2>3, <2>4, ReachProperties DEF TreeClosed
<1> QED  BY <1>2, <1>3

\* What the frames of a delete are, and where the delete stands.
LEMMA RemovingFacts ==
  ASSUME HooksInv, ProgressInv, NEW c \in Caller, pc[c] = "delete", NEW u \in undo
  PROVE  /\ Removing(c, u) /\ live \subseteq u.live /\ u.live \subseteq Row
         /\ call[c].roots \subseteq u.live /\ Asked(c) \subseteq Row
         /\ stack[c] \in Seq(Frames) /\ Len(stack[c]) \in Nat \ {0} /\ Top(c) = stack[c][1] /\ Top(c) \in Frames
         /\ \A i \in 1 .. Len(stack[c]) : FrameIn(u, Asked(c), stack[c][i])
<1>1. stack[c] \in Seq(Frames) /\ Len(stack[c]) \in Nat \ {0} /\ Top(c) = stack[c][1] /\ Top(c) \in Frames
  BY TopTyped, PolyParameters DEF HooksInv
<1>2. Removing(c, u)
  BY DEF ProgressInv, Progress
<1>3. call[c].roots \subseteq u.live
  BY <1>2 DEF Removing, FrameBottom
<1>4. u.live \subseteq Row
  BY DEF HooksInv, CallInv, TypeInv, Stored
<1>5. Asked(c) \subseteq Row
  <2>1. stack[c][Len(stack[c])] \in Frames
    BY <1>1
  <2>2. stack[c][Len(stack[c])].sel.rows \subseteq Row
    BY <2>1, FrameParts
  <2> QED  BY <1>3, <1>4, <2>2 DEF Asked
<1> QED  BY <1>1, <1>2, <1>3, <1>4, <1>5 DEF HooksInv, Shrunk, Removing

\* A delete that only moves its frames.
LEMMA RemovingStack ==
  ASSUME NEW c \in Caller, NEW u, Removing(c, u), UNCHANGED <<live, ref, stamp, call>>, NEW t, t = stack'[c],
         \A i \in 1 .. Len(t) : FrameIn(u, Asked(c), t[i]),
         t[Len(t)].sel = stack[c][Len(stack[c])].sel, t[Len(t)].type = stack[c][Len(stack[c])].type,
         t[Len(t)].one = stack[c][Len(stack[c])].one
  PROVE  Removing(c, u)'
<1>1. Asked(c)' = Asked(c)
  BY DEF Asked
<1> QED  BY <1>1 DEF Removing, FrameBottom

LEMMA RemovingEnumerate ==
  ASSUME HooksInv, ProgressInv, NEW c \in Caller, Enumerate(c), NEW u \in undo
  PROVE  Removing(c, u)'
<1> DEFINE s == stack[c]
<1>1. PICK ids : ids = IF Top(c).one THEN Top(c).sel.rows ELSE Selected(Top(c).type, Top(c).sel)
  OBVIOUS
<1>2. pc[c] = "delete" /\ UNCHANGED <<live, ref, stamp, call>>
  BY DEF Enumerate, InHook, db
<1>3. PICK f : f = [Top(c) EXCEPT !.ids = ids]
  OBVIOUS
<1>4. PICK t : t = stack'[c]
  OBVIOUS
<1>5. t = [s EXCEPT ![1] = f]
  <2>1. t = [s EXCEPT ![1].ids = ids]
    BY <1>1, <1>4 DEF Enumerate, HooksInv, CallInv, TypeInv
  <2> QED  BY <1>2, <1>3, <2>1, RemovingFacts
<1>6. f.type = Top(c).type /\ f.sel = Top(c).sel /\ f.hooks = Top(c).hooks /\ f.ids = ids /\ f.one = Top(c).one
  BY <1>2, <1>3, RemovingFacts DEF Frames
<1>7. FrameIn(u, Asked(c), f)
  <2>1. FrameIn(u, Asked(c), Top(c))
    BY <1>2, RemovingFacts
  <2>2. Selected(Top(c).type, Top(c).sel) \subseteq Reach(u, Asked(c))
    <3>1. ref = u.ref /\ Top(c) \in Frames
      BY <1>2, RemovingFacts DEF Removing
    <3>2. PICK g, roots : g = Top(c) /\ roots = Asked(c)
      OBVIOUS
    <3>3. Selected(g.type, g.sel) \subseteq Reach(u, roots)
      BY <1>2, <2>1, <3>1, <3>2, RemovingFacts, SelectedInReach DEF HooksInv
    <3> QED  BY <3>2, <3>3
  <2>3. ids \subseteq Reach(u, Asked(c)) /\ ids \subseteq Row
    <3>1. Selected(Top(c).type, Top(c).sel) \subseteq Row
      BY DEF Selected, HooksInv, CallInv, TypeInv, Stored
    <3>2. Top(c).sel.rows \subseteq Row
      BY <1>2, RemovingFacts, FrameParts
    <3> QED  BY <1>1, <2>1, <2>2, <3>1, <3>2 DEF FrameIn
  <2>4. f \in Frames
    BY <1>2, <1>3, <2>3, RemovingFacts, FrameParts
  <2> QED  BY <1>6, <2>1, <2>3, <2>4 DEF FrameIn
<1>8. /\ Len(t) = Len(s) /\ Len(s) \in Nat \ {0} /\ \A i \in 1 .. Len(s) : t[i] = IF i = 1 THEN f ELSE s[i]
      /\ Top(c) = s[1]
  BY <1>2, <1>5, RemovingFacts
<1>9. \A i \in 1 .. Len(t) : FrameIn(u, Asked(c), t[i])
  BY <1>2, <1>7, <1>8, RemovingFacts
<1> HIDE DEF s
<1>10. t[Len(t)].sel = s[Len(s)].sel /\ t[Len(t)].type = s[Len(s)].type /\ t[Len(t)].one = s[Len(s)].one
  BY <1>6, <1>8
<1> QED  BY <1>2, <1>4, <1>9, <1>10, RemovingFacts, RemovingStack DEF s

LEMMA RemovingNextHook ==
  ASSUME HooksInv, ProgressInv, NEW c \in Caller, NextHook(c), NEW u \in undo
  PROVE  Removing(c, u)'
<1> DEFINE s == stack[c]
<1>2. pc[c] = "delete" /\ UNCHANGED <<live, ref, stamp, call>>
  BY DEF NextHook, InHook, db
<1>3. PICK f : f = [Top(c) EXCEPT !.ids = Unread, !.hooks = Top(c).hooks \ Outermost(Top(c).hooks)]
  OBVIOUS
<1>4. PICK t : t = stack'[c]
  OBVIOUS
<1>5. t = [s EXCEPT ![1] = f]
  <2>1. t = [s EXCEPT ![1].ids = Unread, ![1].hooks = @ \ Outermost(@)]
    BY <1>4 DEF NextHook, HooksInv, CallInv, TypeInv
  <2> QED  BY <1>2, <1>3, <2>1, RemovingFacts
<1>6. f.type = Top(c).type /\ f.sel = Top(c).sel /\ f.hooks \subseteq Top(c).hooks /\ f.ids = Unread /\ f.one = Top(c).one
  BY <1>2, <1>3, RemovingFacts DEF Frames
<1>7. FrameIn(u, Asked(c), f)
  <2>1. FrameIn(u, Asked(c), Top(c))
    BY <1>2, RemovingFacts
  <2>2. f \in Frames
    BY <1>2, <1>3, RemovingFacts, FrameParts
  <2> QED  BY <1>6, <2>1, <2>2 DEF FrameIn
<1>8. /\ Len(t) = Len(s) /\ Len(s) \in Nat \ {0} /\ \A i \in 1 .. Len(s) : t[i] = IF i = 1 THEN f ELSE s[i]
      /\ Top(c) = s[1]
  BY <1>2, <1>5, RemovingFacts
<1>9. \A i \in 1 .. Len(t) : FrameIn(u, Asked(c), t[i])
  BY <1>2, <1>7, <1>8, RemovingFacts
<1> HIDE DEF s
<1>10. t[Len(t)].sel = s[Len(s)].sel /\ t[Len(t)].type = s[Len(s)].type /\ t[Len(t)].one = s[Len(s)].one
  BY <1>6, <1>8
<1> QED  BY <1>2, <1>4, <1>9, <1>10, RemovingFacts, RemovingStack DEF s

LEMMA RemovingChildren ==
  ASSUME HooksInv, ProgressInv, NEW c \in Caller, DeleteChildren(c), NEW u \in undo
  PROVE  Removing(c, u)'
<1> DEFINE s == stack[c]
<1>2. pc[c] = "delete" /\ UNCHANGED <<live, ref, stamp, call>> /\ Top(c).ids # Unread
  BY DEF DeleteChildren, InHook, db
<1>3. PICK h \in Outermost(Top(c).hooks), p \in Top(c).ids :
          stack' = [stack EXCEPT ![c] =
            <<Frame(Relation[h].child, [rel |-> h, rows |-> {p}], FALSE)>>
            \o <<[Top(c) EXCEPT !.ids = @ \ {p}]>> \o Tail(@)]
  BY DEF DeleteChildren
<1>4. PICK f, g, t : /\ f = Frame(Relation[h].child, [rel |-> h, rows |-> {p}], FALSE)
                     /\ g = [Top(c) EXCEPT !.ids = @ \ {p}]
                     /\ t = stack'[c]
  OBVIOUS
<1>5. t = <<f>> \o <<g>> \o Tail(s)
  BY <1>3, <1>4 DEF HooksInv, CallInv, TypeInv
<1>6. FrameIn(u, Asked(c), Top(c))
  BY <1>2, RemovingFacts
<1>7. Top(c).ids \subseteq Row /\ h \in Rels /\ h \in CascadeHooks(Top(c).type)
  BY <1>2, <1>6, RemovingFacts, FrameParts DEF Outermost, FrameIn
<1>8. FrameIn(u, Asked(c), f)
  <2>1. f \in Frames
    BY <1>4, <1>7, FrameTyped DEF Types
  <2>2. f.sel = [rel |-> h, rows |-> {p}] /\ f.type = Relation[h].child /\ f.ids = Unread /\ f.hooks = CascadeHooks(f.type)
    BY <1>4 DEF Frame
  <2>3. {p} \subseteq Reach(u, Asked(c))
    BY <1>2, <1>6 DEF FrameIn
  <2>4. Relation[h].cascade
    BY <1>7 DEF CascadeHooks
  <2> QED  BY <2>1, <2>2, <2>3, <2>4 DEF FrameIn
<1>9. g.sel = Top(c).sel /\ g.type = Top(c).type /\ g.hooks = Top(c).hooks /\ g.ids = Top(c).ids \ {p} /\ g \in Frames /\ g.one = Top(c).one
  <2>1. g.sel = Top(c).sel /\ g.type = Top(c).type /\ g.hooks = Top(c).hooks /\ g.ids = Top(c).ids \ {p}
        /\ g.one = Top(c).one
    BY <1>2, <1>4, RemovingFacts DEF Frames
  <2>2. g \in Frames
    BY <1>2, <1>4, <1>7, RemovingFacts, FrameParts
  <2> QED  BY <2>1, <2>2
<1>10. FrameIn(u, Asked(c), g)
  BY <1>2, <1>6, <1>9 DEF FrameIn
<1>11. /\ Len(t) = Len(s) + 1 /\ Len(s) \in Nat \ {0} /\ Top(c) = s[1]
       /\ t[1] = f /\ t[2] = g /\ \A i \in 3 .. Len(t) : t[i] = s[i - 1]
  BY <1>2, <1>5, RemovingFacts
<1>12. \A i \in 1 .. Len(s) : FrameIn(u, Asked(c), s[i])
  BY <1>2, RemovingFacts
<1> HIDE DEF s
<1>13. \A i \in 1 .. Len(t) : FrameIn(u, Asked(c), t[i])
  <2> SUFFICES ASSUME NEW i \in 1 .. Len(t) PROVE FrameIn(u, Asked(c), t[i])
    OBVIOUS
  <2>1. i = 1 \/ i = 2 \/ (i \in 3 .. Len(t) /\ i - 1 \in 1 .. Len(s))
    BY <1>11
  <2> QED  BY <1>8, <1>10, <1>11, <1>12, <2>1
<1>14. t[Len(t)].sel = s[Len(s)].sel /\ t[Len(t)].type = s[Len(s)].type /\ t[Len(t)].one = s[Len(s)].one
  <2>1. CASE Len(s) = 1
    BY <1>9, <1>11, <2>1
  <2>2. CASE Len(s) # 1
    <3>1. Len(t) \in 3 .. Len(t) /\ Len(t) - 1 = Len(s)
      <4>1. PICK n \in Nat \ {0} : Len(s) = n /\ Len(t) = n + 1
        BY <1>11
      <4>2. n # 1
        BY <2>2, <4>1
      <4> QED  BY <4>1, <4>2
    <3> QED  BY <1>11, <3>1
  <2> QED  BY <2>1, <2>2
<1> QED  BY <1>2, <1>4, <1>13, <1>14, RemovingFacts, RemovingStack DEF s

\* A delete leaves no row that hangs on one it removes.
LEMMA NoneLeft ==
  ASSUME HooksInv, LateInv, ProgressInv, NEW c \in Caller, Delete(c), NEW u \in undo,
         NEW x \in live', NEW r \in RelationsOf(x[1]), Relation[r].cascade
  PROVE  ref'[x][r] \notin u.live \ live'
<1>1. pc[c] = "delete" /\ ~ InHook(c) /\ live' = live \ Selected(Top(c).type, Top(c).sel) /\ ref' = ref
  BY DEF Delete
<1>2. ref[x][r] \notin u.live \ live
  BY <1>1, RemovingFacts DEF Removing
<1>3. Top(c) = stack[c][1] /\ 1 \in 1 .. Len(stack[c]) /\ Top(c).hooks = {} /\ late[c] = {}
  BY <1>1, RemovingFacts DEF InHook, LateInv
<1>4. FrameHandled(c, 1)
  BY <1>1, <1>3 DEF HooksInv, ChildrenHandled
<1>5. ref[x][r] \notin Selected(Top(c).type, Top(c).sel)
  BY <1>1, <1>3, <1>4 DEF FrameHandled, Waits
<1> QED  BY <1>1, <1>2, <1>5

\* A nested delete returns: what it removed hangs on what was asked for.
LEMMA RemovingReturns ==
  ASSUME HooksInv, LateInv, ProgressInv, NEW c \in Caller, Delete(c), Len(stack[c]) # 1, NEW u \in undo
  PROVE  Removing(c, u)'
<1>1. pc[c] = "delete" /\ UNCHANGED <<ref, stamp, call>> /\ stack' = [stack EXCEPT ![c] = Tail(@)]
      /\ live' = live \ Selected(Top(c).type, Top(c).sel)
  BY DEF Delete
<1>2. PICK f, roots : f = Top(c) /\ roots = Asked(c)
  OBVIOUS
<1>3. Selected(f.type, f.sel) \subseteq Reach(u, roots)
  <2>1. FrameIn(u, roots, f)
    BY <1>1, <1>2, RemovingFacts
  <2>2. ref = u.ref
    BY <1>1, RemovingFacts DEF Removing
  <2> QED  BY <1>1, <1>2, <2>1, <2>2, RemovingFacts, SelectedInReach DEF HooksInv
<1>4. u.live \ live' \subseteq Reach(u, roots)
  BY <1>1, <1>2, <1>3, RemovingFacts DEF Removing
<1> DEFINE s == stack[c]
           t == stack'[c]
<1>5. t = Tail(s) /\ s \in Seq(Frames) /\ Len(s) \in Nat \ {0} /\ Len(s) # 1
  BY <1>1, RemovingFacts DEF HooksInv, CallInv, TypeInv
<1>6. \A i \in 1 .. Len(s) : FrameIn(u, roots, s[i])
  BY <1>1, <1>2, RemovingFacts
<1> HIDE DEF s, t
<1>7. \A i \in 1 .. Len(t) : t[i] = s[i + 1] /\ i + 1 \in 1 .. Len(s)
  BY <1>5
<1>8. t[Len(t)] = s[Len(s)]
  <2>1. PICK n \in Nat \ {0} : Len(s) = n
    BY <1>5
  <2>2. Len(t) = n - 1 /\ n - 1 \in 1 .. n - 1 /\ n - 1 + 1 = n
    BY <1>5, <2>1
  <2> QED  BY <1>7, <2>1, <2>2
<1>9. \A i \in 1 .. Len(t) : FrameIn(u, roots, t[i])
  BY <1>6, <1>7
<1>10. FrameBottom(u, call[c].roots, s[Len(s)]) /\ stamp = u.stamp /\ ref = u.ref
  BY <1>1, <1>2, RemovingFacts DEF Removing, s
<1>11. Asked(c)' = roots
  <2>1. PICK g : g = s[Len(s)]
    OBVIOUS
  <2>2. stack[c][Len(stack[c])] = g
    BY <2>1 DEF s
  <2>3. stack'[c][Len(stack'[c])] = g
    BY <1>8, <2>1 DEF t
  <2>4. call' = call
    BY <1>1
  <2> QED  BY <1>2, <2>2, <2>3, <2>4, Zenon DEF Asked
<1>12. \A x \in live' : \A r \in RelationsOf(x[1]) : Relation[r].cascade => ref'[x][r] \notin u.live \ live'
  BY NoneLeft
<1> QED  BY <1>1, <1>4, <1>8, <1>9, <1>10, <1>11, <1>12 DEF Removing, t

\* The rows left when the outermost delete returns.
LEMMA RemovedTree ==
  ASSUME Transactional, HooksInv, LateInv, ProgressInv, NEW c \in Caller, Delete(c), Len(stack[c]) = 1, NEW u \in undo
  PROVE  live' = u.live \ Tree(u, call[c].roots)
<1>1. pc[c] = "delete" /\ live' = live \ Selected(Top(c).type, Top(c).sel) /\ ref' = ref
      /\ (Top(c).one => Selected(Top(c).type, Top(c).sel) # {})
  BY DEF Delete
<1>2. PICK f, roots : f = Top(c) /\ roots = call[c].roots
  OBVIOUS
<1>3. FrameIn(u, Asked(c), f) /\ FrameBottom(u, roots, f) /\ ref = u.ref
  BY <1>1, <1>2, RemovingFacts DEF Removing
<1>4. live \subseteq u.live /\ u.live \subseteq Row /\ u.live \ live \subseteq Reach(u, Asked(c)) /\ roots \subseteq u.live
      /\ Asked(c) \subseteq Row
  BY <1>1, <1>2, RemovingFacts DEF Removing
<1>5. Selected(f.type, f.sel) \subseteq Reach(u, Asked(c))
  BY <1>3, <1>4, SelectedInReach DEF HooksInv
<1>6. roots \subseteq u.live \ live'
  BY <1>1, <1>2, <1>3, <1>4 DEF FrameBottom, Selected
<1>7. Asked(c) = roots
  <2>1. f = stack[c][Len(stack[c])] /\ Asked(c) = IF f.one THEN f.sel.rows ELSE roots
    BY <1>1, <1>2, RemovingFacts DEF Asked
  <2>2. CASE f.one
    <3>1. f.sel.rows \cap live # {}
      BY <1>1, <1>2, <1>3, <2>2 DEF Selected, FrameBottom
    <3> QED  BY <1>2, <1>3, <1>4, <2>1, <2>2, <3>1 DEF FrameBottom
  <2> QED  BY <2>1, <2>2
<1>8. Reach(u, roots) = Tree(u, roots)
  BY <1>4, ReachProperties
<1>9. TreeClosed(u, u.live \ live')
  <2> SUFFICES ASSUME NEW x \in live', NEW r \in RelationsOf(x[1]), Relation[r].cascade, u.ref[x][r] \in u.live \ live'
               PROVE  FALSE
    BY DEF TreeClosed
  <2> QED  BY <1>1, <1>3, NoneLeft
<1>10. Tree(u, roots) \subseteq u.live \ live'
  BY <1>4, <1>6, <1>9, TreeProperties
<1> QED  BY <1>1, <1>2, <1>4, <1>5, <1>7, <1>8, <1>10

\* A call begins where its transaction did.
LEMMA ProgressBeginSave ==
  ASSUME Transactional, HooksInv, NEW c \in Caller, BeginSave(c), NEW u \in undo'
  PROVE  Fresh(c, u)'
<1>1. PICK op \in SaveForms[c], type \in { Relation[r].child : r \in Rels } :
        \E asg \in Assignments(type), x \in Named(op, type) :
          call' = [call EXCEPT ![c] = NewMutation(op, type, x, asg)]
  BY Zenon DEF BeginSave
<1>2. PICK asg \in Assignments(type), x \in Named(op, type) :
          call' = [call EXCEPT ![c] = NewMutation(op, type, x, asg)]
  BY Zenon, <1>1
<1>3. call'[c] = NewMutation(op, type, x, asg)
  BY <1>2 DEF HooksInv, CallInv, TypeInv
<1>4. u = [live |-> live, ref |-> ref, stamp |-> stamp] /\ UNCHANGED <<live, ref, stamp>> /\ now' = now + 1
  BY DEF BeginSave, Opens
<1>5. \A p \in Row : u.stamp[p] < now'
  BY <1>4, PolyParameters DEF HooksInv, CallInv, TypeInv, Stored
<1>6. call'[c].op = "updateOne" => call'[c].old = u.ref[call'[c].row]
  BY <1>3, <1>4 DEF NewMutation
<1>7. \A r \in Rels : call'[c].asg[r] # Keep => r \in RelationsOf(call'[c].type)
  BY <1>3 DEF NewMutation, Assignments
<1> QED  BY <1>4, <1>5, <1>6, <1>7 DEF Fresh

LEMMA ProgressBeginDelete ==
  ASSUME Transactional, HooksInv, NEW c \in Caller, BeginDelete(c), NEW u \in undo'
  PROVE  Removing(c, u)'
<1>1. PICK op \in DeleteForms[c], type \in UNION { Relation[r].parents : r \in Rels } :
       \E S \in IF op = "delete" THEN { { x \in Row : x[1] = type } }
                ELSE { {x} : x \in { y \in used : y[1] = type } } :
          /\ call' = [call EXCEPT ![c] = [op |-> op, roots |-> S \cap live, before |-> live]]
          /\ stack' = [stack EXCEPT ![c] = <<Frame(type, [rel |-> 0, rows |-> S], op = "deleteOne")>>]
  BY Zenon DEF BeginDelete
<1>2. PICK S \in IF op = "delete" THEN { { x \in Row : x[1] = type } }
                 ELSE { {x} : x \in { y \in used : y[1] = type } } :
          /\ call' = [call EXCEPT ![c] = [op |-> op, roots |-> S \cap live, before |-> live]]
          /\ stack' = [stack EXCEPT ![c] = <<Frame(type, [rel |-> 0, rows |-> S], op = "deleteOne")>>]
  BY Zenon, <1>1
<1>3. PICK f : f = Frame(type, [rel |-> 0, rows |-> S], op = "deleteOne")
  OBVIOUS
<1>4. S \subseteq Row /\ \A x \in S : x[1] = type
  <2>1. CASE op = "delete"
    BY <1>2, <2>1
  <2>2. CASE op # "delete"
    BY <1>2, <2>2 DEF HooksInv, CallInv, TypeInv
  <2> QED  BY <2>1, <2>2
<1>5. f \in Frames
  <2>1. [rel |-> 0, rows |-> S] \in [rel : {0} \cup Rels, rows : SUBSET Row] /\ type \in Types
    BY <1>4 DEF Types
  <2>2. (op = "deleteOne") \in BOOLEAN
    OBVIOUS
  <2> QED  BY <1>3, <2>1, <2>2, FrameTyped
<1>6. f.type = type /\ f.sel.rel = 0 /\ f.sel.rows = S /\ f.hooks = CascadeHooks(f.type) /\ f.ids = Unread
  BY <1>3 DEF Frame
<1>7. u = [live |-> live, ref |-> ref, stamp |-> stamp] /\ UNCHANGED <<live, ref, stamp>>
  BY DEF BeginDelete, Opens, db
<1>8. call'[c].roots = S \cap u.live
  BY <1>2, <1>7 DEF HooksInv, CallInv, TypeInv
<1>9. Unread \cap u.live = {} /\ u.live \subseteq Row
  BY <1>7, PolyParameters DEF Unread, HooksInv, CallInv, TypeInv, Stored
<1>10. Asked(c)' = IF f.one THEN S ELSE call'[c].roots
  <2>1. stack'[c] = <<f>> /\ Len(<<f>>) = 1 /\ <<f>>[1] = f
    BY <1>2, <1>3 DEF HooksInv, CallInv, TypeInv
  <2> QED  BY <1>6, <2>1 DEF Asked
<1>11. FrameBottom(u, call'[c].roots, f)
  <2>1. ASSUME f.one PROVE \E x \in Row : S = {x}
    <3>1. op # "delete"
      BY <1>3, <2>1 DEF Frame
    <3> QED  BY <1>2, <1>4, <3>1
  <2> QED  BY <1>4, <1>6, <1>8, <2>1 DEF FrameBottom
<1>12. stack'[c] = <<f>>
  BY <1>2, <1>3 DEF HooksInv, CallInv, TypeInv
<1>13. Len(stack'[c]) = 1 /\ stack'[c][1] = f
  BY <1>12
<1>14. FrameIn(u, Asked(c)', f)
  <2>1. Asked(c)' \subseteq Reach(u, Asked(c)')
    BY <1>4, <1>8, <1>9, <1>10, ReachProperties
  <2> QED  BY <1>4, <1>5, <1>6, <1>8, <1>10, <2>1 DEF FrameIn
<1> QED  BY <1>7, <1>11, <1>13, <1>14 DEF Removing

\* The statement of a save.
LEMMA ProgressSave ==
  ASSUME HooksInv, ProgressInv, NEW c \in Caller, Save(c), NEW u \in undo
  PROVE  \E S \in SUBSET Row : Wrote(c, u, S)'
<1>1. pc[c] = "save" /\ Fresh(c, u) /\ Passed(call[c])
  BY DEF Save, ProgressInv, Progress, HooksInv, Inv
<1>2. PICK m : m = call[c]
  OBVIOUS
<1>3. PICK x \in IF m.op = "create" THEN { y \in Row \ used : y[1] = m.type } ELSE {m.row} :
        /\ m.op \in {"updateOne", "updateOneID"} => Written(m, x) # {}
        /\ live' = live \cup Written(m, x)
        /\ ref' = [y \in Row |-> IF y \in Written(m, x) THEN Assigned(m, y) ELSE ref[y]]
  <2>1. PICK x \in IF call[c].op = "create" THEN { y \in Row \ used : y[1] = call[c].type } ELSE {call[c].row} :
        /\ call[c].op \in {"updateOne", "updateOneID"} => Written(call[c], x) # {}
        /\ live' = live \cup Written(call[c], x)
        /\ ref' = [y \in Row |-> IF y \in Written(call[c], x) THEN Assigned(call[c], y) ELSE ref[y]]
    BY Zenon DEF Save
  <2> QED  BY Zenon, <1>2, <2>1
<1>4. call'[c] = m /\ todo'[c] = Touches(m) /\ UNCHANGED <<stamp, now>>
  BY <1>2 DEF Save, HooksInv, CallInv, TypeInv
<1>5. PICK S : S = Written(m, x)
  OBVIOUS
<1>6. u.live \subseteq used /\ live \subseteq Row
  BY DEF HooksInv, CallInv, TypeInv, Stored
<1>7. /\ S \subseteq Row /\ \A y \in S : y[1] = m.type
      /\ IF m.op = "create" THEN \E y \in Row \ u.live : S = {y} ELSE S \subseteq u.live
      /\ m.op = "updateOne" => S = {m.row}
  <2>1. CASE m.op = "create"
    BY <1>3, <1>5, <1>6, <2>1 DEF Written
  <2>2. CASE m.op = "update"
    BY <1>1, <1>3, <1>5, <1>6, <2>2 DEF Written, Fresh
  <2>3. CASE m.op \in {"updateOne", "updateOneID"}
    BY <1>1, <1>2, <1>3, <1>5, <1>6, <2>3 DEF Written, Fresh, Passed
  <2> QED  BY <1>1, <1>2, <2>1, <2>2, <2>3 DEF Passed, Forms
<1>8. \A y \in S : \A r \in Rels :
        ref'[y][r] = IF m.asg[r] # Keep THEN m.asg[r] ELSE IF m.op = "create" THEN NoRow ELSE u.ref[y][r]
  BY <1>1, <1>3, <1>5, <1>7 DEF Assigned, Fresh
<1>9. \A y \in Row \ S : ref'[y] = u.ref[y]
  BY <1>1, <1>3, <1>5 DEF Fresh
<1>10. \A p \in Row : u.stamp[p] < now /\ stamp'[p] = u.stamp[p]
  BY <1>1, <1>4 DEF Fresh
<1>11. Touches(m) \ todo'[c] = {}
  BY <1>4
<1>12. live' = u.live \cup S /\ (m.op = "updateOne" => m.old = u.ref[m.row])
       /\ \A r \in Rels : m.asg[r] # Keep => r \in RelationsOf(m.type)
  BY <1>1, <1>2, <1>3, <1>5 DEF Fresh
<1>13. Wrote(c, u, S)'
  BY <1>4, <1>7, <1>8, <1>9, <1>10, <1>11, <1>12 DEF Wrote
<1> QED  BY <1>7, <1>13

\* A touch hook has run.
LEMMA ProgressTouch ==
  ASSUME HooksInv, ProgressInv, NEW c \in Caller, Touch(c), NEW u \in undo
  PROVE  \E S \in SUBSET Row : Wrote(c, u, S)'
<1>1. PICK S \in SUBSET Row : Wrote(c, u, S)
  BY DEF Touch, ProgressInv, Progress
<1>2. PICK r \in Innermost(todo[c]) :
        /\ TouchTarget(call[c], r) \in live
        /\ stamp' = [stamp EXCEPT ![TouchTarget(call[c], r)] = now]
        /\ todo' = [todo EXCEPT ![c] = @ \ {r}]
  BY DEF Touch
<1>3. PICK m, t : m = call[c] /\ t = TouchTarget(m, r)
  OBVIOUS
<1>4. UNCHANGED <<live, ref, now, call>> /\ todo'[c] = todo[c] \ {r} /\ r \in todo[c]
  BY <1>2 DEF Touch, Innermost, HooksInv, CallInv, TypeInv
<1>5. Touches(m) \ todo'[c] = (Touches(m) \ todo[c]) \cup {r}
  BY <1>1, <1>3, <1>4 DEF Wrote
<1>6. t \in live /\ stamp' = [stamp EXCEPT ![t] = now] /\ stamp \in [Row -> 0 .. now]
  BY <1>2, <1>3 DEF HooksInv, CallInv, TypeInv, Stored
<1>7. ASSUME NEW p \in Row
      PROVE  stamp'[p] = IF \E q \in Touches(m) \ todo'[c] : TouchTarget(m, q) = p THEN now ELSE u.stamp[p]
  <2>1. CASE p = t
    BY <1>3, <1>5, <1>6, <2>1
  <2>2. CASE p # t
    <3>1. stamp'[p] = stamp[p]
      BY <1>6, <2>2
    <3>2. stamp[p] = IF \E q \in Touches(m) \ todo[c] : TouchTarget(m, q) = p THEN now ELSE u.stamp[p]
      BY <1>1, <1>3 DEF Wrote
    <3>3. (\E q \in Touches(m) \ todo'[c] : TouchTarget(m, q) = p)
            <=> (\E q \in Touches(m) \ todo[c] : TouchTarget(m, q) = p)
      BY <1>3, <1>5, <2>2
    <3> QED  BY <3>1, <3>2, <3>3
  <2> QED  BY <2>1, <2>2
<1>8. \A q \in Touches(m) \ todo'[c] : TouchTarget(m, q) \in live
  BY <1>1, <1>3, <1>5, <1>6 DEF Wrote
<1>9. todo'[c] \subseteq Touches(m) /\ \A p \in Row : u.stamp[p] < now
  BY <1>1, <1>3, <1>4 DEF Wrote
<1>10. call'[c] = m
  BY <1>3, <1>4
<1>11. Wrote(c, u, S)'
  BY <1>1, <1>3, <1>4, <1>7, <1>8, <1>9, <1>10 DEF Wrote
<1> QED  BY <1>11

LEMMA ProgressNext ==
  ASSUME Transactional
  PROVE  HooksInv /\ HooksInv' /\ LateInv /\ ProgressInv /\ [Next]_vars => ProgressInv'
<1> SUFFICES ASSUME HooksInv, HooksInv', LateInv, ProgressInv, [Next]_vars, NEW c \in Caller, NEW u \in undo'
             PROVE  Progress(c, u)'
  BY DEF ProgressInv
<1>1. CASE UNCHANGED vars
  <2>1. u \in undo /\ UNCHANGED <<live, ref, stamp, now, pc, call, todo, stack>> /\ Progress(c, u)
    BY <1>1 DEF vars, ProgressInv
  <2>2. (pc[c] = "save" => Fresh(c, u)) => (pc'[c] = "save" => Fresh(c, u)')
    BY <2>1 DEF Fresh
  <2>3. (\E S \in SUBSET Row : Wrote(c, u, S)) => (\E S \in SUBSET Row : Wrote(c, u, S)')
    BY <2>1 DEF Wrote
  <2>4. Removing(c, u) => Removing(c, u)'
    BY <2>1 DEF Removing, Asked
  <2> QED  BY <2>1, <2>2, <2>3, <2>4 DEF Progress
<1>2. ASSUME Acts(c) PROVE Progress(c, u)'
  <2>1. CASE BeginSave(c)
    <3>1. pc'[c] = "save"
      BY <2>1 DEF BeginSave, HooksInv, CallInv, TypeInv
    <3> QED  BY <2>1, <3>1, ProgressBeginSave DEF Progress
  <2>2. CASE BeginDelete(c)
    <3>1. pc'[c] = "delete"
      BY <2>2 DEF BeginDelete, HooksInv, CallInv, TypeInv
    <3> QED  BY <2>2, <3>1, ProgressBeginDelete DEF Progress
  <2>3. CASE Save(c)
    <3>1. pc'[c] = "touch" /\ undo' = undo
      BY <2>3 DEF Save, HooksInv, CallInv, TypeInv
    <3> QED  BY <2>3, <3>1, ProgressSave DEF Progress
  <2>4. CASE Touch(c)
    <3>1. pc'[c] = "touch" /\ undo' = undo
      BY <2>4 DEF Touch
    <3> QED  BY <2>4, <3>1, ProgressTouch DEF Progress
  <2>5. CASE SaveReturns(c) \/ NotFound(c) \/ Overflow(c) \/ Fail(c)
    BY <2>5 DEF SaveReturns, NotFound, Overflow, Fail, Returns
  <2>6. CASE Enumerate(c) \/ DeleteChildren(c) \/ NextHook(c)
    <3>1. pc'[c] = "delete" /\ undo' = undo
      BY <2>6 DEF Enumerate, DeleteChildren, NextHook, InHook
    <3> QED  BY <2>6, <3>1, RemovingEnumerate, RemovingChildren, RemovingNextHook DEF Progress
  <2>7. CASE Delete(c)
    <3>1. CASE Len(stack[c]) = 1
      BY <2>7, <3>1 DEF Delete, Returns
    <3>2. CASE Len(stack[c]) # 1
      <4>1. pc'[c] = "delete" /\ undo' = undo
        BY <2>7, <3>2 DEF Delete
      <4> QED  BY <2>7, <3>2, <4>1, RemovingReturns DEF Progress
    <3> QED  BY <3>1, <3>2
  <2> QED  BY <1>2, <2>1, <2>2, <2>3, <2>4, <2>5, <2>6, <2>7 DEF Acts, Steps
<1>3. ASSUME NEW d \in Caller, Acts(d) PROVE Progress(c, u)'
  <2>1. CASE pc'[c] = "idle"
    BY <2>1 DEF Progress
  <2>2. CASE pc'[c] # "idle"
    BY <1>2, <1>3, <2>2, OneActor DEF HooksInv
  <2> QED  BY <2>1, <2>2
<1> QED  BY <1>1, <1>3 DEF Next, Acts

\* What other connections see: the transaction's start while one is open.
LEMMA CommittedOpen == ASSUME NEW u, undo = {u} PROVE Committed = u
  BY DEF Committed

LEMMA CommittedClosed ==
  ASSUME undo = {}
  PROVE  Committed.live = live /\ Committed.ref = ref /\ Committed.stamp = stamp
  BY DEF Committed

\* A call that holds a transaction holds its start.
LEMMA Holding ==
  ASSUME Transactional, CallInv, NEW c \in Caller, pc[c] # "idle"
  PROVE  \E u : undo = {u} /\ Stored(u.live, u.ref, u.stamp)
  BY DEF CallInv, Exclusive, TypeInv

\* A step that is not the end of a successful call.
LEMMA Hidden ==
  ASSUME Transactional, HooksInv, NEW c \in Caller, Acts(c), ~ SaveReturns(c), ~ (Delete(c) /\ Len(stack[c]) = 1)
  PROVE  UNCHANGED <<Committed.live, Committed.ref, Committed.stamp>>
<1>1. CASE BeginSave(c) \/ BeginDelete(c)
  <2>1. PICK u : u = [live |-> live, ref |-> ref, stamp |-> stamp]
    OBVIOUS
  <2>2. undo = {} /\ undo' = {u}
    BY <1>1, <2>1 DEF BeginSave, BeginDelete, Opens
  <2>3. Committed = u /\ Committed' = u
    BY <2>1, <2>2 DEF Committed
  <2> QED  BY <2>3
<1>2. CASE NotFound(c) \/ Overflow(c) \/ Fail(c)
  <2>1. Undone /\ pc[c] # "idle" /\ \E result : Returns(c, result)
    BY <1>2 DEF NotFound, Overflow, Fail, InHook
  <2>2. PICK u : undo = {u}
    BY <2>1, Holding DEF HooksInv
  <2>3. undo' = {} /\ live' = u.live /\ ref' = u.ref /\ stamp' = u.stamp
    BY <2>1, <2>2 DEF Undone, Returns
  <2>4. Committed = u /\ Committed' = [live |-> live', ref |-> ref', stamp |-> stamp']
    BY <2>2, <2>3 DEF Committed
  <2> QED  BY <2>3, <2>4
<1>3. CASE Save(c) \/ Touch(c) \/ Enumerate(c) \/ DeleteChildren(c) \/ NextHook(c) \/ Delete(c)
  <2>1. pc[c] # "idle" /\ undo' = undo
    BY <1>3 DEF Save, Touch, Enumerate, DeleteChildren, NextHook, Delete, InHook
  <2>2. PICK u : undo = {u}
    BY <2>1, Holding DEF HooksInv
  <2>3. Committed = u /\ Committed' = u
    BY <2>1, <2>2 DEF Committed
  <2> QED  BY <2>3
<1> QED  BY <1>1, <1>2, <1>3 DEF Acts, Steps

\* The parents a save was given are stamped, and no others but those it left.
LEMMA SaveCommits ==
  ASSUME Transactional, HooksInv, ProgressInv, NEW c \in Caller, SaveReturns(c)
  PROVE  Store!Next
<1>1. pc[c] = "touch" /\ todo[c] = {} /\ undo' = {} /\ UNCHANGED <<live, ref, stamp, now>>
  BY DEF SaveReturns, Returns, db
<1>2. PICK u : undo = {u} /\ Stored(u.live, u.ref, u.stamp)
  BY <1>1, Holding DEF HooksInv
<1>3. PICK S \in SUBSET Row : Wrote(c, u, S)
  BY <1>1, <1>2 DEF ProgressInv, Progress
<1>4. PICK w : w = [live |-> live, ref |-> ref, stamp |-> stamp]
  OBVIOUS
<1>5. Committed = u /\ Committed' = w
  BY <1>1, <1>2, <1>4 DEF Committed
<1>6. PICK m : m = call[c]
  OBVIOUS
<1>7. /\ w.live = u.live \cup S
      /\ IF m.op = "create" THEN \E x \in Row \ u.live : S = {x} ELSE S \subseteq u.live
      /\ \A x \in S : x[1] = m.type
      /\ m.op = "updateOne" => S = {m.row} /\ m.old = u.ref[m.row]
      /\ \A x \in Row \ S : w.ref[x] = u.ref[x]
      /\ \A x \in S : \A r \in Rels :
            w.ref[x][r] = IF m.asg[r] # Keep THEN m.asg[r] ELSE IF m.op = "create" THEN NoRow ELSE u.ref[x][r]
      /\ \A r \in Rels : m.asg[r] # Keep => r \in RelationsOf(m.type)
      /\ \A q \in Touches(m) : TouchTarget(m, q) \in w.live
  BY <1>1, <1>3, <1>4, <1>6 DEF Wrote
<1>8. \A p \in Row : /\ u.stamp[p] < now
                     /\ w.stamp[p] = IF \E q \in Touches(m) : TouchTarget(m, q) = p THEN now ELSE u.stamp[p]
  BY <1>1, <1>3, <1>4, <1>6 DEF Wrote
<1>9. /\ w.ref \in [Row -> [Rels -> Row \cup {NoRow}]] /\ w.live \subseteq Row
      /\ \A x \in w.live : \A r \in RelationsOf(x[1]) : Relation[r].required => w.ref[x][r] # NoRow
      /\ now \in Nat /\ u.stamp \in [Row -> 0 .. now]
  BY <1>2, <1>4 DEF HooksInv, Inv, Filled, CallInv, TypeInv, Stored
<1> DEFINE Stamped == { p \in Row : w.stamp[p] # u.stamp[p] }
<1>10. \A p \in Row : p \in Stamped <=> \E q \in Touches(m) : TouchTarget(m, q) = p
  BY <1>8, <1>9
<1>11. \A p \in Stamped : w.stamp[p] > u.stamp[p]
  BY <1>8, <1>9, <1>10
<1>12. ASSUME NEW x \in S, NEW r \in Rels, Relation[r].touch, NEW p, p = w.ref[x][r], p # NoRow,
              x \notin u.live \/ p # u.ref[x][r]
       PROVE  p \in Stamped \cap w.live
  <2>1. p \in Row
    BY <1>9, <1>12
  <2>2. m.asg[r] # Keep
    BY <1>7, <1>12
  <2>3. m.asg[r] = p /\ r \in RelationsOf(m.type)
    BY <1>7, <1>12, <2>2
  <2>4. TouchTarget(m, r) = p
    BY <2>1, <2>3 DEF TouchTarget
  <2>5. r \in Touches(m)
    BY <1>12, <2>1, <2>3, <2>4, PolyParameters DEF Touches
  <2> QED  BY <1>7, <1>10, <2>1, <2>4, <2>5
<1>13. ASSUME S # {}, NEW p \in Stamped
       PROVE  \E y \in S, r \in Rels : p \in {u.ref[y][r], w.ref[y][r]}
  <2>1. PICK q \in Touches(m) : TouchTarget(m, q) = p
    BY <1>10
  <2>2. q \in Rels /\ p # NoRow
    BY <2>1 DEF Touches, RelationsOf
  <2>3. CASE m.asg[q] \in Row
    <3>1. PICK y \in S : TRUE
      BY <1>13
    <3>2. w.ref[y][q] = p
      BY <1>7, <2>1, <2>2, <2>3, PolyParameters DEF TouchTarget
    <3> QED  BY <2>2, <3>2
  <2>4. CASE m.asg[q] \notin Row
    BY <1>7, <2>1, <2>2, <2>4 DEF TouchTarget
  <2> QED  BY <2>3, <2>4
<1>14. Store!Save(S)
  <2>1. \A x \in S : \A r \in RelationsOf(x[1]) : Relation[r].required => w.ref[x][r] # NoRow
    BY <1>7, <1>9
  <2>2. \A x \in S : \A r \in Rels :
          Relation[r].touch /\ (x \notin u.live \/ w.ref[x][r] # u.ref[x][r]) /\ w.ref[x][r] # NoRow
            => w.ref[x][r] \in Stamped \cap w.live
    BY <1>12
  <2>3. S # {} => \A p \in Stamped : \E x \in S, r \in Rels : p \in {u.ref[x][r], w.ref[x][r]}
    BY <1>13
  <2> HIDE <1>12, <1>13
  <2> QED  BY <1>5, <1>7, <1>11, <2>1, <2>2, <2>3 DEF Store!Save, Store!RelationsOf, RelationsOf, Rels
<1>15. CASE m.op = "create"
  BY <1>5, <1>7, <1>14, <1>15 DEF Store!Next
<1>16. CASE m.op # "create"
  <2>1. S \in SUBSET Committed.live /\ Store!OneType(S)
    BY <1>5, <1>7, <1>16 DEF Store!OneType
  <2> QED  BY <1>14, <2>1 DEF Store!Next
<1> QED  BY <1>15, <1>16

\* The outermost delete takes the rows it names with their subtrees.
LEMMA DeleteCommits ==
  ASSUME Transactional, HooksInv, LateInv, ProgressInv, NEW c \in Caller, Delete(c), Len(stack[c]) = 1
  PROVE  Store!Next
<1>1. pc[c] = "delete" /\ undo' = {} /\ UNCHANGED <<ref, stamp>>
  BY DEF Delete, Returns
<1>2. PICK u : undo = {u} /\ Stored(u.live, u.ref, u.stamp)
  BY <1>1, Holding DEF HooksInv
<1>3. PICK w : w = [live |-> live', ref |-> ref', stamp |-> stamp']
  OBVIOUS
<1>4. Committed = u /\ Committed' = w
  BY <1>1, <1>2, <1>3 DEF Committed
<1>6. PICK S : S = call[c].roots
  OBVIOUS
<1>7. w.live = u.live \ Tree(u, S) /\ w.ref = u.ref /\ w.stamp = u.stamp
  BY <1>1, <1>2, <1>3, <1>6, RemovedTree DEF ProgressInv, Progress, Removing
<1>8. S \subseteq u.live /\ Store!OneType(S)
  <2>1. FrameBottom(u, S, stack[c][1])
    BY <1>1, <1>2, <1>6 DEF ProgressInv, Progress, Removing
  <2> QED  BY <2>1 DEF FrameBottom, Store!OneType
<1>9. S \cap w.live = {}
  BY <1>7, <1>8, TreeProperties
<1>10. Store!Subtree(S) = Tree(u, S)
  BY <1>4 DEF Store!Subtree, Store!Closed, Store!RelationsOf, Tree, TreeClosed, RelationsOf, Rels
<1>11. Store!Delete(S)
  BY <1>4, <1>7, <1>9, <1>10 DEF Store!Delete
<1> QED  BY <1>4, <1>8, <1>11 DEF Store!Next

\* In serializable transactions each save and each delete, with all its hooks, is
\* one step of the store or none (polymorphic.tmpl 812-1000).
THEOREM HooksImplementStore ==
  ASSUME Transactional
  PROVE  Spec => ImplementsStore
<1>1. Init => LateInv /\ ProgressInv
  BY DEF Init, LateInv, ProgressInv
<1>2. Init => Store!Init
  <2> SUFFICES ASSUME Init PROVE Store!Init
    OBVIOUS
  <2>1. Committed.live = live /\ Committed.ref = ref /\ Committed.stamp = stamp
    BY CommittedClosed DEF Init
  <2>2. live \subseteq Row /\ ref \in [Row -> [DOMAIN Relation -> Row \cup {NoRow}]] /\ stamp = [x \in Row |-> 0]
    BY PolyParameters DEF Init, Rels
  <2> QED  BY <2>1, <2>2 DEF Store!Init
<1>3. HooksInv /\ HooksInv' /\ LateInv /\ ProgressInv /\ [Next]_vars
        => [Store!Next]_<<Committed.live, Committed.ref, Committed.stamp>>
  <2> SUFFICES ASSUME HooksInv, LateInv, ProgressInv, [Next]_vars
               PROVE  [Store!Next]_<<Committed.live, Committed.ref, Committed.stamp>>
    OBVIOUS
  <2>1. CASE UNCHANGED vars
    <3>1. Committed' = Committed
      BY <2>1 DEF vars, Committed
    <3> QED  BY <3>1
  <2>2. ASSUME NEW c \in Caller, Acts(c)
        PROVE  [Store!Next]_<<Committed.live, Committed.ref, Committed.stamp>>
    <3>1. CASE SaveReturns(c)
      BY <3>1, SaveCommits
    <3>2. CASE Delete(c) /\ Len(stack[c]) = 1
      BY <3>2, DeleteCommits
    <3>3. CASE ~ SaveReturns(c) /\ ~ (Delete(c) /\ Len(stack[c]) = 1)
      BY <2>2, <3>3, Hidden
    <3> QED  BY <3>1, <3>2, <3>3
  <2> QED  BY <2>1, <2>2 DEF Next, Acts
<1>4. HooksInv /\ HooksInv' /\ LateInv /\ [Next]_vars => LateInv'
  BY LateNext
<1>5. HooksInv /\ HooksInv' /\ LateInv /\ ProgressInv /\ [Next]_vars => ProgressInv'
  BY ProgressNext
<1> QED  BY HooksInit, HooksNext, <1>1, <1>2, <1>3, <1>4, <1>5, PTL DEF Spec, ImplementsStore, Store!Spec

----------------------------------------------------------------------------
(***************************************************************************)
(* The nested deletes of a transaction walk from children to their         *)
(* children, so more of them than there are rows meet a row twice, and the *)
(* rows in between hang on each other in a cycle.                          *)
(***************************************************************************)
\* A set of rows of u each of which has a child in it.
Fed(u, S) == \A y \in S : \E x \in S : \E r \in RelationsOf(x[1]) : Relation[r].cascade /\ u.ref[x][r] = y

\* The row x of u is one of the children the frame f is there to delete.
Hangs(u, f, x) ==
    /\ x \in u.live
    /\ f.sel.rel \in RelationsOf(x[1]) /\ Relation[f.sel.rel].cascade
    /\ u.ref[x][f.sel.rel] \in f.sel.rows

\* Above the frame the call began with, each frame deletes the children of one
\* row, which is a child the frame below is there to delete.
FrameLinked(u, s, i) ==
    i < Len(s) =>
        /\ s[i].sel.rel # 0 /\ \E p \in Row : s[i].sel.rows = {p}
        /\ s[i].ids # Unread => \A x \in s[i].ids : Hangs(u, s[i], x)
        /\ i > 1 => \A x \in s[i - 1].sel.rows : Hangs(u, s[i], x)

Linked(c, u) ==
    /\ \A i \in 1 .. Len(stack[c]) : FrameLinked(u, stack[c], i)
    /\ \A S \in SUBSET u.live : Fed(u, S) => S \subseteq live

LinkInv == \A c \in Caller, u \in undo : pc[c] = "delete" => Linked(c, u)

LEMMA FrameFields ==
  ASSUME NEW f \in Frames
  PROVE  f.sel.rel \in {0} \cup Rels /\ f.hooks \subseteq Rels /\ f.ids \in (SUBSET Row) \cup {Unread}
  BY DEF Frames

\* A step that leaves the rows alone and changes the innermost frame only.
LEMMA LinkedTop ==
  ASSUME NEW c \in Caller, NEW u, Linked(c, u), live' = live, stack[c] \in Seq(Frames), Len(stack[c]) \in Nat \ {0},
         NEW f, stack'[c] = [stack[c] EXCEPT ![1] = f], f.sel = stack[c][1].sel,
         1 < Len(stack[c]) /\ f.ids # Unread => \A x \in f.ids : Hangs(u, f, x)
  PROVE  Linked(c, u)'
<1> DEFINE s == stack[c]
<1>1. PICK t : t = stack'[c]
  OBVIOUS
<1>2. Len(t) = Len(s) /\ \A i \in 1 .. Len(s) : t[i] = IF i = 1 THEN f ELSE s[i]
  BY <1>1
<1>3. \A i \in 1 .. Len(s) : FrameLinked(u, s, i)
  BY DEF Linked
<1>4. ASSUME NEW i \in 1 .. Len(t) PROVE FrameLinked(u, t, i)
  <2>1. FrameLinked(u, s, i) /\ t[i].sel = s[i].sel
    BY <1>2, <1>3
  <2>2. i > 1 => t[i - 1].sel = s[i - 1].sel /\ t[i] = s[i]
    BY <1>2
  <2>3. i = 1 => t[i] = f /\ s[i] = s[1]
    BY <1>2
  <2> HIDE DEF s
  <2>4. Len(t) = Len(s)
    BY <1>2
  <2>5. CASE i = 1
    <3>1. t[1] = f /\ f.sel = s[1].sel /\ FrameLinked(u, s, 1)
      BY <2>1, <2>3, <2>5 DEF s
    <3>2. 1 < Len(t) /\ f.ids # Unread => \A x \in f.ids : Hangs(u, f, x)
      BY <2>4 DEF s
    <3> QED  BY <2>4, <2>5, <3>1, <3>2 DEF FrameLinked
  <2>6. CASE i # 1
    <3>1. t[i] = s[i] /\ t[i - 1].sel = s[i - 1].sel /\ i > 1
      BY <2>2, <2>6
    <3> QED  BY <2>1, <2>4, <3>1 DEF FrameLinked
  <2> QED  BY <2>5, <2>6
<1> QED  BY <1>1, <1>4 DEF Linked

LEMMA LinkedEnumerate ==
  ASSUME HooksInv, LateInv, ProgressInv, NEW c \in Caller, Enumerate(c), NEW u \in undo, Linked(c, u)
  PROVE  Linked(c, u)'
<1>1. pc[c] = "delete" /\ UNCHANGED <<live, ref>>
  BY DEF Enumerate, InHook, db
<1>2. PICK ids : ids = IF Top(c).one THEN Top(c).sel.rows ELSE Selected(Top(c).type, Top(c).sel)
  OBVIOUS
<1>3. PICK f : f = [Top(c) EXCEPT !.ids = ids]
  OBVIOUS
<1>4. stack'[c] = [stack[c] EXCEPT ![1] = f]
  <2>1. stack'[c] = [stack[c] EXCEPT ![1].ids = ids]
    BY <1>2 DEF Enumerate, HooksInv, CallInv, TypeInv
  <2> QED  BY <1>1, <1>3, <2>1, RemovingFacts
<1>5. f.sel = Top(c).sel /\ f.ids = ids /\ Top(c) = stack[c][1] /\ 1 \in 1 .. Len(stack[c])
  BY <1>1, <1>3, RemovingFacts DEF Frames
<1>6. ASSUME 1 < Len(stack[c]), NEW x \in ids PROVE Hangs(u, f, x)
  <2>1. Top(c).sel.rel # 0
    BY <1>5, <1>6 DEF Linked, FrameLinked
  <2>2. ~ Top(c).one
    BY <1>1, <1>5, <2>1 DEF HooksInv, ChildrenHandled, FrameChained
  <2>3. x \in live /\ x[1] = Top(c).type /\ ref[x][Top(c).sel.rel] \in Top(c).sel.rows
    BY <1>2, <1>6, <2>1, <2>2 DEF Selected
  <2>4. FrameIn(u, Asked(c), Top(c)) /\ live \subseteq u.live /\ ref = u.ref
    BY <1>1, RemovingFacts DEF Removing
  <2>5. Top(c) \in Frames
    BY <1>1, RemovingFacts
  <2>6. Top(c).sel.rel \in RelationsOf(x[1]) /\ Relation[Top(c).sel.rel].cascade
    <3>1. Top(c).sel.rel \in Rels
      BY <2>1, <2>5, FrameFields
    <3> QED  BY <2>1, <2>3, <2>4, <3>1 DEF FrameIn, RelationsOf
  <2> QED  BY <1>5, <2>3, <2>4, <2>6 DEF Hangs
<1> QED  BY <1>1, <1>4, <1>5, <1>6, RemovingFacts, LinkedTop

LEMMA LinkedNextHook ==
  ASSUME HooksInv, LateInv, ProgressInv, NEW c \in Caller, NextHook(c), NEW u \in undo, Linked(c, u)
  PROVE  Linked(c, u)'
<1>1. pc[c] = "delete" /\ UNCHANGED <<live, ref>>
  BY DEF NextHook, InHook, db
<1>3. PICK f : f = [Top(c) EXCEPT !.ids = Unread, !.hooks = Top(c).hooks \ Outermost(Top(c).hooks)]
  OBVIOUS
<1>4. stack'[c] = [stack[c] EXCEPT ![1] = f]
  <2>1. stack'[c] = [stack[c] EXCEPT ![1].ids = Unread, ![1].hooks = @ \ Outermost(@)]
    BY DEF NextHook, HooksInv, CallInv, TypeInv
  <2> QED  BY <1>1, <1>3, <2>1, RemovingFacts
<1>5. f.sel = Top(c).sel /\ f.ids = Unread /\ Top(c) = stack[c][1]
  BY <1>1, <1>3, RemovingFacts DEF Frames
<1> QED  BY <1>1, <1>4, <1>5, RemovingFacts, LinkedTop

LEMMA LinkedChildren ==
  ASSUME HooksInv, LateInv, ProgressInv, NEW c \in Caller, DeleteChildren(c), NEW u \in undo, Linked(c, u)
  PROVE  Linked(c, u)'
<1> DEFINE s == stack[c]
<1>2. pc[c] = "delete" /\ live' = live /\ Top(c).ids # Unread
  BY DEF DeleteChildren, InHook, db
<1>3. PICK h \in Outermost(Top(c).hooks), p \in Top(c).ids :
          stack' = [stack EXCEPT ![c] =
            <<Frame(Relation[h].child, [rel |-> h, rows |-> {p}], FALSE)>>
            \o <<[Top(c) EXCEPT !.ids = @ \ {p}]>> \o Tail(@)]
  BY DEF DeleteChildren
<1>4. PICK f, g, t : /\ f = Frame(Relation[h].child, [rel |-> h, rows |-> {p}], FALSE)
                     /\ g = [Top(c) EXCEPT !.ids = @ \ {p}]
                     /\ t = stack'[c]
  OBVIOUS
<1>5. t = <<f>> \o <<g>> \o Tail(s)
  BY <1>3, <1>4 DEF HooksInv, CallInv, TypeInv
<1>6. FrameIn(u, Asked(c), Top(c))
  BY <1>2, RemovingFacts
<1>7. p \in Row /\ h # 0
  <2>1. Top(c).ids \in (SUBSET Row) \cup {Unread} /\ h \in Rels
    <3>1. Top(c) \in Frames
      BY <1>2, RemovingFacts
    <3> QED  BY <3>1, FrameFields DEF Outermost
  <2> QED  BY <1>2, <2>1, PolyParameters
<1>8. f.sel = [rel |-> h, rows |-> {p}] /\ f.ids = Unread
  BY <1>4 DEF Frame
<1>9. g.sel = Top(c).sel /\ g.ids \subseteq Top(c).ids
  BY <1>2, <1>4, RemovingFacts DEF Frames
<1>11. /\ Len(t) = Len(s) + 1 /\ Len(s) \in Nat \ {0} /\ Top(c) = s[1]
       /\ t[1] = f /\ t[2] = g /\ \A i \in 3 .. Len(t) : t[i] = s[i - 1]
  BY <1>2, <1>5, RemovingFacts
<1>12. \A i \in 1 .. Len(s) : FrameLinked(u, s, i)
  BY DEF Linked
<1> HIDE DEF s
<1>13. ASSUME NEW i \in 1 .. Len(t) PROVE FrameLinked(u, t, i)
  <2>1. PICK n \in Nat \ {0} : Len(s) = n /\ Len(t) = n + 1
    BY <1>11
  <2>2. CASE i = 1
    BY <1>7, <1>8, <1>11, <2>2 DEF FrameLinked
  <2>3. CASE i = 2
    <3> SUFFICES ASSUME n > 1 PROVE FrameLinked(u, t, 2)
      BY <2>1, <2>3 DEF FrameLinked
    <3>1. FrameLinked(u, s, 1) /\ 1 < Len(s) /\ 1 < n
      BY <1>12, <2>1
    <3>2. \A x \in Top(c).ids : Hangs(u, g, x)
      BY <1>2, <1>9, <1>11, <3>1 DEF FrameLinked, Hangs
    <3>3. t[2 - 1].sel.rows = {p} /\ t[2] = g
      BY <1>8, <1>11
    <3>4. g.sel.rel # 0 /\ \E q \in Row : g.sel.rows = {q}
      BY <1>9, <1>11, <3>1 DEF FrameLinked
    <3> QED  BY <1>3, <1>9, <3>2, <3>3, <3>4 DEF FrameLinked
  <2>4. CASE i \in 3 .. n + 1
    <3>1. i - 1 \in 1 .. n /\ FrameLinked(u, s, i - 1) /\ t[i] = s[i - 1] /\ (i < n + 1 => i - 1 < n)
      BY <1>11, <1>12, <2>1, <2>4
    <3>2. t[i - 1].sel = s[i - 2].sel /\ i - 1 > 1 /\ (i - 1) - 1 = i - 2
      <4>1. CASE i = 3
        BY <1>9, <1>11, <4>1
      <4>2. CASE i # 3
        <5>1. i - 1 \in 3 .. Len(t) /\ (i - 1) - 1 = i - 2
          BY <2>1, <2>4, <4>2
        <5> QED  BY <1>11, <2>1, <2>4, <5>1
      <4> QED  BY <4>1, <4>2
    <3>3. CASE i < n + 1
      <4>1. /\ s[i - 1].sel.rel # 0 /\ \E q \in Row : s[i - 1].sel.rows = {q}
            /\ s[i - 1].ids # Unread => \A x \in s[i - 1].ids : Hangs(u, s[i - 1], x)
            /\ \A x \in s[i - 2].sel.rows : Hangs(u, s[i - 1], x)
        BY <2>1, <3>1, <3>2, <3>3 DEF FrameLinked
      <4> QED  BY <3>1, <3>2, <4>1 DEF FrameLinked
    <3>4. CASE ~ i < n + 1
      BY <2>1, <3>4 DEF FrameLinked
    <3> QED  BY <3>3, <3>4
  <2> QED  BY <2>1, <2>2, <2>3, <2>4
<1> QED  BY <1>2, <1>4, <1>13 DEF Linked

\* A nested delete returns: it took no row that still has a child.
LEMMA LinkedReturns ==
  ASSUME HooksInv, LateInv, ProgressInv, NEW c \in Caller, Delete(c), Len(stack[c]) # 1, NEW u \in undo, Linked(c, u)
  PROVE  Linked(c, u)'
<1> DEFINE s == stack[c]
           t == stack'[c]
<1>1. pc[c] = "delete" /\ ~ InHook(c) /\ stack' = [stack EXCEPT ![c] = Tail(@)]
      /\ live' = live \ Selected(Top(c).type, Top(c).sel)
  BY DEF Delete
<1>2. ASSUME NEW S \in SUBSET u.live, Fed(u, S), NEW y \in S PROVE y \in live'
  <2> SUFFICES ASSUME y \in Selected(Top(c).type, Top(c).sel) PROVE FALSE
    BY <1>1, <1>2 DEF Linked
  <2>1. PICK x \in S : \E r \in RelationsOf(x[1]) : Relation[r].cascade /\ u.ref[x][r] = y
    BY <1>2 DEF Fed
  <2>2. PICK r \in RelationsOf(x[1]) : Relation[r].cascade /\ u.ref[x][r] = y
    BY <2>1
  <2>3. x \in live /\ ref = u.ref /\ late[c] = {}
    BY <1>1, <1>2, <2>1, RemovingFacts DEF Linked, Removing, LateInv
  <2>4. Top(c) = stack[c][1] /\ 1 \in 1 .. Len(stack[c]) /\ Top(c).hooks = {}
    BY <1>1, RemovingFacts DEF InHook
  <2>5. FrameHandled(c, 1)
    BY <1>1, <2>4 DEF HooksInv, ChildrenHandled
  <2> QED  BY <2>2, <2>3, <2>4, <2>5 DEF FrameHandled, Waits
<1>5. t = Tail(s) /\ s \in Seq(Frames) /\ Len(s) \in Nat \ {0} /\ Len(s) # 1
  BY <1>1, RemovingFacts DEF HooksInv, CallInv, TypeInv
<1>6. \A i \in 1 .. Len(s) : FrameLinked(u, s, i)
  BY DEF Linked
<1> HIDE DEF s, t
<1>7. ASSUME NEW i \in 1 .. Len(t) PROVE FrameLinked(u, t, i)
  <2>1. PICK n \in Nat \ {0} : Len(s) = n /\ Len(t) = n - 1
    BY <1>5
  <2>2. t[i] = s[i + 1] /\ i + 1 \in 1 .. n /\ FrameLinked(u, s, i + 1)
    BY <1>5, <1>6, <2>1
  <2>3. i > 1 => t[i - 1] = s[i] /\ i = (i + 1) - 1
    BY <1>5, <2>1
  <2>4. i < n - 1 => i + 1 < n /\ i + 1 > 1
    OBVIOUS
  <2> QED  BY <2>1, <2>2, <2>3, <2>4 DEF FrameLinked
<1> QED  BY <1>2, <1>7 DEF Linked, t

LEMMA LinkedNext ==
  ASSUME Transactional
  PROVE  HooksInv /\ HooksInv' /\ LateInv /\ ProgressInv /\ LinkInv /\ [Next]_vars => LinkInv'
<1> SUFFICES ASSUME HooksInv, HooksInv', LateInv, ProgressInv, LinkInv, [Next]_vars,
                    NEW c \in Caller, NEW u \in undo', pc'[c] = "delete"
             PROVE  Linked(c, u)'
  BY DEF LinkInv
<1>1. CASE UNCHANGED vars
  <2>1. u \in undo /\ UNCHANGED <<live, stack>> /\ Linked(c, u)
    BY <1>1 DEF vars, LinkInv
  <2> QED  BY <2>1 DEF Linked
<1>2. ASSUME Acts(c) PROVE Linked(c, u)'
  <2>1. CASE BeginDelete(c)
    <3>1. PICK f : stack' = [stack EXCEPT ![c] = <<f>>]
      BY <2>1, Zenon DEF BeginDelete
    <3>2. stack'[c] = <<f>> /\ u.live = live' /\ Len(<<f>>) = 1
      BY <1>2, <2>1, <3>1 DEF BeginDelete, Opens, db, HooksInv, CallInv, TypeInv
    <3> QED  BY <3>2 DEF Linked, FrameLinked
  <2>2. CASE BeginSave(c) \/ Save(c) \/ Touch(c) \/ SaveReturns(c) \/ NotFound(c) \/ Overflow(c) \/ Fail(c)
    BY <2>2 DEF BeginSave, Save, Touch, SaveReturns, NotFound, Overflow, Fail, Returns, HooksInv, CallInv, TypeInv
  <2>3. CASE Enumerate(c) \/ DeleteChildren(c) \/ NextHook(c)
    <3>1. pc[c] = "delete" /\ undo' = undo
      BY <2>3 DEF Enumerate, DeleteChildren, NextHook, InHook
    <3> QED  BY <2>3, <3>1, LinkedEnumerate, LinkedChildren, LinkedNextHook DEF LinkInv
  <2>4. CASE Delete(c)
    <3>1. CASE Len(stack[c]) = 1
      BY <2>4, <3>1 DEF Delete, Returns
    <3>2. CASE Len(stack[c]) # 1
      <4>1. pc[c] = "delete" /\ undo' = undo
        BY <2>4, <3>2 DEF Delete
      <4> QED  BY <2>4, <3>2, <4>1, LinkedReturns DEF LinkInv
    <3> QED  BY <3>1, <3>2
  <2> QED  BY <1>2, <2>1, <2>2, <2>3, <2>4 DEF Acts, Steps
<1>3. ASSUME NEW d \in Caller, Acts(d) PROVE Linked(c, u)'
  BY <1>2, <1>3, OneActor DEF HooksInv
<1> QED  BY <1>1, <1>3 DEF Next, Acts

\* A walk along references that is longer than there are rows runs in a cycle.
LEMMA LongWalk ==
  ASSUME IsFiniteSet(Row), NEW n \in Nat, n > Cardinality(Row), NEW f \in [0 .. n - 1 -> Row],
         NEW u, \A k \in 0 .. n - 2 : /\ f[k] \in u.live
                                      /\ \E r \in RelationsOf(f[k][1]) : Relation[r].cascade /\ u.ref[f[k]][r] = f[k + 1]
  PROVE  \E S \in SUBSET u.live :
            /\ S # {} /\ Fed(u, S)
            /\ \A x \in S : \E r \in RelationsOf(x[1]) : Relation[r].cascade /\ u.ref[x][r] \in S
<1>1. PICK a \in 0 .. n - 1, b \in 0 .. n - 1 : a < b /\ f[a] = f[b]
  <2>0. Cardinality(Row) \in Nat
    BY FS_CardinalityType
  <2>1. IsFiniteSet(0 .. n - 1) /\ Cardinality(0 .. n - 1) = n
    <3>1. 0 \in Int /\ n - 1 \in Int /\ ~ (0 > n - 1) /\ (n - 1) - 0 + 1 = n
      BY <2>0
    <3> QED  BY <3>1, FS_Interval
  <2>2. \E x, y \in 0 .. n - 1 : x # y /\ f[x] = f[y]
    BY <2>1, FS_PigeonHole
  <2> QED  BY <2>2
<1> DEFINE S == { f[k] : k \in a .. b - 1 }
<1>0. (\A y \in S : \E k \in a .. b - 1 : y = f[k]) /\ \A k \in a .. b - 1 : f[k] \in S
  OBVIOUS
<1> HIDE DEF S
<1>2. \A k \in a .. b - 1 : k \in 0 .. n - 2 /\ k \in 0 .. n - 1 /\ k + 1 \in 0 .. n - 1
  BY <1>1
<1>3. S \subseteq u.live /\ f[a] \in S
  <2>1. a \in a .. b - 1
    BY <1>1
  <2> QED  BY <1>0, <1>2, <2>1
<1>4. ASSUME NEW k \in a .. b - 1 PROVE f[k + 1] \in S
  <2>1. CASE k + 1 = b
    BY <1>1, <1>3, <2>1
  <2>2. CASE k + 1 # b
    <3>1. k + 1 \in a .. b - 1
      BY <1>1, <2>2
    <3> QED  BY <1>0, <3>1
  <2> QED  BY <2>1, <2>2
<1>5. ASSUME NEW k \in a .. b - 1 PROVE \E j \in a .. b - 1 : f[j + 1] = f[k]
  <2>1. CASE k = a
    <3>1. b - 1 \in a .. b - 1 /\ (b - 1) + 1 = b
      BY <1>1
    <3> QED  BY <1>1, <2>1, <3>1
  <2>2. CASE k # a
    <3>1. a \in Int /\ b \in Int /\ k \in Int /\ a <= k /\ k <= b - 1
      BY <1>1
    <3>2. k - 1 \in a .. b - 1 /\ (k - 1) + 1 = k
      BY <2>2, <3>1
    <3> QED  BY <3>2
  <2> QED  BY <2>1, <2>2
<1>6. Fed(u, S)
  <2> SUFFICES ASSUME NEW y \in S
               PROVE  \E x \in S : \E r \in RelationsOf(x[1]) : Relation[r].cascade /\ u.ref[x][r] = y
    BY DEF Fed
  <2>0. PICK k \in a .. b - 1 : y = f[k]
    BY <1>0
  <2>1. PICK j \in a .. b - 1 : f[j + 1] = f[k]
    BY <1>5
  <2>2. f[j] \in S
    BY <1>0
  <2>3. \E r \in RelationsOf(f[j][1]) : Relation[r].cascade /\ u.ref[f[j]][r] = f[j + 1]
    BY <1>2
  <2> QED  BY <2>0, <2>1, <2>2, <2>3
<1>7. \A x \in S : \E r \in RelationsOf(x[1]) : Relation[r].cascade /\ u.ref[x][r] \in S
  <2> SUFFICES ASSUME NEW k \in a .. b - 1
               PROVE  \E r \in RelationsOf(f[k][1]) : Relation[r].cascade /\ u.ref[f[k]][r] \in S
    BY <1>0
  <2>1. \E r \in RelationsOf(f[k][1]) : Relation[r].cascade /\ u.ref[f[k]][r] = f[k + 1]
    BY <1>2
  <2> QED  BY <1>4, <2>1
<1> QED  BY <1>3, <1>6, <1>7

\* In serializable transactions, and with more nesting allowed than there are rows,
\* nested deletes exhaust the stack only on rows that hang on each other in a
\* cycle (the cascade hook deletes through the same client, polymorphic.tmpl 987).
THEOREM OverflowAlwaysNeedsCycle ==
  ASSUME Transactional, IsFiniteSet(Row), MaxDepth > Cardinality(Row)
  PROVE  Spec => OverflowNeedsCycle
<1> DEFINE Step == \A c \in Caller : out'[c] = "crash" /\ out[c] # "crash" =>
         \E S \in SUBSET live : S # {} /\ \A x \in S : \E r \in RelationsOf(x[1]) :
            Relation[r].cascade /\ ref[x][r] \in S
<1>1. Init => LateInv /\ ProgressInv /\ LinkInv
  BY DEF Init, LateInv, ProgressInv, LinkInv
<1>2. HooksInv /\ LateInv /\ ProgressInv /\ LinkInv /\ [Next]_vars => [Step]_vars
  <2> SUFFICES ASSUME HooksInv, LateInv, ProgressInv, LinkInv, Next, NEW c \in Caller,
                      out'[c] = "crash", out[c] # "crash"
               PROVE  \E S \in SUBSET live : S # {} /\ \A x \in S : \E r \in RelationsOf(x[1]) :
                         Relation[r].cascade /\ ref[x][r] \in S
    BY DEF vars
  <2>1. Overflow(c)
    <3>1. PICK d \in Caller : Acts(d)
      BY DEF Next, Acts
    <3>2. CASE Overflow(d)
      <4>1. out' = [out EXCEPT ![d] = "crash"]
        BY <3>2 DEF Overflow, Returns
      <4>2. c = d
        BY <4>1 DEF HooksInv, CallInv, TypeInv
      <4> QED  BY <3>2, <4>2
    <3>3. CASE \/ BeginSave(d) \/ BeginDelete(d) \/ Save(d) \/ Touch(d) \/ SaveReturns(d) \/ NotFound(d)
               \/ Enumerate(d) \/ DeleteChildren(d) \/ NextHook(d) \/ Delete(d) \/ Fail(d)
      BY <3>3 DEF BeginSave, BeginDelete, Save, Touch, SaveReturns, NotFound, Enumerate, DeleteChildren, NextHook,
                  Delete, Fail, Returns, HooksInv, CallInv, TypeInv
    <3> QED  BY <3>1, <3>2, <3>3 DEF Acts, Steps
  <2>2. pc[c] = "delete" /\ Top(c).ids \notin {Unread, {}} /\ Len(stack[c]) = MaxDepth
    BY <2>1 DEF Overflow, InHook
  <2>3. PICK u : undo = {u}
    BY <2>2, Holding DEF HooksInv
  <2>4. Linked(c, u) /\ ref = u.ref
    BY <2>2, <2>3, RemovingFacts DEF LinkInv, Removing
  <2> DEFINE s == stack[c]
             n == MaxDepth
  <2>5. PICK z : z \in Top(c).ids
    BY <2>2
  <2>6. Top(c) = s[1] /\ Top(c).ids \subseteq Row
    <3>1. Top(c) = s[1] /\ Top(c) \in Frames
      BY <2>2, <2>3, RemovingFacts
    <3> QED  BY <2>2, <3>1, FrameFields
  <2>7. n \in Nat /\ n > 1
    <3>1. Cardinality(Row) \in Nat /\ Cardinality(Row) # 0
      BY <2>5, <2>6, FS_CardinalityType, FS_EmptySet
    <3> QED  BY <3>1, PolyParameters
  <2>8. \A i \in 1 .. n : FrameLinked(u, s, i)
    BY <2>2, <2>4 DEF Linked
  <2> DEFINE row(i) == CHOOSE p \in Row : s[i].sel.rows = {p}
             f == [k \in 0 .. n - 1 |-> IF k = 0 THEN z ELSE row(k)]
  <2>9. \A i \in 1 .. n - 1 : row(i) \in Row /\ s[i].sel.rows = {row(i)}
    <3> SUFFICES ASSUME NEW i \in 1 .. n - 1 PROVE \E p \in Row : s[i].sel.rows = {p}
      OBVIOUS
    <3>1. FrameLinked(u, s, i) /\ i < n
      BY <2>7, <2>8
    <3> QED  BY <2>2, <3>1 DEF FrameLinked
  <2> HIDE DEF row, s
  <2>10. f \in [0 .. n - 1 -> Row]
    BY <2>5, <2>6, <2>7, <2>9
  <2>11. ASSUME NEW k \in 0 .. n - 2
         PROVE  Hangs(u, s[k + 1], f[k]) /\ s[k + 1].sel.rows = {f[k + 1]}
    <3>1. k + 1 \in 1 .. n - 1 /\ k + 1 \in 1 .. n /\ k + 1 < n /\ (k + 1) - 1 = k /\ k \in 0 .. n - 1 /\ k + 1 \in 0 .. n - 1
      BY <2>7
    <3>2. FrameLinked(u, s, k + 1) /\ f[k + 1] = row(k + 1)
      BY <2>8, <3>1
    <3>3. s[k + 1].sel.rows = {f[k + 1]}
      BY <2>9, <3>1, <3>2
    <3>4. CASE k = 0
      <4>1. \A x \in s[1].ids : Hangs(u, s[1], x)
        BY <2>2, <2>6, <3>1, <3>2, <3>4 DEF FrameLinked, s
      <4>2. f[k] = z /\ k + 1 = 1
        BY <3>1, <3>4
      <4> QED  BY <2>5, <2>6, <3>3, <4>1, <4>2
    <3>5. CASE k # 0
      <4>1. \A x \in s[k].sel.rows : Hangs(u, s[k + 1], x)
        BY <2>2, <3>1, <3>2, <3>5 DEF FrameLinked, s
      <4>2. f[k] = row(k) /\ k \in 1 .. n - 1
        BY <2>7, <3>1, <3>5
      <4> QED  BY <2>9, <3>3, <4>1, <4>2
    <3> QED  BY <3>4, <3>5
  <2>12. \A k \in 0 .. n - 2 : /\ f[k] \in u.live
                               /\ \E r \in RelationsOf(f[k][1]) : Relation[r].cascade /\ u.ref[f[k]][r] = f[k + 1]
    <3> SUFFICES ASSUME NEW k \in 0 .. n - 2
                 PROVE  f[k] \in u.live /\ \E r \in RelationsOf(f[k][1]) : Relation[r].cascade /\ u.ref[f[k]][r] = f[k + 1]
      OBVIOUS
    <3> HIDE DEF f
    <3> QED  BY <2>11 DEF Hangs
  <2> HIDE DEF f
  <2>13. PICK S \in SUBSET u.live :
            /\ S # {} /\ Fed(u, S)
            /\ \A x \in S : \E r \in RelationsOf(x[1]) : Relation[r].cascade /\ u.ref[x][r] \in S
    <3>1. PICK N \in Nat : N = n
      BY <2>7
    <3>2. /\ N > Cardinality(Row) /\ f \in [0 .. N - 1 -> Row]
          /\ \A k \in 0 .. N - 2 : /\ f[k] \in u.live
                                   /\ \E r \in RelationsOf(f[k][1]) : Relation[r].cascade /\ u.ref[f[k]][r] = f[k + 1]
      BY <2>10, <2>12, <3>1
    <3> QED  BY SMTT(30), <3>2, LongWalk
  <2>14. S \subseteq live
    BY <2>4, <2>13 DEF Linked
  <2> QED  BY <2>4, <2>13, <2>14
<1>3. HooksInv /\ HooksInv' /\ LateInv /\ [Next]_vars => LateInv'
  BY LateNext
<1>4. HooksInv /\ HooksInv' /\ LateInv /\ ProgressInv /\ [Next]_vars => ProgressInv'
  BY ProgressNext
<1>5. HooksInv /\ HooksInv' /\ LateInv /\ ProgressInv /\ LinkInv /\ [Next]_vars => LinkInv'
  BY LinkedNext
<1> QED  BY HooksInit, HooksNext, <1>1, <1>2, <1>3, <1>4, <1>5, PTL DEF Spec, OverflowNeedsCycle
=============================================================================
