------------------------------ MODULE SkipTable ------------------------------
(***************************************************************************)
(* entskiptable: the DiffHook that keeps auto-migration away from tables   *)
(* another service owns.  A schema gives each of its tables a shape; Diff  *)
(* and Migrated say what ent's differ and migrator do with it.             *)
(***************************************************************************)
EXTENDS FiniteSets

CONSTANTS Table, Absent

ASSUME AbsentIsNoTable == Absent \notin Table

Change(kind, t, to) == [kind |-> kind, table |-> t, to |-> to]

\* Mistake: every predicate must hold.
BugAnyOf(preds) == { t \in UNION preds : \A p \in preds : t \in p }

\* Any: predicates are the sets of tables they hold for; a nil one holds for none.
AnyOf(preds) == UNION preds

\* The table a change is judged by: of a rename, the old name.
ChangeTable(c) == c.table

\* Mistake: one foreign change and the whole migration is dropped.
BugSkipHook(skip, changes) ==
    IF \E c \in changes : ChangeTable(c) \in skip THEN {} ELSE changes

SkipHook(skip, changes) == { c \in changes : ChangeTable(c) \notin skip }

---------------------------------------------------------------------------
(* ent's differ and migrator *)

\* One change for each table that differs.  A rename hook of the application
\* may turn a drop and an add into a rename; the hook under study sees its result.
Diff(current, desired) ==
    { Change(IF current[t] = Absent THEN "add" ELSE IF desired[t] = Absent THEN "drop" ELSE "modify", t, t)
        : t \in { u \in Table : current[u] # desired[u] } }

Renamed(changes, from, to) ==
    { c \in changes : c.table \notin {from, to} } \cup {Change("rename", from, to)}

CanRename(changes, from, to) ==
    Change("drop", from, from) \in changes /\ Change("add", to, to) \in changes

Migrated(current, desired, changes) ==
    [t \in Table |->
        IF \E c \in changes : c.table = t /\ c.kind \in {"drop", "rename"} THEN Absent
        ELSE IF \E c \in changes : c.to = t THEN desired[t]
        ELSE current[t]]
=============================================================================
