---------------------------- MODULE CascadeStore -----------------------------
(***************************************************************************)
(* What a cascade delete promises, with no transaction, no statements and  *)
(* no failures: the rows of an application without database foreign keys,  *)
(* and one atomic step that removes a set of roots with everything that    *)
(* depends on them.  A call that fails is a stutter.                       *)
(***************************************************************************)
EXTENDS Naturals

CONSTANTS
    Row, Col,     \* row ids and foreign key columns
    Nil,          \* the NULL reference
    TypeOf,       \* the type of each row
    Ref,          \* the keys a row is inserted with: [Row -> [Col -> Row \cup {Nil}]]
    Policy,       \* declared dependencies: records [parent, child, col, mode]
    Root,         \* the types that have cascade functions
    HookRows      \* rows that hooks of a cascade may add

VARIABLES
    rows,         \* the stored rows: a function from live ids to [fk, stamp]
    used          \* ids handed out so far; an id is never reused

\* The dependencies by which row r hangs on one of the rows in S.
HangsOn(fks, r, S, modes) ==
    { d \in Policy : /\ d.child = TypeOf[r] /\ d.mode \in modes
                     /\ fks[d.col] \in { p \in S : TypeOf[p] = d.parent } }

\* The rows a cascade from ids deletes: the least set of stored rows with ids and
\* every hard-deleted dependent of its members.
Closed(S, ids, stored) ==
    /\ ids \cap DOMAIN stored \subseteq S
    /\ \A r \in DOMAIN stored : HangsOn(stored[r].fk, r, S, {"delete"}) # {} => r \in S

Doomed(S, ids, stored) ==
    /\ Closed(S, ids, stored)
    /\ \A T \in SUBSET S : Closed(T, ids, stored) => T = S

Fresh(r) == [fk |-> Ref[r], stamp |-> 0]

\* What a cascade from ids makes of the stored rows: the doomed rows go, unlinked
\* dependents lose their key, soft-deleted dependents get a later timestamp, every
\* other row is as it was.
Cascaded(before, after, ids) ==
    LET doomed == DOMAIN before \ DOMAIN after
        Unlinked(r) == { d.col : d \in HangsOn(before[r].fk, r, doomed, {"unlink"}) }
    IN  /\ DOMAIN after \subseteq DOMAIN before
        /\ Doomed(doomed, ids, before)
        /\ \A r \in DOMAIN after :
              /\ after[r].fk = [c \in Col |-> IF c \in Unlinked(r) THEN Nil ELSE before[r].fk[c]]
              /\ IF HangsOn(before[r].fk, r, doomed \cup ids, {"soft"}) # {}
                 THEN after[r].stamp > before[r].stamp
                 ELSE after[r].stamp = before[r].stamp

\* One atomic cascade.  Hooks may add rows of their own, which may be doomed too.
AtomicCascade(ids, extra) ==
    Cascaded([r \in DOMAIN rows \cup extra |-> IF r \in DOMAIN rows THEN rows[r] ELSE Fresh(r)], rows', ids)

\* Some client inserts a row.
Insert(r) ==
    /\ r \notin used
    /\ rows' = [x \in DOMAIN rows \cup {r} |-> IF x = r THEN Fresh(r) ELSE rows[x]]

\* Some client points a row's key at another stored row.
Move(r, c, p) ==
    /\ {r, p} \subseteq DOMAIN rows
    /\ rows' = [rows EXCEPT ![r].fk[c] = p]

Init ==
    /\ rows \in UNION { { [r \in L |-> Fresh(r)] } : L \in SUBSET Row }
    /\ used = DOMAIN rows

\* Every step changes the store.
Next ==
    /\ rows' # rows
    /\ used \subseteq used'
    /\ \/ \E ids \in SUBSET { r \in Row : TypeOf[r] \in Root }, extra \in SUBSET (HookRows \cap used) :
             AtomicCascade(ids, extra)
       \/ \E r \in Row : Insert(r)
       \/ \E r \in Row, c \in Col, p \in Row : Move(r, c, p)

Spec == Init /\ [][Next]_rows
=============================================================================
