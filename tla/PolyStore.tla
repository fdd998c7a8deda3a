----------------------------- MODULE PolyStore -------------------------------
(***************************************************************************)
(* What the Required, Touch and Cascade options of entpoly promise of one  *)
(* save or one delete: a single step on the stored rows.  A call that      *)
(* fails is a stutter.                                                     *)
(***************************************************************************)
EXTENDS Naturals

CONSTANTS
    Row,        \* rows that can exist: <<type, id>>, the discriminator that names them
    NoRow,      \* an unset discriminator
    Relation    \* the MorphTo edges: records [child, parents, required, touch, cascade]

VARIABLES
    live,       \* the stored rows
    ref,        \* discriminators: [Row -> [DOMAIN Relation -> Row \cup {NoRow}]]
    stamp       \* updated_at of each row

RelationsOf(type) == { r \in DOMAIN Relation : Relation[r].child = type }

\* Rows that hang on one of C by a cascading relation are in C.
Closed(C) ==
    \A x \in live : \A r \in RelationsOf(x[1]) :
        Relation[r].cascade /\ ref[x][r] \in C => x \in C

\* The rows in S with every row that hangs on them: the least such set.
Subtree(S) == { x \in live : \A C \in SUBSET live : S \subseteq C /\ Closed(C) => x \in C }

\* The rows in S are created or updated.  Their required relations stay set; a
\* touching relation that is given a parent stamps it, and needs it stored;
\* an update may stamp a parent a saved row had or keeps, and one that matches
\* no row the parent it names.
Save(S) ==
    LET stamped == { p \in Row : stamp'[p] # stamp[p] } IN
    /\ live' = live \cup S
    /\ \A x \in Row \ S : ref'[x] = ref[x]
    /\ \A x \in S : \A r \in RelationsOf(x[1]) :
          Relation[r].required => ref'[x][r] # NoRow
    /\ \A x \in S : \A r \in DOMAIN Relation :
          /\ Relation[r].touch
          /\ x \notin live \/ ref'[x][r] # ref[x][r]
          /\ ref'[x][r] # NoRow
          => ref'[x][r] \in stamped \cap live'
    /\ S # {} => \A p \in stamped : \E x \in S, r \in DOMAIN Relation : p \in {ref[x][r], ref'[x][r]}
    /\ \A p \in stamped : stamp'[p] > stamp[p]

\* The rows in S go with their subtrees.
Delete(S) ==
    /\ S \cap live' = {}
    /\ live' = live \ Subtree(S)
    /\ UNCHANGED <<ref, stamp>>

\* A call names rows of one type.
OneType(S) == \A x, y \in S : x[1] = y[1]

Init ==
    /\ live \subseteq Row
    /\ ref \in [Row -> [DOMAIN Relation -> Row \cup {NoRow}]]
    /\ stamp = [x \in Row |-> 0]

Next ==
    \/ \E x \in Row \ live : Save({x})
    \/ \E S \in SUBSET live : OneType(S) /\ Save(S)
    \/ \E S \in SUBSET live : OneType(S) /\ Delete(S)

Spec == Init /\ [][Next]_<<live, ref, stamp>>
=============================================================================
