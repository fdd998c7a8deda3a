---------------------------- MODULE CascadeSound -----------------------------
(***************************************************************************)
(* What the generator guarantees of the programs it emits when the types   *)
(* below a root have no cycle: the assumptions under which the runtime     *)
(* leaves no orphans.                                                      *)
(***************************************************************************)
EXTENDS CascadeRuntime

Covering == {"bulk", "drop", "unlink"}

\* Variables are read inside the block of the query that fills them; blocks
\* nest; the drop at the end of a block repeats its query's predicate.
ASSUME ProgramScoped ==
    \A t \in Root : LET P == Program[t] IN \A i \in DOMAIN P :
        /\ P[i].src # 0 => /\ P[i].src < i /\ i < P[P[i].src].end
                           /\ P[P[i].src].kind = "query"
        /\ P[i].kind = "query" =>
              /\ i < P[i].end /\ P[i].end < Len(P)
              /\ P[P[i].end] = [P[i] EXCEPT !.kind = "drop"]
              /\ \A k \in DOMAIN P : i < k /\ k < P[i].end =>
                    P[k].src >= i /\ (P[k].kind = "query" => P[k].end < P[i].end)

\* A function's last statement deletes the entities it was called for.
ASSUME ProgramEndsWithSelf ==
    \A t \in Root : LET P == Program[t] IN P[Len(P)].kind = "self" /\ P[Len(P)].type = t

\* Every statement but the last is about a declared dependency and does to its rows
\* what is declared.
Effect(kind) == IF kind \in {"query", "bulk", "drop"} THEN "delete" ELSE kind

ASSUME ProgramDeclared ==
    \A t \in Root : LET P == Program[t] IN \A i \in DOMAIN P :
        P[i].kind # "self" =>
            \E d \in Policy : d.child = P[i].type /\ d.col = P[i].col /\ d.mode = Effect(P[i].kind)

\* Before rows of a type are deleted, every dependency declared on that type has
\* been dealt with for the same rows: with the function's argument for the entity
\* itself, with the block's variable for a drop; a bulk delete has no dependents.
Dealing(mode) == IF mode = "soft" THEN {"soft"} ELSE Covering

ASSUME ProgramCovers ==
    \A t \in Root : LET P == Program[t] IN \A i \in DOMAIN P, d \in Policy :
        /\ P[i].kind \in {"bulk", "drop", "self"} /\ d.parent = P[i].type
        /\ d.mode \in {"delete", "unlink", "soft"}
        => \E k \in DOMAIN P :
              /\ k < i /\ P[k].kind \in Dealing(d.mode) /\ P[k].type = d.child /\ P[k].col = d.col
              /\ \/ P[i].kind = "self" /\ P[k].src = 0
                 \/ P[i].kind = "drop" /\ P[k].src # 0 /\ P[P[k].src].end = i

\* A foreign key column belongs to one edge.
ASSUME ColumnsDeclaredOnce ==
    \A d, e \in Policy : d.child = e.child /\ d.col = e.col => d = e

\* A foreign key column refers to rows of one type.
ASSUME KeysTyped ==
    \A d \in Policy :
        /\ \A r \in Row : d.child = TypeOf[r] => d.col \in Col
        /\ \A r \in Row : d.child = TypeOf[r] /\ Ref[r][d.col] # Nil => TypeOf[Ref[r][d.col]] = d.parent
        /\ \A m \in Moves : d.child = TypeOf[m[1]] /\ d.col = m[2] => TypeOf[m[3]] = d.parent

\* The rows stored at the start are whole.
ASSUME StartWhole == \A r \in InitLive, col \in Col : Ref[r][col] \in InitLive \cup {Nil}
=============================================================================
