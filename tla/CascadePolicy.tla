---------------------------- MODULE CascadePolicy ----------------------------
(***************************************************************************)
(* What a schema declares, read off the documented edge table              *)
(* (entcascade/README.md, "Edge Classification") and not off the           *)
(* generator: who depends on whom, by which column, and what becomes of a  *)
(* dependent when its parent goes.                                         *)
(***************************************************************************)
EXTENDS CascadePlan

DeclaredEdges(s) ==
    { te \in UNION { {t} \X ToSet(s.edges[t]) : t \in ToSet(s.types) } :
        LET e == te[2] IN
          /\ e.name \notin s.ann[te[1]].skip /\ ~e.inverse /\ e.col # NoCol
          /\ \/ e.rel = "O2M"
             \/ e.rel = "O2O" /\ ~e.ownFK
             \/ e.rel = "M2M" /\ e.through # NoType }

Dependents(s) ==
    LET Dep(te, child, mode) == [parent |-> te[1], child |-> child, col |-> te[2].col, mode |-> mode]
        m2m      == { te \in DeclaredEdges(s) : te[2].rel = "M2M" }
        unlinked == { te \in DeclaredEdges(s) \ m2m : te[2].name \in s.ann[te[1]].unlink }
        chosen   == { te \in DeclaredEdges(s) : te[2].name \in s.ann[te[1]].soft }
        detected == { te \in DeclaredEdges(s) : te[2].target \in s.softTypes
                                              /\ te[2].name \notin s.ann[te[1]].hard }
        softened == (chosen \cup detected) \ (m2m \cup unlinked)
        deleted  == DeclaredEdges(s) \ (m2m \cup unlinked \cup softened)
    IN  { Dep(te, te[2].through, "delete") : te \in m2m }
        \cup { Dep(te, te[2].target, "unlink") : te \in unlinked }
        \cup { Dep(te, te[2].target, "soft") : te \in softened }
        \cup { Dep(te, te[2].target, "delete") : te \in deleted }
=============================================================================
