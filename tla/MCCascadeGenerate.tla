-------------------------- MODULE MCCascadeGenerate --------------------------
(* Generation from the harness's schema and from every schema of the family. *)
EXTENDS CascadeGenerate, CascadeSchemas

MCSchemas == {Testent} \cup Family

\* Once the generator has walked the harness's schema, it has produced exactly
\* the functions the checked-in testent/ent/cascade_delete.go holds, with the same
\* statements in the same order and on the same variables (collectCascadeNodes,
\* buildOps, resolveOps, nameTracker).
MatchesGenerated ==
    schema = Testent /\ next > Len(schema.types) =>
        /\ DOMAIN nodes = DOMAIN TestentPrograms
        /\ \A t \in DOMAIN nodes :
              [i \in DOMAIN nodes[t] |->
                  LET x == nodes[t][i]
                  IN  <<x.kind, x.type, x.col, IF x.src = 0 THEN Argument ELSE VarName(nodes[t], x.src)>>]
              = TestentPrograms[t]
=============================================================================
