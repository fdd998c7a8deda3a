---------------------------- MODULE MCPolyCodegen ----------------------------
(* Comments and tags of two kinds of parents, whose types are called Post or *)
(* Article.  The pivot's table is source_links, its relation sourceable, and *)
(* it comes before the tags in the graph.                                    *)
EXTENDS PolyCodegen, TLC

TwoNames == {"Post", "Article"}
Nodes == <<"Article", "Comment", "Post", "SourceLink", "Tag">>
SnakeCase == [n \in TwoNames |-> IF n = "Post" THEN "post" ELSE "article"]

\* Nothing tells the kinds of parents apart but the names of their types.
KindsAlike == Permutations(Entity)
=============================================================================
