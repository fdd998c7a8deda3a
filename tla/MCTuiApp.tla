------------------------------ MODULE MCTuiApp -------------------------------
(* A post in list mode, a tag in table mode; posts and tags lead to each other *)
(* and each to its own kind: a kind stands below itself on a stack of two.     *)
EXTENDS TuiApp

TwoKinds == <<"post", "tag">>
PostTagEdges == {[from |-> "post", to |-> "tag", up |-> FALSE],
                 [from |-> "tag", to |-> "post", up |-> FALSE],
                 [from |-> "tag", to |-> "post", up |-> TRUE],
                 [from |-> "post", to |-> "tag", up |-> TRUE],
                 [from |-> "post", to |-> "post", up |-> TRUE],
                 [from |-> "tag", to |-> "tag", up |-> FALSE]}
=============================================================================
