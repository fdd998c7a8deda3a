-------------------------- MODULE CascadeDatabases ---------------------------
(* Small databases for the generated programs; each cfg picks one.         *)
EXTENDS Naturals, Sequences

S == INSTANCE CascadeSchemas
R == INSTANCE CascadePolicy

ProgramsOf(schema, roots) == [t \in roots |-> S!ProgramOf(schema, t)]

\* A database is a function from row names to <<type, keys>>.
TypesOf(db) == [r \in DOMAIN db |-> db[r][1]]
KeysOf(db, cols, nil) ==
    [r \in DOMAIN db |-> [c \in cols |-> IF c \in DOMAIN db[r][2] THEN db[r][2][c] ELSE nil]]

NoRow == "null"

-----------------------------------------------------------------------------
(* Harness: two trees of testent in one database.                          *)
(* Blog: a user with posts, a comment and two categories.  p2 is a row     *)
(* other clients insert, h1 one that a hook inserts and its cascade may    *)
(* take; p1 may change its category.                                       *)
(* Workspace: rules of intermediate types, two blocks, soft deletes.       *)

Harness == [u1 |-> <<"User", <<>>>>,
            c1 |-> <<"Category", <<>>>>,
            c2 |-> <<"Category", <<>>>>,
            p1 |-> <<"Post", [author_id |-> "u1", category_id |-> "c1"]>>,
            p2 |-> <<"Post", [author_id |-> "u1"]>>,
            k1 |-> <<"Comment", [post_id |-> "p1"]>>,
            w1 |-> <<"Workspace", <<>>>>,
            f1 |-> <<"Folder", [workspace_id |-> "w1"]>>,
            x1 |-> <<"Channel", [folder_id |-> "f1"]>>,
            d1 |-> <<"Doc", [workspace_id |-> "w1"]>>,
            n1 |-> <<"Note", [doc_id |-> "d1"]>>,
            h1 |-> <<"Comment", [post_id |-> "p1"]>>]

BlogCol        == {"author_id", "category_id", "post_id"}
HarnessRow     == DOMAIN Harness
HarnessCol     == BlogCol \cup {"workspace_id", "folder_id", "doc_id"}
HarnessType    == TypesOf(Harness)
HarnessRef     == KeysOf(Harness, HarnessCol, NoRow)
HarnessRoot    == {"User", "Category", "Workspace"}
HarnessProgram == ProgramsOf(S!Testent, HarnessRoot)
HarnessLive    == HarnessRow \ {"p2", "h1"}
HarnessMoves   == {<<"p1", "category_id", "c2">>}
TestentPolicy  == R!Dependents(S!Testent)

\* Dependencies on types that have no rows here are left out: nothing refers to them.
HarnessPolicy == { d \in TestentPolicy : \E r \in HarnessRow : HarnessType[r] = d.parent }

-----------------------------------------------------------------------------
(* Overlap: a user, a category and a post of both, all roots of concurrent *)
(* cascades; the post has two comments, locked in either order.            *)

Overlap == [u1 |-> <<"User", <<>>>>,
            c1 |-> <<"Category", <<>>>>,
            p1 |-> <<"Post", [author_id |-> "u1", category_id |-> "c1"]>>,
            k1 |-> <<"Comment", [post_id |-> "p1"]>>,
            k2 |-> <<"Comment", [post_id |-> "p1"]>>]

OverlapRow     == DOMAIN Overlap
OverlapType    == TypesOf(Overlap)
OverlapRef     == KeysOf(Overlap, BlogCol, NoRow)
OverlapRoot    == {"User", "Category", "Post"}
OverlapProgram ==
    LET At(kind, type, col, src, end) ==
            [kind |-> kind, type |-> type, col |-> col, src |-> src, end |-> end]
    IN [User |-> <<At("query", "Post", "author_id", 0, 4), At("bulk", "Comment", "post_id", 1, 2),
                   At("bulk", "PostTag", "post_id", 1, 3), At("drop", "Post", "author_id", 0, 4),
                   At("bulk", "Profile", "user_id", 0, 5), At("self", "User", "-", 0, 6)>>,
        Post |-> <<At("bulk", "Comment", "post_id", 0, 1), At("bulk", "PostTag", "post_id", 0, 2),
                   At("self", "Post", "-", 0, 3)>>,
        Category |-> <<At("unlink", "Post", "category_id", 0, 1), At("self", "Category", "-", 0, 2)>>]

-----------------------------------------------------------------------------
(* Tree: a type whose children are of the same type.                       *)

TreeSchema ==
    [types |-> <<"Node">>, softTypes |-> {},
     edges |-> [t \in {"Node"} |-> <<S!Edge("children", "O2M", "Node", "parent_id")>>],
     ann   |-> [t \in {"Node"} |-> S!Cascade]]

Tree == [a |-> <<"Node", <<>>>>,
         b |-> <<"Node", [parent_id |-> "a"]>>,
         c |-> <<"Node", [parent_id |-> "b"]>>]

TreeRow     == DOMAIN Tree
TreeCol     == {"parent_id"}
TreeType    == TypesOf(Tree)
TreeRef     == KeysOf(Tree, TreeCol, NoRow)
TreeRoot    == {"Node"}
TreeProgram == ProgramsOf(TreeSchema, TreeRoot)
TreePolicy  == R!Dependents(TreeSchema)

-----------------------------------------------------------------------------
(* Concurrent callers. *)

Callers1 == {"g1"}
Callers2 == {"g1", "g2"}
=============================================================================
