--------------------------- MODULE CascadeSchemas ----------------------------
(***************************************************************************)
(* Schemas for the generator: the test harness's own schema                *)
(* (testent/schema), the programs its generated cascade_delete.go holds,   *)
(* and every small schema of a family.                                     *)
(***************************************************************************)
EXTENDS CascadePlan

Edge(name, rel, target, col) ==
    [name |-> name, target |-> target, rel |-> rel, inverse |-> FALSE,
     ownFK |-> rel = "M2O", col |-> col, through |-> NoType]

InverseOf(e) == [e EXCEPT !.inverse = TRUE, !.rel = "M2O", !.ownFK = TRUE]
Through(e, junction) == [e EXCEPT !.through = junction]
Unique(e) == [e EXCEPT !.rel = "O2O"]

Cascade == [NoAnn EXCEPT !.present = TRUE]
SkipEdges(a, names)      == [a EXCEPT !.skip = @ \cup names]
WithUnlink(a, names)     == [a EXCEPT !.unlink = @ \cup names]
WithHardDelete(a, names) == [a EXCEPT !.hard = @ \cup names]
\* WithSoftDelete with an empty field name leaves no rule: the ladder tests
\* softDeleteMap[edge] # "".
WithSoftDelete(a, name, field) == IF field = "" THEN a ELSE [a EXCEPT !.soft = @ \cup {name}]

-----------------------------------------------------------------------------
(* testent/schema/*.go                                                     *)

TestentTypes ==
    <<"Article", "AuditLog", "Category", "Channel", "Comment", "Doc", "Folder",
      "Member", "Note", "Post", "PostTag", "Profile", "Revision", "Tag", "Team",
      "User", "Workspace">>

TestentEdges == [t \in ToSet(TestentTypes) |->
    CASE t = "User"      -> <<Edge("posts", "O2M", "Post", "author_id"),
                              Unique(Edge("profile", "O2O", "Profile", "user_id"))>>
      [] t = "Post"      -> <<InverseOf(Edge("author", "M2O", "User", "author_id")),
                              Edge("comments", "O2M", "Comment", "post_id"),
                              Through(Edge("tags", "M2M", "Tag", "post_id"), "PostTag"),
                              InverseOf(Edge("category", "M2O", "Category", "category_id"))>>
      [] t = "Category"  -> <<Edge("posts", "O2M", "Post", "category_id")>>
      [] t = "Article"   -> <<Edge("revisions", "O2M", "Revision", "article_id")>>
      [] t = "Team"      -> <<Edge("members", "O2M", "Member", "team_id"),
                              Edge("owner", "M2O", "User", "team_owner"),
                              Edge("audit_logs", "O2M", "AuditLog", "team_id")>>
      [] t = "Workspace" -> <<Edge("folders", "O2M", "Folder", "workspace_id"),
                              Edge("docs", "O2M", "Doc", "workspace_id")>>
      [] t = "Folder"    -> <<InverseOf(Edge("workspace", "M2O", "Workspace", "workspace_id")),
                              Edge("channels", "O2M", "Channel", "folder_id")>>
      [] t = "Doc"       -> <<InverseOf(Edge("workspace", "M2O", "Workspace", "workspace_id")),
                              Edge("notes", "O2M", "Note", "doc_id")>>
      [] t = "Member"    -> <<InverseOf(Edge("team", "M2O", "Team", "team_id")),
                              Edge("user", "M2O", "User", "user_id")>>
      [] t = "PostTag"   -> <<Edge("post", "M2O", "Post", "post_id"),
                              Edge("tag", "M2O", "Tag", "tag_id")>>
      [] t = "Tag"       -> <<Through(InverseOf(Edge("posts", "M2M", "Post", "tag_id")), "PostTag")>>
      [] t = "Comment"   -> <<InverseOf(Edge("post", "M2O", "Post", "post_id"))>>
      [] t = "Profile"   -> <<InverseOf(Edge("user", "O2O", "User", "user_id"))>>
      [] t = "Revision"  -> <<InverseOf(Edge("article", "M2O", "Article", "article_id"))>>
      [] t = "Channel"   -> <<InverseOf(Edge("folder", "M2O", "Folder", "folder_id"))>>
      [] t = "Note"      -> <<InverseOf(Edge("doc", "M2O", "Doc", "doc_id"))>>
      [] t = "AuditLog"  -> <<InverseOf(Edge("team", "M2O", "Team", "team_id"))>>]

Testent ==
    [types |-> TestentTypes, edges |-> TestentEdges, softTypes |-> {"Revision"},
     ann |-> [t \in ToSet(TestentTypes) |->
        CASE t \in {"User", "Post", "Article", "Workspace"} -> Cascade
          [] t = "Category" -> WithUnlink(Cascade, {"posts"})
          [] t = "Team"     -> SkipEdges(Cascade, {"audit_logs"})
          [] t = "Folder"   -> WithUnlink(Cascade, {"channels"})
          [] t = "Doc"      -> WithSoftDelete(Cascade, "notes", "archived_at")
          [] OTHER          -> NoAnn]]

-----------------------------------------------------------------------------
(* testent/ent/cascade_delete.go, statement by statement: kind, type,      *)
(* column, variable.                                                       *)

\* The function's parameter, id or ids.
Argument == <<>>

TestentPrograms == [t \in {"Article", "Category", "Doc", "Folder", "Post", "Team", "User", "Workspace"} |->
    CASE t = "Article"   -> << <<"soft", "Revision", "article_id", Argument>>, <<"self", "Article", NoCol, Argument>> >>
      [] t = "Category"  -> << <<"unlink", "Post", "category_id", Argument>>, <<"self", "Category", NoCol, Argument>> >>
      [] t = "Doc"       -> << <<"soft", "Note", "doc_id", Argument>>, <<"self", "Doc", NoCol, Argument>> >>
      [] t = "Folder"    -> << <<"unlink", "Channel", "folder_id", Argument>>, <<"self", "Folder", NoCol, Argument>> >>
      [] t = "Post"      -> << <<"bulk", "Comment", "post_id", Argument>>, <<"bulk", "PostTag", "post_id", Argument>>,
                               <<"self", "Post", NoCol, Argument>> >>
      [] t = "Team"      -> << <<"bulk", "Member", "team_id", Argument>>, <<"self", "Team", NoCol, Argument>> >>
      [] t = "User"      -> << <<"query", "Post", "author_id", Argument>>, <<"bulk", "Comment", "post_id", <<"Post", 1>> >>,
                               <<"bulk", "PostTag", "post_id", <<"Post", 1>> >>, <<"drop", "Post", "author_id", Argument>>,
                               <<"bulk", "Profile", "user_id", Argument>>, <<"self", "User", NoCol, Argument>> >>
      [] t = "Workspace" -> << <<"query", "Folder", "workspace_id", Argument>>, <<"unlink", "Channel", "folder_id", <<"Folder", 1>> >>,
                               <<"drop", "Folder", "workspace_id", Argument>>,
                               <<"query", "Doc", "workspace_id", Argument>>, <<"soft", "Note", "doc_id", <<"Doc", 1>> >>,
                               <<"drop", "Doc", "workspace_id", Argument>>, <<"self", "Workspace", NoCol, Argument>> >>]

-----------------------------------------------------------------------------
(* The family: a root A (annotated), B (annotated or not), C and D; for    *)
(* each pair of a list, an optional edge under one rule; C may carry       *)
(* deleted_at.                                                             *)

FamilyTypes == <<"A", "B", "C", "D">>

\* Rules of A's edges to B, C, and A itself, of B's edges to C and A, of C's
\* edge to D, and of D's to C: D is a type like others and a junction.
FamilyRules ==
    [AB : {"default", "unlink", "soft", "skip"},
     AC : {"none", "default", "owned", "twice"},
     AA : {"none", "default", "unlink"},
     BC : {"default", "unlink", "soft", "skip", "hard", "through", "bare"},
     BA : {"none", "default"},
     CD : {"none", "default", "inverse"},
     DC : {"none", "default"}]

PairEdge(rule, from, to) ==
    LET name == from \o to
        col  == name \o "_id"
        e    == Edge(name, "O2M", to, col)
    IN  CASE rule = "none"    -> <<>>
          [] rule = "through" -> <<Through(Edge(name, "M2M", to, col), "D")>>
          [] rule = "bare"    -> <<Edge(name, "M2M", to, col)>>
          [] rule = "inverse" -> <<InverseOf(e)>>
          [] rule = "twice"   -> <<e, [e EXCEPT !.name = @ \o "2", !.col = name \o "2_id"]>>
          [] rule = "owned"   -> <<[Unique(e) EXCEPT !.ownFK = TRUE]>>
          [] OTHER            -> <<e>>

Ruled(rules, rule) == { p \in DOMAIN rules : rules[p] = rule }

AnnOf(rules) ==
    [present |-> TRUE, skip |-> Ruled(rules, "skip"), unlink |-> Ruled(rules, "unlink"),
     soft |-> Ruled(rules, "soft"), hard |-> Ruled(rules, "hard")]

FamilySchema(r, cSoft) ==
    [types |-> FamilyTypes,
     edges |-> [t \in ToSet(FamilyTypes) |->
        CASE t = "A" -> PairEdge(r.AB, "A", "B") \o PairEdge(r.AC, "A", "C") \o PairEdge(r.AA, "A", "A")
          [] t = "B" -> PairEdge(r.BC, "B", "C") \o PairEdge(r.BA, "B", "A")
          [] t = "C" -> PairEdge(r.CD, "C", "D")
          [] t = "D" -> PairEdge(r.DC, "D", "C")],
     ann |-> [t \in ToSet(FamilyTypes) |->
        IF t = "A" \/ (t = "B" /\ r.BC \in {"unlink", "soft", "skip", "hard"})
        THEN AnnOf(r) ELSE NoAnn],
     softTypes |-> IF cSoft THEN {"C"} ELSE {}]

Family == { FamilySchema(r, cSoft) : r \in FamilyRules, cSoft \in BOOLEAN }
=============================================================================
