----------------------------- MODULE MCGqlMulti -----------------------------
(* Users, posts, tags and secrets.  A user has posts as a list, a post its   *)
(* readers as a Connection; no API has tags, entgql skips secrets.           *)
EXTENDS GqlMulti

Plain(name) == Field(name, Builtin, {})
Scalar(name) == <<"scalar", name>>
Status == <<"enum", "Status">>
Node == <<"interface", "Node">>

Fields == [
    User |-> {Plain("id"), Plain("name"), Plain("nameHash"), Plain("hashKey"),
              Field("status", Status, {}), Field("colour", Scalar("Colour"), {}),
              Field("posts", Object("Post"), {})},
    Post |-> {Plain("id"), Plain("title"), Field("author", Object("User"), {}), Field("tags", Object("Tag"), {}),
              Field("readers", Connection("User"), {Cursor, Order("User"), Where("User")})},
    Tag  |-> {Plain("id"), Field("posts", Object("Post"), {})}]

Logic(e) == { Field(op, Where(e), {}) : op \in {"not", "and", "or"} }

WhereFields == [
    User |-> Logic("User") \cup {Plain("id"), Plain("idIn"), Plain("nameContains"), Plain("nameHashIn"),
              Plain("hashKeyIn"), Field("statusIn", Status, {}), Plain("hasPosts"), Field("hasPostsWith", Where("Post"), {})},
    Post |-> Logic("Post") \cup {Plain("id"), Plain("title"), Plain("hasAuthor"), Field("hasAuthorWith", Where("User"), {}), Field("hasTagsWith", Where("Tag"), {})},
    Tag  |-> Logic("Tag") \cup {Plain("id"), Field("hasPostsWith", Where("Post"), {})}]

BeginsWith == {
    <<"idIn", "id">>, <<"nameHash", "name">>, <<"nameContains", "name">>, <<"nameHashIn", "name">>, <<"nameHashIn", "nameHash">>,
    <<"hashKey", "has">>, <<"hashKeyIn", "has">>, <<"hashKeyIn", "hashKey">>, <<"statusIn", "status">>,
    <<"hasPosts", "has">>, <<"hasPostsWith", "has">>, <<"hasAuthor", "has">>, <<"hasAuthorWith", "has">>, <<"hasTagsWith", "has">>}

\* Posts are ordered, users not.
FullSchema ==
       [n \in {Object(e) : e \in DOMAIN Fields} |-> Fields[n[2]]]
    @@ [n \in {Where(e) : e \in DOMAIN Fields} |-> WhereFields[n[2]]]
    @@ ConnectionTypes("User") @@ ConnectionTypes("Post")
    @@ Order("Post") :> {Field("direction", <<"enum", "OrderDirection">>, {}), Field("field", OrderField("Post"), {})}
    @@ OrderField("Post") :> {Plain("id"), Plain("title")}
    @@ CreateInput("User") :> {Plain("name"), Plain("hashKey"), Field("status", Status, {}), Plain("postIDs")}
    @@ UpdateInput("User") :> {Plain("name"), Plain("hashKey"), Plain("addPostIDs")}
    @@ Object("Query") :> {Field("node", Node, {Builtin})} @@ Node :> {Plain("id")}
    @@ Status :> {} @@ Cursor :> {} @@ PageInfo :> {Field("endCursor", Cursor, {})}
    @@ <<"enum", "OrderDirection">> :> {}

CommonTypes == {Cursor, PageInfo, Node, <<"enum", "OrderDirection">>}

Whole(e) == [entity |-> e, typeName |-> e, fields |-> {}, query |-> TRUE, filters |-> TRUE, orderBy |-> TRUE, mutations |-> TRUE]
Bare(e) == [Whole(e) EXCEPT !.query = FALSE, !.mutations = FALSE]
Public == [Whole("User") EXCEPT !.typeName = "Public", !.fields = {"id", "name"}, !.orderBy = FALSE]
Summary == [Bare("User") EXCEPT !.fields = {"name", "posts"}]
Teaser == [Whole("Post") EXCEPT !.typeName = "Teaser", !.fields = {"id"}]
Unfiltered == [Whole("Post") EXCEPT !.filters = FALSE]

Lists == [dash |->
    {<<>>, <<Whole("User")>>, <<Whole("Post")>>, <<Public>>, <<Summary>>, <<Bare("Post")>>, <<Whole("Secret")>>,
     <<Whole("User"), Whole("Post")>>, <<Whole("User"), Unfiltered>>, <<Whole("User"), Public>>,
     <<Public, Whole("User")>>, <<Public, Bare("Post")>>, <<Public, Whole("Post")>>, <<Public, Summary>>, <<Bare("User"), Whole("Post")>>,
     <<Whole("User"), Teaser>>, <<Teaser, Whole("Post")>>},
  pub |-> {<<>>, <<Whole("Post")>>, <<Summary>>}]
Apis == DOMAIN Lists
=============================================================================
