------------------------------ MODULE MCForeign ------------------------------
(* A service reads a foreign table "user"; "task" is its own and refers to    *)
(* "user"; "old" is a table the application's rename hook knows.              *)
EXTENDS SharedDatabase

Types == {"user", "task"}
ReadOnlyTypes == {{"user"}}
Tables == Types \cup {"old"}
BuilderSuffixes == {"create"}
Files == << <<"client", NoType>>, <<"model", "task">>, <<"create", "task">>,
            <<"model", "user">>, <<"create", "user">> >>
Shapes == {1, 2}
Named == {"user"}
Prefixed == {}
References == [t \in Types |-> IF t = "task" THEN {"user"} ELSE {}]
Renames == {<<"old", "user">>}
==============================================================================
