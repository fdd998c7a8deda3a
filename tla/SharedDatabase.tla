--------------------------- MODULE SharedDatabase ---------------------------
(***************************************************************************)
(* A service that reads tables another one owns, with both packages at     *)
(* work: entreadonly on its generated package, entskiptable when the       *)
(* program built from that package migrates the database at its start.     *)
(***************************************************************************)
EXTENDS ReadOnlyStrip, SkipTable

CONSTANTS
    Shape,          \* the shapes a table can be given
    NameForeign, PrefixForeign,   \* tables the ByName and ByPrefix predicates hold for
    Refs,           \* [Type -> SUBSET Type]: the tables a table's foreign keys name
    Rename          \* pairs <<from, to>> the application's rename hook knows

\* The owner's tables, and the predicate given to SkipHook for them.
Foreign == NameForeign \cup PrefixForeign
Skip == AnyOf({NameForeign, PrefixForeign})

ASSUME SharedParameters ==
    /\ Type \subseteq Table /\ Absent \notin Shape /\ Shape # {} /\ Foreign \subseteq Table
    /\ Refs \in [Type -> SUBSET Type] /\ Rename \subseteq Table \X Table

VARIABLES
    shape,          \* the reader's schema: the shape of each of its types
    package,        \* the shapes the generated package holds
    program,        \* the program in service: [writes, ro, package]
    plan,           \* its migration: the changes still to apply
    db              \* [Table -> Shape \cup {Absent}]

serviceVars == <<program, plan, db>>
allVars == <<vars, shape, package, serviceVars>>

NoProgram == [writes |-> {}, ro |-> {}, package |-> [t \in Type |-> Absent]]
Desired == [t \in Table |-> IF t \in Type THEN program.package[t] ELSE Absent]

Init ==
    /\ StripInit
    /\ shape \in [Type -> {CHOOSE s \in Shape : TRUE}] /\ package = shape
    /\ program = NoProgram /\ plan = {}
    /\ db \in { d \in [Table -> {Absent, CHOOSE s \in Shape : TRUE}] : \A t \in Type : d[t] = Absent }

---------------------------------------------------------------------------
(* The reader's source and its generated package *)

EditShape ==
    /\ Idle /\ edits < MaxEdits
    /\ \E t \in Type, s \in Shape : s # shape[t] /\ shape' = [shape EXCEPT ![t] = s]
    /\ edits' = edits + 1
    /\ UNCHANGED <<annotated, disk, manifest, strip, generated, done, faults, package, serviceVars>>

\* ent's migrate package is written with the rest; Strip leaves it alone.
Codegen ==
    /\ \/ (Generate \/ GenerateFails) /\ package' \in {package, shape} /\ (generated' => package' = shape)
       \/ (Annotate \/ StartStrip \/ StripFile \/ StripRefuses \/ StripDies) /\ UNCHANGED package
    /\ UNCHANGED <<shape, serviceVars>>

\* A build that compiles replaces the program in service.
Build ==
    /\ Idle /\ Compiles /\ plan = {}
    /\ program' = [writes |-> disk[ClientFile], ro |-> IF done THEN manifest ELSE {}, package |-> package]
    /\ UNCHANGED <<vars, shape, package, plan, db>>

---------------------------------------------------------------------------
(* The database *)

OwnerMigrates ==
    /\ \E t \in Foreign, s \in Shape \cup {Absent} : db' = [db EXCEPT ![t] = s]
    /\ UNCHANGED <<vars, shape, package, program, plan>>

\* Schema.Create: the differ, the application's rename hook, then SkipHook.
Migrate ==
    /\ program # NoProgram /\ plan = {}
    /\ LET changes == Diff(db, Desired) IN
       \E renames \in SUBSET { r \in Rename : CanRename(changes, r[1], r[2]) } :
          /\ Cardinality(renames) <= 1
          /\ plan' = SkipHook(Skip, IF renames = {} THEN changes
                                    ELSE LET r == CHOOSE r \in renames : TRUE IN Renamed(changes, r[1], r[2]))
    /\ UNCHANGED <<vars, shape, package, program, db>>

\* A foreign key needs its table, a rename a free name.
Applies(c) ==
    /\ c.kind = "add" => \A u \in Refs[c.table] \ {c.table} : db[u] # Absent
    /\ c.kind = "rename" => db[c.to] = Absent

\* ent creates a table after those of the plan it refers to.
Ready(c) == c.kind = "add" => \A d \in plan : d.table \notin Refs[c.table] \ {c.table}

\* One change; a failing one ends the migration, what went before it stays.
Apply ==
    \E c \in plan :
       /\ Ready(c)
       /\ IF Applies(c) THEN db' = Migrated(db, Desired, {c}) /\ plan' = plan \ {c}
                        ELSE plan' = {} /\ UNCHANGED db
       /\ UNCHANGED <<vars, shape, package, program>>

Next == EditShape \/ Codegen \/ Build \/ OwnerMigrates \/ Migrate \/ Apply

\* The reader's task is run until it succeeds, from the generator on, and the
\* program until its migration does; nothing is assumed of the owner.
Fairness ==
    /\ SF_allVars(Generate /\ Codegen) /\ WF_allVars(StartStrip /\ Codegen)
    /\ WF_allVars((StripFile \/ StripRefuses) /\ Codegen)
    /\ WF_allVars(Migrate) /\ WF_allVars(Apply)

Spec == Init /\ [][Next]_allVars
FairSpec == Spec /\ Fairness

---------------------------------------------------------------------------
TypeOK ==
    /\ annotated \subseteq Type /\ manifest \in {Torn} \cup SUBSET Type
    /\ \A f \in File : disk[f] \in {Gone, Torn} \cup SUBSET Full(f)
    /\ strip.at \in 0..Len(FileOrder) /\ strip.ro \subseteq Type
    /\ generated \in BOOLEAN /\ done \in BOOLEAN /\ (done => generated)
    /\ shape \in [Type -> Shape] /\ package \in [Type -> Shape]
    /\ \A c \in plan : c.kind \in {"add", "drop", "modify", "rename"} /\ {c.table, c.to} \subseteq Table
    /\ db \in [Table -> Shape \cup {Absent}]

\* A migration of the reader, whole or broken off, leaves each foreign table
\* as it is while the owner works on it, except that an application's own
\* rename hook can move one of the reader's tables to a foreign name.
ReaderSparesForeign ==
    [][plan' # plan =>
        \A t \in Foreign : db'[t] = db[t]
            \/ \E from \in Table \ Foreign : <<from, t>> \in Rename /\ db[t] = Absent /\ db'[from] = Absent]_allVars

\* A program built once the pipeline has finished has no write of a read-only
\* type, whatever is regenerated, stripped or edited while it runs.
SealedWritesNothing == program.writes \cap program.ro = {}

\* What entreadonly promises of the package and of programs built from it: the
\* named parts together, as the run checks them.
StripIsSound == TypeOK /\ DoneMeansStripped /\ NoHalfStrippedBuild /\ SealedWritesNothing

\* The strip "must run on every code-generation" (README.md:199): however the
\* runs before failed, repeating the two commands gets a stripped package.
EventuallyStripped == []<>(done /\ Whole /\ manifest = annotated)

\* The reader's own tables reach the shape its program has, even when they
\* refer to tables the owner makes, once those are there; a table the rename
\* hook ties to a foreign one excepted.
OwnTablesCatchUp ==
    \A t \in Type \ Foreign :
        (\A r \in Rename : r[2] = t => r[1] \notin Foreign) =>
            (<>[](\A u \in Refs[t] \cap Foreign : db[u] # Absent)
                /\ <>[][program' = program]_allVars /\ <>(program # NoProgram)
             => <>[](db[t] = Desired[t]))
=============================================================================
