# A verification development for entx

entx is a Go workspace of six independent extensions of the ent code
generator and of a terminal user interface. This directory holds TLA+ modules
that model its core logic, TLC configurations that check them on small
instances, and proofs that TLAPS checks.

## 1. The system

| Component | Code | State it keeps | Operations | What makes it correct |
|---|---|---|---|---|
| entcascade generator | `entcascade/generate.go`, `annotation.go` | the functions collected so far | walk the annotated types; decide each edge (skip, bulk, nested, soft, unlink, junction); recurse with a visited set; name id variables | the emitted statements reach every declared dependent, dependents first, variables in scope |
| entcascade functions | `entcascade/template.go` (emitted code) | database rows, an open transaction, the id variables | single, with hooks, batch; standalone or in a caller's transaction; commit, rollback | all of a cascade or nothing; no orphans; a caller's transaction stays the caller's; repeating is harmless; every call returns |
| entpoly functions | `entpoly/templates/polymorphic.tmpl` | rows with a (type, id) discriminator | typed set, resolve and eager load; Required, Touch and Cascade hooks; pivots of polymorphic many-to-many | a child never outlives a cascading parent; a required relation is never empty; a touched parent is stamped |
| entpoly generator | `entpoly/preprocess.go`, `generate.go`, `edge.go`, `mixin.go`, `morphmap.go`, `state.go` | ent's graph while it is rewritten, the relations collected, the morph map | collect polymorphic edges, take them and their foreign keys out, register default keys, render the program | a stored key leads back to the parent it was written for, through renames; the program compiles; ent's graph stays closed |
| entgqlmulti | `entgqlmulti/generator.go`, `copy.go`, `naming.go`, `annotation.go`, `options.go` | one schema per API under construction, the files of earlier runs | copy the types of each target, filter fields and predicates, prune, complete, write | nothing hidden is shown; references are closed; the same annotations give the same file |
| entskiptable | `entskiptable/entskiptable.go` | none; it filters a migration plan | drop the changes of foreign tables | a foreign table stays as its owner left it, the own tables still migrate |
| entreadonly | `entreadonly/entreadonly.go` | the manifest, the generated directory | write the manifest; delete and rewrite files one by one | a finished run has removed every write of the named types and nothing else; a run cut short can be repeated |
| enttui runtime | `enttui/runtime/*.go` | page stack, tview's pages, widgets by name, per-kind cache, sidebar, focus; per page: query, page number, rows, cursor, selection | push, pop, replace, toggle, preview, filter, sort, page, mark, delete, copy, export | the copies of one fact agree; what is shown is what the query answered; actions reach the marked rows |
| enttui generator | `enttui/codegen`, `annotation.go` | none | emit entity specs | the specs compile and fetch what they say |
| harnesses | `testent*`, `entpoly/examples` | | | |

How they interact: the generators run inside `entc.Generate` as hooks and
templates over one `gen.Graph`, so each sees what earlier ones left of it; Strip
runs after them as a command of its own, linked to them by the manifest on disk.
The emitted functions run in the application, beside other goroutines and other
processes that use the same database; they talk to it through `*ent.Client` or
`tx.Client()`, and call back into the application through hooks. SkipHook runs
inside the migration of a program, on a database whose owner migrates too. The
TUI calls CRUD functions of its entity specs and is single-threaded (tview's event
loop), so that what is hard there is long sequences of keys and stale copies.

What is hard: a cascade is many statements and reads ids before it uses them,
so other writers interleave; errors and crashes cut it anywhere; the same
function runs with and without a transaction of its own; the shape of the
statements comes from a recursion over annotations of several types that no
test enumerates. Rows outlive the programs that wrote their keys. Directories are
rewritten file by file. Go's maps are gone through in any order. The TUI keeps
one fact (which pages are there) in three places and names pages by kind.

The hazards, each at its line with the properties that watch it, are in
`PROJECT.json`; those that no property covers are in section 6.

Of the 193,996 lines of Go in the workspace nearly all are ent's and gqlgen's
generated code in the four harnesses and the examples. The extensions themselves
are under fifteen thousand lines; the modules model their logic and, of the
generated code, what it takes to run it (`map` in `PROJECT.json` names the lines).

## 2. The modules

entcascade:

| Module | Models | State and actions |
|---|---|---|
| `CascadePlan` | the generator's decisions: `InCascade`, `EdgeMode`, `DirectOp`, `BuildChildOps`, `BuildOps` (generate.go 97-295), `ResolveOps` with `Joined`, `Nested` and `Shift` (343-374), the program a type gets (`ProgramOf`), the names of its variables (`VarName`, 440-455) | operators. A schema is a record of types, edges and annotations; the result is a program, a sequence of statements `[kind, type, col, src, end]`: a query fills the variable at its own position, `src` is the position of the variable read (0 is the argument), `end` where its block closes. An operation is the block of statements it is resolved to. The recursion through types is a function of the types not yet on the path (the code's visited set turned round), the loops are functions of the position |
| `CascadePolicy` | what the annotations declare, from the table of the extension's README, independently of the generator | reference definition for `CascadePlan` |
| `CascadeGenerate` | `collectCascadeNodes`: the walk over types | `schema`, `next`, `nodes`; `Collect`, `Pass` |
| `CascadeGenerate_proofs` | theorems about every generated program | |
| `CascadeSchemas` | the harness's schema (testent), its checked-in functions, and a family of 6048 schemas of up to four types | operators |
| `CascadeStore` | what a cascade promises: one atomic step that removes the roots with everything that depends on them, the least set closed under the declared dependencies | `rows`, `used`; `AtomicCascade`, `Insert`, `Move` |
| `CascadeRuntime` | the emitted functions against a database, one SQL statement per step, and under read committed one row lock per step | see below |
| `CascadeSound` | what the generator guarantees of its programs, as assumptions: blocks nest; before rows go, their dependents went; every statement does what is declared; the entity goes last. And of the database: typed keys, one edge per column, whole rows at the start | |
| `CascadeRuntime_proofs` | theorems about the rows a cascade leaves, what a call promises its caller, and locks; the runtime implements `CascadeStore`, and a repeated call changes nothing | |
| `CascadeDatabases` | small databases, their programs computed by `CascadePlan` | |
| `MCCascadeGenerate`, `MCCascadeRuntime`, `MCCascadeSound`, `MCCascadeLiveness` | instances for TLC | |

entpoly:

| Module | Models | State and actions |
|---|---|---|
| `PolyStore` | what Required, Touch and Cascade promise of one call: one step on the stored rows; a delete takes the least set closed under cascading relations | `live`, `ref`, `stamp`; `Save`, `Delete` |
| `PolyHooks` | the hooks of `polymorphic.tmpl` (803-997) around ent's create, update and delete, one SQL statement per step | see below |
| `PolyHooks_proofs` | theorems about saves, and about deletes: no orphans, children first, the step of `PolyStore`, the recursion's end | |
| `PolyCodegen` | `preprocess` over ent's graph, the morph map, what of it the template renders and when that compiles, and the keys stored in rows | see below |
| `PolyCodegen_proofs` | theorems about generated programs and the keys in rows | |
| `MCPolyHooks`, `MCPolyCodegen` | small databases and callers; two kinds of parent | |

entskiptable, entreadonly, entgqlmulti:

| Module | Models | State and actions |
|---|---|---|
| `SkipTable` | SkipHook, its predicates (`AnyOf`) and the table a change is judged by; of ent the differ and migrator it stands between | operators on sets of changes |
| `ReadOnlyStrip` | the codegen hook with its manifest, and Strip over the directory | `annotated`, `disk` (per file: gone, torn, or the types whose writes it has), `manifest`, `strip` (how far), `generated`, `done`; `Generate`, `GenerateFails`, `StartStrip`, `StripFile`, `StripRefuses`, `StripDies` |
| `SharedDatabase` | both at work in one service: its package, the program built from it, the database it shares with the owner of the foreign tables | adds `shape`, `package`, `program`, `plan`, `db`; `Codegen`, `Build`, `Migrate`, `Apply`, `OwnerMigrates`, `EditShape` |
| `SharedDatabase_proofs` | theorems about all three | |
| `GqlMulti` | SchemaHook: one schema per API, its stages and files | `annotations`, `files`, and of the run `stage`, `pending`, `api`, `at`, `schema`, `left`, `needed`; one action per target, type pruned, type needed and file |
| `GqlMulti_proofs` | theorems about the files | |
| `MCForeign`, `MCGqlMulti` | instances for TLC | |

enttui:

| Module | Models | State and actions |
|---|---|---|
| `TuiApp` | navigation: the back-stack, tview's pages, widgets registered by name, the per-kind cache, sidebar and focus | `stack`, `pages`, `instances`, `kindState`, `sidebar`, `focus`; an action is a key (`FollowEdge`, `ToggleView`, `ToggleTheme`, `Esc`, `MoveCursor`, `TypeQuery`, ...) |
| `TuiApp_proofs` | theorems about navigation | |
| `TuiView` | one list or table page over a database that others write too, with fetches that fail | `db`, `view`, `modal`; an action is a key, or what other clients write between two keys. A row has an id and is there in one version at a time: an edit replaces it by another. A fetch is two statements, `Count` and `All`, and others may write between them (`Fetches`); `view.read` is history, the rows of the database as `All` read them |
| `TuiView_proofs` | theorems about a page | |
| `MCTuiApp`, `MCTuiView` | instances for TLC | |

Definitions whose names begin with `Bug` are mutations of the definition next to
them; nothing uses them but the test that a property can fail.

`CascadeRuntime` in terms of the code: `live`, `fk` and `stamp` are the
committed rows, their foreign keys and `deleted_at`; `ins`, `del`, `clr`, `soft`
the writes of each caller's open transaction (what ent and the driver keep), `lock`
the rows it has locked and those its statement has yet to lock; `own` says who opened it (the function's `client.Tx`, the caller's, nobody);
`pc` and `ip` are the position in the generated function, `ids` its id
variables, `call` its arguments. The template's two copies of each function
body (nested and standalone, single and batch) are one set of actions whose
guards test `own` and the form. `Query`, `Delete`, `Unlink` and `SoftDelete` are the
operations of the `op` template, hooks run where the template calls them, any
step may fail, a commit may fail with or without effect, and a process may
die. `Insert` and `Move` are other clients. The isolation of the database is the
constant `Serializable`. Under read committed a DELETE or UPDATE of several rows is not one
step: `Scan` finds the rows, `LockRow` locks one of them, whichever, once nobody else has
it, and looks at it again (another transaction may have committed meanwhile), and the
statement writes when it is through. Two statements over the rows of one table can so wait
for each other; `BreakDeadlock` is the database, which fails the statement of one of those.

`PolyHooks` in terms of the code: `live`, `ref` and `stamp` are the rows, their
(type, id) discriminators and their `updated_at`. A save is the required hook and
the statement's builder (`BeginSave`; a rejected call changes nothing and is left
out), the statement (`Save`) and the touch hooks from the inside out (`Touch`;
`todo` is the set of relations whose hooks have still to run, of which the
innermost is next). A delete is a stack of nested `Delete().Where(...)` calls
(`stack`): each frame runs the cascade hooks of its type (`hooks`, the outermost
first), each hook enumerates ids (`Enumerate`),
deletes the children of one after the other (`DeleteChildren`, a new frame, because
the child's client has hooks too), and the frame ends with its DELETE. `Transactional`
chooses between a plain client, where every statement is committed by itself, and
a caller that wraps each call in a serializable transaction (`undo`). Only the typed
setters assign discriminators, so the two columns of a relation are one value.

`PolyCodegen` in terms of the code: a graph has the types at their places in ent's
order, with their edges, discriminator columns and the foreign keys ent has attached; `preprocess`
goes through it type by type as the code does (`Visited`, `HandleMorphTo`,
`HandleParent`, `HandleHolder`), strips edges with their keys and completes the
morph map. `Generate` is a run and a build: a program that does not compile
replaces none. The developer's edits (`AddType`, `EditLists`, `EditHolder`,
`Rename` after the documented workflow, `Register`) come between runs, and rows
are written by whatever program is in service.

`ReadOnlyStrip` and `SharedDatabase` in terms of the code: a file is the set of
types whose writes it contains, because that is all Strip changes. `StripFile`
is one round of the loop over the directory (delete, rewrite or leave), so that
a failure or kill falls between rounds or, as a torn file, into one. A migration
is `Migrate` (differ, the application's rename hook, SkipHook) and one `Apply`
per change, between which the owner may change its tables.

`TuiApp` in terms of the code: the handlers call one another (`replaceTopKind`
calls `pushBrowser`, the sidebar calls `replaceTopKind`), so each is an operator
from an App record to the next and an action applies what its key runs. Page
names are what `pageName` computes: a page drilled into twice has one name. Each modal has
a page of its own, and they are of three kinds by what their closing does to the
keys: the picker brings the front page forward, a filter or a preview (`Returning`) focuses
its page, the others (`Popup`) leave the keys to what they uncover. What a leader's verb
does over another modal, and a modal whose page the sidebar replaced behind it, are left out.
`TuiView` keeps the copy of rows a page shows apart from the rows there are; a page
may hold an older version of a row than the database.

The programs the cascade runtime executes are computed from the harness's schema by
`CascadePlan`, so generator and functions are checked as one.

## 3. The runs

| Run | Asks | Bounds |
|---|---|---|
| generate | do generated programs keep scope, reach all dependents, dependents first, and equal the checked-in file | all schemas of the family: three to four types, every edge kind, every rule on root and intermediate types, circles among the types, a type cascaded into by two edges of another, a junction with dependents of its own; plus testent's 17 types |
| harness | is each call one atomic cascade, in every form, with hooks, failures, crashes and other clients | one caller of the user, category and workspace cascades on one serializable database: hard, soft and unlink rules on root and intermediate types, single and batch; two cascades in a row (`MaxNow` = 2), so that repeats and chains of calls in one transaction happen; dependencies on types without rows are left out (`HarnessPolicy`) |
| overlap | do concurrent cascades that share rows stay atomic under read committed, deadlock over the rows of one table at most, and does every call return | two callers, three roots over one chain that ends in two rows of one type: the two can be locked in either order, and the run reaches the deadlock over them. A wait cycle of more than two calls takes more callers; section 4 has the theorem for any number |
| poly_tx | is each save or delete, with its hooks, one promised step in a transaction, at every depth, and does the recursion end | one caller in every form, with failures; a post, a video, two comments (also under one another) and an image, whose relation cascades without Touch, sharing ids; two saves; `MaxDepth` is one more than the rows |
| poly_plain | what do the hooks guarantee between other callers' statements | a writer (two saves, every form) and a remover on a plain client |
| poly_codegen | do stored keys, generated program and ent's graph stay right over the life of a schema | two kinds of parent, two names, three keys; three edits, enough for a rename, a new type under the old name and listing it; the two kinds are symmetric, nothing tells them apart but their types' names. Section 4 proves the properties for every bound |
| foreign | does the pipeline end stripped, do builds and migrations keep their promises beside the owner | two types, one foreign and annotated from the start (`FirstAnnotated`), one that refers to it, a table the rename hook knows; one failure or kill and one edit: the state a fault leaves meets a full clean run, and a second one of a schema that has changed |
| gqlmulti | what do the files promise in every order of the maps, over repeated runs | two APIs with 17 and 3 lists of targets (no target, whole and restricted, two of one entity, the narrower first or last, an entity that does not exist) over one schema with mutual edges |
| tui_app | do stack, pages, widgets, sidebar and focus agree after any keys | two kinds (one opening as list, one as table), edges both ways and of a kind to itself, two pages deep: enough for a kind below itself, and section 4 proves the properties for every depth; one query on the first page (`NarrowDepth` = 1), marks on the second (`MarkDepth` = 2); a filter, the help, the capabilities and the kind picker, two open at a time (`MaxModals` = 2): enough for one over another |
| tui_view | what does a page show, offer and export | one row that stays and one that comes, goes and is edited between two versions, pages of one or two; the filter leaves the first and one version, the condition the versions of the second. Enough for a second page, a page that filter, edit or delete empties, and a count that others make wrong; any number of rows is section 4's. The cap on exported rows is never reached |
| tree, poly_alias | findings, see section 6 | the smallest instance that shows each |

Bounds: `MaxNow` bounds how often cascades start (the clock advances with soft
deletes only, and a call needs rows), rows are the constant `Row`, ids are not
reused. Two callers are enough for two cascades that overlap, in each of their steps;
chains of three types are enough for nesting of blocks, because a block reads
only its parent's variable.

Properties with several parts (`PagesAgree`, `StripIsSound`, `FilesAreClosed`,
and `NoOrphans` of `PolyHooks`, `WellScoped`, `EdgesKeepTheirKeys`, which include
the module's `TypeOK`) are conjunctions of named definitions in their modules.

Liveness. Run overlap uses `FairSpec` of the runtime: weak fairness for a call's
own steps (a goroutine that can run, runs), strong fairness for beginning a
transaction and for a statement that waits for a row lock (the database grants a
lock that is freed again and again), and weak fairness for `BreakDeadlock` (a
database looks for wait cycles); without the last TLC
finds the two calls that wait for ever. Run foreign uses `FairSpec` of
`SharedDatabase`: a developer or a CI job runs the generator again until it
succeeds (strong, since a running Strip disables it meanwhile), a Strip that was started goes on,
and a program's migration is run until it is through (weak). Nothing is assumed of
failures, crashes, edits, builds, new calls, or of the owner of the foreign tables.

Deadlock is checked in the runs of the systems that never stop: foreign, gqlmulti,
tui_app and tui_view. It is off in the runs of entcascade and of entpoly,
where the system stops, as the program does, when rows, calls or edits are used up.

## 4. What is proved

Every theorem is of the specification the runs check, for all values of the
constants that satisfy the named assumptions; TLC evaluates the assumptions in the
runs. A refinement and an action property need the same thing as an invariant:
an inductive statement of what holds between the statements of a call, when the
property itself says nothing. That statement is what each argument below names.

**entcascade, the generator** (`CascadeGenerate_proofs`), for `SchemasShape` alone: any
graph whose edges lead to its own types, with any annotations, also one whose types
depend on each other in circles:

- `ProgramsAlwaysWellScoped`: `Spec => []WellScoped`. A program is put together from
  blocks, moved along and into one another. `Block` is what each of them satisfies on its own
  and what `Joined` and `Nested` keep (`JoinedBlock`, `NestedBlock`): its statements
  read variables of queries before them in the same block, and queries close where
  they say. That `Shift` moves `end` along with the rest is what this needs. Of the names,
  the counter makes those of one function distinct (`NamesDistinct`), and a query whose
  block a statement is in is in sight there (`ScopedResolves`).
- `DependentsAlwaysFirst`: `Spec => []DependentsFirst`. The property is about a
  finished program; what is kept from the innermost block outwards is `Good`, the same
  with the types that are left instead of the path, and `Covered`: the operations of a type
  deal with each of its dependents whose type is left. Both together (`Complete`) hold of what the
  recursion gives for every set of types left (`ChildOpsGood`, by induction on its
  size). In a nested block a dependent of the rows at the end is dealt with by one of the
  children's operations, because the annotation that declares it puts its edge in play
  (`DependentIs`, `EdgeOpGood`, `NestedGood`).
- `NothingElseIsTouched`: `Spec => []OnlyDeclared`, every statement but the last does to rows of
  its type what some dependency declares. The same induction carries it (`Declared` in
  `HandledAt`); its step is `EdgeDeclares`: the rule ladder decides as the
  declarations do.

The recursion and the loops are recursive functions; `BuildChildOpsIs`,
`ResolveOpsIs` and `OpsOfIs` show that these exist: what is below a type depends on
fewer types left (`BelowAgree`).

**entcascade, the emitted functions** (`CascadeRuntime_proofs`), for `Parameters` of
`CascadeRuntime` and, but for the first and the third, the assumptions of
`CascadeSound`:

- `TypeCorrect`: `Spec => []TypeOK`. The invariant is strengthened with `Control`:
  the instruction pointer lies in the program of the call, no writes are
  pending without a transaction, pending rows carry ids handed out.
- `CascadeLeavesNoOrphans`: with `Serializable`, `Spec => []NoOrphans`. NoOrphans
  speaks of committed rows and says nothing while a transaction runs, so the
  inductive invariant `Inv` adds: at most one transaction is open
  (`Exclusive`); keys refer to rows of the declared type and unused ids still have
  their initial keys (`KeysKept`); the view of an open transaction has no
  orphans, so that it could commit at any time (`ViewsWhole`); and what the
  executed statements achieved (`Progress`): in every block still open, a
  statement that deletes or unlinks leaves no row that its predicate selects,
  and a query's ids still cover its predicate. The step that matters is
  `Delete`: a row that hangs on a deleted one would contradict `Progress`, because
  `ProgramCovers` names an earlier statement that dealt with it (`DeleteWhole`).
  An empty query that skips its block is the other (`QueryProgress`): it needs
  the nesting of blocks (`ProgramScoped`).
- `CallersTransactionIsKept`: `Spec => CallerKeepsTx`, on any database.
- `OkAlwaysMeansGone`: `Spec => []OkMeansGone`, on any database, so also where the
  transactions of several callers run side by side. `GoneInv` says of a call that
  its roots have ids handed out, which no insert reuses, and that past its last statement
  they are gone from its view; a commit then carries that over to the stored rows.
- `NeverDeadlocksAcrossTables`: `Spec => []DeadlocksInOneTable`, on any database and for
  any number of callers, if `OneLockOrder`: no circle of tables that programs lock one
  before the next. DeadlocksInOneTable is about a whole cycle of calls, so the invariant
  says of each what it holds: rows of types of lock statements behind it, or of the one it
  is at (`TakenBefore`). Of the tables a cycle's members stand at, one is locked last; those
  its members wait for stand there too (`WaitsAhead`, `CycleInOneTable`), so they alone
  are a cycle. That one is not excluded: no program says in which order a
  statement comes to its rows. `"app" \notin Modes`: a caller's own transaction may run several
  cascades in any order, and such callers can deadlock across tables. TLC evaluates
  OneLockOrder on the programs of the run overlap.
- `RuntimeImplementsStore`: with `Serializable`, `Spec => ImplementsStore`. While a
  transaction is open its statements are stutters of the store, so `StoreInv` says
  which atomic step its commit would be: a cascade from the set of the arguments
  of the calls made in it (`Sim`). Only doomed rows are deleted (`DeletesDoomed`);
  the ids a block works with are doomed and were selected by its query
  (`IdsDoomed`); a cleared key belongs to a declared unlink and leads to a row that
  goes (`ClearsDeclared`); stamps are exactly those declared (`StampsDeclared`,
  `StampsComplete`). That nothing is missing at the end follows from `Progress`. What a
  set of roots dooms is the least closed set, so "only doomed rows" is proved
  against every closed set and needs no induction over the depth of a chain.
- `RepeatedCallIsNoOp`: with `Serializable`, `Spec => RepeatIsNoOp`, from the same
  invariant: the least set closed over roots that are gone is those roots.

The assumptions of CascadeSound on programs are what the generator guarantees of its own,
restated for a program. ProgramScoped and ProgramEndsWithSelf are WellScoped, a
theorem for every schema. ProgramCovers is DependentsFirst, also a theorem, where no
type depends on itself through a chain and no junction has dependents; ProgramDeclared is
OnlyDeclared, a theorem for every schema. The run harness makes TLC evaluate all of them on
generated programs. They are false for the self-referential schema of the run tree, as they
should be.

**entpoly** (`PolyHooks_proofs`), for `PolyParameters`:

- `RequiredAlwaysHolds`: `Spec => []RequiredHolds`. The invariant adds what a
  transaction would restore (a rollback must not bring back an empty relation)
  and that a mutation between the required hook and its statement has passed the
  hook and names a row of its own type; `AssignedFilled` is the step from the
  mutation to the row.
- `SaveAlwaysTouches`: `Spec => SavedIsTouched`, plain client or transaction. `CallInv`
  says of a call between its statement and its return that each parent it was
  given is stamped or its relation still in `todo`.
- `ChildrenAlwaysGoFirst`: `Spec => ChildrenGoFirst`, plain client or transaction, at
  any depth. `HooksInv` says of a child whose parent some frame is about to remove,
  unless another caller saved one of the two meanwhile (`late`), that it waits for
  that frame (`FrameHandled`): the hook of its relation has still to run, or has read its
  parent's id, or the frame above was begun for that parent. So a frame whose hooks
  are through removes no parent.
- `NeverOrphans`: `Spec => []NoOrphans`, assuming `Transactional` and `StartsWhole`, for the
  relations that cascade and are touched (`Guarded`). Where a relation has `.Cascade()`
  alone, as in docs/features/cascade.md, nothing refuses a save that names a missing
  parent, and no such promise can be made: what holds of it is `ChildrenAlwaysGoFirst`
  and `HooksImplementStore`. `WholeInv` adds that the rows to
  restore are whole, and that a save whose parent is missing has a touch ahead of it
  that will fail.
- `HooksImplementStore`: `Spec => ImplementsStore`, assuming `Transactional` only: for
  relations that cascade with and without Touch, and from a database that may
  hold orphans. `ProgressInv` compares the stored rows with those at the beginning of the
  transaction: a save has written its rows and so many stamps (`Wrote`); a delete has
  removed only rows that hang on what it was asked for (`Reach`; an id that is gone may
  still have children, and that delete fails at its own statement), has left none
  that hangs on a row it removed, and each frame's selection lies in that tree.
- `OverflowAlwaysNeedsCycle`: `Spec => OverflowNeedsCycle`, assuming `Transactional`,
  finitely many rows and `MaxDepth` above their number. Each frame hangs on a row of the one below
  (`LinkInv`), so a stack deeper than there are rows passes one row twice, by
  the pigeonhole principle (`LongWalk`), and the rows between hang on each other; that they are still
  stored is `Fed`: a set in which every row has a child is never removed from.

Of the generator (`PolyCodegen_proofs`), for `PolyNames`: any types and names, any order
of the types in ent's graph, any number of edits. All four properties of the run are
theorems, from one invariant (`Inv`):

- `RowsAlwaysKeepTheirParent`: `Spec => []RowsKeepTheirParent`. Rows outlive schemas
  and programs, so what has to be known of them is said in terms of the schema and the
  aliases as they are now: a key stored for a kind of parents, or that the running
  program may yet store, is an alias of their type or its default key (`StoredInv`; the
  workflow of Rename is what keeps it so). A new program then finds them by what its map
  has to do with the aliases (`MapInv`).
- `BuildsUnlessTheMapIsAtFault`: `Spec => []BuildsUnlessMapAtFault`. `MapInv` says of the
  names given keys so far that each has one, or lost it to another's default key, which
  was an alias before; it is kept by each name registered (`RegisteredKeepsMap`), in
  whatever order (`PreprocessLeaves`).
- `ColumnAlwaysTakesDefaultKeys`, `EdgesAlwaysKeepTheirKeys`: `Spec => []ColumnTakesDefaultKeys`
  and `Spec => []EdgesKeepTheirKeys`. What a run has `Collected` is kept by each
  handler; `StrippedClean` compares edges and foreign keys of the graph left.

The passes over names, edges and types are recursive functions; `RegisterAllIs`,
`VisitedIs` and `preprocessIs` show that these exist, and `CountUp` is the induction
over their places.

**entreadonly and entskiptable** (`SharedDatabase_proofs`), for `StripParameters`
and `SharedParameters`, whatever the two bounds:

- `StripIsAlwaysSound`: `Spec => []StripIsSound` (types, DoneMeansStripped,
  NoHalfStrippedBuild, SealedWritesNothing). None of the four is inductive: that
  Strip has done its work is known at its last file only. `StripInv` says what is
  known before: next to a readable manifest each file is as generated, bare or
  torn (`FilesKnown`); Strip works by the manifest that is there and the
  files before its position are bare (`StripFollows`); once done, all are
  (`DoneIsBare`). Two steps matter: `StripFile` at the last position, which turns
  "all files before" into "all files", and `StripDies`, which may tear a file of a
  finished package, its clients above all, since every run writes those again
  (entreadonly.go:187): a run that begins takes `done` back, and one that passes a torn
  file over, because what is left of it parses, leaves a package that is not `Whole`
  (`StripDiesInv`).
- `ReaderAlwaysSparesForeign`: `Spec => ReaderSparesForeign`, an action property.
  The invariant says of a pending plan that it names no foreign table and leads to
  another table only by a rename the application's hook knows (`PlanKnown`); the
  plan may be old when it is applied, and `ApplySpares` needs nothing of the
  database it was made for.

**entgqlmulti** (`GqlMulti_proofs`), for all schemas, APIs and lists of targets that
satisfy `GqlParameters` and `EntgqlSchema` (the shape of the schema entgql makes,
which that of the harness, `testentgqlmulti/ent.graphql`, has; only
`FilesAlwaysClosed` and the exclusion of inputs and filters from the common types use
it). All four properties of the run are theorems:

- `FilesAlwaysFollowAnnotations`: `Spec => []FilesFollowAnnotations`. The invariant
  says of a run under way that it has answered every API it has looked at, but for
  the one it builds (`RunAnswers`); a failing run may leave files of two
  generations behind, but then ok is false until a whole run has gone through.
- `AlwaysReproducible`: `Spec => Reproducible`. `FileInv` gives the schema at every point
  of a build in closed form: after k targets (`TargetSchema`), with some filters
  pruned (`PrunedBut`), with some needed types looked at (`Completed`). None
  of them mentions the order, so a file is a function of its targets (`File`).
- `HiddenFieldsAlwaysStayHidden`: `Spec => []HiddenFieldsStayHidden`. A type of the file
  is what the last target that adds it gives it (`TargetGet`), and by the kind of its
  name that target is one of the same entity (`GivenKinds`), so its fields
  were filtered by the fields that one lists, whatever an earlier and wider target had
  put there. The enum of an order is copied whole (generator.go:186).
- `FilesAlwaysClosed`: `Spec => []FilesAreClosed` (types, PredicatesFollowTheirEntity,
  OrphansAreKept). Case by case over what a target adds (`GivenAnchored`): a field's type
  is common, added with it, or one of those needed, and those are added unless they are
  object types left out (`FileGet`). That pruning one filter cannot undo what another
  was judged by is seen from `PrunedBut`: it takes fields, never a type.

**enttui** (`TuiApp_proofs`), for `TuiParameters` and `PageParameters`, whatever kinds,
edges, filters and modals there are, and however deep the stack; the four bounds of the
run play no part. All four properties of the run are theorems:

- `PagesAlwaysAgree`: `Spec => []PagesAgree` (types, InstancesMirrorPages,
  ScreenFollowsStack). ScreenFollowsStack is not inductive: a modal that closes uncovers
  what was under it, and the screen alone does not say what that is. `Settled` says
  it of the registry: no name is registered twice, and the front entry's page, if it
  has one, is visible with at most overlays over it (`ShownUnder`). The handlers are
  operators from one App to the next, so there is a lemma for each call, and in the
  middle of a handler the weaker `Sound` holds, which a page that is already down
  leaves true (`BareFacts`) and a page that is mounted makes `Settled` again
  (`MountedFacts`).
- `LostOnlyByNamesakeAlways`, `OverlayKeepsKeys`: `Spec => LostOnlyByNamesake` and
  `Spec => OverlayLosesKeysToSidebar`, two sides of what each key does to an App (`Keeps`,
  `Quiet`, together `Steps`; `StepFacts` goes through the keys).
- `ThemeAlwaysKeepsQuery`: `Spec => ThemeKeepsQuery`. The query goes from the widget into
  the cache (`SnapshotFacts`) and from there into the new page (`PushBrowserFacts`).

What tview does to a sequence of pages is stated by position (`WithoutFacts`,
`FrontPageIsLast`), since what a filter over a sequence leaves could not be proved.

Of `TuiView` (`TuiView_proofs`), for `TuiViewParameters`: any number of rows, filters
that leave any of them, page sizes, drills and rows of other clients. All five
properties of the run are theorems. The rows a query leaves are ordered by rank
(`Ahead` counts who stands before), so that a page is the rows with ranks in an interval;
that ranks fill the interval without gaps is the pigeonhole principle (`RanksFilled`).

- `PageAlwaysSound`: `Spec => []TypeOK`, with what it says beyond types: no row twice, nor
  in two versions, since one statement reads a page (`AnswerHasNoRowTwice`); dialogs act on
  what the page holds. TypeOK is inductive since a fetch or a redraw meets no open dialog but
  the one that it closes (`Done`).
- `MisleadsOnlyAfterErrorAlways`: `Spec => MisleadsOnlyAfterError`. Every key either asks anew
  (`Shown`) or leaves query and rows alone (`SameScreen`); `ScreenStep` goes through them.
- `ToggleAlwaysKeepsRows`: `Spec => ToggleKeepsRows`. A toggle fetches twice, with the
  kind's defaults and with the page's query; `AppliedIs` and `FocusedIs` say what is
  left after both, and the rows are those of one `Answer` to one query.
- `StrandedOnlyByTextFilterAlways`: `Spec => StrandedOnlyByTextFilter`. Of each key that asks
  anew: it goes to the first page, or to one that begins within the rows counted
  (`Within`), or leaves page and query alone.
- `ExportsAlwaysTheMarked`: `Spec => ExportsTheMarked`, from TypeOK: a dialog's rows are
  still those selected on the page when its format is picked.

Only model-checked: liveness (CallsReturn, EventuallyStripped, OwnTablesCatchUp), being
out of the prover's reach; MatchesGenerated, which compares with one checked-in file; and
ReachesAllDependents, which says that the chains of a program are those of the
declarations, a statement about sequences of every length (its run bounds them with
`ChainBound`).

## 5. Plan

Done: all components but the enttui generator have modules. What is left:

1. `TuiApp` and `TuiView` composed for a drilled page, whose id set is part of what
   going back and toggling restore; the panes of the master-detail page.
2. The soft-delete and GraphQL options of entpoly's generator, and the eager
   loaders' answers against the lazy resolver's.

## 6. Findings

Runs that fail, each quoting the text it contradicts in `PROJECT.json`:

- A self-referential type is cascaded one level deep by entcascade (run tree), where
  its README promises the entire tree.
- With an alias for a parent type, a column made by MixinAllowed refuses the key
  that the setter stores (run poly_alias): preprocess.go:437 compares default keys
  with default keys, where mixin.go:169 says they are resolved against the morph map.

Limits met on the way, with no run of their own.

entcascade:

- Nested blocks under read committed orphan rows inserted meanwhile: with
  `Serializable = FALSE`, TLC refutes NoOrphans in MCHarness.cfg. Under a
  serializable database it is a theorem.
- Two cascades under read committed can deadlock over the rows of one table (a bulk DELETE,
  template.go:230, locks them in no order of its own). The call the database picks returns
  an error and is rolled back; the package does not run it again.
- A dependency declared on the dependent's side only (generate.go:107; Member.user of
  the harness) is not cascaded; no property could notice, the policy being what
  the deleted type declares.
- Junction rows are deleted without what depends on them (buildM2MOp, generate.go:141, does not
  recurse), and an edge to a type on the path is dropped (generate.go:237): the two
  exceptions in DependentsFirst. TLC refutes the property without either.
- The junction rows of an untyped many-to-many edge stay (generate.go:147 emits a
  comment); entcascade/USECASES.md:150 speaks of `Through` edges only.
- A repeated soft delete stamps deleted_at again (template.go:234): the comment
  at testent/cascade_delete_test.go:582 says it returns "without touching anything",
  the title above it that it "re-sets deleted_at".

entpoly:

- The hooks open no transaction: on a plain client a child saved during the
  parent's delete is orphaned (polymorphic.tmpl:994; docs/features/cascade.md:45), a
  delete that fails keeps what it deleted, a save whose touch fails keeps its row.
  In a serializable transaction this cannot happen (run poly_tx), but for a relation
  with `.Cascade()` alone: no hook looks for the parent a save names
  (docs/features/cascade.md), so `NoOrphans` is about those that are touched as well.
- Bulk updates and updates by id that do not set the relation touch no parent
  (polymorphic.tmpl:895; docs/features/touch.md:3).
- The fields of the foreign keys that are taken out go by name (preprocess.go:288-298).
  In the model a hidden field's name is its key's, and no field of the schema bears it.
- A cascade over a self-referential relation goes to every depth (polymorphic.tmpl:987;
  self-referential.md:75 says one level), and over rows that are each other's
  parent until the stack is used up (the action `Overflow`).
- A type without an alias gets its default key over whatever alias the map had there
  (preprocess.go:542): after a rename, a new type of the old name takes over the
  renamed type's rows; and once it is listed no more, the rows written for it meanwhile
  fall to the renamed type. `TakenOver` in RowsKeepTheirParent is these two cases.
- Two aliases for one type make the package not compile: a constant is emitted per alias.

enttui:

- app.go:646 speaks of removing a page, RemovePage (653) removes by name: popping a
  page whose name occurs again below leaves an entry without page and widget.
- Going back, opening a table and leaving a master-detail page for the kind of one of
  its panes leave the sidebar's highlight behind (app.go:382).
- An overlay loses the keys to the sidebar that Ctrl-B opens over it; and a filter or a
  preview opened behind it by then gives them, as it closes, to its page and not to the
  overlay in front again (browser.go:691, table.go:657).
- A switch of the theme keeps what `browser.state` (browser.go:172) hands over. The id set
  of a drilled page is not part of it, so the page shows every row afterwards (app.go:344);
  `ThemeKeepsQuery` speaks of ListOpts only.
- The id set of a drilled page is applied after paging (browser.go:380), so matching
  rows beyond the page are never shown; toggling drops it (app.go:510); an empty one
  shows every row (browser.go:784). The properties of `TuiView` leave restricted
  pages out where they say so; an export of a drilled page has all rows.
- A redraw after a failed fetch brings back rows of an earlier query, and a text filter
  typed on a late page strands it.
- `Count` and `All` are two statements outside a transaction (register_post.go:168, 172):
  where others write between them, a page can hold more rows than it counts, or be offered
  a next page that is not there. No property of `TuiView` says otherwise.
- The form of an edit or of a new row is one step, its saving: what others write while it is
  open comes before. It saves the values it was opened with, over theirs (form.go:45).
- The generated Fetch ignores the single sort field and direction; the anchor of a
  range of marks survives a change of page.
- A detail tab is marked as built even where its kind is not registered
  (masterdetail.go:120), and errors of later moves are dropped.
- The generator picks a letter for an edge that a later edge's annotation pins; the
  annotation is then ignored (codegen/generate.go:800).

entskiptable, entreadonly, entgqlmulti:

- A rename is judged by the old name, so one of the service's own tables can be renamed
  into the foreign set; a change that is kept may need one that was dropped.
- A file torn by a crash blocks Strip until the generator has run again, unless what is left
  of it parses: Strip then returns nil over a package that does not compile. Its last write
  may be to a package that was finished before, since every run writes the clients again. A
  manifest of an earlier run is taken for the present one.
- A file may name a type it does not hold: a Connection kept by an edge or a query
  with its arguments, or an edge a target asks for by name (`OrphansAreKept`;
  entgqlmulti/USECASES.md:185 promises none).
- A predicate stays when an allowed field's name begins its name, or when it begins with
  `has` or, with id allowed, with `id`; a field so named is taken for one. Where an API
  lost its last target its file stays; where os.WriteFile fails (generator.go:83) it is cut
  short until a later run writes it.
- The order enum of a restricted entity has the values of its hidden fields
  (generator.go:186), as entgqlmulti/USECASES.md:165 and :210 say.

## 7. Not modelled

Error texts, comments and Go formatting of generated code; the SQL drivers;
contexts that are cancelled are failures of the
statement at hand.

- enttui's generator: one pass over ent's graph that writes a file per entity and keeps
  no state. `TuiView` models the Fetch it emits.
- enttui's presentation: colours, text, the terminal's clipboard. Its overlays and the
  theme switch are pages of `TuiApp`.
- entpoly: the eager loaders and many-to-many queries, which only read; column-name
  overrides, Go types of ids, soft-delete and GraphQL options; builders that create
  many rows at once.
- The generated code of ent and gqlgen in the harnesses beyond the builders that carry
  entpoly's hooks, and the demo servers.
