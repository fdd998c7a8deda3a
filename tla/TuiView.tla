------------------------------- MODULE TuiView -------------------------------
(***************************************************************************)
(* One page of enttui: a list browser (browser.go) or a table (table.go)   *)
(* over the rows of one kind.  A page holds a copy of one page of a query's *)
(* answer and a selection; other clients of the database insert, change and *)
(* remove rows meanwhile, also between the two statements of a fetch, and a *)
(* fetch may fail.  A step is one key and everything its handler does, or  *)
(* what other clients do between two keys.                                 *)
(*                                                                         *)
(* A row that is edited gives way to another version of itself, with its id. *)
(*                                                                         *)
(* Both views' single sort field and direction are left out: the generated *)
(* Fetch reads only the sort stack (entity.tmpl, opts.Sort).               *)
(***************************************************************************)
EXTENDS Naturals, Sequences, FiniteSets, SequencesExt

CONSTANTS
    MaxRow,         \* bound: row versions are 1..MaxRow, in the order the database returns them
    Id,             \* the id of each
    PageSizes,      \* the cycle of page sizes
    PageSize,       \* the kind's annotated page size
    Named,          \* the rows the text filter leaves
    Marked,         \* the rows the condition leaves
    Volatile,       \* bound: the rows that are created, edited and removed
    Drills,         \* bound: the sets of ids an edge leads to
    NoIds, NoRow

Row == 1..MaxRow

ASSUME TuiViewParameters ==
    /\ MaxRow \in Nat \ {0} /\ PageSize \in Nat \ {0}
    /\ PageSizes \in Seq(Nat \ {0}) /\ PageSizes # <<>>
    /\ Named \cup Marked \cup Volatile \subseteq Row
    /\ DOMAIN Id = Row /\ NoRow \notin Range(Id)
    /\ UNION Drills \subseteq Range(Id)

\* No row is there in two versions.
Databases ==
    { d \in SUBSET Row : Row \ Volatile \subseteq d /\ \A r, s \in d : Id[r] = Id[s] => r = s }

VARIABLES
    db,             \* the rows of the kind
    view,           \* the page's widget; its field read is history: db as its rows were read
    modal           \* the dialog in front of it: [kind, rows, row], the last an id

vars == <<db, view, modal>>

NoModal == [kind |-> "none", rows |-> {}, row |-> NoRow]

\* A query: text filter, condition, direction of the one key of the sort stack.
Query(v) == [flt |-> v.flt, cond |-> v.cond, stk |-> v.stk]

---------------------------------------------------------------------------
(* The generated Fetch: the matching rows in order, and a page of them *)

\* The i-th of a set of rows, in the order of the query, has i - 1 of them before it.
Ahead(desc, r, S) == { s \in S : IF desc THEN s > r ELSE s < r }

InOrder(desc, S) ==
    [i \in 1..Cardinality(S) |-> CHOOSE r \in S : Cardinality(Ahead(desc, r, S)) = i - 1]

Matches(q, d) == { r \in d : (q.flt => r \in Named) /\ (q.cond => r \in Marked) }

Fetched(q, d, offset, limit) ==
    LET found == Matches(q, d)
        all   == InOrder(q.stk = "desc", found)
        n     == Cardinality(found)
        end   == IF offset + limit < n THEN offset + limit ELSE n
    IN  [i \in 1..(end - offset) |-> all[offset + i]]

---------------------------------------------------------------------------
(* The views' methods *)

\* A drilled page is restricted after the database has paged.
Restricted(v, rows) ==
    IF v.ids = NoIds THEN rows
    ELSE InOrder(v.stk = "desc", { r \in Range(rows) : Id[r] \in v.ids })

Answer(v, d) == Restricted(v, Fetched(Query(v), d, v.page * v.size, v.size))

\* A restricted page counts what it shows.
Total(v, counted, rows) ==
    IF v.ids = NoIds THEN Cardinality(Matches(Query(v), counted)) ELSE Len(rows)

\* The list starts over at its first row; the table keeps its cursor where it can.
Moved(v, n) ==
    IF v.mode = "list" THEN 1
    ELSE IF n = 0 THEN v.cursor
    ELSE IF v.cursor < 1 THEN 1 ELSE IF v.cursor > n THEN n ELSE v.cursor

\* refresh: Count, on one database, and All, on another.
Refreshed(v, counted, read) ==
    LET rows == Answer(v, read)
    IN  [v EXCEPT !.rows = rows, !.read = read,
                  !.total = Total(v, counted, rows),
                  !.cursor = Moved(v, Len(rows)),
                  !.err = FALSE]

\* A failed fetch leaves one line saying so, and the rows as they were.
Failed(v) == [v EXCEPT !.err = TRUE, !.cursor = IF v.mode = "list" THEN 1 ELSE @]

\* The ways refresh ends, from database d: the page and the database then, which
\* others may have written between the two statements.
Fetches(v, d) == {<<Failed(v), d>>} \cup { <<Refreshed(v, d, e), e>> : e \in Databases }

\* refreshDisplayOnly redraws the list from the rows at hand; a table fetches again.
Redraws(v, d) ==
    IF v.mode = "list"
    THEN {<<[v EXCEPT !.err = FALSE, !.cursor = IF v.cursor \in DOMAIN v.rows THEN @ ELSE 1], d>>}
    ELSE Fetches(v, d)

Blank(mode) ==
    [mode |-> mode, flt |-> FALSE, cond |-> FALSE, stk |-> "none", page |-> 0,
     size |-> PageSize, ids |-> NoIds, rows |-> <<>>, total |-> 0,
     cursor |-> IF mode = "list" THEN 1 ELSE 0, err |-> FALSE, sel |-> {}, read |-> {}]

Opened(mode, d) == Fetches(Blank(mode), d)

\* setIDFilter: no ids, no restriction.
Drilled(ids, d) ==
    IF ids = {} THEN Opened("list", d)
    ELSE UNION { Fetches([x[1] EXCEPT !.ids = ids], x[2]) : x \in Opened("list", d) }

\* The id of the row under the cursor.
CursorRow(v) == IF v.cursor \in DOMAIN v.rows THEN Id[v.rows[v.cursor]] ELSE NoRow

\* focusID
Focused(v, id) ==
    IF \E i \in DOMAIN v.rows : Id[v.rows[i]] = id
    THEN [v EXCEPT !.cursor = CHOOSE i \in DOMAIN v.rows : Id[v.rows[i]] = id]
    ELSE v

\* Mistake: the page is not handed over.
BugApplied(v, old, d) ==
    { <<Focused(x[1], CursorRow(old)), x[2]>> :
      x \in Fetches([v EXCEPT !.flt = old.flt, !.cond = old.cond, !.stk = old.stk,
                              !.size = old.size], d) }

\* applyState: neither the restriction nor the selection is handed over.
Applied(v, old, d) ==
    { <<Focused(x[1], CursorRow(old)), x[2]>> :
      x \in Fetches([v EXCEPT !.flt = old.flt, !.cond = old.cond, !.stk = old.stk,
                              !.page = old.page, !.size = old.size], d) }

\* swapToTable, swapToBrowser: the new view fetches once as opened, once as handed over.
Toggled(old, d) ==
    UNION { Applied(x[1], old, x[2]) : x \in Opened(IF old.mode = "list" THEN "table" ELSE "list", d) }

nextPageSize(cur, up) ==
    LET atLeast == { i \in DOMAIN PageSizes : PageSizes[i] >= cur }
        at      == IF atLeast = {} THEN 1 ELSE Min(atLeast)
    IN  PageSizes[IF up THEN Min({at + 1, Len(PageSizes)}) ELSE Max({at - 1, 1})]

\* filteredRows: of the page at hand.
SelectedRows(v) == { r \in Range(v.rows) : Id[r] \in v.sel }

---------------------------------------------------------------------------
(* Keys of the page *)

Idle == modal = NoModal

\* The page and the database become one of these pairs.
BecomesOneOf(ends) ==
    /\ Idle
    /\ \E x \in ends : view' = x[1] /\ db' = x[2]
    /\ UNCHANGED modal

RefreshTo(v) == BecomesOneOf(Fetches(v, db))

RedrawTo(v) == BecomesOneOf(Redraws(v, db))

\* `r`, and the list's `s`, which turns the arrow in the status line only.
Refresh == RefreshTo(view)

MoveCursor ==
    /\ view.mode = "list" => ~view.err
    /\ \E i \in DOMAIN view.rows : BecomesOneOf({<<[view EXCEPT !.cursor = i], db>>})

NextPage ==
    /\ (view.page + 1) * view.size < view.total
    /\ RefreshTo([view EXCEPT !.page = @ + 1])

PrevPage == view.page > 0 /\ RefreshTo([view EXCEPT !.page = @ - 1])

Resize == \E up \in BOOLEAN : RefreshTo([view EXCEPT !.size = nextPageSize(@, up), !.page = 0])

\* Mistake: nothing is fetched.
BugTextFilter == \E f \in BOOLEAN : BecomesOneOf({<<[view EXCEPT !.flt = f], db>>})

\* openFilter: Enter in the prompt; the page stays.
TextFilter == \E f \in BOOLEAN : RefreshTo([view EXCEPT !.flt = f])

\* Mistake: the page stays.
BugConditions == \E c \in BOOLEAN : RefreshTo([view EXCEPT !.cond = c])

Conditions == \E c \in BOOLEAN : RefreshTo([view EXCEPT !.cond = c, !.page = 0])

ClearFilters ==
    /\ view.flt \/ view.cond
    /\ RefreshTo([view EXCEPT !.flt = FALSE, !.cond = FALSE, !.page = 0])

\* cycleSortOnFocused: ascending, descending, none.
CycleSort ==
    /\ view.mode = "table"
    /\ RefreshTo([view EXCEPT !.stk = CASE @ = "none" -> "asc" [] @ = "asc" -> "desc"
                                         [] @ = "desc" -> "none"])

\* The sort modal, of either view, turns or deletes a key it finds.
SortModal ==
    /\ view.stk # "none"
    /\ \E s \in {"none", "asc", "desc"} \ {view.stk} : RefreshTo([view EXCEPT !.stk = s])

Mark ==
    /\ CursorRow(view) # NoRow
    /\ RedrawTo([view EXCEPT !.sel = SymDiff(@, {CursorRow(view)})])

MarkAll == RedrawTo([view EXCEPT !.sel = @ \cup { Id[r] : r \in Range(view.rows) }])

\* The second `v`: toggleRange, from the position remembered by the first, on
\* whatever page that was.  The span is deselected if all of it was selected.
MarkRange ==
    /\ view.cursor >= 1
    /\ \E anchor \in 1..MaxRow :
          LET ends == {anchor, view.cursor}
              span == { Id[view.rows[i]] : i \in DOMAIN view.rows \cap (Min(ends)..Max(ends)) }
          IN  RedrawTo([view EXCEPT !.sel = IF span \subseteq @ THEN @ \ span ELSE @ \cup span])

\* The global Esc, where something is selected.
Unmark == view.sel # {} /\ RedrawTo([view EXCEPT !.sel = {}])

ToggleView == BecomesOneOf(Toggled(view, db))

\* The form's submit succeeded: a new row, or the row under the cursor as the form has it.
Create ==
    \E r \in Volatile \ db :
       /\ \A s \in db : Id[s] # Id[r]
       /\ BecomesOneOf(Fetches(view, db \cup {r}))

Edit ==
    \E r \in Volatile \cap db, s \in Volatile :
       /\ s # r /\ Id[s] = Id[r] /\ Id[r] = CursorRow(view)
       /\ BecomesOneOf(Fetches(view, (db \ {r}) \cup {s}))

---------------------------------------------------------------------------
(* Dialogs *)

Ask(kind, rows, row) ==
    /\ Idle
    /\ modal' = [kind |-> kind, rows |-> rows, row |-> row]
    /\ UNCHANGED <<db, view>>

AskDelete == CursorRow(view) # NoRow /\ Ask("delete", {}, CursorRow(view))

AskCopy == SelectedRows(view) # {} /\ Ask("copy", SelectedRows(view), NoRow)

\* Mistake: selected rows of other pages too.
BugAskExport == Ask("export", { r \in db : Id[r] \in view.sel }, NoRow)

AskExport == Ask("export", SelectedRows(view), NoRow)

Cancel == ~Idle /\ modal' = NoModal /\ UNCHANGED <<db, view>>

\* Where the row is gone, or the database refuses, nothing is fetched: as Cancel.
Delete ==
    /\ modal.kind = "delete"
    /\ \E r \in Volatile \cap db :
          /\ Id[r] = modal.row
          /\ \E x \in Fetches(view, db \ {r}) : view' = x[1] /\ db' = x[2]
    /\ modal' = NoModal

\* Mistake: with nothing selected, the page at hand is exported.
BugExported == IF modal.rows # {} \/ modal.kind = "copy" THEN modal.rows ELSE Range(view.rows)

\* runExport: the rows selected on the page, or a fetch of all the query leaves, unrestricted.
Exported ==
    IF modal.rows # {} \/ modal.kind = "copy" THEN modal.rows ELSE Matches(Query(view), db)

\* The rows become a text: of an export, the next dialog saves it; of a copy, it is
\* on the clipboard, and stands here until a key.  Where the fetch fails: as Cancel.
PickFormat ==
    /\ modal.kind \in {"copy", "export"}
    /\ modal' = [kind |-> "text", rows |-> Exported, row |-> NoRow]
    /\ UNCHANGED <<db, view>>

---------------------------------------------------------------------------
(* Other clients: any writes between two keys *)

Elsewhere == db' \in Databases \ {db} /\ UNCHANGED <<view, modal>>

---------------------------------------------------------------------------
\* A page is opened for the kind, in its default mode, or drilled into.
Init ==
    /\ \E d \in Databases :
          \E x \in Opened("list", d) \cup Opened("table", d) \cup UNION { Drilled(ids, d) : ids \in Drills } :
             view = x[1] /\ db = x[2]
    /\ modal = NoModal

Next ==
    \/ Refresh \/ MoveCursor \/ NextPage \/ PrevPage \/ Resize
    \/ TextFilter \/ Conditions \/ ClearFilters \/ CycleSort \/ SortModal
    \/ Mark \/ MarkAll \/ MarkRange \/ Unmark \/ ToggleView \/ Create \/ Edit
    \/ AskDelete \/ AskCopy \/ AskExport \/ Cancel \/ Delete \/ PickFormat
    \/ Elsewhere

Spec == Init /\ [][Next]_vars

---------------------------------------------------------------------------
(* Properties *)

\* The rows on the screen are what the page's own query, page and restriction
\* answered as they were read, or the screen says that the fetch failed.
Truthful == view.err \/ view.rows = Answer(view, view.read)

\* The page is as a fetch would bring it now.
Current ==
    ~view.err /\ view.rows = Answer(view, db) /\ view.total = Total(view, db, view.rows)

Views ==
    [mode: {"list", "table"}, flt: BOOLEAN, cond: BOOLEAN, stk: {"none", "asc", "desc"},
     page: Nat, size: Range(PageSizes) \cup {PageSize}, ids: {NoIds} \cup SUBSET Range(Id),
     rows: Seq(Row), total: 0..MaxRow, cursor: Nat, err: BOOLEAN, sel: SUBSET Range(Id),
     read: {{}} \cup Databases]

NoRowTwice(rows) == \A i, j \in DOMAIN rows : Id[rows[i]] = Id[rows[j]] => i = j

\* Types; a page holds no row twice, nor in two versions, and a dialog acts on
\* the rows selected on the page, or on one row, that it still holds.
TypeOK ==
    /\ db \in Databases
    /\ view \in Views
    /\ NoRowTwice(view.rows)
    /\ modal \in [kind: {"none", "delete", "copy", "export", "text"}, rows: SUBSET Row,
                  row: { Id[r] : r \in Range(view.rows) } \cup {NoRow}]
    /\ modal.kind \in {"copy", "export"} => modal.rows = SelectedRows(view)
    /\ modal.kind = "copy" => modal.rows # {}

\* The rows on the screen stop being the answer to the page's own query in one
\* way only: a redraw of the list without a fetch, while it shows an error
\* (refreshDisplayOnly, "the underlying rows haven't changed").  Every key that
\* changes the query, the page or the restriction fetches before it shows rows.
MisleadsOnlyAfterError ==
    [][~Truthful' /\ Truthful => view.err /\ view.mode = "list" /\ UNCHANGED view.rows]_vars

\* Toggling an unrestricted page between list and table keeps its rows and the
\* row under the cursor, if nobody else writes and the fetch succeeds.
ToggleKeepsRows ==
    [][view'.mode # view.mode /\ ~view'.err /\ view.ids = NoIds /\ Current /\ db' = db
       => view'.rows = view.rows /\ (CursorRow(view) # NoRow => CursorRow(view') = CursorRow(view))]_vars

\* An unrestricted page comes to stand past the end of its rows, and shows none,
\* only by typing a text filter, as long as the rows stay the same.
Stranded == ~view.err /\ view.rows = <<>> /\ view.ids = NoIds /\ Matches(Query(view), db) # {}

StrandedOnlyByTextFilter ==
    [][Stranded' /\ db' = db /\ view'.flt = view.flt /\ view.ids = NoIds /\ Current => Stranded]_vars

\* A copy or an export writes the selected rows of the page, as the page has them,
\* whatever became of the rows while the dialog was open; an export with none
\* selected on the page writes every row the query leaves, of whatever page.
ExportsTheMarked ==
    [][modal'.kind = "text" /\ modal.kind # "text"
       => modal'.rows = IF SelectedRows(view) # {} THEN SelectedRows(view)
                        ELSE Matches(Query(view), db)]_vars
=============================================================================
