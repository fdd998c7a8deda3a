------------------------------- MODULE TuiApp --------------------------------
(***************************************************************************)
(* Navigation of enttui's App: the back-stack, tview's registry of pages,  *)
(* the widgets registered under page names, the per-kind cache of view     *)
(* states, the sidebar and the keyboard focus.  The event loop is          *)
(* single-threaded, so a step is one key and everything its handler calls. *)
(* Handlers call one another, so each is an operator from an App record to *)
(* the next, and an action applies one to the current state.               *)
(***************************************************************************)
EXTENDS Naturals, Sequences, FiniteSets, SequencesExt

CONSTANTS
    KindOrder,      \* the registered kinds, sorted by display name
    TableKind,      \* those whose pages open in table mode
    MasterKind,     \* those with a usable detail edge
    NarrowKind,     \* bound: those the user narrows, on pages of depth NarrowDepth at most
    MarkKind,       \* those whose rows can be selected (AllowBulkCopy)
    Edge,           \* records [from, to, up]
    Id,             \* rows an upward edge can lead to
    NoId,
    Filter,         \* what the user can narrow a view to
    NoFilter,
    NoKind,
    NoPage,
    NarrowDepth,
    MarkDepth,      \* bound: rows are marked on pages of this depth
    MaxDepth,       \* bound: pages on the back-stack
    Returning,      \* the modals that give the keys to the page as they close: filter, preview
    Popup,          \* those that leave them to what they uncover: help, forms, leaders and the like
    MaxModals       \* bound: modals open at a time

Kind == Range(KindOrder)

ASSUME TuiParameters ==
    /\ KindOrder \in Seq(Kind) \ {<<>>} /\ NoKind \notin Kind
    /\ TableKind \subseteq Kind /\ MasterKind \cup MarkKind \subseteq Kind
    /\ Edge \subseteq [from: Kind, to: Kind, up: BOOLEAN]
    /\ NoId \notin Id /\ NoFilter \in Filter
    /\ MaxDepth \in Nat \ {0} /\ MaxModals \in Nat
    /\ {"help", "capabilities"} \subseteq Popup /\ (Popup \cup {"picker"}) \cap Returning = {}

VARIABLES
    stack,          \* the back-stack: entries [name, kind]
    pages,          \* tview's pages, the last is drawn on top: [name, visible]
    instances,      \* page name -> its widget, as far as navigation sees it
    kindState,      \* kind -> the view state cached for it, at first an untouched view's
    sidebar,        \* [visible, shown, cursor]
    focus           \* "body", "overlay", or a part of the sidebar: "input", "list"

vars == <<stack, pages, instances, kindState, sidebar, focus>>

App == [stack |-> stack, pages |-> pages, instances |-> instances,
        kindState |-> kindState, sidebar |-> sidebar, focus |-> focus]

Becomes(a) ==
    /\ stack' = a.stack /\ pages' = a.pages /\ instances' = a.instances
    /\ kindState' = a.kindState /\ sidebar' = a.sidebar /\ focus' = a.focus

\* Page names carry the kind, and an id only in list mode; each modal has its own.
Overlays == { <<m>> : m \in {"picker"} \cup Popup \cup Returning }
Popups   == { <<m>> : m \in Popup }
Returns  == { <<m>> : m \in Returning }
Names == ({"browse", "table", "drill", "md"} \X Kind \X {NoId}) \cup ({"browse"} \X Kind \X Id)

ASSUME PageParameters == NoPage \notin Names \cup Overlays

View(kind, mode, flt) == [kind |-> kind, mode |-> mode, flt |-> flt, sel |-> FALSE]

Top(a) == Last(a.stack)

---------------------------------------------------------------------------
(* tview.Pages *)

Without(ps, n) ==
    IF \E p \in Range(ps) : p.name = n
    THEN RemoveAt(ps, CHOOSE i \in DOMAIN ps : ps[i].name = n)
    ELSE ps

AddPage(ps, n) == Append(Without(ps, n), [name |-> n, visible |-> TRUE])

\* Removing the last visible page uncovers the topmost of the others.
RemovePage(ps, n) ==
    LET rest == Without(ps, n) IN
    IF \/ rest = <<>>
       \/ \E p \in Range(rest) : p.visible
       \/ \A p \in Range(ps) : p.name = n => ~p.visible
    THEN rest
    ELSE [rest EXCEPT ![Len(rest)].visible = TRUE]

SwitchToPage(ps, n) == [i \in DOMAIN ps |-> [ps[i] EXCEPT !.visible = (ps[i].name = n)]]

FrontPage(ps) ==
    IF \A p \in Range(ps) : ~p.visible THEN NoPage
    ELSE ps[CHOOSE i \in DOMAIN ps :
               ps[i].visible /\ \A j \in (i + 1) .. Len(ps) : ~ps[j].visible].name

---------------------------------------------------------------------------
(* App's methods *)

CurrentKind(a) == IF a.stack = <<>> THEN NoKind ELSE Top(a).kind

frontIsModal(a) ==
    FrontPage(a.pages) \notin {NoPage} \cup { e.name : e \in Range(a.stack) }

\* Mount a page, enter it on the stack, register its widget, focus it.
Mounted(a, n, w) ==
    [a EXCEPT !.pages = AddPage(@, n),
              !.stack = Append(@, [name |-> n, kind |-> w.kind]),
              !.instances = [m \in DOMAIN @ \cup {n} |-> IF m = n THEN w ELSE @[m]],
              !.focus = "body"]

\* Take a page down: RemovePage and clearInstance.
Unmounted(a, n) ==
    [a EXCEPT !.pages = RemovePage(@, n), !.instances = [m \in DOMAIN @ \ {n} |-> @[m]]]

\* The sidebar's highlight follows the front kind where the filter shows it.
SyncSidebar(a) ==
    IF a.sidebar.visible /\ CurrentKind(a) \in a.sidebar.shown
    THEN [a EXCEPT !.sidebar.cursor = CurrentKind(a)]
    ELSE a

\* An upward edge's id is ignored in table mode, and only list mode syncs the sidebar.
PushBrowser(a, k, id) ==
    IF k \in TableKind
    THEN Mounted(a, <<"table", k, NoId>>, View(k, "table", a.kindState[k]))
    ELSE SyncSidebar(Mounted(a, <<"browse", k, id>>,
             View(k, "list", IF id = NoId THEN a.kindState[k] ELSE NoFilter)))

\* The page's restriction to the edge's rows is TuiView's.
PushBrowserList(a, k) == SyncSidebar(Mounted(a, <<"drill", k, NoId>>, View(k, "list", NoFilter)))

PushMasterDetail(a, k) == SyncSidebar(Mounted(a, <<"md", k, NoId>>, View(k, "md", NoFilter)))

\* Mistakes: the page shown is the one popped; the page removed is the one below.
BugPopShowsPopped(a) ==
    IF Len(a.stack) <= 1 THEN a
    ELSE [Unmounted(a, Top(a).name) EXCEPT !.stack = Front(@), !.pages = SwitchToPage(@, Top(a).name)]
BugPopRemovesBelow(a) ==
    IF Len(a.stack) <= 1 THEN a
    ELSE LET rest == [a EXCEPT !.stack = Front(@)]
         IN  [Unmounted(rest, Top(rest).name) EXCEPT !.pages = SwitchToPage(@, Top(rest).name)]

PopPage(a) ==
    IF Len(a.stack) <= 1 THEN a
    ELSE LET rest == [Unmounted(a, Top(a).name) EXCEPT !.stack = Front(@)]
         IN  [rest EXCEPT !.pages = SwitchToPage(@, Top(rest).name)]

SnapshotKindState(a, e) ==
    IF e.name \notin DOMAIN a.instances THEN a
    ELSE [a EXCEPT !.kindState[e.kind] = a.instances[e.name].flt]

\* Mistake: the outgoing page's state is not saved.
BugReplaceTopKind(a, k) ==
    PushBrowser([Unmounted(a, Top(a).name) EXCEPT !.stack = Front(@)], k, NoId)

ReplaceTopKind(a, k) ==
    LET saved == SnapshotKindState(a, Top(a))
    IN  PushBrowser([Unmounted(saved, Top(a).name) EXCEPT !.stack = Front(@)], k, NoId)

\* swapToTable and swapToBrowser: the view is built anew and given the old one's state.
SwapView(a, kind, mode) ==
    LET old  == Top(a).name
        flt  == IF old \in DOMAIN a.instances THEN a.instances[old].flt ELSE NoFilter
        bare == [Unmounted(a, old) EXCEPT !.stack = Front(@)]
        name == <<IF mode = "table" THEN "table" ELSE "browse", kind, NoId>>
    IN  Mounted(bare, name, View(kind, mode, flt))

ClosePicker(a) ==
    [a EXCEPT !.pages = SwitchToPage(RemovePage(@, <<"picker">>), Top(a).name), !.focus = "body"]

\* A popup closes by removing its page: what lies uncovered gets the keys.
ClosePopup(a, n) ==
    LET ps == RemovePage(a.pages, n)
    IN  [a EXCEPT !.pages = ps, !.focus = IF FrontPage(ps) \in Overlays THEN "overlay" ELSE "body"]

\* A filter or a preview gives them to its page, another modal in front or not.
CloseReturning(a, n) == [a EXCEPT !.pages = RemovePage(@, n), !.focus = "body"]

CloseModal(a, n) ==
    IF n = <<"picker">> THEN ClosePicker(a) ELSE IF n \in Returns THEN CloseReturning(a, n) ELSE ClosePopup(a, n)

OpenModal(a, n) == [a EXCEPT !.pages = AddPage(@, n), !.focus = "overlay"]

---------------------------------------------------------------------------
(* The sidebar *)

FirstShown(shown) ==
    IF shown = {} THEN NoKind
    ELSE KindOrder[CHOOSE i \in DOMAIN KindOrder :
                      KindOrder[i] \in shown /\ \A j \in 1..(i - 1) : KindOrder[j] \notin shown]

\* populate: the cursor starts on the first row and moves to the front kind, if listed.
Populated(a, shown) ==
    SyncSidebar([a EXCEPT !.sidebar = [visible |-> TRUE, shown |-> shown, cursor |-> FirstShown(shown)]])

ShowSidebar(a) == [Populated(a, Kind) EXCEPT !.focus = "input"]

NoSidebar == [visible |-> FALSE, shown |-> {}, cursor |-> NoKind]

\* Where the front page has no widget, the focus stays on the removed sidebar.
HideSidebar(a) ==
    [a EXCEPT !.sidebar = NoSidebar,
              !.focus = IF Top(a).name \in DOMAIN a.instances THEN "body" ELSE @]

\* The list's ChangedFunc: live preview of the kind under the cursor.
Previewed(a, k) ==
    LET moved == [a EXCEPT !.sidebar.cursor = k]
    IN  IF CurrentKind(a) = k THEN moved
        ELSE [ReplaceTopKind(moved, k) EXCEPT !.focus = "input"]

\* refilter: what a query leaves is listed and its first match opened.
Refiltered(a, shown, blank) ==
    LET listed == Populated(a, shown)
        first  == FirstShown(shown)
    IN  IF shown = {} \/ blank THEN listed
        ELSE IF first = CurrentKind(a) THEN [listed EXCEPT !.sidebar.cursor = first]
        ELSE [ReplaceTopKind([listed EXCEPT !.sidebar.cursor = first], first) EXCEPT !.focus = "input"]

---------------------------------------------------------------------------
(* Keys in the body: the widget on top, or the top entry's under an overlay *)

BodyPage == LET n == FrontPage(pages) IN IF n \in DOMAIN instances THEN n ELSE Top(App).name

InBody(n) == focus = "body" /\ n = BodyPage /\ n \in DOMAIN instances

Room == Len(stack) < MaxDepth

\* The kinds whose rows take keys: a master-detail page has panes of the kinds
\* its downward edges lead to, each a table of its own that only the page knows.
PaneKinds(w) ==
    {w.kind} \cup (IF w.mode = "md" THEN { e.to : e \in { d \in Edge : d.from = w.kind /\ ~d.up } } ELSE {})

\* From a table the edge is followed out of a preview, which closes first.
FollowEdge ==
    \E n \in DOMAIN instances :
       /\ InBody(n) /\ Room
       /\ \E e \in { d \in Edge : d.from \in PaneKinds(instances[n]) } :
             IF e.up
             THEN \E id \in Id : Becomes(PushBrowser(App, e.to, id))
             ELSE Becomes(PushBrowserList(App, e.to))

OpenMasterDetail ==
    \E n \in DOMAIN instances :
       /\ InBody(n) /\ Room
       /\ \E k \in PaneKinds(instances[n]) \cap MasterKind : Becomes(PushMasterDetail(App, k))

ExitMasterDetail ==
    \E n \in DOMAIN instances :
       /\ InBody(n) /\ instances[n].mode = "md"
       /\ Becomes(PushBrowser(PopPage(App), instances[n].kind, NoId))

\* From a detail pane the page becomes one of the pane's kind, with the master's query.
ToggleView ==
    \E n \in DOMAIN instances :
       /\ InBody(n)
       /\ \E k \in PaneKinds(instances[n]) :
             Becomes(SwapView(App, k, IF instances[n].mode = "list" THEN "table" ELSE "list"))

\* Filter, sort, page or columns changed; the modal used for it has closed again.
Narrow ==
    \E n \in DOMAIN instances, f \in Filter :
       /\ InBody(n) /\ instances[n].kind \in NarrowKind /\ Len(stack) <= NarrowDepth
       /\ instances' = [instances EXCEPT ![n].flt = f]
       /\ UNCHANGED <<stack, pages, kindState, sidebar, focus>>

MarkRow ==
    \E n \in DOMAIN instances :
       /\ InBody(n) /\ instances[n].kind \in MarkKind /\ Len(stack) = MarkDepth
       /\ instances' = [instances EXCEPT ![n].sel = ~@]
       /\ UNCHANGED <<stack, pages, kindState, sidebar, focus>>

\* The front page and an open sidebar are rebuilt in the new colours.
ToggleTheme ==
    \E n \in DOMAIN instances :
       /\ InBody(n)
       /\ LET rebuilt == ReplaceTopKind(App, CurrentKind(App))
          IN  Becomes(IF sidebar.visible THEN ShowSidebar(HideSidebar(rebuilt)) ELSE rebuilt)

ModalRoom == Cardinality({ p \in Range(pages) : p.name \in Overlays }) < MaxModals

OpenOverlay ==
    \E n \in DOMAIN instances, o \in Overlays :
       InBody(n) /\ ModalRoom /\ Becomes(OpenModal(App, o))

---------------------------------------------------------------------------
(* Keys of an overlay: leave it, open another, or choose a kind (picker, capabilities) *)

InModal(n) == focus = "overlay" /\ n = FrontPage(pages)

CloseOverlay == \E n \in Overlays : InModal(n) /\ Becomes(CloseModal(App, n))

\* A form opens a picker of rows over it; a leader and a dialog give way to the
\* next, which no item of theirs makes a filter or a preview.
OpenFromPopup ==
    \E n \in Popups :
       /\ InModal(n)
       /\ \/ ModalRoom /\ \E o \in Popups : Becomes(OpenModal(App, o))
          \/ \E o \in Overlays \ Returns : Becomes(OpenModal(ClosePopup(App, n), o))

ChooseKind ==
    \E n \in {<<"picker">>, <<"capabilities">>}, k \in Kind :
       InModal(n) /\ Room /\ Becomes(PushBrowser(CloseModal(App, n), k, NoId))

---------------------------------------------------------------------------
(* The global key handler, which sees a key before the focused widget *)

CtrlB == Becomes(IF sidebar.visible THEN HideSidebar(App) ELSE ShowSidebar(App))

\* Mistake: modals do not keep their keys.
BugGlobal == focus # "input"

\* Text inputs and overlays keep their own keys; a sidebar's list does not.
Global == focus # "input" /\ ~frontIsModal(App)

\* Of the front stack entry's widget, not of the one on top of the screen.
Esc ==
    /\ Global
    /\ IF Top(App).name \in DOMAIN instances /\ instances[Top(App).name].sel
       THEN /\ instances' = [instances EXCEPT ![Top(App).name].sel = FALSE]
            /\ UNCHANGED <<stack, pages, kindState, sidebar, focus>>
       ELSE Len(stack) > 1 /\ Becomes(PopPage(App))

Backslash ==
    /\ Global
    /\ Becomes(IF sidebar.visible THEN [App EXCEPT !.focus = "input"] ELSE ShowSidebar(App))

Help == Global /\ ModalRoom /\ Becomes(OpenModal(App, <<"help">>))

---------------------------------------------------------------------------
(* Keys of the sidebar *)

InSidebar == sidebar.visible /\ focus \in {"input", "list"}

MoveCursor ==
    /\ InSidebar
    /\ \E k \in sidebar.shown \ {sidebar.cursor} : Becomes(Previewed(App, k))

TypeQuery ==
    /\ sidebar.visible /\ focus = "input"
    /\ \E shown \in SUBSET Kind, blank \in BOOLEAN :
          /\ blank => shown = Kind
          /\ Becomes(Refiltered(App, shown, blank))

\* Enter, and the Esc that the global handler lets through.
LeaveSidebar ==
    /\ InSidebar
    /\ Becomes(HideSidebar(App))

Tab ==
    /\ InSidebar
    /\ focus' = IF focus = "input" THEN "list" ELSE "input"
    /\ UNCHANGED <<stack, pages, instances, kindState, sidebar>>

\* Backslash, where the global handler leaves it to the sidebar.
FocusBody ==
    /\ InSidebar /\ ~Global /\ Top(App).name \in DOMAIN instances
    /\ focus' = "body"
    /\ UNCHANGED <<stack, pages, instances, kindState, sidebar>>

---------------------------------------------------------------------------
Blank == [stack |-> <<>>, pages |-> <<>>, instances |-> [n \in {} |-> NoFilter],
          kindState |-> [k \in Kind |-> NoFilter], sidebar |-> NoSidebar, focus |-> "body"]

\* Run pushes the initial kind's page.
Init ==
    \E k \in Kind :
       LET a == PushBrowser(Blank, k, NoId) IN
       /\ stack = a.stack /\ pages = a.pages /\ instances = a.instances
       /\ kindState = a.kindState /\ sidebar = a.sidebar /\ focus = a.focus

Next ==
    \/ FollowEdge \/ OpenMasterDetail \/ ExitMasterDetail \/ ToggleView \/ Narrow \/ MarkRow
    \/ ToggleTheme \/ OpenOverlay \/ CloseOverlay \/ OpenFromPopup \/ ChooseKind
    \/ CtrlB \/ Esc \/ Backslash \/ Help
    \/ MoveCursor \/ TypeQuery \/ LeaveSidebar \/ Tab \/ FocusBody

Spec == Init /\ [][Next]_vars

---------------------------------------------------------------------------
(* Properties *)

PageNames == { p.name : p \in Range(pages) }
StackNames == { e.name : e \in Range(stack) }

\* Types, and the sidebar's cursor stands on a listed kind.
TypeOK ==
    /\ stack \in Seq([name: Names, kind: Kind]) /\ stack # <<>>
    /\ pages \in Seq([name: Names \cup Overlays, visible: BOOLEAN])
    /\ DOMAIN instances \subseteq Names
    /\ \A n \in DOMAIN instances :
          instances[n] \in [kind: Kind, mode: {"list", "table", "md"}, flt: Filter, sel: BOOLEAN]
    /\ kindState \in [Kind -> Filter]
    /\ sidebar \in [visible: BOOLEAN, shown: SUBSET Kind, cursor: Kind \cup {NoKind}]
    /\ sidebar.cursor \in sidebar.shown \cup {NoKind}
    /\ focus \in {"body", "overlay", "input", "list"}

\* The stack, tview's registry and the instance map record the same pages: no
\* page without its widget, no widget without its page, neither left behind by
\* an entry that is gone (app.go, "Cleared on popPage / RemovePage paths").
InstancesMirrorPages ==
    /\ DOMAIN instances = PageNames \ Overlays
    /\ DOMAIN instances \subseteq StackNames

\* What is on top of the stack is what the user sees, as long as it has a page
\* at all and no modal is open (popPage, closePicker and replaceTopKind each
\* bring a page forward in their own way).
ScreenFollowsStack ==
    Top(App).name \in PageNames /\ PageNames \cap Overlays = {} => FrontPage(pages) = Top(App).name

\* The copies of "which pages are there" agree with one another and with the
\* screen: the three named parts above, as the runs check them.
PagesAgree == TypeOK /\ InstancesMirrorPages /\ ScreenFollowsStack

\* An entry that stays on the stack loses its page only together with a
\* namesake above it: pages are named by kind, and RemovePage goes by name.
LostOnlyByNamesake ==
    [][\A i \in DOMAIN stack :
          /\ i \in DOMAIN stack' /\ stack'[i] = stack[i]
          /\ stack[i].name \in PageNames /\ stack[i].name \notin PageNames'
          => i < Len(stack) /\ stack[i].name = Top(App).name]_vars

\* Switching the theme rebuilds the front page and an open sidebar: ancestors,
\* kind and query of the page survive teardown, cache and rebuild.
ThemeKeepsQuery ==
    [][ToggleTheme /\ Top(App).name \in DOMAIN instances
       => /\ Len(stack') = Len(stack) /\ Front(stack') = Front(stack)
          /\ Last(stack').kind = Top(App).kind
          /\ instances'[Last(stack').name].flt = instances[Top(App).name].flt
          /\ sidebar'.visible = sidebar.visible]_vars

\* A modal in front has the keyboard.  It loses it to Ctrl-B, which works
\* everywhere, and the sidebar it opens and closes; or, when it lies under a filter
\* or a preview, which then was opened with the keys already gone, as that closes.
OverlayHasKeys == FrontPage(pages) \in Overlays => focus = "overlay"

UncoversModal == \E n \in Returns : InModal(n) /\ pages' = RemovePage(pages, n) /\ FrontPage(pages') \in Overlays

OverlayLosesKeysToSidebar ==
    [][OverlayHasKeys /\ ~OverlayHasKeys' => sidebar'.visible # sidebar.visible \/ UncoversModal]_vars
=============================================================================
