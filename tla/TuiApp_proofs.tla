---------------------------- MODULE TuiApp_proofs -----------------------------
(***************************************************************************)
(* What navigation keeps in step: the back-stack, tview's registry of      *)
(* pages, the widgets and the screen agree, and part only in the ways      *)
(* named.  A key's handler is a chain of calls; the lemmas go along the    *)
(* chain, one for each call.                                               *)
(***************************************************************************)
EXTENDS TuiApp, WellFoundedInduction, TLAPS

Entry == [name: Names, kind: Kind]
Page == [name: Names \cup Overlays, visible: BOOLEAN]
Widget == [kind: Kind, mode: {"list", "table", "md"}, flt: Filter, sel: BOOLEAN]

---------------------------------------------------------------------------
(* First and last positions *)

\* Of a set of positions one is the first.
LEMMA FirstPosition ==
    ASSUME NEW S \in SUBSET Nat, S # {}
    PROVE  \E i \in S : \A j \in S : i <= j
<1> DEFINE R == OpToRel(<, Nat)
<1>0. IsWellFoundedOn(R, Nat)
  BY NatLessThanWellFounded
<1> HIDE DEF R
<1>1. PICK i \in S : \A j \in S : ~(<<j, i>> \in R)
  BY <1>0, WFMin, S \subseteq Nat
<1>2. ASSUME NEW j \in S PROVE i <= j
  <2>1. ~(j < i)
    BY <1>1 DEF R, OpToRel
  <2> QED  BY <2>1
<1> QED  BY <1>2

\* Of a bounded set of positions one is the last.
LEMMA LastPosition ==
    ASSUME NEW m \in Nat, NEW S \in SUBSET (1 .. m), S # {}
    PROVE  \E i \in S : \A j \in S : j <= i
<1> DEFINE T == { m - i : i \in S }
<1>1. T \in SUBSET Nat /\ T # {}
  <2>1. \A i \in S : m - i \in Nat
    OBVIOUS
  <2> QED  BY <2>1
<1>2. PICK t \in T : \A u \in T : t <= u
  BY <1>1, FirstPosition
<1>3. PICK i \in S : t = m - i
  OBVIOUS
<1>4. ASSUME NEW j \in S PROVE j <= i
  <2>1. t <= m - j
    BY <1>2
  <2> QED  BY <1>3, <2>1
<1> QED  BY <1>4

---------------------------------------------------------------------------
(* tview.Pages *)

NamesIn(ps) == { p.name : p \in Range(ps) }

\* No name is registered twice.
Unique(ps) == \A i, j \in DOMAIN ps : ps[i].name = ps[j].name => i = j

\* Page t is drawn, and over it at most overlays.
ShownUnder(ps, t) ==
    \E i \in DOMAIN ps :
       /\ ps[i].name = t /\ ps[i].visible
       /\ \A j \in DOMAIN ps : j > i /\ ps[j].visible => ps[j].name \in Overlays

\* Without takes out the one page of that name and keeps the order of the others.
LEMMA WithoutIsRemoveAt ==
    ASSUME NEW ps \in Seq(Page), NEW n
    PROVE  \/ n \notin NamesIn(ps) /\ Without(ps, n) = ps
           \/ \E i \in 1 .. Len(ps) : ps[i].name = n /\ Without(ps, n) = RemoveAt(ps, i)
<1>1. CASE n \notin NamesIn(ps)
  BY <1>1 DEF Without, NamesIn
<1>2. CASE n \in NamesIn(ps)
  <2>1. \E i \in DOMAIN ps : ps[i].name = n
    BY <1>2 DEF NamesIn, Range
  <2>2. Without(ps, n) = RemoveAt(ps, CHOOSE i \in DOMAIN ps : ps[i].name = n)
    BY <1>2 DEF Without, NamesIn
  <2> DEFINE at == CHOOSE i \in DOMAIN ps : ps[i].name = n
  <2>3. at \in DOMAIN ps /\ ps[at].name = n
    BY <2>1
  <2> HIDE DEF at
  <2>4. DOMAIN ps = 1 .. Len(ps)
    OBVIOUS
  <2> QED  BY <2>2, <2>3, <2>4 DEF at
<1> QED  BY <1>1, <1>2

LEMMA RemoveAtFacts ==
    ASSUME NEW ps \in Seq(Page), NEW i \in 1 .. Len(ps)
    PROVE  /\ RemoveAt(ps, i) \in Seq(Page)
           /\ Len(RemoveAt(ps, i)) = Len(ps) - 1
           /\ \A j \in 1 .. (Len(ps) - 1) : RemoveAt(ps, i)[j] = IF j < i THEN ps[j] ELSE ps[j + 1]
<1> DEFINE l == SubSeq(ps, 1, i - 1)
           h == SubSeq(ps, i + 1, Len(ps))
<1>1. l \in Seq(Page) /\ Len(l) = i - 1 /\ \A j \in 1 .. (i - 1) : l[j] = ps[j]
  OBVIOUS
<1>2. h \in Seq(Page) /\ Len(h) = Len(ps) - i /\ \A j \in 1 .. (Len(ps) - i) : h[j] = ps[j + i]
  OBVIOUS
<1>3. RemoveAt(ps, i) = l \o h
  BY DEF RemoveAt
<1> HIDE DEF l, h
<1> QED  BY SMTT(30), <1>1, <1>2, <1>3

\* What is left when a page is taken out.
LEMMA WithoutFacts ==
    ASSUME NEW ps \in Seq(Page), Unique(ps), NEW n
    PROVE  /\ Without(ps, n) \in Seq(Page) /\ Unique(Without(ps, n))
           /\ NamesIn(Without(ps, n)) = NamesIn(ps) \ {n}
           /\ \A t : ShownUnder(ps, t) /\ n \in Overlays /\ n # t => ShownUnder(Without(ps, n), t)
<1> DEFINE r == Without(ps, n)
<1>1. CASE n \notin NamesIn(ps) /\ r = ps
  BY <1>1
<1>2. CASE \E i \in 1 .. Len(ps) : ps[i].name = n /\ r = RemoveAt(ps, i)
  <2>1. PICK i \in 1 .. Len(ps) : ps[i].name = n /\ r = RemoveAt(ps, i)
    BY <1>2
  <2> HIDE DEF r
  <2>2. r \in Seq(Page) /\ DOMAIN r = 1 .. (Len(ps) - 1) /\ DOMAIN ps = 1 .. Len(ps)
    BY <2>1, RemoveAtFacts
  <2>3. \A j \in DOMAIN r : r[j] = ps[IF j < i THEN j ELSE j + 1]
    BY <2>1, <2>2, RemoveAtFacts
  <2>4. \A j \in DOMAIN ps : j # i => /\ (IF j < i THEN j ELSE j - 1) \in DOMAIN r
                                      /\ r[IF j < i THEN j ELSE j - 1] = ps[j]
    BY <2>2, <2>3
  <2>5. Unique(r)
    <3> SUFFICES ASSUME NEW j \in DOMAIN r, NEW k \in DOMAIN r, r[j].name = r[k].name PROVE j = k
      BY DEF Unique
    <3>1. (IF j < i THEN j ELSE j + 1) = (IF k < i THEN k ELSE k + 1)
      BY <2>2, <2>3 DEF Unique
    <3> QED  BY <3>1, <2>2
  <2>6. NamesIn(r) = NamesIn(ps) \ {n}
    <3>1. ASSUME NEW j \in DOMAIN r PROVE r[j].name \in NamesIn(ps) \ {n}
      BY <2>1, <2>2, <2>3 DEF Unique, NamesIn, Range
    <3>2. ASSUME NEW j \in DOMAIN ps, ps[j].name # n PROVE ps[j].name \in NamesIn(r)
      BY <2>1, <2>4, <3>2 DEF NamesIn, Range
    <3> QED  BY <3>1, <3>2 DEF NamesIn, Range
  <2>7. ASSUME NEW t, ShownUnder(ps, t), n \in Overlays, n # t PROVE ShownUnder(r, t)
    <3>1. PICK k \in DOMAIN ps :
             /\ ps[k].name = t /\ ps[k].visible
             /\ \A j \in DOMAIN ps : j > k /\ ps[j].visible => ps[j].name \in Overlays
      BY <2>7 DEF ShownUnder
    <3> DEFINE h == IF k < i THEN k ELSE k - 1
    <3>2. h \in DOMAIN r /\ r[h] = ps[k]
      BY <2>1, <2>4, <2>7, <3>1
    <3>3. ASSUME NEW j \in DOMAIN r, j > h, r[j].visible PROVE r[j].name \in Overlays
      <4>1. (IF j < i THEN j ELSE j + 1) \in DOMAIN ps /\ (IF j < i THEN j ELSE j + 1) > k
        BY <2>1, <2>2, <2>7, <3>1, <3>3
      <4> QED  BY <4>1, <2>3, <3>1, <3>3
    <3> QED  BY <3>1, <3>2, <3>3 DEF ShownUnder
  <2> QED  BY <2>2, <2>5, <2>6, <2>7 DEF r
<1> QED  BY <1>1, <1>2, WithoutIsRemoveAt
PagesOK(ps) == ps \in Seq(Page) /\ Unique(ps)

\* The page drawn on top is the last visible one.
LEMMA FrontPageIsLast ==
    ASSUME NEW ps \in Seq(Page)
    PROVE  \/ FrontPage(ps) = NoPage /\ \A i \in DOMAIN ps : ~ps[i].visible
           \/ \E i \in DOMAIN ps : /\ FrontPage(ps) = ps[i].name /\ ps[i].visible
                                   /\ \A j \in DOMAIN ps : j > i => ~ps[j].visible
<1> DEFINE S == { i \in 1 .. Len(ps) : ps[i].visible }
<1>0. DOMAIN ps = 1 .. Len(ps)
  OBVIOUS
<1>1. CASE S = {}
  BY <1>0, <1>1 DEF FrontPage, Range
<1>2. CASE S # {}
  <2>1. PICK i \in S : \A j \in S : j <= i
    BY <1>2, LastPosition, Len(ps) \in Nat
  <2> DEFINE Test(k) == ps[k].visible /\ \A j \in (k + 1) .. Len(ps) : ~ps[j].visible
             at == CHOOSE k \in DOMAIN ps : Test(k)
  <2>2. i \in DOMAIN ps /\ Test(i)
    BY <1>0, <2>1
  <2>3. FrontPage(ps) = ps[at].name
    BY <1>2 DEF FrontPage, Range
  <2> HIDE DEF Test
  <2>4. at \in DOMAIN ps /\ Test(at)
    BY <2>2
  <2> HIDE DEF at
  <2>5. ps[at].visible /\ \A j \in DOMAIN ps : j > at => ~ps[j].visible
    BY <1>0, <2>4 DEF Test
  <2> QED  BY <2>3, <2>4, <2>5
<1> QED  BY <1>1, <1>2

LEMMA FrontPageFacts ==
    ASSUME NEW ps \in Seq(Page)
    PROVE  /\ FrontPage(ps) \in NamesIn(ps) \cup {NoPage}
           /\ \A t : ShownUnder(ps, t) /\ NamesIn(ps) \cap Overlays = {} => FrontPage(ps) = t
<1>1. FrontPage(ps) \in NamesIn(ps) \cup {NoPage}
  BY FrontPageIsLast DEF NamesIn, Range
<1>2. ASSUME NEW t, ShownUnder(ps, t), NamesIn(ps) \cap Overlays = {} PROVE FrontPage(ps) = t
  <2>1. PICK i \in DOMAIN ps :
           /\ ps[i].name = t /\ ps[i].visible
           /\ \A j \in DOMAIN ps : j > i /\ ps[j].visible => ps[j].name \in Overlays
    BY <1>2 DEF ShownUnder
  <2>2. \A j \in DOMAIN ps : ps[j].name \notin Overlays
    BY <1>2 DEF NamesIn, Range
  <2>3. PICK k \in DOMAIN ps : /\ FrontPage(ps) = ps[k].name /\ ps[k].visible
                               /\ \A j \in DOMAIN ps : j > k => ~ps[j].visible
    BY <2>1, FrontPageIsLast
  <2>4. ~(i < k) /\ ~(k < i)
    BY <2>1, <2>2, <2>3
  <2>5. i = k
    BY <2>4
  <2> QED  BY <2>1, <2>3, <2>5
<1> QED  BY <1>1, <1>2

\* What AddPage adds is on top; an overlay hides no page for good.
LEMMA AddPageFacts ==
    ASSUME NEW ps, PagesOK(ps), NEW n \in Names \cup Overlays
    PROVE  /\ PagesOK(AddPage(ps, n))
           /\ NamesIn(AddPage(ps, n)) = NamesIn(ps) \cup {n}
           /\ ShownUnder(AddPage(ps, n), n) /\ FrontPage(AddPage(ps, n)) = n
           /\ \A t : ShownUnder(ps, t) /\ n \in Overlays /\ n # t => ShownUnder(AddPage(ps, n), t)
<1> DEFINE r == Without(ps, n)
           p == [name |-> n, visible |-> TRUE]
           a == Append(r, p)
<1>1. /\ r \in Seq(Page) /\ Unique(r) /\ NamesIn(r) = NamesIn(ps) \ {n}
      /\ \A t : ShownUnder(ps, t) /\ n \in Overlays /\ n # t => ShownUnder(r, t)
  BY WithoutFacts DEF PagesOK
<1>2. AddPage(ps, n) = a
  BY DEF AddPage
<1> HIDE DEF r
<1>3. p \in Page
  BY DEF Page
<1>4. /\ a \in Seq(Page) /\ DOMAIN a = 1 .. (Len(r) + 1) /\ DOMAIN r = 1 .. Len(r) /\ Len(r) \in Nat
      /\ \A i \in DOMAIN r : a[i] = r[i]
      /\ a[Len(r) + 1] = p
  BY <1>1, <1>3
<1> HIDE DEF a
<1>5. \A i \in DOMAIN r : r[i].name # n
  BY <1>1 DEF NamesIn, Range
<1>6. \A i \in DOMAIN a : i \in DOMAIN r \/ i = Len(r) + 1
  BY <1>4
<1>7. Unique(a)
  BY <1>1, <1>4, <1>5, <1>6 DEF Unique
<1>8. NamesIn(a) = NamesIn(ps) \cup {n}
  <2>1. ASSUME NEW i \in DOMAIN a PROVE a[i].name \in NamesIn(r) \cup {n}
    BY <1>4, <1>6 DEF NamesIn, Range
  <2>2. \A i \in DOMAIN r : r[i].name \in NamesIn(a)
    BY <1>4 DEF NamesIn, Range
  <2>3. n \in NamesIn(a)
    BY <1>4 DEF NamesIn, Range
  <2>4. NamesIn(a) \subseteq NamesIn(r) \cup {n}
    BY <2>1 DEF NamesIn, Range
  <2>5. NamesIn(r) \subseteq NamesIn(a)
    BY <2>2 DEF NamesIn, Range
  <2>6. NamesIn(a) = NamesIn(r) \cup {n}
    BY <2>3, <2>4, <2>5
  <2> QED  BY <1>1, <2>6
<1>9. ShownUnder(a, n)
  <2>1. Len(r) + 1 \in DOMAIN a /\ a[Len(r) + 1].name = n /\ a[Len(r) + 1].visible
    BY <1>4
  <2>2. \A j \in DOMAIN a : ~(j > Len(r) + 1)
    BY <1>4
  <2> QED  BY <2>1, <2>2 DEF ShownUnder
<1>10. FrontPage(a) = n
  <2>1. Len(r) + 1 \in DOMAIN a /\ a[Len(r) + 1].name = n /\ a[Len(r) + 1].visible
    BY <1>4
  <2>2. PICK k \in DOMAIN a : FrontPage(a) = a[k].name /\ \A j \in DOMAIN a : j > k => ~a[j].visible
    BY <1>4, <2>1, FrontPageIsLast
  <2>3. k = Len(r) + 1
    BY <1>4, <2>1, <2>2
  <2> QED  BY <2>1, <2>2, <2>3
<1>11. ASSUME NEW t, ShownUnder(r, t), n \in Overlays PROVE ShownUnder(a, t)
  <2>1. PICK i \in DOMAIN r :
           /\ r[i].name = t /\ r[i].visible
           /\ \A j \in DOMAIN r : j > i /\ r[j].visible => r[j].name \in Overlays
    BY <1>11 DEF ShownUnder
  <2>2. i \in DOMAIN a /\ a[i].name = t /\ a[i].visible
    BY <1>4, <2>1
  <2>3. ASSUME NEW j \in DOMAIN a, j > i, a[j].visible PROVE a[j].name \in Overlays
    BY <1>4, <1>6, <1>11, <2>1, <2>3
  <2> QED  BY <2>2, <2>3 DEF ShownUnder
<1> QED  BY <1>1, <1>2, <1>4, <1>7, <1>8, <1>9, <1>10, <1>11 DEF PagesOK

LEMMA RemovePageFacts ==
    ASSUME NEW ps, PagesOK(ps), NEW n
    PROVE  /\ PagesOK(RemovePage(ps, n))
           /\ NamesIn(RemovePage(ps, n)) = NamesIn(ps) \ {n}
           /\ \A t : ShownUnder(ps, t) /\ n \in Overlays /\ n # t => ShownUnder(RemovePage(ps, n), t)
<1> DEFINE r == Without(ps, n)
           u == [r EXCEPT ![Len(r)].visible = TRUE]
<1>1. /\ r \in Seq(Page) /\ Unique(r) /\ NamesIn(r) = NamesIn(ps) \ {n}
      /\ \A t : ShownUnder(ps, t) /\ n \in Overlays /\ n # t => ShownUnder(r, t)
  BY WithoutFacts DEF PagesOK
<1>2. \/ RemovePage(ps, n) = r
      \/ RemovePage(ps, n) = u /\ r # <<>> /\ \A i \in DOMAIN r : ~r[i].visible
  BY DEF RemovePage, Range
<1> HIDE DEF r
<1>3. CASE RemovePage(ps, n) = r
  BY <1>1, <1>3 DEF PagesOK
<1>4. CASE RemovePage(ps, n) = u /\ r # <<>> /\ \A i \in DOMAIN r : ~r[i].visible
  <2>1. DOMAIN r = 1 .. Len(r) /\ Len(r) \in DOMAIN r
    BY <1>1, <1>4
  <2>2. u \in Seq(Page) /\ DOMAIN u = DOMAIN r /\ \A i \in DOMAIN r : u[i].name = r[i].name
    <3>1. u = [i \in DOMAIN r |-> IF i = Len(r) THEN [r[i] EXCEPT !.visible = TRUE] ELSE r[i]]
      BY <1>1, <2>1
    <3>2. ASSUME NEW i \in DOMAIN r PROVE u[i] \in Page /\ u[i].name = r[i].name
      <4>1. r[i] \in Page
        BY <1>1
      <4>2. [r[i] EXCEPT !.visible = TRUE] \in Page /\ [r[i] EXCEPT !.visible = TRUE].name = r[i].name
        BY <4>1 DEF Page
      <4> QED  BY <3>1, <4>1, <4>2
    <3>3. u \in [1 .. Len(r) -> Page]
      BY <2>1, <3>1, <3>2
    <3> QED  BY <1>1, <2>1, <3>2, <3>3
  <2> HIDE DEF u
  <2>3. Unique(u)
    BY <1>1, <2>2 DEF Unique
  <2>4. NamesIn(u) = NamesIn(r)
    BY <2>2 DEF NamesIn, Range
  <2>5. \A t : ~ShownUnder(r, t)
    BY <1>4 DEF ShownUnder
  <2> QED  BY <1>1, <1>4, <2>2, <2>3, <2>4, <2>5 DEF PagesOK
<1> QED  BY <1>2, <1>3, <1>4

LEMMA SwitchToPageFacts ==
    ASSUME NEW ps, PagesOK(ps), NEW t
    PROVE  /\ PagesOK(SwitchToPage(ps, t))
           /\ NamesIn(SwitchToPage(ps, t)) = NamesIn(ps)
           /\ t \in NamesIn(ps) => ShownUnder(SwitchToPage(ps, t), t)
           /\ FrontPage(SwitchToPage(ps, t)) \in {t, NoPage}
<1> DEFINE s == SwitchToPage(ps, t)
<1>1. ps \in Seq(Page) /\ DOMAIN ps = 1 .. Len(ps)
  BY DEF PagesOK
<1>2. /\ s \in Seq(Page) /\ DOMAIN s = DOMAIN ps
      /\ \A i \in DOMAIN ps : s[i].name = ps[i].name /\ (s[i].visible <=> ps[i].name = t)
  <2>1. ASSUME NEW i \in DOMAIN ps
        PROVE  s[i] \in Page /\ s[i].name = ps[i].name /\ (s[i].visible <=> ps[i].name = t)
    <3>1. ps[i] \in Page
      BY <1>1
    <3>2. s[i] = [ps[i] EXCEPT !.visible = (ps[i].name = t)]
      BY DEF SwitchToPage
    <3> DEFINE b == ps[i].name = t
    <3>3. b \in BOOLEAN /\ s[i] = [ps[i] EXCEPT !.visible = b]
      BY <3>2
    <3>4. b <=> ps[i].name = t
      OBVIOUS
    <3> HIDE DEF b, s
    <3>5. s[i] = [name |-> ps[i].name, visible |-> b]
      BY <3>1, <3>3 DEF Page
    <3>6. s[i] \in Page /\ s[i].name = ps[i].name /\ s[i].visible = b
      BY <3>1, <3>3, <3>5 DEF Page
    <3> QED  BY <3>4, <3>6, Zenon
  <2>2. s = [i \in 1 .. Len(ps) |-> s[i]] /\ Len(ps) \in Nat
    BY <1>1 DEF SwitchToPage
  <2> HIDE DEF s
  <2>3. s \in [1 .. Len(ps) -> Page]
    BY <1>1, <2>1, <2>2
  <2> QED  BY <1>1, <2>1, <2>2, <2>3
<1> HIDE DEF s
<1>3. Unique(s) /\ NamesIn(s) = NamesIn(ps)
  BY <1>2 DEF PagesOK, Unique, NamesIn, Range
<1>4. ASSUME t \in NamesIn(ps) PROVE ShownUnder(s, t)
  <2>1. PICK i \in DOMAIN ps : ps[i].name = t
    BY <1>4 DEF NamesIn, Range
  <2>2. i \in DOMAIN s /\ s[i].name = t /\ s[i].visible
    BY <1>2, <2>1
  <2>3. ASSUME NEW j \in DOMAIN s, j > i, s[j].visible PROVE FALSE
    <3>1. s[j].name = t /\ j = i
      BY <1>2, <1>3, <2>2, <2>3 DEF Unique
    <3> QED  BY <3>1, <2>3, <1>1, <1>2
  <2> QED  BY <2>2, <2>3 DEF ShownUnder
<1>5. FrontPage(s) \in {t, NoPage}
  BY <1>2, FrontPageIsLast
<1> QED  BY <1>2, <1>3, <1>4, <1>5 DEF PagesOK, s

---------------------------------------------------------------------------
(* App records *)

Sidebar == [visible: BOOLEAN, shown: SUBSET Kind, cursor: Kind \cup {NoKind}]

AppRecord == [stack: Seq(Entry), pages: Seq(Page), instances: UNION { [D -> Widget] : D \in SUBSET Names },
              kindState: [Kind -> Filter], sidebar: Sidebar, focus: {"body", "overlay", "input", "list"}]

\* What a handler may find in the middle of its work, its page already down.
Sound(a) ==
    /\ a \in AppRecord /\ Unique(a.pages)
    /\ DOMAIN a.instances = NamesIn(a.pages) \ Overlays
    /\ DOMAIN a.instances \subseteq NamesIn(a.stack)
    /\ a.sidebar.cursor \in a.sidebar.shown \cup {NoKind}

\* Between two keys: the front entry is what lies under the overlays, if it has a
\* page.  A modal that closes shows what was under it, so the screen alone is
\* not enough to know what comes next.
Settled(a) ==
    /\ Sound(a) /\ a.stack # <<>>
    /\ Top(a).name \in NamesIn(a.pages) => ShownUnder(a.pages, Top(a).name)

\* b is a with a page of kind k opened over it.
Opened(a, b, k) ==
    /\ \E n \in Names : /\ b.stack = Append(a.stack, [name |-> n, kind |-> k])
                        /\ NamesIn(b.pages) = NamesIn(a.pages) \cup {n}
                        /\ FrontPage(b.pages) = n
    /\ b.sidebar.visible = a.sidebar.visible
    /\ b.kindState = a.kindState

LEMMA Disjoint == Names \cap Overlays = {}
  BY DEF Names, Overlays

LEMMA AppFields ==
    ASSUME NEW a \in AppRecord
    PROVE  /\ a = [stack |-> a.stack, pages |-> a.pages, instances |-> a.instances,
                   kindState |-> a.kindState, sidebar |-> a.sidebar, focus |-> a.focus]
           /\ a.stack \in Seq(Entry) /\ a.pages \in Seq(Page)
           /\ a.kindState \in [Kind -> Filter] /\ a.sidebar \in Sidebar
           /\ a.focus \in {"body", "overlay", "input", "list"}
           /\ a.instances \in [DOMAIN a.instances -> Widget] /\ DOMAIN a.instances \subseteq Names
<1>1. PICK D \in SUBSET Names : a.instances \in [D -> Widget]
  BY DEF AppRecord
<1>2. DOMAIN a.instances = D
  BY <1>1
<1> QED  BY <1>1, <1>2 DEF AppRecord

LEMMA RecordIsApp ==
    ASSUME NEW s \in Seq(Entry), NEW ps \in Seq(Page), NEW f, f \in [DOMAIN f -> Widget],
           DOMAIN f \subseteq Names,
           NEW ks \in [Kind -> Filter], NEW b \in Sidebar, NEW c \in {"body", "overlay", "input", "list"}
    PROVE  [stack |-> s, pages |-> ps, instances |-> f, kindState |-> ks, sidebar |-> b, focus |-> c]
           \in AppRecord
<1>1. f \in UNION { [D -> Widget] : D \in SUBSET Names }
  OBVIOUS
<1> QED  BY <1>1 DEF AppRecord

\* Opening a page makes it the front entry and puts it on top of the screen.
LEMMA MountedFacts ==
    ASSUME NEW a, Sound(a), NEW n \in Names, NEW w \in Widget
    PROVE  /\ Settled(Mounted(a, n, w)) /\ Opened(a, Mounted(a, n, w), w.kind)
           /\ Top(Mounted(a, n, w)).name = n /\ Mounted(a, n, w).instances[n] = w
           /\ Mounted(a, n, w).sidebar = a.sidebar /\ Mounted(a, n, w).focus = "body"
<1> DEFINE e == [name |-> n, kind |-> w.kind]
           s == Append(a.stack, e)
           ps == AddPage(a.pages, n)
           D == DOMAIN a.instances \cup {n}
           f == [m \in D |-> IF m = n THEN w ELSE a.instances[m]]
           r == Mounted(a, n, w)
<1>1. a \in AppRecord /\ PagesOK(a.pages)
  BY AppFields DEF Sound, PagesOK
<1>2. r = [stack |-> s, pages |-> ps, instances |-> f, kindState |-> a.kindState,
           sidebar |-> a.sidebar, focus |-> "body"]
  <2>1. r = [a EXCEPT !.pages = ps, !.stack = s, !.instances = f, !.focus = "body"]
    BY DEF Mounted
  <2> HIDE DEF s, ps, f, r
  <2> QED  BY <1>1, <2>1 DEF AppRecord
<1>3. e \in Entry
  BY DEF Entry, Widget
<1>4. /\ s \in Seq(Entry) /\ s # <<>> /\ DOMAIN s = 1 .. (Len(a.stack) + 1) /\ Len(s) = Len(a.stack) + 1
      /\ s[Len(s)] = e /\ \A i \in DOMAIN a.stack : i \in DOMAIN s /\ s[i] = a.stack[i]
  BY SMTT(30), <1>1, <1>3, AppFields
<1>5. D \in SUBSET Names /\ f \in [D -> Widget] /\ f[n] = w
  BY <1>1, AppFields
<1>6. /\ PagesOK(ps) /\ NamesIn(ps) = NamesIn(a.pages) \cup {n}
      /\ ShownUnder(ps, n) /\ FrontPage(ps) = n
  BY <1>1, AddPageFacts
<1> HIDE DEF s, ps, D, f
<1>7. r \in AppRecord
  <2>1. ps \in Seq(Page) /\ f \in [DOMAIN f -> Widget] /\ DOMAIN f \subseteq Names
    BY <1>5, <1>6 DEF PagesOK
  <2>2. a.kindState \in [Kind -> Filter] /\ a.sidebar \in Sidebar
    BY <1>1, AppFields
  <2> HIDE DEF r
  <2> QED  BY <1>2, <1>4, <2>1, <2>2, RecordIsApp, Zenon
<1>8. DOMAIN f = NamesIn(ps) \ Overlays
  <2>1. DOMAIN f = (NamesIn(a.pages) \ Overlays) \cup {n}
    BY <1>5 DEF Sound, D
  <2> QED  BY <2>1, <1>6, Disjoint
<1>9. DOMAIN f \subseteq NamesIn(s)
  <2>1. n \in NamesIn(s)
    BY <1>4 DEF NamesIn, Range
  <2>2. NamesIn(a.stack) \subseteq NamesIn(s)
    BY <1>4 DEF NamesIn, Range
  <2> QED  BY <1>5, <2>1, <2>2 DEF Sound, D
<1>10. Top(r).name = n
  BY <1>2, <1>4 DEF Top, Last
<1>11. Settled(r)
  BY <1>2, <1>4, <1>6, <1>7, <1>8, <1>9, <1>10 DEF Settled, Sound, PagesOK
<1>12. Opened(a, r, w.kind)
  BY <1>2, <1>6 DEF Opened, s
<1> QED  BY <1>2, <1>5, <1>10, <1>11, <1>12

\* The front entry's page taken down, with its widget.
Bare(a) == [Unmounted(a, Top(a).name) EXCEPT !.stack = Front(@)]

LEMMA BareFacts ==
    ASSUME NEW a, Sound(a), a.stack # <<>>
    PROVE  /\ Sound(Bare(a)) /\ Bare(a).stack = Front(a.stack)
           /\ NamesIn(Bare(a).pages) = NamesIn(a.pages) \ {Top(a).name}
           /\ Bare(a).sidebar = a.sidebar /\ Bare(a).kindState = a.kindState /\ Bare(a).focus = a.focus
<1> DEFINE n == Top(a).name
           s == Front(a.stack)
           ps == RemovePage(a.pages, n)
           D == DOMAIN a.instances \ {n}
           f == [m \in D |-> a.instances[m]]
           r == Bare(a)
<1>1. a \in AppRecord /\ PagesOK(a.pages)
  BY AppFields DEF Sound, PagesOK
<1>2. r = [stack |-> s, pages |-> ps, instances |-> f, kindState |-> a.kindState,
           sidebar |-> a.sidebar, focus |-> a.focus]
  <2>1. r = [[a EXCEPT !.pages = ps, !.instances = f] EXCEPT !.stack = s]
    <3>1. Unmounted(a, n) = [a EXCEPT !.pages = ps, !.instances = f]
      BY DEF Unmounted
    <3>2. Unmounted(a, n).stack = a.stack
      BY <1>1, <3>1 DEF AppRecord
    <3> QED  BY <3>1, <3>2 DEF Bare
  <2> HIDE DEF s, ps, f, r
  <2> QED  BY <1>1, <2>1 DEF AppRecord
<1>3. /\ s \in Seq(Entry) /\ DOMAIN s = 1 .. (Len(a.stack) - 1) /\ DOMAIN a.stack = 1 .. Len(a.stack)
      /\ Len(a.stack) \in Nat \ {0}
      /\ \A i \in DOMAIN s : s[i] = a.stack[i]
  BY <1>1, AppFields DEF Front
<1>4. D \in SUBSET Names /\ f \in [D -> Widget] /\ n = a.stack[Len(a.stack)].name
  BY <1>1, AppFields DEF Top, Last
<1>5. PagesOK(ps) /\ NamesIn(ps) = NamesIn(a.pages) \ {n}
  BY <1>1, RemovePageFacts
<1> HIDE DEF s, ps, D, f
<1>6. r \in AppRecord
  <2>1. ps \in Seq(Page) /\ f \in [DOMAIN f -> Widget] /\ DOMAIN f \subseteq Names
    BY <1>4, <1>5 DEF PagesOK
  <2>2. a.kindState \in [Kind -> Filter] /\ a.sidebar \in Sidebar
        /\ a.focus \in {"body", "overlay", "input", "list"}
    BY <1>1, AppFields
  <2> HIDE DEF r
  <2> QED  BY <1>2, <1>3, <2>1, <2>2, RecordIsApp, Zenon
<1>7. DOMAIN f = NamesIn(ps) \ Overlays
  BY <1>4, <1>5 DEF Sound, D
<1>8. DOMAIN f \subseteq NamesIn(s)
  <2>1. ASSUME NEW m \in NamesIn(a.stack), m # n PROVE m \in NamesIn(s)
    <3>1. PICK i \in DOMAIN a.stack : a.stack[i].name = m
      BY DEF NamesIn, Range
    <3>2. i \in DOMAIN s /\ s[i].name = m
      BY <1>3, <1>4, <2>1, <3>1
    <3> QED  BY <3>2 DEF NamesIn, Range
  <2> QED  BY <1>4, <2>1 DEF Sound, D
<1> QED  BY <1>2, <1>5, <1>6, <1>7, <1>8 DEF Sound, PagesOK, s

---------------------------------------------------------------------------
(* Sidebar, focus and cache; pages opened and closed *)

\* b differs from a in sidebar and focus at most.
Beside(a, b) ==
    /\ b.stack = a.stack /\ b.pages = a.pages /\ b.instances = a.instances
    /\ b.kindState = a.kindState

\* The sidebar, the focus and the cache do not matter to what pages agree on.
LEMMA NavigationAlone ==
    ASSUME NEW a, Settled(a), NEW b \in Sidebar, b.cursor \in b.shown \cup {NoKind},
           NEW c \in {"body", "overlay", "input", "list"}, NEW ks \in [Kind -> Filter],
           NEW r, r = [stack |-> a.stack, pages |-> a.pages, instances |-> a.instances,
                       kindState |-> ks, sidebar |-> b, focus |-> c]
    PROVE  Settled(r)
<1>1. r \in AppRecord
  <2>1. /\ a.stack \in Seq(Entry) /\ a.pages \in Seq(Page)
        /\ a.instances \in [DOMAIN a.instances -> Widget] /\ DOMAIN a.instances \subseteq Names
    BY AppFields DEF Settled, Sound
  <2> QED  BY <2>1, RecordIsApp, Zenon
<1> QED  BY <1>1 DEF Settled, Sound, Top

LEMMA FocusFacts ==
    ASSUME NEW a, Settled(a), NEW c \in {"body", "overlay", "input", "list"}
    PROVE  /\ Settled([a EXCEPT !.focus = c]) /\ Beside(a, [a EXCEPT !.focus = c])
           /\ [a EXCEPT !.focus = c].sidebar = a.sidebar /\ [a EXCEPT !.focus = c].focus = c
<1> DEFINE r == [a EXCEPT !.focus = c]
<1>1. a \in AppRecord /\ a.sidebar \in Sidebar /\ a.kindState \in [Kind -> Filter]
      /\ a.sidebar.cursor \in a.sidebar.shown \cup {NoKind}
  BY AppFields DEF Settled, Sound
<1>2. r = [stack |-> a.stack, pages |-> a.pages, instances |-> a.instances,
           kindState |-> a.kindState, sidebar |-> a.sidebar, focus |-> c]
  BY <1>1 DEF AppRecord
<1> HIDE DEF r
<1>3. Settled(r)
  BY <1>1, <1>2, NavigationAlone
<1> QED  BY <1>2, <1>3 DEF Beside, r

LEMMA SidebarFacts ==
    ASSUME NEW a, Settled(a), NEW b \in Sidebar, b.cursor \in b.shown \cup {NoKind}
    PROVE  /\ Settled([a EXCEPT !.sidebar = b]) /\ Beside(a, [a EXCEPT !.sidebar = b])
           /\ [a EXCEPT !.sidebar = b].sidebar = b /\ [a EXCEPT !.sidebar = b].focus = a.focus
<1> DEFINE r == [a EXCEPT !.sidebar = b]
<1>1. a \in AppRecord /\ a.kindState \in [Kind -> Filter] /\ a.focus \in {"body", "overlay", "input", "list"}
  BY AppFields DEF Settled, Sound
<1>2. r = [stack |-> a.stack, pages |-> a.pages, instances |-> a.instances,
           kindState |-> a.kindState, sidebar |-> b, focus |-> a.focus]
  BY <1>1 DEF AppRecord
<1> HIDE DEF r
<1>3. Settled(r)
  BY <1>1, <1>2, NavigationAlone
<1> QED  BY <1>2, <1>3 DEF Beside, r

\* A cursor set on a listed kind.
LEMMA CursorFacts ==
    ASSUME NEW a, Settled(a), NEW k \in Kind, k \in a.sidebar.shown
    PROVE  LET r == [a EXCEPT !.sidebar.cursor = k] IN
           /\ Settled(r) /\ Beside(a, r) /\ r.focus = a.focus
           /\ r.sidebar.visible = a.sidebar.visible /\ r.sidebar.shown = a.sidebar.shown
<1> DEFINE b == [a.sidebar EXCEPT !.cursor = k]
<1>1. a.sidebar \in Sidebar
  BY AppFields DEF Settled, Sound
<1>2. b \in Sidebar /\ b.cursor \in b.shown \cup {NoKind} /\ b.visible = a.sidebar.visible
      /\ b.shown = a.sidebar.shown
  BY <1>1 DEF Sidebar
<1>3. [a EXCEPT !.sidebar.cursor = k] = [a EXCEPT !.sidebar = b]
  OBVIOUS
<1> HIDE DEF b
<1> QED  BY <1>2, <1>3, SidebarFacts

LEMMA TopFacts ==
    ASSUME NEW a, Settled(a)
    PROVE  /\ Top(a) \in Entry /\ CurrentKind(a) = Top(a).kind /\ CurrentKind(a) \in Kind
           /\ Len(a.stack) \in Nat \ {0} /\ DOMAIN a.stack = 1 .. Len(a.stack)
<1>1. a.stack \in Seq(Entry) /\ a.stack # <<>>
  BY AppFields DEF Settled, Sound
<1>2. Top(a) \in Entry
  BY <1>1 DEF Top, Last
<1> QED  BY <1>1, <1>2 DEF CurrentKind, Entry

LEMMA SyncSidebarFacts ==
    ASSUME NEW a, Settled(a)
    PROVE  /\ Settled(SyncSidebar(a)) /\ Beside(a, SyncSidebar(a)) /\ SyncSidebar(a).focus = a.focus
           /\ SyncSidebar(a).sidebar.visible = a.sidebar.visible
           /\ SyncSidebar(a).sidebar.shown = a.sidebar.shown
<1>1. CASE a.sidebar.visible /\ CurrentKind(a) \in a.sidebar.shown
  <2>1. SyncSidebar(a) = [a EXCEPT !.sidebar.cursor = CurrentKind(a)]
    BY <1>1 DEF SyncSidebar
  <2> DEFINE k == CurrentKind(a)
  <2>2. k \in Kind /\ k \in a.sidebar.shown
    BY <1>1, TopFacts
  <2>3. SyncSidebar(a) = [a EXCEPT !.sidebar.cursor = k]
    BY <2>1
  <2> HIDE DEF k
  <2> QED  BY <2>2, <2>3, CursorFacts
<1>2. CASE ~(a.sidebar.visible /\ CurrentKind(a) \in a.sidebar.shown)
  BY <1>2 DEF SyncSidebar, Beside
<1> QED  BY <1>1, <1>2

\* A page of kind k opened on a, and shown with a query of its own.
Pushed(a, b, k) ==
    /\ Settled(b) /\ Opened(a, b, k) /\ b.focus = "body"
    /\ Top(b).name \in DOMAIN b.instances

LEMMA MountedPushes ==
    ASSUME NEW a, Sound(a), NEW n \in Names, NEW w \in Widget
    PROVE  /\ Pushed(a, Mounted(a, n, w), w.kind)
           /\ Mounted(a, n, w).instances[Top(Mounted(a, n, w)).name].flt = w.flt
<1> DEFINE b == Mounted(a, n, w)
<1>1. Settled(b) /\ Opened(a, b, w.kind) /\ Top(b).name = n /\ b.instances[n] = w /\ b.focus = "body"
  BY MountedFacts
<1>2. n \in DOMAIN b.instances
  <2>1. n \in NamesIn(b.pages)
    BY <1>1 DEF Opened, Settled, Sound, Top, Last
  <2> QED  BY <1>1, <2>1, Disjoint DEF Settled, Sound
<1> QED  BY <1>1, <1>2 DEF Pushed

LEMMA SyncedPushes ==
    ASSUME NEW a, NEW b, NEW k, Pushed(a, b, k)
    PROVE  /\ Pushed(a, SyncSidebar(b), k)
           /\ Top(SyncSidebar(b)) = Top(b) /\ SyncSidebar(b).instances = b.instances
BY SyncSidebarFacts DEF Pushed, Opened, Beside, Top

LEMMA ViewType ==
    ASSUME NEW k \in Kind, NEW m \in {"list", "table", "md"}, NEW f \in Filter
    PROVE  View(k, m, f) \in Widget /\ View(k, m, f).kind = k /\ View(k, m, f).flt = f
BY DEF View, Widget

LEMMA PushBrowserFacts ==
    ASSUME NEW a, Sound(a), NEW k \in Kind, NEW id \in Id \cup {NoId}
    PROVE  LET b == PushBrowser(a, k, id) IN
           /\ Pushed(a, b, k)
           /\ id = NoId => b.instances[Top(b).name].flt = a.kindState[k]
<1>1. a.kindState[k] \in Filter /\ NoFilter \in Filter
  BY AppFields, TuiParameters DEF Sound
<1>2. CASE k \in TableKind
  <2> DEFINE n == <<"table", k, NoId>>
             w == View(k, "table", a.kindState[k])
  <2>1. n \in Names
    BY DEF Names
  <2>2. w \in Widget /\ w.kind = k /\ w.flt = a.kindState[k]
    BY <1>1, ViewType
  <2>3. PushBrowser(a, k, id) = Mounted(a, n, w)
    BY <1>2 DEF PushBrowser
  <2> HIDE DEF n, w
  <2>4. Pushed(a, Mounted(a, n, w), k) /\ Mounted(a, n, w).instances[Top(Mounted(a, n, w)).name].flt = w.flt
    BY <2>1, <2>2, MountedPushes
  <2> QED  BY <2>2, <2>3, <2>4
<1>3. CASE k \notin TableKind
  <2> DEFINE n == <<"browse", k, id>>
             w == View(k, "list", IF id = NoId THEN a.kindState[k] ELSE NoFilter)
             b == Mounted(a, n, w)
  <2>1. n \in Names
    BY DEF Names
  <2>2. w \in Widget /\ w.kind = k /\ (id = NoId => w.flt = a.kindState[k])
    BY <1>1, ViewType
  <2>3. PushBrowser(a, k, id) = SyncSidebar(b)
    BY <1>3 DEF PushBrowser
  <2> HIDE DEF n, w
  <2>4. Pushed(a, b, k) /\ b.instances[Top(b).name].flt = w.flt
    BY <2>1, <2>2, MountedPushes
  <2> HIDE DEF b
  <2>5. /\ Pushed(a, SyncSidebar(b), k)
        /\ Top(SyncSidebar(b)) = Top(b) /\ SyncSidebar(b).instances = b.instances
    BY <2>4, SyncedPushes
  <2> QED  BY <2>2, <2>3, <2>4, <2>5
<1> QED  BY <1>2, <1>3

LEMMA PushBrowserListFacts ==
    ASSUME NEW a, Sound(a), NEW k \in Kind
    PROVE  Pushed(a, PushBrowserList(a, k), k)
<1>1. <<"drill", k, NoId>> \in Names
  BY DEF Names
<1>2. View(k, "list", NoFilter) \in Widget /\ View(k, "list", NoFilter).kind = k
  BY ViewType, TuiParameters
<1> QED  BY <1>1, <1>2, MountedPushes, SyncedPushes DEF PushBrowserList

LEMMA PushMasterDetailFacts ==
    ASSUME NEW a, Sound(a), NEW k \in Kind
    PROVE  Pushed(a, PushMasterDetail(a, k), k)
<1>1. <<"md", k, NoId>> \in Names
  BY DEF Names
<1>2. View(k, "md", NoFilter) \in Widget /\ View(k, "md", NoFilter).kind = k
  BY ViewType, TuiParameters
<1> QED  BY <1>1, <1>2, MountedPushes, SyncedPushes DEF PushMasterDetail

\* a's pages switched to the one of its front entry.
LEMMA SwitchedFacts ==
    ASSUME NEW a, Sound(a), a.stack # <<>>
    PROVE  LET r == [a EXCEPT !.pages = SwitchToPage(@, Top(a).name)] IN
           /\ Settled(r) /\ r.stack = a.stack /\ NamesIn(r.pages) = NamesIn(a.pages)
           /\ FrontPage(r.pages) \notin Overlays
           /\ r.sidebar = a.sidebar /\ r.kindState = a.kindState /\ r.instances = a.instances
<1> DEFINE t == Top(a).name
           ps == SwitchToPage(a.pages, t)
           r == [a EXCEPT !.pages = ps]
<1>1. a \in AppRecord /\ PagesOK(a.pages)
  BY AppFields DEF Sound, PagesOK
<1>2. t \in Names
  <2>1. a.stack \in Seq(Entry) /\ Len(a.stack) \in DOMAIN a.stack
    BY <1>1, AppFields
  <2>2. a.stack[Len(a.stack)] \in Entry
    BY <2>1
  <2> QED  BY <2>2 DEF Top, Last, Entry
<1>3. /\ PagesOK(ps) /\ NamesIn(ps) = NamesIn(a.pages)
      /\ t \in NamesIn(a.pages) => ShownUnder(ps, t)
      /\ FrontPage(ps) \in {t, NoPage}
  BY <1>1, SwitchToPageFacts
<1> HIDE DEF ps
<1>4. r = [stack |-> a.stack, pages |-> ps, instances |-> a.instances, kindState |-> a.kindState,
           sidebar |-> a.sidebar, focus |-> a.focus]
  BY <1>1 DEF AppRecord
<1>5. [a EXCEPT !.pages = SwitchToPage(@, Top(a).name)] = r
  BY DEF ps
<1> HIDE DEF r
<1>6. r \in AppRecord
  <2>1. /\ a.stack \in Seq(Entry) /\ ps \in Seq(Page) /\ a.kindState \in [Kind -> Filter]
        /\ a.sidebar \in Sidebar /\ a.focus \in {"body", "overlay", "input", "list"}
        /\ a.instances \in [DOMAIN a.instances -> Widget] /\ DOMAIN a.instances \subseteq Names
    BY <1>1, <1>3, AppFields DEF PagesOK
  <2> QED  BY <1>4, <2>1, RecordIsApp, Zenon
<1>7. Top(r).name = t
  BY <1>4 DEF Top
<1>8. Settled(r)
  BY <1>3, <1>4, <1>6, <1>7 DEF Settled, Sound, PagesOK
<1>9. FrontPage(ps) \notin Overlays
  BY <1>2, <1>3, Disjoint, PageParameters
<1> QED  BY <1>3, <1>4, <1>5, <1>8, <1>9

---------------------------------------------------------------------------
(* What a key may do to the pages of a *)

\* No entry loses its page but the front one, and if a new one takes its place
\* that one has a page.
Keeps(a, b) ==
    /\ NamesIn(a.pages) \subseteq NamesIn(b.pages) \cup Overlays \cup {Top(a).name}
    /\ Len(a.stack) \in DOMAIN b.stack /\ Top(a).name \in NamesIn(a.pages)
       => b.stack[Len(a.stack)].name \in NamesIn(b.pages)

\* b is settled, with a page on top.
Over(a, b) == Settled(b) /\ Keeps(a, b) /\ FrontPage(b.pages) \notin Overlays

\* An overlay in front that has the keys keeps them, unless the sidebar comes or
\* goes or a filter or a preview closes over another.
HasKeys(a) == FrontPage(a.pages) \in Overlays => a.focus = "overlay"
Uncovers(a, b) ==
    \E n \in Returns : /\ a.focus = "overlay" /\ n = FrontPage(a.pages)
                      /\ b.pages = RemovePage(a.pages, n) /\ FrontPage(b.pages) \in Overlays
Quiet(a, b) == HasKeys(a) /\ ~HasKeys(b) => b.sidebar.visible # a.sidebar.visible \/ Uncovers(a, b)

Steps(a, b) == Settled(b) /\ Keeps(a, b) /\ Quiet(a, b)

LEMMA OverSteps ==
    ASSUME NEW a, NEW b, Over(a, b)
    PROVE  Steps(a, b)
BY DEF Over, Steps, Quiet, HasKeys

LEMMA SameKeeps ==
    ASSUME NEW a, Settled(a), NEW b, b.stack = a.stack,
           NamesIn(a.pages) \subseteq NamesIn(b.pages) \cup Overlays
    PROVE  Keeps(a, b)
<1>1. b.stack[Len(a.stack)] = Top(a) /\ Top(a).name \notin Overlays
  BY TopFacts, Disjoint DEF Top, Last, Entry
<1> QED  BY <1>1 DEF Keeps

LEMMA BesideSteps ==
    ASSUME NEW a, Settled(a), NEW b, Settled(b), Beside(a, b),
           b.focus = a.focus \/ b.sidebar.visible # a.sidebar.visible
    PROVE  Steps(a, b)
BY SameKeeps DEF Beside, Steps, Quiet, HasKeys

LEMMA BesideOver ==
    ASSUME NEW a, NEW m, NEW b, Beside(a, m), Over(m, b)
    PROVE  Over(a, b)
BY DEF Beside, Over, Keeps, Top

LEMMA OverBeside ==
    ASSUME NEW a, NEW b, NEW c, Over(a, b), Settled(c), Beside(b, c)
    PROVE  Over(a, c)
BY DEF Beside, Over, Keeps

LEMMA PushedOver ==
    ASSUME NEW a, Settled(a), NEW m, Sound(m), NEW k, NEW b, Pushed(m, b, k), m.stack = a.stack,
           NamesIn(a.pages) \subseteq NamesIn(m.pages) \cup Overlays
    PROVE  Over(a, b)
<1>1. PICK n \in Names : /\ b.stack = Append(m.stack, [name |-> n, kind |-> k])
                         /\ NamesIn(b.pages) = NamesIn(m.pages) \cup {n}
                         /\ FrontPage(b.pages) = n
  BY DEF Pushed, Opened
<1>2. Len(a.stack) \in DOMAIN a.stack /\ a.stack \in Seq(Entry)
  BY TopFacts, AppFields DEF Settled, Sound
<1>3. b.stack[Len(a.stack)] = Top(a)
  BY <1>1, <1>2 DEF Top, Last
<1>4. Top(a).name \notin Overlays
  BY TopFacts, Disjoint DEF Entry
<1> QED  BY <1>1, <1>3, <1>4, Disjoint DEF Over, Keeps, Pushed

\* The front page replaced by one of kind k.
Replaced(a, b, k) ==
    /\ Settled(b) /\ b.focus = "body" /\ b.sidebar.visible = a.sidebar.visible
    /\ Top(b).name \in DOMAIN b.instances
    /\ \E n \in Names : /\ b.stack = Append(Front(a.stack), [name |-> n, kind |-> k])
                        /\ NamesIn(b.pages) = (NamesIn(a.pages) \ {Top(a).name}) \cup {n}
                        /\ FrontPage(b.pages) = n

LEMMA ReplacedOver ==
    ASSUME NEW a, Settled(a), NEW b, NEW k, Replaced(a, b, k)
    PROVE  Over(a, b)
<1>1. PICK n \in Names : /\ b.stack = Append(Front(a.stack), [name |-> n, kind |-> k])
                         /\ NamesIn(b.pages) = (NamesIn(a.pages) \ {Top(a).name}) \cup {n}
                         /\ FrontPage(b.pages) = n
  BY DEF Replaced
<1>2. Len(a.stack) \in Nat \ {0} /\ a.stack \in Seq(Entry)
  BY TopFacts, AppFields DEF Settled, Sound
<1>3. Front(a.stack) \in Seq(Entry) /\ Len(Front(a.stack)) = Len(a.stack) - 1
  BY <1>2 DEF Front
<1>4. b.stack[Len(a.stack)].name = n
  BY <1>1, <1>2, <1>3
<1> QED  BY <1>1, <1>4, Disjoint DEF Over, Keeps, Replaced

LEMMA ReplacedByPush ==
    ASSUME NEW a, Settled(a), NEW b, NEW k, Pushed(Bare(a), b, k)
    PROVE  Replaced(a, b, k)
<1>1. /\ Bare(a).stack = Front(a.stack) /\ Bare(a).sidebar = a.sidebar
      /\ NamesIn(Bare(a).pages) = NamesIn(a.pages) \ {Top(a).name}
  BY BareFacts DEF Settled
<1> QED  BY <1>1 DEF Pushed, Opened, Replaced

---------------------------------------------------------------------------
(* The calls that take a page down *)

LEMMA PopPageFacts ==
    ASSUME NEW a, Settled(a), Len(a.stack) > 1
    PROVE  LET b == PopPage(a) IN
           /\ Settled(b) /\ b.stack = Front(a.stack) /\ FrontPage(b.pages) \notin Overlays
           /\ NamesIn(b.pages) = NamesIn(a.pages) \ {Top(a).name}
           /\ b.sidebar = a.sidebar
<1> DEFINE m == Bare(a)
           b == [m EXCEPT !.pages = SwitchToPage(@, Top(m).name)]
<1>1. PopPage(a) = b
  BY TopFacts DEF PopPage, Bare
<1>2. /\ Sound(m) /\ m.stack = Front(a.stack) /\ m.sidebar = a.sidebar
      /\ NamesIn(m.pages) = NamesIn(a.pages) \ {Top(a).name}
  BY BareFacts DEF Settled
<1>3. m.stack # <<>>
  <2>1. a.stack \in Seq(Entry)
    BY AppFields DEF Settled, Sound
  <2>2. Len(Front(a.stack)) = Len(a.stack) - 1 /\ Len(a.stack) \in Nat
    BY <2>1 DEF Front
  <2> QED  BY <1>2, <2>2
<1> HIDE DEF m
<1>4. /\ Settled(b) /\ b.stack = m.stack /\ NamesIn(b.pages) = NamesIn(m.pages)
      /\ FrontPage(b.pages) \notin Overlays /\ b.sidebar = m.sidebar
  BY <1>2, <1>3, SwitchedFacts
<1> QED  BY <1>1, <1>2, <1>4

LEMMA PoppedOver ==
    ASSUME NEW a, Settled(a), Len(a.stack) > 1
    PROVE  Over(a, PopPage(a))
<1>1. a.stack \in Seq(Entry) /\ Len(a.stack) \in Nat \ {0}
  BY TopFacts, AppFields DEF Settled, Sound
<1>2. Len(a.stack) \notin DOMAIN Front(a.stack)
  BY <1>1 DEF Front
<1> QED  BY <1>2, PopPageFacts DEF Over, Keeps

\* The snapshot touches the cache alone, and holds the query of the page shown.
LEMMA SnapshotFacts ==
    ASSUME NEW a, Settled(a)
    PROVE  LET m == SnapshotKindState(a, Top(a)) IN
           /\ Settled(m) /\ m.stack = a.stack /\ m.pages = a.pages /\ m.sidebar = a.sidebar
           /\ Top(a).name \in DOMAIN a.instances
              => m.kindState[Top(a).kind] = a.instances[Top(a).name].flt
<1>1. CASE Top(a).name \notin DOMAIN a.instances
  BY <1>1 DEF SnapshotKindState
<1>2. CASE Top(a).name \in DOMAIN a.instances
  <2> DEFINE n == Top(a).name
             k == Top(a).kind
             ks == [a.kindState EXCEPT ![k] = a.instances[n].flt]
             m == [a EXCEPT !.kindState = ks]
  <2>1. SnapshotKindState(a, Top(a)) = m
    BY <1>2 DEF SnapshotKindState
  <2>2. /\ a \in AppRecord /\ a.kindState \in [Kind -> Filter] /\ a.sidebar \in Sidebar
        /\ a.sidebar.cursor \in a.sidebar.shown \cup {NoKind}
        /\ a.focus \in {"body", "overlay", "input", "list"}
        /\ a.instances[n] \in Widget /\ k \in Kind
    BY <1>2, AppFields, TopFacts DEF Settled, Sound, Entry
  <2>3. ks \in [Kind -> Filter] /\ ks[k] = a.instances[n].flt
    BY <2>2 DEF Widget
  <2> HIDE DEF ks
  <2>4. m = [stack |-> a.stack, pages |-> a.pages, instances |-> a.instances, kindState |-> ks,
             sidebar |-> a.sidebar, focus |-> a.focus]
    BY <2>2 DEF AppRecord
  <2> HIDE DEF m
  <2>5. Settled(m)
    BY <2>2, <2>3, <2>4, NavigationAlone
  <2> QED  BY <2>1, <2>3, <2>4, <2>5
<1> QED  BY <1>1, <1>2

LEMMA ReplaceTopKindFacts ==
    ASSUME NEW a, Settled(a), NEW k \in Kind
    PROVE  LET b == ReplaceTopKind(a, k) IN
           /\ Replaced(a, b, k)
           /\ Top(a).name \in DOMAIN a.instances /\ k = Top(a).kind
              => b.instances[Top(b).name].flt = a.instances[Top(a).name].flt
<1> DEFINE m == SnapshotKindState(a, Top(a))
           b == PushBrowser(Bare(m), k, NoId)
<1>1. /\ Settled(m) /\ m.stack = a.stack /\ m.pages = a.pages /\ m.sidebar = a.sidebar
      /\ Top(a).name \in DOMAIN a.instances
         => m.kindState[Top(a).kind] = a.instances[Top(a).name].flt
  BY SnapshotFacts
<1> HIDE DEF m
<1>2. Top(m) = Top(a)
  BY <1>1 DEF Top
<1>3. ReplaceTopKind(a, k) = b
  BY <1>2 DEF ReplaceTopKind, Bare, m
<1>4. Sound(Bare(m)) /\ Bare(m).kindState = m.kindState
  BY <1>1, BareFacts DEF Settled
<1>5. Pushed(Bare(m), b, k) /\ b.instances[Top(b).name].flt = m.kindState[k]
  BY <1>4, PushBrowserFacts
<1> HIDE DEF b
<1>6. Replaced(m, b, k)
  BY <1>1, <1>5, ReplacedByPush
<1>7. Replaced(a, b, k)
  BY <1>1, <1>2, <1>6 DEF Replaced
<1> QED  BY <1>1, <1>3, <1>5, <1>7

LEMMA SwapViewFacts ==
    ASSUME NEW a, Settled(a), NEW k \in Kind, NEW mode \in {"list", "table", "md"}
    PROVE  Replaced(a, SwapView(a, k, mode), k)
<1> DEFINE old == Top(a).name
           flt == IF old \in DOMAIN a.instances THEN a.instances[old].flt ELSE NoFilter
           name == <<IF mode = "table" THEN "table" ELSE "browse", k, NoId>>
           w == View(k, mode, flt)
<1>1. SwapView(a, k, mode) = Mounted(Bare(a), name, w)
  BY DEF SwapView, Bare
<1>2. name \in Names
  BY DEF Names
<1>3. flt \in Filter
  BY TuiParameters, AppFields DEF Settled, Sound, Widget
<1>4. w \in Widget /\ w.kind = k
  BY <1>3, ViewType
<1> HIDE DEF name, w
<1>5. Sound(Bare(a))
  BY BareFacts DEF Settled
<1>6. Pushed(Bare(a), Mounted(Bare(a), name, w), k)
  BY <1>2, <1>4, <1>5, MountedPushes
<1> QED  BY <1>1, <1>6, ReplacedByPush

\* Overlays come and gone, and nothing else: one left in front has the keys.
Closed(a, b) ==
    /\ Settled(b) /\ b.stack = a.stack /\ b.sidebar = a.sidebar
    /\ NamesIn(a.pages) \subseteq NamesIn(b.pages) \cup Overlays
    /\ FrontPage(b.pages) \in Overlays => b.focus = "overlay"

LEMMA PagesAndFocus ==
    ASSUME NEW a \in AppRecord, NEW ps, NEW c
    PROVE  [a EXCEPT !.pages = ps, !.focus = c]
           = [stack |-> a.stack, pages |-> ps, instances |-> a.instances, kindState |-> a.kindState,
              sidebar |-> a.sidebar, focus |-> c]
<1> DEFINE r == [a EXCEPT !.pages = ps, !.focus = c]
<1>1. r = [a EXCEPT !.pages = ps, !.focus = c]
  OBVIOUS
<1> HIDE DEF r
<1>2. r = [stack |-> a.stack, pages |-> ps, instances |-> a.instances, kindState |-> a.kindState,
           sidebar |-> a.sidebar, focus |-> c]
  BY <1>1 DEF AppRecord
<1> QED  BY <1>2 DEF r

LEMMA OverlayRemoved ==
    ASSUME NEW a, Settled(a), NEW o \in Overlays, NEW c \in {"body", "overlay", "input", "list"}, NEW r,
           r = [stack |-> a.stack, pages |-> RemovePage(a.pages, o), instances |-> a.instances,
                kindState |-> a.kindState, sidebar |-> a.sidebar, focus |-> c]
    PROVE  /\ Settled(r) /\ r.stack = a.stack /\ r.sidebar = a.sidebar /\ r.focus = c
           /\ r.pages = RemovePage(a.pages, o) /\ NamesIn(r.pages) = NamesIn(a.pages) \ {o}
<1> DEFINE ps == RemovePage(a.pages, o)
           t == Top(a).name
<1>1. a \in AppRecord /\ PagesOK(a.pages)
  BY AppFields DEF Settled, Sound, PagesOK
<1>2. t \in Names
  BY TopFacts DEF Entry
<1>3. /\ PagesOK(ps) /\ NamesIn(ps) = NamesIn(a.pages) \ {o}
      /\ ShownUnder(a.pages, t) => ShownUnder(ps, t)
  BY <1>1, <1>2, RemovePageFacts, Disjoint
<1>4. r = [stack |-> a.stack, pages |-> ps, instances |-> a.instances, kindState |-> a.kindState,
           sidebar |-> a.sidebar, focus |-> c]
  OBVIOUS
<1> HIDE DEF ps
<1>5. r \in AppRecord
  <2>1. /\ a.stack \in Seq(Entry) /\ ps \in Seq(Page) /\ a.kindState \in [Kind -> Filter]
        /\ a.sidebar \in Sidebar /\ c \in {"body", "overlay", "input", "list"}
        /\ a.instances \in [DOMAIN a.instances -> Widget] /\ DOMAIN a.instances \subseteq Names
    BY <1>1, <1>3, AppFields DEF PagesOK
  <2>2. [stack |-> a.stack, pages |-> ps, instances |-> a.instances, kindState |-> a.kindState,
         sidebar |-> a.sidebar, focus |-> c] \in AppRecord
    BY <2>1, RecordIsApp
  <2> QED  BY <1>4, <2>2
<1>6. Top(r).name = t /\ r.stack # <<>>
  BY <1>4 DEF Top, Settled
<1>7. t \in NamesIn(ps) => ShownUnder(ps, t)
  BY <1>3 DEF Settled
<1>8. DOMAIN r.instances = NamesIn(ps) \ Overlays
  BY <1>3, <1>4 DEF Settled, Sound
<1>9. Unique(r.pages) /\ r.pages = ps /\ r.sidebar = a.sidebar
      /\ DOMAIN r.instances \subseteq NamesIn(r.stack)
  BY <1>3, <1>4 DEF Settled, Sound, PagesOK
<1>10. r.sidebar.cursor \in r.sidebar.shown \cup {NoKind}
  BY <1>9 DEF Settled, Sound
<1>11. Settled(r)
  BY <1>5, <1>6, <1>7, <1>8, <1>9, <1>10 DEF Settled, Sound
<1> QED  BY <1>3, <1>4, <1>11 DEF ps

LEMMA ClosePopupFacts ==
    ASSUME NEW a, Settled(a), NEW o \in Overlays
    PROVE  Closed(a, ClosePopup(a, o))
<1> DEFINE ps == RemovePage(a.pages, o)
           c == IF FrontPage(ps) \in Overlays THEN "overlay" ELSE "body"
           r == [a EXCEPT !.pages = ps, !.focus = c]
<1>1. ClosePopup(a, o) = r
  BY DEF ClosePopup
<1>2. c \in {"body", "overlay", "input", "list"} /\ (FrontPage(ps) \in Overlays => c = "overlay")
  OBVIOUS
<1> HIDE DEF c
<1>3. r = [stack |-> a.stack, pages |-> ps, instances |-> a.instances,
           kindState |-> a.kindState, sidebar |-> a.sidebar, focus |-> c]
  BY PagesAndFocus DEF Settled, Sound
<1> HIDE DEF r
<1>4. /\ Settled(r) /\ r.stack = a.stack /\ r.sidebar = a.sidebar /\ r.focus = c
      /\ r.pages = ps /\ NamesIn(r.pages) = NamesIn(a.pages) \ {o}
  BY <1>2, <1>3, OverlayRemoved
<1> QED  BY <1>1, <1>2, <1>4 DEF Closed

\* A filter's or a preview's closing: the keys go to the page, whatever is in front.
LEMMA CloseReturningSteps ==
    ASSUME NEW a, Settled(a), NEW o \in Returns, a.focus = "overlay", o = FrontPage(a.pages)
    PROVE  Steps(a, CloseReturning(a, o))
<1> DEFINE ps == RemovePage(a.pages, o)
           r == [a EXCEPT !.pages = ps, !.focus = "body"]
<1>1. CloseReturning(a, o) = r /\ o \in Overlays
  BY DEF CloseReturning, Returns, Overlays
<1>2. r = [stack |-> a.stack, pages |-> ps, instances |-> a.instances,
           kindState |-> a.kindState, sidebar |-> a.sidebar, focus |-> "body"]
  BY PagesAndFocus DEF Settled, Sound
<1> HIDE DEF r
<1>3. /\ Settled(r) /\ r.stack = a.stack /\ r.pages = ps
      /\ NamesIn(r.pages) = NamesIn(a.pages) \ {o}
  BY <1>1, <1>2, OverlayRemoved
<1>4. Quiet(a, r)
  BY <1>3 DEF Quiet, Uncovers, HasKeys
<1>5. Keeps(a, r)
  BY <1>1, <1>3, SameKeeps
<1> QED  BY <1>1, <1>3, <1>4, <1>5 DEF Steps

LEMMA ClosePickerFacts ==
    ASSUME NEW a, Settled(a)
    PROVE  Closed(a, ClosePicker(a))
<1> DEFINE o == <<"picker">>
           m == [a EXCEPT !.pages = RemovePage(a.pages, o), !.focus = "body"]
           r == [m EXCEPT !.pages = SwitchToPage(@, Top(m).name)]
<1>1. o \in Overlays
  BY DEF Overlays
<1>2. m = [stack |-> a.stack, pages |-> RemovePage(a.pages, o), instances |-> a.instances,
           kindState |-> a.kindState, sidebar |-> a.sidebar, focus |-> "body"]
  BY PagesAndFocus DEF Settled, Sound
<1>3. ClosePicker(a) = r
  <2>1. Top(m) = Top(a) /\ a \in AppRecord
    BY <1>2 DEF Top, Settled, Sound
  <2> DEFINE p1 == RemovePage(a.pages, o)
             p2 == SwitchToPage(p1, Top(a).name)
  <2>2. r = [m EXCEPT !.pages = p2]
    BY <1>2, <2>1
  <2>3. ClosePicker(a) = [a EXCEPT !.pages = p2, !.focus = "body"]
    BY DEF ClosePicker
  <2> HIDE DEF p2, r
  <2> QED  BY <2>1, <2>2, <2>3 DEF AppRecord
<1> HIDE DEF m, o
<1>4. /\ Settled(m) /\ m.stack = a.stack /\ m.sidebar = a.sidebar
      /\ m.pages = RemovePage(a.pages, o) /\ NamesIn(m.pages) = NamesIn(a.pages) \ {o}
  BY <1>1, <1>2, OverlayRemoved
<1>5. /\ Settled(r) /\ r.stack = m.stack /\ NamesIn(r.pages) = NamesIn(m.pages)
      /\ FrontPage(r.pages) \notin Overlays /\ r.sidebar = m.sidebar
  BY <1>4, SwitchedFacts DEF Settled
<1> QED  BY <1>1, <1>3, <1>4, <1>5 DEF Closed

\* A modal opened over whatever is there.
LEMMA OpenModalFacts ==
    ASSUME NEW a, Settled(a), NEW o \in Overlays
    PROVE  Closed(a, OpenModal(a, o))
<1> DEFINE ps == AddPage(a.pages, o)
           r == [a EXCEPT !.pages = ps, !.focus = "overlay"]
<1>1. OpenModal(a, o) = r
  BY DEF OpenModal
<1>2. r = [stack |-> a.stack, pages |-> ps, instances |-> a.instances, kindState |-> a.kindState,
           sidebar |-> a.sidebar, focus |-> "overlay"]
  BY PagesAndFocus DEF Settled, Sound
<1> HIDE DEF r
<1>3. /\ a.stack \in Seq(Entry) /\ PagesOK(a.pages) /\ a.kindState \in [Kind -> Filter]
      /\ a.sidebar \in Sidebar
      /\ a.instances \in [DOMAIN a.instances -> Widget] /\ DOMAIN a.instances \subseteq Names
  BY AppFields DEF Settled, Sound, PagesOK
<1>4. Top(a).name \in Names
  BY TopFacts DEF Entry
<1>5. /\ PagesOK(ps) /\ NamesIn(ps) = NamesIn(a.pages) \cup {o}
      /\ ShownUnder(a.pages, Top(a).name) => ShownUnder(ps, Top(a).name)
  BY <1>3, <1>4, AddPageFacts, Disjoint
<1> HIDE DEF ps
<1>6. r \in AppRecord
  <2>1. "overlay" \in {"body", "overlay", "input", "list"} /\ ps \in Seq(Page)
    BY <1>5 DEF PagesOK
  <2>2. [stack |-> a.stack, pages |-> ps, instances |-> a.instances, kindState |-> a.kindState,
         sidebar |-> a.sidebar, focus |-> "overlay"] \in AppRecord
    BY <1>3, <2>1, RecordIsApp
  <2> QED  BY <1>2, <2>2
<1>7. Top(r) = Top(a) /\ r.stack # <<>>
  BY <1>2 DEF Top, Settled
<1>8. Top(a).name \in NamesIn(ps) => ShownUnder(ps, Top(a).name)
  BY <1>4, <1>5, Disjoint DEF Settled
<1>9. DOMAIN r.instances = NamesIn(ps) \ Overlays /\ DOMAIN r.instances \subseteq NamesIn(r.stack)
      /\ r.sidebar.cursor \in r.sidebar.shown \cup {NoKind}
  BY <1>2, <1>5 DEF Settled, Sound
<1>10. r.pages = ps /\ r.stack = a.stack /\ r.sidebar = a.sidebar /\ r.focus = "overlay"
  BY <1>2
<1>11. Settled(r)
  BY <1>5, <1>6, <1>7, <1>8, <1>9, <1>10 DEF Settled, Sound, PagesOK
<1> QED  BY <1>1, <1>5, <1>10, <1>11 DEF Closed

LEMMA ClosedTwice ==
    ASSUME NEW a, NEW m, NEW b, Closed(a, m), Closed(m, b)
    PROVE  Closed(a, b)
BY DEF Closed

LEMMA ModalKinds ==
    /\ Overlays \subseteq {<<"picker">>} \cup Popups \cup Returns
    /\ {<<"picker">>} \cup Popups \cup Returns \subseteq Overlays
    /\ {<<"picker">>, <<"capabilities">>} \cap Returns = {}
    /\ {<<"help">>, <<"capabilities">>} \subseteq Popups
<1>1. {"help", "capabilities"} \subseteq Popup /\ "picker" \notin Returning /\ "capabilities" \notin Returning
  BY TuiParameters
<1>2. /\ Overlays \subseteq {<<"picker">>} \cup Popups \cup Returns
      /\ {<<"picker">>} \cup Popups \cup Returns \subseteq Overlays
  BY DEF Overlays, Popups, Returns
<1>3. ASSUME NEW m \in Returning PROVE <<m>> # <<"picker">> /\ <<m>> # <<"capabilities">>
  <2>1. m # "picker" /\ m # "capabilities" /\ <<m>>[1] = m
    BY <1>1
  <2>2. <<"picker">>[1] = "picker" /\ <<"capabilities">>[1] = "capabilities"
    OBVIOUS
  <2> QED  BY <2>1, <2>2
<1>4. {<<"picker">>, <<"capabilities">>} \cap Returns = {}
  BY <1>3 DEF Returns
<1>5. {<<"help">>, <<"capabilities">>} \subseteq Popups
  BY <1>1 DEF Popups
<1> QED  BY <1>2, <1>4, <1>5

LEMMA ClosedSteps ==
    ASSUME NEW a, Settled(a), NEW b, Closed(a, b)
    PROVE  Steps(a, b)
BY SameKeeps DEF Closed, Steps, Quiet, HasKeys

LEMMA BesideUnder ==
    ASSUME NEW a, Settled(a), NEW b, Settled(b), Beside(a, b), FrontPage(a.pages) \notin Overlays
    PROVE  Over(a, b)
BY SameKeeps DEF Beside, Over

---------------------------------------------------------------------------
(* The sidebar *)

LEMMA FirstShownFacts ==
    ASSUME NEW shown \in SUBSET Kind
    PROVE  FirstShown(shown) \in shown \cup {NoKind} /\ (shown # {} => FirstShown(shown) \in shown)
<1>1. CASE shown = {}
  BY <1>1 DEF FirstShown
<1>2. CASE shown # {}
  <2> DEFINE S == { i \in 1 .. Len(KindOrder) : KindOrder[i] \in shown }
             Test(i) == KindOrder[i] \in shown /\ \A j \in 1 .. (i - 1) : KindOrder[j] \notin shown
             at == CHOOSE i \in DOMAIN KindOrder : Test(i)
  <2>1. KindOrder \in Seq(Kind) /\ DOMAIN KindOrder = 1 .. Len(KindOrder) /\ Len(KindOrder) \in Nat
    BY TuiParameters
  <2>2. S \in SUBSET Nat /\ S # {}
    BY <1>2, <2>1 DEF Kind, Range
  <2> HIDE DEF S
  <2>3. PICK i \in S : \A j \in S : i <= j
    BY <2>2, FirstPosition
  <2>4. i \in DOMAIN KindOrder /\ Test(i)
    BY <2>1, <2>3 DEF S
  <2>5. FirstShown(shown) = KindOrder[at]
    BY <1>2 DEF FirstShown
  <2> HIDE DEF Test
  <2>6. Test(at)
    BY <2>4
  <2> HIDE DEF at
  <2> QED  BY <2>5, <2>6 DEF Test
<1> QED  BY <1>1, <1>2

LEMMA PopulatedFacts ==
    ASSUME NEW a, Settled(a), NEW shown \in SUBSET Kind
    PROVE  LET r == Populated(a, shown) IN
           /\ Settled(r) /\ Beside(a, r) /\ r.focus = a.focus
           /\ r.sidebar.visible = TRUE /\ r.sidebar.shown = shown
<1> DEFINE b == [visible |-> TRUE, shown |-> shown, cursor |-> FirstShown(shown)]
           m == [a EXCEPT !.sidebar = b]
<1>1. /\ b \in Sidebar /\ b.cursor \in b.shown \cup {NoKind}
      /\ b.visible = TRUE /\ b.shown = shown
  BY FirstShownFacts DEF Sidebar
<1>2. Populated(a, shown) = SyncSidebar(m)
  BY DEF Populated
<1> HIDE DEF b
<1>3. Settled(m) /\ Beside(a, m) /\ m.sidebar = b /\ m.focus = a.focus
  BY <1>1, SidebarFacts
<1> HIDE DEF m
<1>4. /\ Settled(SyncSidebar(m)) /\ Beside(m, SyncSidebar(m)) /\ SyncSidebar(m).focus = m.focus
      /\ SyncSidebar(m).sidebar.visible = m.sidebar.visible
      /\ SyncSidebar(m).sidebar.shown = m.sidebar.shown
  BY <1>3, SyncSidebarFacts
<1> QED  BY <1>1, <1>2, <1>3, <1>4 DEF Beside

LEMMA ShowSidebarFacts ==
    ASSUME NEW a, Settled(a)
    PROVE  LET r == ShowSidebar(a) IN Settled(r) /\ Beside(a, r) /\ r.sidebar.visible = TRUE
<1> DEFINE m == Populated(a, Kind)
           r == [m EXCEPT !.focus = "input"]
<1>1. Settled(m) /\ Beside(a, m) /\ m.sidebar.visible = TRUE
  BY PopulatedFacts
<1> HIDE DEF m
<1>2. Settled(r) /\ Beside(m, r) /\ r.sidebar = m.sidebar
  BY <1>1, FocusFacts
<1>3. ShowSidebar(a) = r
  BY DEF ShowSidebar, m
<1> QED  BY <1>1, <1>2, <1>3 DEF Beside

LEMMA HideSidebarFacts ==
    ASSUME NEW a, Settled(a)
    PROVE  LET r == HideSidebar(a) IN Settled(r) /\ Beside(a, r) /\ r.sidebar.visible = FALSE
<1> DEFINE c == IF Top(a).name \in DOMAIN a.instances THEN "body" ELSE a.focus
           r == [a EXCEPT !.sidebar = NoSidebar, !.focus = c]
<1>1. HideSidebar(a) = r
  BY DEF HideSidebar
<1>2. a \in AppRecord /\ c \in {"body", "overlay", "input", "list"} /\ a.kindState \in [Kind -> Filter]
  BY AppFields DEF Settled, Sound
<1>3. /\ NoSidebar \in Sidebar /\ NoSidebar.visible = FALSE
      /\ NoSidebar.cursor \in NoSidebar.shown \cup {NoKind}
  BY DEF NoSidebar, Sidebar
<1>4. r = [a EXCEPT !.sidebar = NoSidebar, !.focus = c]
  OBVIOUS
<1> HIDE DEF c, r
<1>5. r = [stack |-> a.stack, pages |-> a.pages, instances |-> a.instances,
           kindState |-> a.kindState, sidebar |-> NoSidebar, focus |-> c]
  BY <1>2, <1>4 DEF AppRecord
<1>6. Settled(r)
  BY <1>2, <1>3, <1>5, NavigationAlone
<1> QED  BY <1>1, <1>3, <1>5, <1>6 DEF Beside

\* What a list or an input of the sidebar may do: nothing to the pages, or a new front page.
LEMMA PreviewedSteps ==
    ASSUME NEW a, Settled(a), NEW k \in Kind, k \in a.sidebar.shown
    PROVE  Steps(a, Previewed(a, k))
<1> DEFINE m == [a EXCEPT !.sidebar.cursor = k]
           b == ReplaceTopKind(m, k)
           r == [b EXCEPT !.focus = "input"]
<1>1. Settled(m) /\ Beside(a, m) /\ m.focus = a.focus
  BY CursorFacts
<1>2. Previewed(a, k) = m \/ Previewed(a, k) = r
  BY DEF Previewed
<1> HIDE DEF m
<1>3. Replaced(m, b, k)
  BY <1>1, ReplaceTopKindFacts
<1> HIDE DEF b
<1>4. Over(m, b) /\ Settled(b)
  BY <1>1, <1>3, ReplacedOver DEF Replaced
<1>5. Settled(r) /\ Beside(b, r)
  BY <1>4, FocusFacts
<1>6. Over(a, r)
  BY <1>1, <1>4, <1>5, BesideOver, OverBeside
<1> QED  BY <1>1, <1>2, <1>6, BesideSteps, OverSteps

LEMMA RefilteredSteps ==
    ASSUME NEW a, Settled(a), NEW shown \in SUBSET Kind, NEW blank
    PROVE  Steps(a, Refiltered(a, shown, blank))
<1> DEFINE first == FirstShown(shown)
           l == Populated(a, shown)
           m == [l EXCEPT !.sidebar.cursor = first]
           b == ReplaceTopKind(m, first)
           r == [b EXCEPT !.focus = "input"]
<1>1. Settled(l) /\ Beside(a, l) /\ l.focus = a.focus /\ l.sidebar.shown = shown
  BY PopulatedFacts
<1>2. \/ Refiltered(a, shown, blank) = l
      \/ shown # {} /\ Refiltered(a, shown, blank) \in {m, r}
  BY DEF Refiltered
<1>3. shown # {} => first \in shown /\ first \in Kind
  BY FirstShownFacts
<1> HIDE DEF l, first
<1>4. CASE Refiltered(a, shown, blank) = l
  BY <1>1, <1>4, BesideSteps
<1>5. CASE shown # {} /\ Refiltered(a, shown, blank) \in {m, r}
  <2>1. Settled(m) /\ Beside(l, m) /\ m.focus = l.focus
    BY <1>1, <1>3, <1>5, CursorFacts
  <2> HIDE DEF m
  <2>2. Beside(a, m) /\ m.focus = a.focus
    BY <1>1, <2>1 DEF Beside
  <2>3. Replaced(m, b, first)
    BY <1>3, <1>5, <2>1, ReplaceTopKindFacts
  <2> HIDE DEF b
  <2>4. Over(m, b) /\ Settled(b)
    BY <2>1, <2>3, ReplacedOver DEF Replaced
  <2>5. Settled(r) /\ Beside(b, r)
    BY <2>4, FocusFacts
  <2>6. Over(a, r)
    BY <2>2, <2>4, <2>5, BesideOver, OverBeside
  <2> QED  BY <1>5, <2>1, <2>2, <2>6, BesideSteps, OverSteps
<1> QED  BY <1>2, <1>4, <1>5

---------------------------------------------------------------------------
(* The steps of the specification *)

LEMMA AppIs ==
    /\ App.stack = stack /\ App.pages = pages /\ App.instances = instances
    /\ App.kindState = kindState /\ App.sidebar = sidebar /\ App.focus = focus
BY DEF App

LEMMA BecomesIs ==
    ASSUME NEW r, r \in AppRecord, Becomes(r)
    PROVE  App' = r
<1>1. App' = [stack |-> r.stack, pages |-> r.pages, instances |-> r.instances,
              kindState |-> r.kindState, sidebar |-> r.sidebar, focus |-> r.focus]
  BY DEF Becomes, App
<1> QED  BY <1>1, AppFields

LEMMA BecomesSteps ==
    ASSUME NEW r, Steps(App, r), Becomes(r)
    PROVE  Steps(App, App')
BY BecomesIs DEF Steps, Settled, Sound

\* A widget's own query or selection.
LEMMA WidgetSteps ==
    ASSUME Settled(App), NEW n \in DOMAIN instances, NEW w \in Widget,
           instances' = [instances EXCEPT ![n] = w],
           UNCHANGED <<stack, pages, kindState, sidebar, focus>>
    PROVE  Steps(App, App')
<1> DEFINE f == [instances EXCEPT ![n] = w]
           r == [stack |-> stack, pages |-> pages, instances |-> f, kindState |-> kindState,
                 sidebar |-> sidebar, focus |-> focus]
<1>1. App' = r
  BY DEF App
<1>2. /\ stack \in Seq(Entry) /\ pages \in Seq(Page) /\ kindState \in [Kind -> Filter]
      /\ sidebar \in Sidebar /\ focus \in {"body", "overlay", "input", "list"}
      /\ instances \in [DOMAIN instances -> Widget] /\ DOMAIN instances \subseteq Names
  BY AppFields, AppIs DEF Settled, Sound
<1>3. f \in [DOMAIN f -> Widget] /\ DOMAIN f = DOMAIN instances
  BY <1>2
<1> HIDE DEF f
<1>4. r \in AppRecord
  BY <1>2, <1>3, RecordIsApp
<1>5. Settled(r)
  BY <1>3, <1>4, AppIs DEF Settled, Sound, Top
<1>6. Keeps(App, r)
  BY <1>5, SameKeeps, AppIs
<1> QED  BY <1>1, <1>5, <1>6, AppIs DEF Steps, Quiet, HasKeys

LEMMA PushSteps ==
    ASSUME Settled(App), NEW k \in Kind
    PROVE  /\ \A id \in Id \cup {NoId} : Steps(App, PushBrowser(App, k, id))
           /\ Steps(App, PushBrowserList(App, k)) /\ Steps(App, PushMasterDetail(App, k))
<1>1. \A b : Pushed(App, b, k) => Steps(App, b)
  BY PushedOver, OverSteps DEF Settled
<1> QED  BY <1>1, PushBrowserFacts, PushBrowserListFacts, PushMasterDetailFacts DEF Settled

LEMMA GlobalFacts ==
    ASSUME Settled(App), Global
    PROVE  FrontPage(pages) \notin Overlays
<1>1. \A i \in DOMAIN stack : stack[i].name \in Names
  <2>1. stack \in Seq(Entry)
    BY AppFields, AppIs DEF Settled, Sound
  <2>2. \A i \in DOMAIN stack : stack[i] \in Entry
    BY <2>1
  <2> QED  BY <2>2 DEF Entry
<1>2. FrontPage(pages) = NoPage \/ \E i \in DOMAIN stack : FrontPage(pages) = stack[i].name
  BY AppIs DEF Global, frontIsModal, Range
<1> QED  BY <1>1, <1>2, Disjoint, PageParameters

\* A page of kind k pushed where an overlay has just closed.
LEMMA ChosenSteps ==
    ASSUME Settled(App), NEW m, Closed(App, m), NEW k \in Kind
    PROVE  Steps(App, PushBrowser(m, k, NoId))
<1>1. Sound(m) /\ Pushed(m, PushBrowser(m, k, NoId), k)
  BY PushBrowserFacts DEF Closed, Settled
<1> QED  BY <1>1, PushedOver, OverSteps DEF Closed

\* Out of the master-detail page, and the page of its kind opened again.
LEMMA ExitSteps ==
    ASSUME Settled(App), NEW k \in Kind
    PROVE  Steps(App, PushBrowser(PopPage(App), k, NoId))
<1>1. CASE Len(stack) <= 1
  <2>1. PopPage(App) = App
    BY <1>1, AppIs DEF PopPage
  <2> QED  BY <2>1, PushSteps
<1>2. CASE ~(Len(stack) <= 1)
  <2> DEFINE p == PopPage(App)
             b == PushBrowser(p, k, NoId)
  <2>0. Len(App.stack) > 1
    BY <1>2, TopFacts, AppIs
  <2>1. /\ Settled(p) /\ p.stack = Front(App.stack)
        /\ NamesIn(p.pages) = NamesIn(App.pages) \ {Top(App).name} /\ p.sidebar = App.sidebar
    BY <2>0, PopPageFacts
  <2> HIDE DEF p
  <2>2. Pushed(p, b, k)
    BY <2>1, PushBrowserFacts DEF Settled
  <2> HIDE DEF b
  <2>3. Replaced(App, b, k)
    BY <2>1, <2>2 DEF Pushed, Opened, Replaced
  <2> QED  BY <2>3, ReplacedOver, OverSteps DEF b, p
<1> QED  BY <1>1, <1>2

LEMMA BodyFacts ==
    ASSUME Settled(App), NEW n \in DOMAIN instances
    PROVE  /\ instances[n] \in Widget /\ instances[n].kind \in Kind
           /\ PaneKinds(instances[n]) \subseteq Kind
<1>1. instances[n] \in Widget
  BY AppFields, AppIs DEF Settled, Sound
<1>2. \A e \in Edge : e.to \in Kind
  BY TuiParameters
<1> QED  BY <1>1, <1>2 DEF PaneKinds, Widget

\* ToggleTheme's rebuilt App, with the sidebar put up again where there was one.
Rethemed(a) ==
    LET rebuilt == ReplaceTopKind(a, CurrentKind(a))
    IN  IF a.sidebar.visible THEN ShowSidebar(HideSidebar(rebuilt)) ELSE rebuilt

LEMMA RethemedFacts ==
    ASSUME NEW a, Settled(a)
    PROVE  LET r == Rethemed(a)
               b == ReplaceTopKind(a, CurrentKind(a))
           IN  /\ Over(a, r) /\ Beside(b, r) /\ Replaced(a, b, Top(a).kind)
               /\ r.sidebar.visible = a.sidebar.visible
<1> DEFINE k == CurrentKind(a)
           b == ReplaceTopKind(a, k)
           h == HideSidebar(b)
           s == ShowSidebar(h)
<1>1. k \in Kind /\ k = Top(a).kind /\ a.sidebar.visible \in BOOLEAN
  BY TopFacts, AppFields DEF Settled, Sound, Sidebar
<1>2. Rethemed(a) = IF a.sidebar.visible THEN s ELSE b
  BY DEF Rethemed
<1> HIDE DEF k
<1>3. Replaced(a, b, k)
  BY <1>1, ReplaceTopKindFacts
<1>4. b = ReplaceTopKind(a, CurrentKind(a))
  BY DEF k
<1> HIDE DEF b
<1>5. Over(a, b) /\ Settled(b) /\ b.sidebar.visible = a.sidebar.visible
  BY <1>3, ReplacedOver DEF Replaced
<1>6. Settled(h) /\ Beside(b, h)
  BY <1>5, HideSidebarFacts
<1> HIDE DEF h
<1>7. Settled(s) /\ Beside(h, s) /\ s.sidebar.visible = TRUE
  BY <1>6, ShowSidebarFacts
<1> HIDE DEF s
<1>8. Beside(b, s) /\ Beside(b, b)
  BY <1>6, <1>7 DEF Beside
<1>9. Over(a, s)
  BY <1>5, <1>7, <1>8, OverBeside
<1>10. CASE a.sidebar.visible
  <2>1. s.sidebar.visible = a.sidebar.visible
    BY <1>1, <1>7, <1>10
  <2> QED  BY <1>1, <1>2, <1>3, <1>4, <1>8, <1>9, <1>10, <2>1
<1>11. CASE ~a.sidebar.visible
  BY <1>1, <1>2, <1>3, <1>4, <1>5, <1>8, <1>11
<1> QED  BY <1>10, <1>11

\* A key does what the properties say, whichever it is.
LEMMA StepFacts ==
    ASSUME Settled(App), Next
    PROVE  Steps(App, App')
<1>1. CASE FollowEdge
  <2>1. PICK n \in DOMAIN instances : \E e \in { d \in Edge : d.from \in PaneKinds(instances[n]) } :
           IF e.up THEN \E id \in Id : Becomes(PushBrowser(App, e.to, id))
           ELSE Becomes(PushBrowserList(App, e.to))
    BY <1>1 DEF FollowEdge
  <2>2. PICK e \in Edge : \/ \E id \in Id : Becomes(PushBrowser(App, e.to, id))
                          \/ Becomes(PushBrowserList(App, e.to))
    BY <2>1
  <2>3. e.to \in Kind
    BY TuiParameters
  <2> QED  BY <2>2, <2>3, PushSteps, BecomesSteps
<1>2. CASE OpenMasterDetail
  <2>1. PICK n \in DOMAIN instances :
           \E k \in PaneKinds(instances[n]) \cap MasterKind : Becomes(PushMasterDetail(App, k))
    BY <1>2 DEF OpenMasterDetail
  <2>2. PICK k \in Kind : Becomes(PushMasterDetail(App, k))
    BY <2>1, BodyFacts
  <2> QED  BY <2>2, PushSteps, BecomesSteps
<1>3. CASE ExitMasterDetail
  <2>1. PICK n \in DOMAIN instances : Becomes(PushBrowser(PopPage(App), instances[n].kind, NoId))
    BY <1>3 DEF ExitMasterDetail
  <2> QED  BY <2>1, BodyFacts, ExitSteps, BecomesSteps
<1>4. CASE ToggleView
  <2>1. PICK n \in DOMAIN instances : \E k \in PaneKinds(instances[n]) :
           Becomes(SwapView(App, k, IF instances[n].mode = "list" THEN "table" ELSE "list"))
    BY <1>4 DEF ToggleView
  <2>2. PICK k \in Kind, mode \in {"list", "table", "md"} : Becomes(SwapView(App, k, mode))
    BY <2>1, BodyFacts
  <2>3. Replaced(App, SwapView(App, k, mode), k)
    BY SwapViewFacts
  <2> QED  BY <2>2, <2>3, ReplacedOver, OverSteps, BecomesSteps
<1>5. CASE Narrow
  <2>1. PICK n \in DOMAIN instances, f \in Filter :
           /\ instances' = [instances EXCEPT ![n].flt = f]
           /\ UNCHANGED <<stack, pages, kindState, sidebar, focus>>
    BY <1>5 DEF Narrow
  <2> DEFINE w == [instances[n] EXCEPT !.flt = f]
  <2>2. w \in Widget
    BY BodyFacts DEF Widget
  <2>3. instances' = [instances EXCEPT ![n] = w]
    BY <2>1
  <2> HIDE DEF w
  <2> QED  BY <2>1, <2>2, <2>3, WidgetSteps
<1>6. CASE MarkRow
  <2>1. PICK n \in DOMAIN instances :
           /\ instances' = [instances EXCEPT ![n].sel = ~@]
           /\ UNCHANGED <<stack, pages, kindState, sidebar, focus>>
    BY <1>6 DEF MarkRow
  <2> DEFINE s == ~instances[n].sel
             w == [instances[n] EXCEPT !.sel = s]
  <2>2. s \in BOOLEAN
    OBVIOUS
  <2>3. instances' = [instances EXCEPT ![n] = w]
    BY <2>1
  <2> HIDE DEF s
  <2>4. w \in Widget
    BY <2>2, BodyFacts DEF Widget
  <2> HIDE DEF w
  <2> QED  BY <2>1, <2>3, <2>4, WidgetSteps
<1>7. CASE ToggleTheme
  <2>1. Becomes(Rethemed(App))
    BY <1>7, AppIs DEF ToggleTheme, Rethemed
  <2> QED  BY <2>1, RethemedFacts, OverSteps, BecomesSteps
<1>8. CASE OpenOverlay
  BY <1>8, OpenModalFacts, ClosedSteps, BecomesSteps DEF OpenOverlay
<1>9. CASE CloseOverlay
  <2>1. PICK n \in Overlays : InModal(n) /\ Becomes(CloseModal(App, n))
    BY <1>9 DEF CloseOverlay
  <2>2. CASE n = <<"picker">>
    BY <2>1, <2>2, ClosePickerFacts, ClosedSteps, BecomesSteps DEF CloseModal
  <2>3. CASE n # <<"picker">> /\ n \in Returns
    BY <2>1, <2>3, CloseReturningSteps, BecomesSteps, AppIs DEF CloseModal, InModal
  <2>4. CASE n # <<"picker">> /\ n \notin Returns
    BY <2>1, <2>4, ClosePopupFacts, ClosedSteps, BecomesSteps DEF CloseModal
  <2> QED  BY <2>2, <2>3, <2>4
<1>10. CASE ChooseKind
  <2>1. PICK n \in {<<"picker">>, <<"capabilities">>}, k \in Kind :
           Becomes(PushBrowser(CloseModal(App, n), k, NoId))
    BY <1>10 DEF ChooseKind
  <2>2. n \in Overlays /\ n \notin Returns
    BY ModalKinds
  <2>3. Closed(App, CloseModal(App, n))
    BY <2>2, ClosePickerFacts, ClosePopupFacts DEF CloseModal
  <2> QED  BY <2>1, <2>3, ChosenSteps, BecomesSteps
<1>11. CASE CtrlB
  <2>1. sidebar.visible \in BOOLEAN
    BY AppFields, AppIs DEF Settled, Sound, Sidebar
  <2>2. CASE sidebar.visible
    BY <1>11, <2>1, <2>2, HideSidebarFacts, BesideSteps, BecomesSteps, AppIs DEF CtrlB
  <2>3. CASE ~sidebar.visible
    BY <1>11, <2>1, <2>3, ShowSidebarFacts, BesideSteps, BecomesSteps, AppIs DEF CtrlB
  <2> QED  BY <2>2, <2>3
<1>12. CASE Esc
  <2> DEFINE n == Top(App).name
  <2>1. CASE n \in DOMAIN instances /\ instances[n].sel
    <3> DEFINE w == [instances[n] EXCEPT !.sel = FALSE]
    <3>1. /\ instances' = [instances EXCEPT ![n] = w]
          /\ UNCHANGED <<stack, pages, kindState, sidebar, focus>>
      BY <1>12, <2>1 DEF Esc
    <3>2. w \in Widget
      BY ZenonT(30), <2>1, BodyFacts DEF Widget
    <3> HIDE DEF w, n
    <3> QED  BY <2>1, <3>1, <3>2, WidgetSteps
  <2>2. CASE ~(n \in DOMAIN instances /\ instances[n].sel)
    BY <1>12, <2>2, PoppedOver, OverSteps, BecomesSteps, AppIs DEF Esc
  <2> QED  BY <2>1, <2>2
<1>13. CASE Backslash
  <2>1. FrontPage(App.pages) \notin Overlays
    BY <1>13, GlobalFacts, AppIs DEF Backslash
  <2>2. CASE Becomes([App EXCEPT !.focus = "input"])
    BY <2>1, <2>2, FocusFacts, BesideUnder, OverSteps, BecomesSteps
  <2>3. CASE Becomes(ShowSidebar(App))
    BY <2>1, <2>3, ShowSidebarFacts, BesideUnder, OverSteps, BecomesSteps
  <2> QED  BY <1>13, <2>2, <2>3 DEF Backslash
<1>14. CASE Help
  BY <1>14, ModalKinds, OpenModalFacts, ClosedSteps, BecomesSteps DEF Help
<1>15. CASE MoveCursor
  <2>1. PICK k \in sidebar.shown : Becomes(Previewed(App, k))
    BY <1>15 DEF MoveCursor
  <2>2. k \in Kind
    BY AppFields, AppIs DEF Settled, Sound, Sidebar
  <2> QED  BY <2>1, <2>2, PreviewedSteps, BecomesSteps, AppIs
<1>16. CASE TypeQuery
  BY <1>16, RefilteredSteps, BecomesSteps DEF TypeQuery
<1>17. CASE LeaveSidebar
  <2>1. Becomes(HideSidebar(App)) /\ App.sidebar.visible /\ App.sidebar.visible \in BOOLEAN
    BY <1>17, AppFields, AppIs DEF LeaveSidebar, InSidebar, Settled, Sound, Sidebar
  <2> QED  BY <2>1, HideSidebarFacts, BesideSteps, BecomesSteps
<1>18. CASE Tab \/ FocusBody
  <2>1. PICK c \in {"body", "list", "input"} :
           /\ focus' = c /\ UNCHANGED <<stack, pages, instances, kindState, sidebar>>
    BY <1>18 DEF Tab, FocusBody
  <2> DEFINE r == [App EXCEPT !.focus = c]
  <2>2. App' = r
    BY <2>1 DEF App
  <2>3. c \in {"body", "overlay", "input", "list"}
    OBVIOUS
  <2>4. Settled(r) /\ Beside(App, r)
    BY <2>3, FocusFacts
  <2>5. focus # "overlay"
    BY <1>18 DEF Tab, FocusBody, InSidebar
  <2>6. Quiet(App, r)
    BY <2>4, <2>5, AppIs DEF Beside, Quiet, HasKeys
  <2> HIDE DEF r
  <2>7. Keeps(App, r)
    BY <2>4, SameKeeps DEF Beside
  <2> QED  BY <2>2, <2>4, <2>6, <2>7 DEF Steps
<1>19. CASE OpenFromPopup
  <2>1. PICK n \in Popups, o \in Overlays :
           \/ Becomes(OpenModal(App, o))
           \/ Becomes(OpenModal(ClosePopup(App, n), o))
    BY <1>19, ModalKinds DEF OpenFromPopup
  <2>2. Closed(App, ClosePopup(App, n))
    BY ModalKinds, ClosePopupFacts
  <2>3. Closed(App, OpenModal(App, o)) /\ Closed(App, OpenModal(ClosePopup(App, n), o))
    BY <2>2, OpenModalFacts, ClosedTwice DEF Closed
  <2> QED  BY <2>1, <2>3, ClosedSteps, BecomesSteps
<1> QED
  BY <1>1, <1>2, <1>3, <1>4, <1>5, <1>6, <1>7, <1>8, <1>9, <1>10, <1>11, <1>12, <1>13, <1>14, <1>15,
     <1>16, <1>17, <1>18, <1>19 DEF Next

---------------------------------------------------------------------------
(* The properties, for every set of kinds, edges and filters *)

Inv == Settled(App)

LEMMA BlankSound == Sound(Blank)
<1> DEFINE f == [n \in {} |-> NoFilter]
           ks == [k \in Kind |-> NoFilter]
<1>1. /\ <<>> \in Seq(Entry) /\ <<>> \in Seq(Page)
      /\ f \in [DOMAIN f -> Widget] /\ DOMAIN f = {} /\ DOMAIN f \subseteq Names
  OBVIOUS
<1>2. ks \in [Kind -> Filter]
  BY TuiParameters
<1>3. NoSidebar \in Sidebar /\ NoSidebar.cursor \in NoSidebar.shown \cup {NoKind}
  BY DEF NoSidebar, Sidebar
<1>4. Blank = [stack |-> <<>>, pages |-> <<>>, instances |-> f, kindState |-> ks,
               sidebar |-> NoSidebar, focus |-> "body"]
  BY DEF Blank
<1> HIDE DEF f, ks
<1>5. "body" \in {"body", "overlay", "input", "list"}
  OBVIOUS
<1>6. [stack |-> <<>>, pages |-> <<>>, instances |-> f, kindState |-> ks,
       sidebar |-> NoSidebar, focus |-> "body"] \in AppRecord
  BY <1>1, <1>2, <1>3, <1>5, RecordIsApp
<1>7. Unique(<<>>) /\ NamesIn(<<>>) = {}
  BY DEF Unique, NamesIn, Range
<1> QED  BY <1>1, <1>3, <1>4, <1>6, <1>7 DEF Sound

LEMMA FrontFacts ==
    ASSUME NEW s \in Seq(Entry), s # <<>>
    PROVE  Front(s) \in Seq(Entry) /\ Len(Front(s)) = Len(s) - 1
<1>1. Len(s) \in Nat \ {0}
  OBVIOUS
<1>2. Front(s) \in Seq(Entry)
  BY <1>1 DEF Front
<1>3. DOMAIN Front(s) = 1 .. (Len(s) - 1)
  BY <1>1 DEF Front
<1>4. DOMAIN Front(s) = 1 .. Len(Front(s)) /\ Len(Front(s)) \in Nat
  BY <1>2
<1>5. \A m, n \in Nat : 1 .. m = 1 .. n => m = n
  OBVIOUS
<1> QED  BY <1>1, <1>2, <1>3, <1>4, <1>5

LEMMA InitInv == Init => Inv
<1> SUFFICES ASSUME Init PROVE Inv
  OBVIOUS
<1>1. PICK k \in Kind : App = PushBrowser(Blank, k, NoId)
  <2>1. PICK k \in Kind : LET a == PushBrowser(Blank, k, NoId) IN
           /\ stack = a.stack /\ pages = a.pages /\ instances = a.instances
           /\ kindState = a.kindState /\ sidebar = a.sidebar /\ focus = a.focus
    BY DEF Init
  <2>2. Sound(Blank)
    BY BlankSound
  <2>3. PushBrowser(Blank, k, NoId) \in AppRecord
    BY <2>2, PushBrowserFacts DEF Pushed, Settled, Sound
  <2>4. App = PushBrowser(Blank, k, NoId)
    BY <2>1, <2>3, AppFields DEF App
  <2> QED  BY <2>2, <2>4
<1>2. Sound(Blank)
  BY BlankSound
<1> QED  BY <1>1, <1>2, PushBrowserFacts DEF Inv, Pushed

LEMMA StepInv == Inv /\ [Next]_vars => Inv'
<1>1. ASSUME Inv, Next PROVE Inv'
  BY <1>1, StepFacts DEF Inv, Steps
<1>2. ASSUME Inv, UNCHANGED vars PROVE Inv'
  <2>1. App' = App
    BY <1>2 DEF App, vars
  <2> QED  BY <1>2, <2>1 DEF Inv
<1> QED  BY <1>1, <1>2

LEMMA InvAgrees == Inv => PagesAgree
<1> SUFFICES ASSUME Inv PROVE PagesAgree
  OBVIOUS
<1>1. /\ stack \in Seq(Entry) /\ stack # <<>> /\ pages \in Seq(Page)
      /\ instances \in [DOMAIN instances -> Widget] /\ DOMAIN instances \subseteq Names
      /\ kindState \in [Kind -> Filter] /\ sidebar \in Sidebar
      /\ sidebar.cursor \in sidebar.shown \cup {NoKind}
      /\ focus \in {"body", "overlay", "input", "list"}
  BY AppFields, AppIs DEF Inv, Settled, Sound
<1>2. PageNames = NamesIn(pages) /\ StackNames = NamesIn(stack)
  BY DEF PageNames, StackNames, NamesIn
<1>3. TypeOK
  <2>1. \A n \in DOMAIN instances : instances[n] \in Widget
    BY <1>1
  <2> QED  BY <1>1, <2>1 DEF TypeOK, Entry, Page, Widget, Sidebar
<1>4. InstancesMirrorPages
  BY <1>2, AppIs DEF Inv, Settled, Sound, InstancesMirrorPages
<1>5. ScreenFollowsStack
  BY <1>1, <1>2, AppIs, FrontPageFacts DEF Inv, Settled, ScreenFollowsStack
<1> QED  BY <1>3, <1>4, <1>5 DEF PagesAgree

\* The back-stack, tview's registry, the widgets and the screen agree after every
\* sequence of keys, whatever kinds and edges are registered and however deep the
\* stack (pushBrowser, popPage, replaceTopKind, closePicker and the modals).
THEOREM PagesAlwaysAgree == Spec => []PagesAgree
<1>1. Inv => PagesAgree
  BY InvAgrees
<1>2. Inv /\ [Next]_vars => Inv'
  BY StepInv
<1> QED  BY <1>1, <1>2, InitInv, PTL DEF Spec

\* No key takes down the page of an ancestor, unless it takes down a namesake of it
\* in front (RemovePage goes by name).
THEOREM LostOnlyByNamesakeAlways == Spec => LostOnlyByNamesake
<1> DEFINE A == \A i \in DOMAIN stack :
                   /\ i \in DOMAIN stack' /\ stack'[i] = stack[i]
                   /\ stack[i].name \in PageNames /\ stack[i].name \notin PageNames'
                   => i < Len(stack) /\ stack[i].name = Top(App).name
<1>1. Inv /\ [Next]_vars => [A]_vars
  <2> SUFFICES ASSUME Inv, Next PROVE A
    OBVIOUS
  <2>1. Keeps(App, App')
    BY StepFacts DEF Inv, Steps
  <2>2. /\ NamesIn(pages) \subseteq NamesIn(pages') \cup Overlays \cup {Top(App).name}
        /\ Len(stack) \in DOMAIN stack' /\ Top(App).name \in NamesIn(pages)
           => stack'[Len(stack)].name \in NamesIn(pages')
    BY <2>1 DEF Keeps, App
  <2>3. PageNames = NamesIn(pages) /\ PageNames' = NamesIn(pages')
    BY DEF PageNames, NamesIn
  <2>4. /\ DOMAIN stack = 1 .. Len(stack) /\ Len(stack) \in Nat
        /\ \A i \in DOMAIN stack : stack[i].name \in Names
    <3>1. stack \in Seq(Entry)
      BY AppFields, AppIs DEF Inv, Settled, Sound
    <3>2. \A i \in DOMAIN stack : stack[i] \in Entry
      BY <3>1
    <3> QED  BY <3>1, <3>2 DEF Entry
  <2>5. Top(App).name = stack[Len(stack)].name
    BY AppIs DEF Top, Last
  <2>6. ASSUME NEW i \in DOMAIN stack, i \in DOMAIN stack', stack'[i] = stack[i],
               stack[i].name \in PageNames, stack[i].name \notin PageNames'
        PROVE  i < Len(stack) /\ stack[i].name = Top(App).name
    <3>1. stack[i].name = Top(App).name
      BY <2>2, <2>3, <2>4, <2>6, Disjoint
    <3>2. i # Len(stack)
      BY <2>2, <2>3, <2>6, <3>1
    <3> QED  BY <2>4, <3>1, <3>2
  <2> QED  BY <2>6
<1>2. Inv /\ [Next]_vars => Inv'
  BY StepInv
<1> QED  BY <1>1, <1>2, InitInv, PTL DEF Spec, LostOnlyByNamesake

\* A modal in front that has the keyboard loses it to Ctrl-B's sidebar alone, or to
\* the page as a filter or a preview over it closes (handleGlobalKey, frontIsModal).
THEOREM OverlayKeepsKeys == Spec => OverlayLosesKeysToSidebar
<1>1. Inv /\ [Next]_vars => [OverlayHasKeys /\ ~OverlayHasKeys'
                                   => sidebar'.visible # sidebar.visible \/ UncoversModal]_vars
  <2> SUFFICES ASSUME Inv, Next, OverlayHasKeys, ~OverlayHasKeys'
               PROVE  sidebar'.visible # sidebar.visible \/ UncoversModal
    OBVIOUS
  <2>1. Quiet(App, App')
    BY StepFacts DEF Inv, Steps
  <2>2. Uncovers(App, App') => UncoversModal
    BY DEF Uncovers, UncoversModal, InModal, App
  <2>3. HasKeys(App) /\ ~HasKeys(App')
    BY DEF HasKeys, OverlayHasKeys, App
  <2> QED  BY <2>1, <2>2, <2>3 DEF Quiet, App
<1>2. Inv /\ [Next]_vars => Inv'
  BY StepInv
<1> QED  BY <1>1, <1>2, InitInv, PTL DEF Spec, OverlayLosesKeysToSidebar

\* A switch of the theme rebuilds the page in front and leaves depth, ancestors, kind,
\* query and sidebar as they are (toggleTheme, replaceTopKind, showSidebar).
THEOREM ThemeAlwaysKeepsQuery == Spec => ThemeKeepsQuery
<1> DEFINE A == ToggleTheme /\ Top(App).name \in DOMAIN instances
                => /\ Len(stack') = Len(stack) /\ Front(stack') = Front(stack)
                   /\ Last(stack').kind = Top(App).kind
                   /\ instances'[Last(stack').name].flt = instances[Top(App).name].flt
                   /\ sidebar'.visible = sidebar.visible
<1>1. Inv => A
  <2> SUFFICES ASSUME Inv, ToggleTheme, Top(App).name \in DOMAIN instances
               PROVE  /\ Len(stack') = Len(stack) /\ Front(stack') = Front(stack)
                      /\ Last(stack').kind = Top(App).kind
                      /\ instances'[Last(stack').name].flt = instances[Top(App).name].flt
                      /\ sidebar'.visible = sidebar.visible
    OBVIOUS
  <2> DEFINE k == CurrentKind(App)
             b == ReplaceTopKind(App, k)
             r == Rethemed(App)
  <2>1. Becomes(r)
    BY AppIs DEF ToggleTheme, Rethemed
  <2>2. /\ Over(App, r) /\ Beside(b, r) /\ Replaced(App, b, Top(App).kind)
        /\ r.sidebar.visible = sidebar.visible
    BY RethemedFacts, AppIs DEF Inv
  <2>3. k \in Kind /\ k = Top(App).kind
    BY TopFacts DEF Inv
  <2>4. b.instances[Top(b).name].flt = instances[Top(App).name].flt
    BY <2>3, ReplaceTopKindFacts, AppIs DEF Inv
  <2> HIDE DEF k, b, r
  <2>5. stack' = b.stack /\ instances' = b.instances /\ sidebar'.visible = sidebar.visible
    BY <2>1, <2>2 DEF Becomes, Beside
  <2>6. PICK n \in Names : b.stack = Append(Front(stack), [name |-> n, kind |-> Top(App).kind])
    BY <2>2, AppIs DEF Replaced
  <2>7. stack \in Seq(Entry) /\ Len(stack) \in Nat \ {0}
    BY TopFacts, AppFields, AppIs DEF Inv, Settled, Sound
  <2> DEFINE f == Front(stack)
             e == [name |-> n, kind |-> Top(App).kind]
  <2>8. f \in Seq(Entry) /\ Len(f) = Len(stack) - 1
    BY <2>7, FrontFacts
  <2>9. e \in Entry
    BY TopFacts DEF Inv, Entry
  <2> HIDE DEF f
  <2>10. stack' = Append(f, e)
    BY <2>5, <2>6 DEF f
  <2> HIDE DEF e
  <2>11. /\ Len(stack') = Len(stack) /\ Last(stack') = e
    BY <2>7, <2>8, <2>9, <2>10 DEF Last
  <2>12. Front(stack') = f
    BY <2>8, <2>9, <2>10 DEF Front
  <2>13. Top(b) = Last(stack')
    BY <2>5 DEF Top
  <2> QED  BY <2>4, <2>5, <2>11, <2>12, <2>13 DEF e, f
<1>2. Inv /\ [Next]_vars => [A]_vars
  BY <1>1
<1>3. Inv /\ [Next]_vars => Inv'
  BY StepInv
<1> QED  BY <1>2, <1>3, InitInv, PTL DEF Spec, ThemeKeepsQuery
=============================================================================
