---------------------------- MODULE TuiView_proofs ----------------------------
(***************************************************************************)
(* What one page of enttui shows and exports, for any number of rows,      *)
(* filters, page sizes and other clients.                                  *)
(***************************************************************************)
EXTENDS TuiView, FiniteSetTheorems, WellFoundedInduction, NaturalsInduction, TLAPS

---------------------------------------------------------------------------
(* A set of rows in the order of a query.                                  *)

\* Of a set of numbers one is the first.
LEMMA FirstPosition ==
    ASSUME NEW S \in SUBSET Nat, S # {}
    PROVE  \E i \in S : \A j \in S : i <= j
<1> DEFINE R == OpToRel(<, Nat)
<1>0. IsWellFoundedOn(R, Nat)
  BY NatLessThanWellFounded
<1> HIDE DEF R
<1>1. PICK i \in S : \A j \in S : ~(<<j, i>> \in R)
  BY <1>0, WFMin, S \subseteq Nat
<1>2. ASSUME NEW j \in S PROVE i <= j
  <2>1. ~(j < i)
    BY <1>1 DEF R, OpToRel
  <2> QED  BY <2>1
<1> QED  BY <1>2

\* Rows are finitely many.
LEMMA RowsFinite ==
    ASSUME NEW S \in SUBSET Row
    PROVE  IsFiniteSet(S) /\ Cardinality(S) \in 0 .. MaxRow
<1>1. IsFiniteSet(Row) /\ Cardinality(Row) = MaxRow /\ MaxRow \in Nat
  <2>1. 1 \in Int /\ MaxRow \in Int /\ MaxRow \in Nat \ {0}
    BY TuiViewParameters
  <2>2. IsFiniteSet(1 .. MaxRow) /\ Cardinality(1 .. MaxRow) = IF 1 > MaxRow THEN 0 ELSE MaxRow - 1 + 1
    BY <2>1, FS_Interval
  <2> QED  BY <2>1, <2>2 DEF Row
<1>2. IsFiniteSet(S) /\ Cardinality(S) <= Cardinality(Row)
  BY <1>1, FS_Subset
<1> QED  BY <1>1, <1>2, FS_CardinalityType

\* How many rows of S stand before r.
Rank(desc, r, S) == Cardinality(Ahead(desc, r, S))

LEMMA RankInRange ==
    ASSUME NEW S \in SUBSET Row, NEW desc \in BOOLEAN, NEW r \in S
    PROVE  Rank(desc, r, S) \in 0 .. (Cardinality(S) - 1)
<1> DEFINE A == Ahead(desc, r, S)
<1>1. r \notin A /\ A \in SUBSET S
  BY DEF Ahead, Row
<1>2. IsFiniteSet(S) /\ Cardinality(S) \in Nat /\ IsFiniteSet(A) /\ Cardinality(A) \in Nat
  BY <1>1, RowsFinite
<1>3. Cardinality(A) <= Cardinality(S) /\ (Cardinality(S) = Cardinality(A) => S = A)
  BY <1>1, <1>2, FS_Subset
<1> QED  BY <1>1, <1>2, <1>3 DEF Rank

\* Of two rows the one ahead has the lower rank.
LEMMA AheadRanksLower ==
    ASSUME NEW S \in SUBSET Row, NEW desc \in BOOLEAN, NEW r \in S, NEW s \in S,
           r \in Ahead(desc, s, S)
    PROVE  Rank(desc, r, S) < Rank(desc, s, S)
<1> DEFINE A == Ahead(desc, r, S)
           B == Ahead(desc, s, S)
<1>1. A \in SUBSET B /\ B \in SUBSET S
  <2>1. \A x \in S : x \in Int
    BY DEF Row
  <2>2. CASE desc
    BY <2>1, <2>2 DEF Ahead
  <2>3. CASE ~desc
    BY <2>1, <2>3 DEF Ahead
  <2> QED  BY <2>2, <2>3
<1>2. r \in B /\ r \notin A
  BY DEF Ahead, Row
<1>3. IsFiniteSet(B) /\ Cardinality(B) \in Nat /\ Cardinality(A) \in Nat
  BY <1>1, RowsFinite
<1>4. Cardinality(A) <= Cardinality(B) /\ (Cardinality(B) = Cardinality(A) => B = A)
  BY <1>1, <1>3, FS_Subset
<1> QED  BY <1>2, <1>3, <1>4 DEF Rank

LEMMA RanksDiffer ==
    ASSUME NEW S \in SUBSET Row, NEW desc \in BOOLEAN, NEW r \in S, NEW s \in S,
           Rank(desc, r, S) = Rank(desc, s, S)
    PROVE  r = s
<1>1. SUFFICES ASSUME r # s PROVE FALSE
  OBVIOUS
<1>2. Rank(desc, r, S) \in Int /\ Rank(desc, s, S) \in Int
  BY RankInRange
<1>3. CASE r \in Ahead(desc, s, S)
  BY <1>2, <1>3, AheadRanksLower
<1>4. CASE s \in Ahead(desc, r, S)
  BY <1>2, <1>4, AheadRanksLower
<1> QED  BY <1>1, <1>3, <1>4 DEF Ahead, Row

\* Each rank below the number of rows is some row's.
LEMMA RanksFilled ==
    ASSUME NEW S \in SUBSET Row, NEW desc \in BOOLEAN, NEW k \in 0 .. (Cardinality(S) - 1)
    PROVE  \E r \in S : Rank(desc, r, S) = k
<1> DEFINE n == Cardinality(S)
           T == 0 .. (n - 1)
           f == [r \in S |-> Rank(desc, r, S)]
<1>1. IsFiniteSet(S) /\ n \in Nat
  BY RowsFinite
<1>2. IsFiniteSet(T) /\ Cardinality(T) = n
  <2>1. 0 \in Int /\ n - 1 \in Int
    BY <1>1
  <2>2. IsFiniteSet(T) /\ Cardinality(T) = IF 0 > n - 1 THEN 0 ELSE (n - 1) - 0 + 1
    BY <2>1, FS_Interval
  <2> QED  BY <1>1, <2>2
<1>3. f \in [S -> T]
  BY RankInRange
<1>4. f \in Injection(S, T)
  BY <1>3, RanksDiffer DEF Injection, IsInjective
<1>5. f \in Surjection(S, T)
  BY <1>1, <1>2, <1>4, FS_Injection
<1>6. PICK r \in S : f[r] = k
  BY <1>5 DEF Surjection
<1> QED  BY <1>6

\* The ordered set: each row once, and no other.
LEMMA InOrderIs ==
    ASSUME NEW S \in SUBSET Row, NEW desc \in BOOLEAN, NEW s, s = InOrder(desc, S)
    PROVE  /\ s \in Seq(S) /\ Len(s) = Cardinality(S)
           /\ IsInjective(s) /\ Range(s) = S
<1> DEFINE n == Cardinality(S)
<1>1. n \in Nat
  BY RowsFinite
<1>2. s = [i \in 1 .. n |-> CHOOSE r \in S : Rank(desc, r, S) = i - 1]
  BY DEF InOrder, Rank
<1>3. ASSUME NEW i \in 1 .. n
      PROVE  s[i] \in S /\ Rank(desc, s[i], S) = i - 1
  <2>1. i - 1 \in 0 .. (n - 1)
    BY <1>1
  <2>2. \E r \in S : Rank(desc, r, S) = i - 1
    BY <2>1, RanksFilled
  <2> QED  BY <1>2, <2>2
<1>4. s \in [1 .. n -> S] /\ DOMAIN s = 1 .. n
  BY <1>2, <1>3
<1>5. s \in Seq(S) /\ Len(s) = n
  BY <1>1, <1>4
<1>6. IsInjective(s)
  BY <1>1, <1>3, <1>4 DEF IsInjective
<1>7. ASSUME NEW r \in S PROVE r \in Range(s)
  <2>1. Rank(desc, r, S) \in 0 .. (n - 1)
    BY RankInRange
  <2> DEFINE i == Rank(desc, r, S) + 1
  <2>2. i \in 1 .. n /\ i - 1 = Rank(desc, r, S)
    BY <1>1, <2>1
  <2>3. s[i] = r
    BY <1>3, <2>2, RanksDiffer
  <2> QED  BY <1>4, <2>2, <2>3 DEF Range
<1> QED  BY <1>4, <1>5, <1>6, <1>7, <1>3 DEF Range

---------------------------------------------------------------------------
(* What a fetch answers.                                                   *)

\* The query of a page, its position and its restriction.
SameQuery(v, w) ==
    /\ w.flt = v.flt /\ w.cond = v.cond /\ w.stk = v.stk
    /\ w.page = v.page /\ w.size = v.size /\ w.ids = v.ids

Sound(v) == v \in Views /\ NoRowTwice(v.rows)

\* The page as a fetch leaves it: failed, or with what its query answers on d.
Shown(w, d) == w.err \/ (w.rows = Answer(w, d) /\ w.read = d)

LEMMA SameAnswer ==
    ASSUME NEW v, NEW w, SameQuery(v, w), NEW d
    PROVE  Query(w) = Query(v) /\ Answer(w, d) = Answer(v, d)
BY DEF SameQuery, Query, Answer, Restricted

LEMMA Sizes ==
    ASSUME NEW v \in Views
    PROVE  v.size \in Nat \ {0} /\ v.page \in Nat /\ v.page * v.size \in Nat
<1>1. PageSizes \in Seq(Nat \ {0}) /\ PageSize \in Nat \ {0}
  BY TuiViewParameters
<1>2. \A i \in DOMAIN PageSizes : PageSizes[i] \in Nat \ {0}
  BY <1>1
<1>3. v.size \in Range(PageSizes) \cup {PageSize} /\ v.page \in Nat
  BY DEF Views
<1>4. v.size \in Nat \ {0}
  BY <1>1, <1>2, <1>3 DEF Range
<1> QED  BY <1>3, <1>4

LEMMA MatchesAreRows ==
    ASSUME NEW q, NEW d \in SUBSET Row
    PROVE  /\ Matches(q, d) \in SUBSET Row /\ Matches(q, d) \subseteq d
           /\ Cardinality(Matches(q, d)) \in 0 .. MaxRow
<1>1. Matches(q, d) \in SUBSET Row /\ Matches(q, d) \subseteq d
  BY DEF Matches
<1> QED  BY <1>1, RowsFinite

\* A page of the matching rows; it is empty from the end of them on.
LEMMA FetchedIs ==
    ASSUME NEW q, NEW d \in SUBSET Row, NEW offset \in Nat, NEW limit \in Nat \ {0},
           NEW p, p = Fetched(q, d, offset, limit)
    PROVE  /\ p \in Seq(Row) /\ IsInjective(p) /\ Range(p) \subseteq d
           /\ Len(p) <= Cardinality(Matches(q, d))
           /\ p = <<>> <=> Cardinality(Matches(q, d)) <= offset
<1> DEFINE S == Matches(q, d)
           n == Cardinality(S)
           s == InOrder(q.stk = "desc", S)
           end == IF offset + limit < n THEN offset + limit ELSE n
<1>1. S \in SUBSET Row /\ S \subseteq d /\ n \in Nat
  BY MatchesAreRows
<1>2. (q.stk = "desc") \in BOOLEAN
  OBVIOUS
<1>3. s \in Seq(S) /\ Len(s) = n /\ IsInjective(s)
  BY <1>1, <1>2, InOrderIs
<1>4. end \in Nat /\ end <= n /\ (end <= offset <=> n <= offset)
  BY <1>1
<1>5. p = [i \in 1 .. (end - offset) |-> s[offset + i]]
  BY DEF Fetched
<1> HIDE DEF s, end
<1>6. \A i \in 1 .. (end - offset) : offset + i \in 1 .. n
  BY <1>1, <1>4
<1>7. DOMAIN s = 1 .. n /\ \A i \in 1 .. n : s[i] \in Row /\ s[i] \in d
  BY <1>1, <1>3
<1>8. /\ p \in [1 .. (end - offset) -> Row] /\ DOMAIN p = 1 .. (end - offset)
      /\ \A i \in 1 .. (end - offset) : p[i] \in d
  BY <1>5, <1>6, <1>7
<1>9. IsInjective(p)
  <2> SUFFICES ASSUME NEW i \in DOMAIN p, NEW j \in DOMAIN p, p[i] = p[j]
               PROVE  i = j
    BY DEF IsInjective
  <2>1. s[offset + i] = s[offset + j] /\ offset + i \in DOMAIN s /\ offset + j \in DOMAIN s
    BY <1>5, <1>6, <1>7, <1>8
  <2>2. offset + i = offset + j
    BY <1>3, <2>1 DEF IsInjective
  <2> QED  BY <1>4, <1>8, <2>2
<1>10. CASE end <= offset
  <2>1. 1 .. (end - offset) = {}
    BY <1>4, <1>10
  <2>2. p = <<>>
    BY <1>5, <2>1
  <2> QED  BY <1>1, <1>4, <1>9, <1>10, <2>2 DEF Range
<1>11. CASE ~(end <= offset)
  <2>1. end - offset \in Nat \ {0} /\ end - offset <= n
    BY <1>1, <1>4, <1>11
  <2>2. p \in Seq(Row) /\ Len(p) = end - offset
    BY <1>8, <2>1
  <2>3. p # <<>>
    BY <2>1, <2>2
  <2>4. Range(p) \in SUBSET d
    BY <1>8 DEF Range
  <2> QED  BY <1>1, <1>4, <1>9, <1>11, <2>1, <2>2, <2>3, <2>4
<1> QED  BY <1>10, <1>11

LEMMA DatabasesAreRows ==
    ASSUME NEW d \in Databases
    PROVE  d \in SUBSET Row /\ \A r, s \in d : Id[r] = Id[s] => r = s
BY DEF Databases

\* An answer is of rows of its database; it is empty where the page starts past
\* the end of the matching rows.
LEMMA AnswerIs ==
    ASSUME NEW v \in Views, NEW d \in SUBSET Row
    PROVE  /\ Answer(v, d) \in Seq(Row) /\ IsInjective(Answer(v, d))
           /\ Range(Answer(v, d)) \in SUBSET d /\ Len(Answer(v, d)) \in 0 .. MaxRow
           /\ v.ids = NoIds =>
                 (Answer(v, d) = <<>> <=> Cardinality(Matches(Query(v), d)) <= v.page * v.size)
<1> DEFINE q == Query(v)
           p == Fetched(q, d, v.page * v.size, v.size)
           n == Cardinality(Matches(q, d))
<1>1. v.page * v.size \in Nat /\ v.size \in Nat \ {0}
  BY Sizes
<1>2. /\ p \in Seq(Row) /\ IsInjective(p) /\ Range(p) \in SUBSET d /\ Len(p) <= n
      /\ p = <<>> <=> n <= v.page * v.size
  <2> DEFINE offset == v.page * v.size
             limit == v.size
  <2>1. offset \in Nat /\ limit \in Nat \ {0}
    BY <1>1
  <2>2. p = Fetched(q, d, offset, limit)
    OBVIOUS
  <2> HIDE DEF offset, limit, q, p
  <2>3. /\ p \in Seq(Row) /\ IsInjective(p) /\ Range(p) \subseteq d
        /\ Len(p) <= n /\ (p = <<>> <=> n <= offset)
    BY Zenon, <2>1, <2>2, FetchedIs
  <2> QED  BY <2>3 DEF offset
<1>3. n \in 0 .. MaxRow
  BY MatchesAreRows
<1>4. Answer(v, d) = Restricted(v, p)
  BY DEF Answer
<1> HIDE DEF p
<1>5. CASE v.ids = NoIds
  <2>1. Answer(v, d) = p
    BY <1>4, <1>5 DEF Restricted
  <2>2. Len(p) \in 0 .. MaxRow
    <3>1. Len(p) \in Nat /\ MaxRow \in Nat
      BY <1>2, TuiViewParameters
    <3> HIDE DEF n
    <3> QED  BY <1>2, <1>3, <3>1
  <2> QED  BY <1>2, <2>1, <2>2
<1>6. CASE v.ids # NoIds
  <2> DEFINE S == { r \in Range(p) : Id[r] \in v.ids }
             desc == v.stk = "desc"
  <2>1. S \in SUBSET Row /\ S \in SUBSET d /\ desc \in BOOLEAN
    BY <1>2
  <2>2. Answer(v, d) = InOrder(desc, S)
    BY <1>4, <1>6 DEF Restricted
  <2> HIDE DEF S, desc
  <2>3. /\ Answer(v, d) \in Seq(S) /\ Len(Answer(v, d)) = Cardinality(S)
        /\ IsInjective(Answer(v, d)) /\ Range(Answer(v, d)) = S
    BY <2>1, <2>2, InOrderIs
  <2>4. Cardinality(S) \in 0 .. MaxRow
    BY <2>1, RowsFinite
  <2>5. Answer(v, d) \in Seq(Row)
    BY <2>1, <2>3
  <2> QED  BY <1>6, <2>1, <2>3, <2>4, <2>5
<1> QED  BY <1>5, <1>6

\* One statement sees one version of a row.
LEMMA AnswerHasNoRowTwice ==
    ASSUME NEW v \in Views, NEW d \in Databases
    PROVE  NoRowTwice(Answer(v, d))
<1> DEFINE a == Answer(v, d)
<1>1. /\ d \in SUBSET Row /\ \A r, s \in d : Id[r] = Id[s] => r = s
  BY DatabasesAreRows
<1>2. IsInjective(a) /\ Range(a) \in SUBSET d
  BY <1>1, AnswerIs
<1> HIDE DEF a
<1>3. \A i \in DOMAIN a : a[i] \in d
  BY <1>2 DEF Range
<1>4. \A i, j \in DOMAIN a : Id[a[i]] = Id[a[j]] => i = j
  BY <1>1, <1>2, <1>3 DEF IsInjective
<1> QED  BY <1>4 DEF NoRowTwice, a

LEMMA TotalIs ==
    ASSUME NEW v \in Views, NEW c \in SUBSET Row, NEW d \in SUBSET Row
    PROVE  /\ Total(v, c, Answer(v, d)) \in 0 .. MaxRow
           /\ v.ids = NoIds => Total(v, c, Answer(v, d)) = Cardinality(Matches(Query(v), c))
BY AnswerIs, MatchesAreRows DEF Total

---------------------------------------------------------------------------
(* The views' methods, one lemma for each.                                 *)

\* refresh: a fetch that succeeds brings what the query answers as All reads it,
\* whatever Count saw; one that fails leaves the rows and says so.
LEMMA FetchesIs ==
    ASSUME NEW v, Sound(v), NEW d \in Databases, NEW x \in Fetches(v, d)
    PROVE  /\ Sound(x[1]) /\ SameQuery(v, x[1]) /\ x[1].mode = v.mode /\ x[1].sel = v.sel
           /\ x[2] \in Databases /\ Shown(x[1], x[2])
<1>1. v \in Views /\ d \in SUBSET Row
  BY DatabasesAreRows DEF Sound
<1>2. CASE x = <<Failed(v), d>>
  <2> DEFINE c == IF v.mode = "list" THEN 1 ELSE v.cursor
             w == x[1]
  <2>1. c \in Nat
    BY <1>1 DEF Views
  <2>2. w = [v EXCEPT !.err = TRUE, !.cursor = c] /\ x[2] = d
    BY <1>2 DEF Failed
  <2> HIDE DEF c, w
  <2>3. /\ w \in Views /\ SameQuery(v, w) /\ w.mode = v.mode /\ w.sel = v.sel
        /\ w.err /\ w.rows = v.rows
    BY <1>1, <2>1, <2>2 DEF Views, SameQuery
  <2> QED  BY <2>2, <2>3 DEF Sound, Shown, w
<1>3. CASE \E e \in Databases : x = <<Refreshed(v, d, e), e>>
  <2>1. PICK e \in Databases : x = <<Refreshed(v, d, e), e>>
    BY <1>3
  <2> DEFINE rows == Answer(v, e)
             total == Total(v, d, rows)
             c == Moved(v, Len(rows))
             w == x[1]
  <2>2. e \in SUBSET Row
    BY DatabasesAreRows
  <2>3. /\ rows \in Seq(Row) /\ Len(rows) \in Nat /\ NoRowTwice(rows) /\ total \in 0 .. MaxRow
    <3>1. rows \in Seq(Row) /\ Len(rows) \in 0 .. MaxRow
      BY <1>1, <2>2, AnswerIs
    <3>2. NoRowTwice(rows)
      BY <1>1, AnswerHasNoRowTwice
    <3>3. total \in 0 .. MaxRow
      BY <1>1, <2>2, TotalIs
    <3> QED  BY <3>1, <3>2, <3>3
  <2>4. c \in Nat
    <3> HIDE DEF rows
    <3>1. v.cursor \in Nat /\ Len(rows) \in Nat
      BY <1>1, <2>3 DEF Views
    <3> QED  BY <3>1 DEF Moved
  <2>5. /\ w = [v EXCEPT !.rows = rows, !.read = e, !.total = total, !.cursor = c, !.err = FALSE]
        /\ x[2] = e
    BY <2>1 DEF Refreshed
  <2> HIDE DEF rows, total, c, w
  <2>6. /\ w \in Views /\ SameQuery(v, w) /\ w.mode = v.mode /\ w.sel = v.sel
        /\ w.rows = rows /\ w.read = e
    BY ZenonT(30), <1>1, <2>3, <2>4, <2>5 DEF Views, SameQuery
  <2>7. Answer(w, e) = rows
    BY <2>6, SameAnswer DEF rows
  <2> QED  BY <2>3, <2>5, <2>6, <2>7 DEF Sound, Shown, w
<1> QED  BY <1>2, <1>3 DEF Fetches

\* Two pages that differ in cursor and selection only.
SameScreen(v, w) ==
    SameQuery(v, w) /\ w.mode = v.mode /\ w.rows = v.rows /\ w.read = v.read

LEMMA CursorRowIs ==
    ASSUME NEW v \in Views
    PROVE  /\ Range(v.rows) \in SUBSET Row
           /\ { Id[r] : r \in Range(v.rows) } \in SUBSET Range(Id)
           /\ CursorRow(v) \in { Id[r] : r \in Range(v.rows) } \cup {NoRow}
           /\ CursorRow(v) # NoRow =>
                 v.cursor \in DOMAIN v.rows /\ CursorRow(v) = Id[v.rows[v.cursor]]
<1>1. v.rows \in Seq(Row)
  BY DEF Views
<1>2. \A i \in DOMAIN v.rows : v.rows[i] \in Row
  BY <1>1
<1>3. Range(v.rows) \in SUBSET Row
  BY <1>2 DEF Range
<1>4. { Id[r] : r \in Range(v.rows) } \in SUBSET Range(Id)
  BY <1>3, TuiViewParameters DEF Range
<1> QED  BY <1>3, <1>4 DEF CursorRow, Range

\* A page has a row of this id.
Holds(v, id) == \E i \in DOMAIN v.rows : Id[v.rows[i]] = id

\* focusID
LEMMA FocusedIs ==
    ASSUME NEW v, Sound(v), NEW id, NEW w, w = Focused(v, id)
    PROVE  /\ Sound(w) /\ SameScreen(v, w) /\ w.sel = v.sel /\ w.err = v.err
           /\ Holds(v, id) => CursorRow(w) = id
<1>1. v \in Views /\ v.rows \in Seq(Row)
  BY DEF Sound, Views
<1>2. CASE ~Holds(v, id)
  <2>1. w = v
    BY <1>2 DEF Focused, Holds
  <2> QED  BY <1>2, <2>1 DEF SameScreen, SameQuery
<1>3. CASE Holds(v, id)
  <2> DEFINE i == CHOOSE i \in DOMAIN v.rows : Id[v.rows[i]] = id
  <2>1. i \in DOMAIN v.rows /\ Id[v.rows[i]] = id
    BY <1>3 DEF Holds
  <2>2. w = [v EXCEPT !.cursor = i]
    BY <1>3 DEF Focused, Holds
  <2> HIDE DEF i
  <2>3. i \in Nat
    <3>1. DOMAIN v.rows = 1 .. Len(v.rows) /\ Len(v.rows) \in Nat
      BY <1>1
    <3> QED  BY <2>1, <3>1
  <2>4. /\ w \in Views /\ SameScreen(v, w) /\ w.sel = v.sel /\ w.err = v.err
        /\ w.cursor = i /\ w.rows = v.rows
    BY <1>1, <2>2, <2>3 DEF Views, SameScreen, SameQuery
  <2>5. CursorRow(w) = id
    BY <2>1, <2>4 DEF CursorRow
  <2> QED  BY <2>4, <2>5 DEF Sound
<1> QED  BY <1>2, <1>3

\* A new page has no restriction, selection or narrowing.
LEMMA BlankIs ==
    ASSUME NEW mode \in {"list", "table"}
    PROVE  Sound(Blank(mode)) /\ Blank(mode).mode = mode /\ Blank(mode).ids = NoIds
<1> DEFINE c == IF mode = "list" THEN 1 ELSE 0
           b == Blank(mode)
<1>1. c \in Nat /\ 0 \in 0 .. MaxRow
  BY TuiViewParameters
<1>2. b = [mode |-> mode, flt |-> FALSE, cond |-> FALSE, stk |-> "none", page |-> 0,
           size |-> PageSize, ids |-> NoIds, rows |-> <<>>, total |-> 0,
           cursor |-> c, err |-> FALSE, sel |-> {}, read |-> {}]
  BY DEF Blank
<1> HIDE DEF c, b
<1>3. b \in Views /\ b.mode = mode /\ b.ids = NoIds /\ b.rows = <<>>
  BY <1>1, <1>2 DEF Views
<1> QED  BY <1>3 DEF Sound, NoRowTwice, b

LEMMA OpenedIs ==
    ASSUME NEW mode \in {"list", "table"}, NEW d \in Databases, NEW x \in Opened(mode, d)
    PROVE  Sound(x[1]) /\ x[1].mode = mode /\ x[1].ids = NoIds /\ x[2] \in Databases
BY BlankIs, FetchesIs DEF Opened, SameQuery

\* A page drilled into: opened, then restricted and fetched once more.
LEMMA DrilledIs ==
    ASSUME NEW ids \in Drills, NEW d \in Databases, NEW x \in Drilled(ids, d)
    PROVE  Sound(x[1]) /\ x[2] \in Databases
<1>1. CASE ids = {}
  BY <1>1, OpenedIs DEF Drilled
<1>2. CASE ids # {}
  <2>1. PICK y \in Opened("list", d) : x \in Fetches([y[1] EXCEPT !.ids = ids], y[2])
    BY <1>2 DEF Drilled
  <2> DEFINE a == [y[1] EXCEPT !.ids = ids]
  <2>2. Sound(y[1]) /\ y[2] \in Databases /\ ids \in SUBSET Range(Id)
    BY <2>1, OpenedIs, TuiViewParameters
  <2>3. a \in Views /\ a.rows = y[1].rows
    BY <2>2 DEF Sound, Views
  <2> HIDE DEF a
  <2>4. Sound(a)
    BY <2>2, <2>3 DEF Sound
  <2> QED  BY <2>1, <2>2, <2>4, FetchesIs DEF a
<1> QED  BY <1>1, <1>2

\* applyState on a page just opened: query, position and row of the old page.
LEMMA AppliedIs ==
    ASSUME NEW v, Sound(v), NEW old, Sound(old), NEW d \in Databases, NEW x \in Applied(v, old, d)
    PROVE  /\ Sound(x[1]) /\ x[1].mode = v.mode /\ x[1].ids = v.ids
           /\ x[1].flt = old.flt /\ x[1].cond = old.cond /\ x[1].stk = old.stk
           /\ x[1].page = old.page /\ x[1].size = old.size
           /\ x[2] \in Databases /\ Shown(x[1], x[2])
           /\ Holds(x[1], CursorRow(old)) => CursorRow(x[1]) = CursorRow(old)
<1> DEFINE a == [v EXCEPT !.flt = old.flt, !.cond = old.cond, !.stk = old.stk,
                          !.page = old.page, !.size = old.size]
<1>1. PICK y \in Fetches(a, d) : x = <<Focused(y[1], CursorRow(old)), y[2]>>
  BY DEF Applied
<1>2. v \in Views /\ old \in Views
  BY DEF Sound
<1>3. /\ a \in Views /\ a.mode = v.mode /\ a.ids = v.ids /\ a.rows = v.rows
      /\ a.flt = old.flt /\ a.cond = old.cond /\ a.stk = old.stk
      /\ a.page = old.page /\ a.size = old.size
  BY <1>2 DEF Views
<1> HIDE DEF a
<1>4. Sound(a)
  BY <1>3 DEF Sound
<1> DEFINE b == y[1]
           w == x[1]
<1>5. /\ Sound(b) /\ SameQuery(a, b) /\ b.mode = a.mode
      /\ y[2] \in Databases /\ Shown(b, y[2])
  BY <1>1, <1>4, FetchesIs
<1>6. w = Focused(b, CursorRow(old)) /\ x[2] = y[2]
  BY <1>1
<1> HIDE DEF b, w
<1>7. /\ Sound(w) /\ SameScreen(b, w) /\ w.err = b.err
      /\ Holds(b, CursorRow(old)) => CursorRow(w) = CursorRow(old)
  BY <1>5, <1>6, FocusedIs
<1>8. /\ w.rows = b.rows /\ w.read = b.read /\ w.mode = b.mode /\ SameQuery(b, w)
  BY <1>7 DEF SameScreen
<1>9. Shown(w, x[2])
  BY <1>5, <1>6, <1>7, <1>8, SameAnswer DEF Shown
<1>10. Holds(w, CursorRow(old)) => CursorRow(w) = CursorRow(old)
  BY <1>7, <1>8 DEF Holds
<1> QED  BY <1>3, <1>5, <1>6, <1>7, <1>8, <1>9, <1>10 DEF SameQuery, w

LEMMA ToggledIs ==
    ASSUME NEW old, Sound(old), NEW d \in Databases, NEW x \in Toggled(old, d)
    PROVE  /\ Sound(x[1]) /\ x[1].ids = NoIds
           /\ x[1].flt = old.flt /\ x[1].cond = old.cond /\ x[1].stk = old.stk
           /\ x[1].page = old.page /\ x[1].size = old.size
           /\ x[2] \in Databases /\ Shown(x[1], x[2])
           /\ Holds(x[1], CursorRow(old)) => CursorRow(x[1]) = CursorRow(old)
<1> DEFINE mode == IF old.mode = "list" THEN "table" ELSE "list"
<1>1. mode \in {"list", "table"}
  OBVIOUS
<1>2. PICK y \in Opened(mode, d) : x \in Applied(y[1], old, y[2])
  BY DEF Toggled
<1>3. Sound(y[1]) /\ y[1].ids = NoIds /\ y[2] \in Databases
  BY <1>1, <1>2, OpenedIs
<1> QED  BY <1>2, <1>3, AppliedIs

\* refreshDisplayOnly
LEMMA RedrawsIs ==
    ASSUME NEW v, Sound(v), NEW d \in Databases, NEW x \in Redraws(v, d)
    PROVE  /\ Sound(x[1]) /\ SameQuery(v, x[1]) /\ x[1].mode = v.mode /\ x[2] \in Databases
           /\ \/ v.mode = "list" /\ SameScreen(v, x[1]) /\ ~x[1].err /\ x[2] = d
              \/ Shown(x[1], x[2])
<1>1. CASE v.mode # "list"
  <2>1. x \in Fetches(v, d)
    BY <1>1 DEF Redraws
  <2> QED  BY <2>1, FetchesIs
<1>2. CASE v.mode = "list"
  <2> DEFINE c == IF v.cursor \in DOMAIN v.rows THEN v.cursor ELSE 1
             w == x[1]
  <2>1. v \in Views
    BY DEF Sound
  <2>2. c \in Nat
    BY <2>1 DEF Views
  <2>3. w = [v EXCEPT !.err = FALSE, !.cursor = c] /\ x[2] = d
    BY <1>2 DEF Redraws
  <2> HIDE DEF c, w
  <2>4. w \in Views /\ SameScreen(v, w) /\ w.err = FALSE
    BY <2>1, <2>2, <2>3 DEF Views, SameScreen, SameQuery
  <2> QED  BY <1>2, <2>3, <2>4 DEF Sound, SameScreen, w
<1> QED  BY <1>1, <1>2

---------------------------------------------------------------------------
(* Keys: what each hands to refresh or to a redraw.                        *)

LEMMA NextSizeIs ==
    ASSUME NEW cur \in Nat, NEW up \in BOOLEAN
    PROVE  nextPageSize(cur, up) \in Range(PageSizes)
<1> DEFINE n == Len(PageSizes)
           atLeast == { i \in DOMAIN PageSizes : PageSizes[i] >= cur }
           at == IF atLeast = {} THEN 1 ELSE Min(atLeast)
           up1 == Min({at + 1, n})
           down1 == Max({at - 1, 1})
<1>1. PageSizes \in Seq(Nat \ {0}) /\ n \in Nat \ {0} /\ DOMAIN PageSizes = 1 .. n
  BY TuiViewParameters
<1>2. at \in 1 .. n
  <2>1. CASE atLeast = {}
    BY <1>1, <2>1
  <2>2. CASE atLeast # {}
    <3>1. atLeast \in SUBSET Nat /\ atLeast \subseteq 1 .. n
      BY <1>1
    <3> HIDE DEF atLeast
    <3>2. \E i \in atLeast : \A j \in atLeast : i <= j
      BY <2>2, <3>1, FirstPosition
    <3>3. Min(atLeast) \in atLeast
      BY <3>2 DEF Min
    <3> QED  BY <2>2, <3>1, <3>3
  <2> QED  BY <2>1, <2>2
<1> HIDE DEF at
<1>3. up1 \in 1 .. n
  <2>1. \E x \in {at + 1, n} : \A y \in {at + 1, n} : x <= y
    BY <1>1, <1>2
  <2>2. up1 \in {at + 1, n} /\ up1 <= n /\ up1 <= at + 1
    BY <2>1 DEF Min
  <2> QED  BY <1>1, <1>2, <2>2
<1>4. down1 \in 1 .. n
  <2>1. \E x \in {at - 1, 1} : \A y \in {at - 1, 1} : x >= y
    BY <1>1, <1>2
  <2>2. down1 \in {at - 1, 1} /\ down1 >= 1 /\ down1 >= at - 1
    BY <2>1 DEF Max
  <2> QED  BY <1>1, <1>2, <2>2
<1>5. nextPageSize(cur, up) = PageSizes[IF up THEN up1 ELSE down1]
  BY DEF nextPageSize, at
<1> HIDE DEF up1, down1
<1> QED  BY <1>1, <1>3, <1>4, <1>5 DEF Range

\* Where a key leaves the page: at the start, no further on under the same
\* narrowing, on a page that the count says is there, or under another text filter.
Within(x) ==
    \/ x.page = 0
    \/ x.flt = view.flt /\ x.cond = view.cond /\ x.size = view.size /\ x.page <= view.page
    \/ x.flt = view.flt /\ x.cond = view.cond /\ x.page * x.size < view.total
    \/ x.flt # view.flt

\* Keys that change the query or the position, and fetch.
Requery ==
    \/ Refresh \/ NextPage \/ PrevPage \/ Resize
    \/ TextFilter \/ Conditions \/ ClearFilters \/ CycleSort \/ SortModal

LEMMA RequeryIs ==
    ASSUME TypeOK, Requery
    PROVE  \E x : /\ Sound(x) /\ RefreshTo(x) /\ Within(x)
                  /\ x.mode = view.mode /\ x.ids = view.ids /\ x.sel = view.sel
<1> DEFINE Goal(x) == /\ Sound(x) /\ Within(x)
                      /\ x.mode = view.mode /\ x.ids = view.ids /\ x.sel = view.sel
<1>1. view \in Views /\ Sound(view)
  BY DEF TypeOK, Sound
<1>2. view.page \in Nat /\ view.size \in Nat \ {0}
  BY <1>1, Sizes
<1>3. SUFFICES \E x : RefreshTo(x) /\ Goal(x)
  OBVIOUS
<1>4. CASE Refresh
  <2>1. Goal(view)
    BY <1>1, <1>2 DEF Within
  <2> QED  BY <1>4, <2>1 DEF Refresh
<1>5. CASE NextPage
  <2> DEFINE x == [view EXCEPT !.page = view.page + 1]
  <2>1. RefreshTo(x) /\ (view.page + 1) * view.size < view.total
    BY <1>5 DEF NextPage
  <2>2. view.page + 1 \in Nat
    BY <1>2
  <2>3. /\ x \in Views /\ x.rows = view.rows
        /\ x.flt = view.flt /\ x.cond = view.cond /\ x.size = view.size /\ x.page = view.page + 1
        /\ x.mode = view.mode /\ x.ids = view.ids /\ x.sel = view.sel
    BY <1>1, <2>2 DEF Views
  <2> HIDE DEF x
  <2>4. Goal(x)
    BY <1>1, <2>1, <2>3 DEF Sound, Within
  <2> QED  BY <2>1, <2>4
<1>6. CASE PrevPage
  <2> DEFINE x == [view EXCEPT !.page = view.page - 1]
  <2>1. RefreshTo(x) /\ view.page > 0
    BY <1>6 DEF PrevPage
  <2>2. view.page - 1 \in Nat /\ view.page - 1 <= view.page
    BY <1>2, <2>1
  <2>3. Goal(x)
    BY <1>1, <2>2 DEF Views, Sound, Within
  <2> QED  BY <2>1, <2>3
<1>7. CASE Resize
  <2>1. PICK up \in BOOLEAN : RefreshTo([view EXCEPT !.size = nextPageSize(view.size, up), !.page = 0])
    BY <1>7 DEF Resize
  <2> DEFINE n == nextPageSize(view.size, up)
             x == [view EXCEPT !.size = n, !.page = 0]
  <2>2. n \in Range(PageSizes)
    BY <1>2, NextSizeIs
  <2> HIDE DEF n
  <2>3. Goal(x)
    BY <1>1, <2>2 DEF Views, Sound, Within
  <2> QED  BY <2>1, <2>3 DEF n
<1>8. CASE TextFilter
  <2>1. PICK f \in BOOLEAN : RefreshTo([view EXCEPT !.flt = f])
    BY <1>8 DEF TextFilter
  <2> DEFINE x == [view EXCEPT !.flt = f]
  <2>2. Goal(x)
    BY <1>1, <1>2 DEF Views, Sound, Within
  <2> QED  BY <2>1, <2>2
<1>9. CASE Conditions
  <2>1. PICK c \in BOOLEAN : RefreshTo([view EXCEPT !.cond = c, !.page = 0])
    BY <1>9 DEF Conditions
  <2> DEFINE x == [view EXCEPT !.cond = c, !.page = 0]
  <2>2. Goal(x)
    BY <1>1 DEF Views, Sound, Within
  <2> QED  BY <2>1, <2>2
<1>10. CASE ClearFilters
  <2> DEFINE x == [view EXCEPT !.flt = FALSE, !.cond = FALSE, !.page = 0]
  <2>1. Goal(x)
    BY <1>1 DEF Views, Sound, Within
  <2> QED  BY <1>10, <2>1 DEF ClearFilters
<1>11. ASSUME NEW s \in {"none", "asc", "desc"}
       PROVE  Goal([view EXCEPT !.stk = s])
  BY <1>1, <1>2 DEF Views, Sound, Within
<1>12. CASE CycleSort
  <2> DEFINE s == CASE view.stk = "none" -> "asc" [] view.stk = "asc" -> "desc" [] view.stk = "desc" -> "none"
  <2>1. s \in {"none", "asc", "desc"}
    BY <1>1 DEF Views
  <2>2. RefreshTo([view EXCEPT !.stk = s])
    BY <1>12 DEF CycleSort
  <2> HIDE DEF s
  <2> QED  BY <1>11, <2>1, <2>2
<1>13. CASE SortModal
  <2>1. PICK s \in {"none", "asc", "desc"} : RefreshTo([view EXCEPT !.stk = s])
    BY <1>13 DEF SortModal
  <2> QED  BY <1>11, <2>1
<1> QED  BY <1>4, <1>5, <1>6, <1>7, <1>8, <1>9, <1>10, <1>12, <1>13 DEF Requery

\* Keys that change the selection, and redraw.
Select == Mark \/ MarkAll \/ MarkRange \/ Unmark

LEMMA SelectIs ==
    ASSUME TypeOK, Select
    PROVE  \E x : Sound(x) /\ RedrawTo(x) /\ SameScreen(view, x) /\ x.err = view.err
<1> DEFINE Ids == { Id[r] : r \in Range(view.rows) }
<1>1. view \in Views /\ Sound(view) /\ view.sel \in SUBSET Range(Id)
  BY DEF TypeOK, Sound, Views
<1>2. Ids \in SUBSET Range(Id) /\ CursorRow(view) \in Ids \cup {NoRow}
  BY <1>1, CursorRowIs
<1>3. ASSUME NEW S \in SUBSET Range(Id), NEW x, x = [view EXCEPT !.sel = S]
      PROVE  Sound(x) /\ SameScreen(view, x) /\ x.err = view.err
  <2>1. x \in Views /\ SameScreen(view, x) /\ x.err = view.err
    BY <1>1, <1>3 DEF Views, SameScreen, SameQuery
  <2> QED  BY <1>1, <2>1 DEF Sound, SameScreen
<1>4. CASE Mark
  <2>1. SymDiff(view.sel, {CursorRow(view)}) \in SUBSET Range(Id)
    BY <1>1, <1>2, <1>4 DEF Mark, SymDiff
  <2>2. RedrawTo([view EXCEPT !.sel = SymDiff(view.sel, {CursorRow(view)})])
    BY <1>4 DEF Mark
  <2> QED  BY <1>3, <2>1, <2>2
<1>5. CASE MarkAll
  <2>1. view.sel \cup Ids \in SUBSET Range(Id)
    BY <1>1, <1>2
  <2>2. RedrawTo([view EXCEPT !.sel = view.sel \cup Ids])
    BY <1>5 DEF MarkAll
  <2> QED  BY <1>3, <2>1, <2>2
<1>6. CASE MarkRange
  <2>1. PICK anchor \in 1 .. MaxRow :
           LET ends == {anchor, view.cursor}
               span == { Id[view.rows[i]] : i \in DOMAIN view.rows \cap (Min(ends)..Max(ends)) }
           IN  RedrawTo([view EXCEPT !.sel = IF span \subseteq @ THEN @ \ span ELSE @ \cup span])
    BY <1>6 DEF MarkRange
  <2> DEFINE ends == {anchor, view.cursor}
             span == { Id[view.rows[i]] : i \in DOMAIN view.rows \cap (Min(ends)..Max(ends)) }
             S == IF span \subseteq view.sel THEN view.sel \ span ELSE view.sel \cup span
  <2>2. span \in SUBSET Ids
    BY DEF Range
  <2>3. RedrawTo([view EXCEPT !.sel = S])
    BY <2>1
  <2> HIDE DEF span
  <2>4. S \in SUBSET Range(Id)
    BY <1>1, <1>2, <2>2
  <2> HIDE DEF S
  <2> QED  BY <1>3, <2>3, <2>4
<1>7. CASE Unmark
  <2>1. RedrawTo([view EXCEPT !.sel = {}])
    BY <1>7 DEF Unmark
  <2> QED  BY <1>3, <2>1
<1> QED  BY <1>4, <1>5, <1>6, <1>7 DEF Select

---------------------------------------------------------------------------
(* Steps.                                                                  *)

\* A key that leaves a sound page, with no dialog over it.
Done == Sound(view') /\ db' \in Databases /\ modal' = NoModal

LEMMA EndOf ==
    ASSUME NEW ends, BecomesOneOf(ends)
    PROVE  Idle /\ modal' = NoModal /\ \E x \in ends : view' = x[1] /\ db' = x[2]
BY DEF BecomesOneOf, Idle

LEMMA RefreshStep ==
    ASSUME TypeOK, NEW v, Sound(v), RefreshTo(v)
    PROVE  Done /\ SameQuery(v, view') /\ view'.mode = v.mode /\ Shown(view', db')
<1>1. db \in Databases
  BY DEF TypeOK
<1>2. modal' = NoModal /\ \E x \in Fetches(v, db) : view' = x[1] /\ db' = x[2]
  BY EndOf DEF RefreshTo
<1> QED  BY <1>1, <1>2, FetchesIs DEF Done

LEMMA RedrawStep ==
    ASSUME TypeOK, NEW v, Sound(v), RedrawTo(v)
    PROVE  /\ Done /\ SameQuery(v, view') /\ view'.mode = v.mode
           /\ \/ v.mode = "list" /\ SameScreen(v, view') /\ ~view'.err /\ db' = db
              \/ Shown(view', db')
<1>1. db \in Databases
  BY DEF TypeOK
<1>2. modal' = NoModal /\ \E x \in Redraws(v, db) : view' = x[1] /\ db' = x[2]
  BY EndOf DEF RedrawTo
<1> QED  BY <1>1, <1>2, RedrawsIs DEF Done

LEMMA CursorStep ==
    ASSUME TypeOK, MoveCursor
    PROVE  Done /\ SameScreen(view, view') /\ view'.err = view.err /\ db' = db
<1>1. Sound(view) /\ view \in Views /\ view.rows \in Seq(Row) /\ db \in Databases
  BY DEF TypeOK, Sound, Views
<1>2. PICK i \in DOMAIN view.rows : BecomesOneOf({<<[view EXCEPT !.cursor = i], db>>})
  BY DEF MoveCursor
<1>3. view' = [view EXCEPT !.cursor = i] /\ db' = db /\ modal' = NoModal
  BY <1>2, EndOf
<1>4. i \in Nat
  <2>1. DOMAIN view.rows = 1 .. Len(view.rows) /\ Len(view.rows) \in Nat
    BY <1>1
  <2> QED  BY <2>1
<1>5. view' \in Views /\ SameScreen(view, view') /\ view'.err = view.err
  BY <1>1, <1>3, <1>4 DEF Views, SameScreen, SameQuery
<1> QED  BY <1>1, <1>3, <1>5 DEF Sound, SameScreen, Done

LEMMA ToggleStep ==
    ASSUME TypeOK, ToggleView
    PROVE  /\ Done /\ view'.ids = NoIds
           /\ view'.flt = view.flt /\ view'.cond = view.cond /\ view'.stk = view.stk
           /\ view'.page = view.page /\ view'.size = view.size
           /\ Shown(view', db')
           /\ Holds(view', CursorRow(view)) => CursorRow(view') = CursorRow(view)
<1>1. db \in Databases /\ Sound(view)
  BY DEF TypeOK, Sound
<1>2. modal' = NoModal /\ \E x \in Toggled(view, db) : view' = x[1] /\ db' = x[2]
  BY EndOf DEF ToggleView
<1> QED  BY <1>1, <1>2, ToggledIs DEF Done

\* The page's own writes, each with the fetch that follows it.
Write == Create \/ Edit \/ Delete

LEMMA WriteStep ==
    ASSUME TypeOK, Write
    PROVE  Done /\ SameQuery(view, view') /\ view'.mode = view.mode /\ Shown(view', db')
<1>1. db \in Databases /\ Sound(view) /\ Volatile \subseteq Row
  BY TuiViewParameters DEF TypeOK, Sound
<1>2. /\ db \in SUBSET Row /\ Row \ Volatile \subseteq db
      /\ \A r, s \in db : Id[r] = Id[s] => r = s
  BY <1>1 DEF Databases
<1>3. ASSUME NEW d \in Databases, NEW x \in Fetches(view, d), view' = x[1], db' = x[2], modal' = NoModal
      PROVE  Done /\ SameQuery(view, view') /\ view'.mode = view.mode /\ Shown(view', db')
  BY <1>1, <1>3, FetchesIs DEF Done
<1>4. CASE Create
  <2>1. PICK r \in Volatile \ db : /\ \A s \in db : Id[s] # Id[r]
                                   /\ BecomesOneOf(Fetches(view, db \cup {r}))
    BY <1>4 DEF Create
  <2>2. db \cup {r} \in Databases
    BY <1>1, <1>2, <2>1 DEF Databases
  <2> QED  BY <1>3, <2>1, <2>2, EndOf
<1>5. CASE Edit
  <2>1. PICK r \in Volatile \cap db, s \in Volatile :
           Id[s] = Id[r] /\ BecomesOneOf(Fetches(view, (db \ {r}) \cup {s}))
    BY <1>5 DEF Edit
  <2>2. (db \ {r}) \cup {s} \in Databases
    BY <1>1, <1>2, <2>1 DEF Databases
  <2> QED  BY <1>3, <2>1, <2>2, EndOf
<1>6. CASE Delete
  <2>1. /\ modal' = NoModal
        /\ \E r \in Volatile \cap db : \E x \in Fetches(view, db \ {r}) : view' = x[1] /\ db' = x[2]
    BY <1>6 DEF Delete
  <2>2. PICK r \in Volatile \cap db : \E x \in Fetches(view, db \ {r}) : view' = x[1] /\ db' = x[2]
    BY <2>1
  <2>3. db \ {r} \in Databases
    BY <1>1, <1>2 DEF Databases
  <2> QED  BY <1>3, <2>1, <2>2, <2>3
<1> QED  BY <1>4, <1>5, <1>6 DEF Write

\* Dialogs and other clients leave the page as it is.
Dialog == AskDelete \/ AskCopy \/ AskExport \/ Cancel \/ PickFormat

LEMMA StillStep ==
    ASSUME TypeOK, Dialog \/ Elsewhere
    PROVE  view' = view /\ (Elsewhere => db' # db) /\ (Dialog => db' = db)
BY DEF Dialog, AskDelete, AskCopy, AskExport, Ask, Cancel, PickFormat, Elsewhere

LEMMA NextIs ==
    ASSUME Next
    PROVE  Requery \/ Select \/ MoveCursor \/ ToggleView \/ Write \/ Dialog \/ Elsewhere
BY DEF Next, Requery, Select, Write, Dialog

---------------------------------------------------------------------------
(* Types, and what a dialog holds.                                         *)

\* What TypeOK says of the dialog over a page.
Modals(v) == [kind: {"none", "delete", "copy", "export", "text"}, rows: SUBSET Row,
              row: { Id[r] : r \in Range(v.rows) } \cup {NoRow}]

DialogOK(v, m) ==
    /\ m \in Modals(v)
    /\ m.kind \in {"copy", "export"} => m.rows = SelectedRows(v)
    /\ m.kind = "copy" => m.rows # {}

LEMMA TypeOKIs == TypeOK <=> db \in Databases /\ Sound(view) /\ DialogOK(view, modal)
BY DEF TypeOK, Sound, DialogOK, Modals

LEMMA TypeOKIsNext == TypeOK' <=> db' \in Databases /\ Sound(view') /\ DialogOK(view', modal')
BY DEF TypeOK, Sound, DialogOK, Modals

LEMMA NoDialogIsOK == ASSUME NEW v PROVE DialogOK(v, NoModal)
BY DEF DialogOK, Modals, NoModal

LEMMA DoneTypes == ASSUME Done PROVE TypeOK'
BY NoDialogIsOK, TypeOKIsNext DEF Done

LEMMA SelectedAreRows ==
    ASSUME NEW v \in Views
    PROVE  SelectedRows(v) \in SUBSET Row
BY CursorRowIs DEF SelectedRows

\* The dialog's answer: the rows of the page that are selected, or the query's.
LEMMA ExportedIs ==
    ASSUME TypeOK, modal.kind \in {"copy", "export"}
    PROVE  /\ Exported \in SUBSET Row
           /\ Exported = IF SelectedRows(view) # {} THEN SelectedRows(view)
                         ELSE Matches(Query(view), db)
<1>1. /\ view \in Views /\ db \in SUBSET Row /\ modal.rows = SelectedRows(view)
      /\ modal.kind = "copy" => modal.rows # {}
  BY DatabasesAreRows DEF TypeOK
<1>2. SelectedRows(view) \in SUBSET Row /\ Matches(Query(view), db) \in SUBSET Row
  BY <1>1, SelectedAreRows, MatchesAreRows
<1> QED  BY <1>1, <1>2 DEF Exported

LEMMA DialogTypes ==
    ASSUME TypeOK, Dialog
    PROVE  TypeOK'
<1>1. view' = view /\ db' = db
  BY StillStep
<1>2. db \in Databases /\ Sound(view) /\ view \in Views
  BY DEF TypeOK, Sound
<1>3. SUFFICES DialogOK(view, modal')
  BY <1>1, <1>2, TypeOKIsNext
<1>4. ASSUME NEW kind \in {"delete", "copy", "export", "text"}, NEW rows \in SUBSET Row,
             NEW row \in { Id[r] : r \in Range(view.rows) } \cup {NoRow},
             modal' = [kind |-> kind, rows |-> rows, row |-> row],
             kind \in {"copy", "export"} => rows = SelectedRows(view), kind = "copy" => rows # {}
      PROVE  DialogOK(view, modal')
  BY <1>4 DEF DialogOK, Modals
<1>5. SelectedRows(view) \in SUBSET Row
  BY <1>2, SelectedAreRows
<1>6. CASE AskDelete
  <2>1. modal' = [kind |-> "delete", rows |-> {}, row |-> CursorRow(view)]
    BY <1>6 DEF AskDelete, Ask
  <2> QED  BY <1>2, <1>4, <2>1, CursorRowIs
<1>7. CASE AskCopy
  <2>1. /\ modal' = [kind |-> "copy", rows |-> SelectedRows(view), row |-> NoRow]
        /\ SelectedRows(view) # {}
    BY <1>7 DEF AskCopy, Ask
  <2> QED  BY <1>4, <1>5, <2>1
<1>8. CASE AskExport
  <2>1. modal' = [kind |-> "export", rows |-> SelectedRows(view), row |-> NoRow]
    BY <1>8 DEF AskExport, Ask
  <2> QED  BY <1>4, <1>5, <2>1
<1>9. CASE Cancel
  BY <1>9, NoDialogIsOK DEF Cancel
<1>10. CASE PickFormat
  <2>1. modal.kind \in {"copy", "export"} /\ modal' = [kind |-> "text", rows |-> Exported, row |-> NoRow]
    BY <1>10 DEF PickFormat
  <2>2. Exported \in SUBSET Row
    BY <2>1, ExportedIs
  <2> QED  BY <1>4, <2>1, <2>2
<1> QED  BY <1>6, <1>7, <1>8, <1>9, <1>10 DEF Dialog

LEMMA TypeStep == TypeOK /\ [Next]_vars => TypeOK'
<1> SUFFICES ASSUME TypeOK, [Next]_vars PROVE TypeOK'
  OBVIOUS
<1>1. CASE UNCHANGED vars
  BY <1>1 DEF vars, TypeOK, NoRowTwice, SelectedRows
<1>2. CASE Requery
  <2>1. PICK x : Sound(x) /\ RefreshTo(x)
    BY <1>2, RequeryIs
  <2> QED  BY <2>1, RefreshStep, DoneTypes
<1>3. CASE Select
  <2>1. PICK x : Sound(x) /\ RedrawTo(x)
    BY <1>3, SelectIs
  <2> QED  BY <2>1, RedrawStep, DoneTypes
<1>4. CASE MoveCursor
  BY <1>4, CursorStep, DoneTypes
<1>5. CASE ToggleView
  BY <1>5, ToggleStep, DoneTypes
<1>6. CASE Write
  BY <1>6, WriteStep, DoneTypes
<1>7. CASE Dialog
  BY <1>7, DialogTypes
<1>8. CASE Elsewhere
  BY <1>8, TypeOKIs, TypeOKIsNext DEF Elsewhere
<1> QED  BY <1>1, <1>2, <1>3, <1>4, <1>5, <1>6, <1>7, <1>8, NextIs

LEMMA InitTypes == Init => TypeOK
<1> SUFFICES ASSUME Init PROVE TypeOK
  OBVIOUS
<1>1. PICK d \in Databases :
         \E x \in Opened("list", d) \cup Opened("table", d) \cup UNION { Drilled(ids, d) : ids \in Drills } :
            view = x[1] /\ db = x[2]
  BY DEF Init
<1>2. PICK x \in Opened("list", d) \cup Opened("table", d) \cup UNION { Drilled(ids, d) : ids \in Drills } :
         view = x[1] /\ db = x[2]
  BY <1>1
<1>3. Sound(x[1]) /\ x[2] \in Databases
  <2>1. CASE x \in Opened("list", d)
    BY <2>1, OpenedIs
  <2>2. CASE x \in Opened("table", d)
    BY <2>2, OpenedIs
  <2>3. CASE \E ids \in Drills : x \in Drilled(ids, d)
    BY <2>3, DrilledIs
  <2> QED  BY <2>1, <2>2, <2>3
<1> QED  BY <1>2, <1>3, NoDialogIsOK, TypeOKIs DEF Init

\* A page holds no row twice, in one version or two, although others write while
\* it fetches; a copy or an export works on the rows selected on the page it was
\* asked on, and a delete on a row of it, as long as its dialog is open.
THEOREM PageAlwaysSound == Spec => []TypeOK
<1>1. Init => TypeOK
  BY InitTypes
<1>2. TypeOK /\ [Next]_vars => TypeOK'
  BY TypeStep
<1> QED  BY <1>1, <1>2, PTL DEF Spec

---------------------------------------------------------------------------
(* What the screen shows.                                                  *)

\* Every step leaves the page failed, or as its query answers, or as it was but for
\* cursor, selection and, in a list, the line that said it failed.
LEMMA ScreenStep ==
    ASSUME TypeOK, Next
    PROVE  \/ Shown(view', db')
           \/ /\ SameScreen(view, view')
              /\ view'.err = view.err \/ view.mode = "list"
<1>1. CASE Requery
  <2>1. PICK x : Sound(x) /\ RefreshTo(x)
    BY <1>1, RequeryIs
  <2> QED  BY <2>1, RefreshStep
<1>2. CASE Select
  <2>1. PICK x : Sound(x) /\ RedrawTo(x) /\ SameScreen(view, x)
    BY <1>2, SelectIs
  <2>2. (x.mode = "list" /\ SameScreen(x, view')) \/ Shown(view', db')
    BY <2>1, RedrawStep
  <2> QED  BY <2>1, <2>2 DEF SameScreen, SameQuery
<1>3. CASE MoveCursor
  BY <1>3, CursorStep
<1>4. CASE ToggleView
  BY <1>4, ToggleStep
<1>5. CASE Write
  BY <1>5, WriteStep
<1>6. CASE Dialog \/ Elsewhere
  BY <1>6, StillStep DEF SameScreen, SameQuery
<1> QED  BY <1>1, <1>2, <1>3, <1>4, <1>5, <1>6, NextIs

\* The rows on the screen stop being the answer to the page's own query only where
\* a list that shows an error is drawn again from the rows of an earlier answer
\* (refreshDisplayOnly).
THEOREM MisleadsOnlyAfterErrorAlways == Spec => MisleadsOnlyAfterError
<1>1. ASSUME TypeOK, Next, Truthful, ~Truthful'
      PROVE  view.err /\ view.mode = "list" /\ UNCHANGED view.rows
  <2>1. ~view'.err /\ view'.rows # Answer(view', view'.read)
    BY <1>1 DEF Truthful
  <2>2. SameScreen(view, view') /\ (view'.err = view.err \/ view.mode = "list")
    BY <1>1, <2>1, ScreenStep DEF Shown
  <2>3. /\ Answer(view', view'.read) = Answer(view, view.read) /\ view'.rows = view.rows
    BY <2>2, SameAnswer DEF SameScreen
  <2>4. view.err
    BY <1>1, <2>1, <2>3 DEF Truthful
  <2> QED  BY <2>1, <2>2, <2>3, <2>4
<1>2. TypeOK /\ [Next]_vars
         => [~Truthful' /\ Truthful => view.err /\ view.mode = "list" /\ UNCHANGED view.rows]_vars
  BY <1>1
<1> QED  BY <1>2, PageAlwaysSound, PTL DEF Spec, MisleadsOnlyAfterError

\* Only the key that toggles the view changes its mode.
LEMMA ModeKept ==
    ASSUME TypeOK, Next, view'.mode # view.mode
    PROVE  ToggleView
<1>1. CASE Requery
  <2>1. PICK x : Sound(x) /\ RefreshTo(x) /\ x.mode = view.mode
    BY <1>1, RequeryIs
  <2> QED  BY <2>1, RefreshStep
<1>2. CASE Select
  <2>1. PICK x : Sound(x) /\ RedrawTo(x) /\ SameScreen(view, x)
    BY <1>2, SelectIs
  <2> QED  BY <2>1, RedrawStep DEF SameScreen
<1>3. CASE MoveCursor
  BY <1>3, CursorStep DEF SameScreen
<1>4. CASE Write
  BY <1>4, WriteStep
<1>5. CASE Dialog \/ Elsewhere
  BY <1>5, StillStep
<1> QED  BY <1>1, <1>2, <1>3, <1>4, <1>5, NextIs

\* Toggling between list and table keeps an unrestricted page's rows and the row
\* under the cursor, if nobody else writes and the second of its two fetches
\* succeeds (applyState, focusID).
THEOREM ToggleAlwaysKeepsRows == Spec => ToggleKeepsRows
<1> DEFINE Kept == /\ view'.rows = view.rows
                   /\ CursorRow(view) # NoRow => CursorRow(view') = CursorRow(view)
<1>1. ASSUME TypeOK, Next, view'.mode # view.mode, ~view'.err, view.ids = NoIds, Current, db' = db
      PROVE  Kept
  <2>1. ToggleView /\ view \in Views
    BY <1>1, ModeKept DEF TypeOK
  <2>2. view'.rows = Answer(view', db) /\ SameQuery(view, view')
    BY <1>1, <2>1, ToggleStep DEF Shown, SameQuery
  <2>3. view.rows = Answer(view, db)
    BY <1>1 DEF Current
  <2>4. view'.rows = view.rows
    BY <2>2, <2>3, SameAnswer
  <2>5. CursorRow(view) # NoRow => Holds(view', CursorRow(view))
    BY <2>1, <2>4, CursorRowIs DEF Holds
  <2> QED  BY <1>1, <2>1, <2>4, <2>5, ToggleStep
<1> HIDE DEF Kept
<1>2. TypeOK /\ [Next]_vars
         => [view'.mode # view.mode /\ ~view'.err /\ view.ids = NoIds /\ Current /\ db' = db => Kept]_vars
  BY <1>1
<1> QED  BY <1>2, PageAlwaysSound, PTL DEF Spec, ToggleKeepsRows, Kept

---------------------------------------------------------------------------
(* Where the page stands.                                                  *)

\* The matching rows depend on the filters; their order and the page do not matter.
LEMMA MatchesFollowFilters ==
    ASSUME NEW v, NEW w, w.flt = v.flt, w.cond = v.cond, NEW d
    PROVE  Matches(Query(w), d) = Matches(Query(v), d)
BY DEF Matches, Query

\* A fetch that ends within the rows of an unrestricted page brings some, if any match.
LEMMA WithinShows ==
    ASSUME TypeOK, Current, ~Stranded, view.ids = NoIds,
           Sound(view'), view'.rows = Answer(view', db), view'.ids = NoIds, Within(view'), view'.flt = view.flt,
           Matches(Query(view'), db) # {}
    PROVE  view'.rows # <<>>
<1> DEFINE M == Matches(Query(view), db)
           N == Matches(Query(view'), db)
<1>1. db \in SUBSET Row /\ view \in Views /\ view' \in Views
  BY DatabasesAreRows DEF TypeOK, Sound
<1>2. /\ view.total = Cardinality(M) /\ (view.rows = <<>> <=> view.total <= view.page * view.size)
      /\ (M # {} => view.rows # <<>>)
  BY <1>1, AnswerIs, TotalIs DEF Current, Stranded
<1>3. view'.rows = <<>> <=> Cardinality(N) <= view'.page * view'.size
  BY <1>1, AnswerIs
<1>4. IsFiniteSet(N) /\ Cardinality(N) \in Nat /\ Cardinality(N) # 0
  <2>1. N \in SUBSET Row
    BY <1>1, MatchesAreRows
  <2> HIDE DEF N
  <2>2. IsFiniteSet(N) /\ Cardinality(N) \in Nat
    BY <2>1, RowsFinite
  <2> QED  BY <2>2, FS_EmptySet DEF N
<1>5. /\ view.page \in Nat /\ view.size \in Nat \ {0} /\ view.page * view.size \in Nat
      /\ view'.page \in Nat /\ view'.size \in Nat \ {0} /\ view'.page * view'.size \in Nat
  BY <1>1, Sizes
<1>6. view'.cond = view.cond => N = M
  BY MatchesFollowFilters
<1> HIDE DEF M, N
<1>7. CASE view'.page = 0
  <2>1. view'.page * view'.size = 0
    BY <1>5, <1>7
  <2> QED  BY <1>3, <1>4, <2>1
<1>8. CASE view'.cond = view.cond /\ view'.size = view.size /\ view'.page <= view.page
  <2>1. N = M
    BY <1>6, <1>8
  <2>2. view.rows # <<>>
    BY <1>2, <2>1 DEF N
  <2>3. ~(Cardinality(N) <= view.page * view.size)
    BY <1>2, <2>1, <2>2
  <2> DEFINE p == view.page
             q == view'.page
             s == view.size
  <2>4. q * s <= p * s
    <3>1. p \in Nat /\ q \in Nat /\ s \in Nat /\ q <= p
      BY <1>5, <1>8
    <3> HIDE DEF p, q, s
    <3>2. PICK k \in Nat : p = q + k
      BY <3>1
    <3>3. p * s = q * s + k * s /\ k * s \in Nat /\ q * s \in Nat
      BY <3>1, <3>2
    <3> QED  BY <3>3
  <2> QED  BY <1>3, <1>4, <1>5, <1>8, <2>3, <2>4
<1>9. CASE view'.cond = view.cond /\ view'.page * view'.size < view.total
  BY <1>2, <1>3, <1>4, <1>5, <1>6, <1>9
<1> QED  BY <1>7, <1>8, <1>9 DEF Within

\* As long as the rows stay the same, an unrestricted page comes to stand past the
\* end of its rows only where a text filter is typed (openFilter keeps the page).
THEOREM StrandedOnlyByTextFilterAlways == Spec => StrandedOnlyByTextFilter
<1>1. ASSUME TypeOK, Next, Stranded', db' = db, view'.flt = view.flt, view.ids = NoIds, Current
      PROVE  Stranded
  <2> SUFFICES ASSUME ~Stranded PROVE FALSE
    OBVIOUS
  <2>1. ~view'.err /\ view'.rows = <<>> /\ view'.ids = NoIds /\ Matches(Query(view'), db) # {}
    BY <1>1 DEF Stranded
  <2>2. view \in Views /\ view.page \in Nat /\ ~view.err
    BY <1>1, Sizes DEF TypeOK, Current
  <2>3. ASSUME Sound(view'), Shown(view', db'), Within(view') PROVE FALSE
    <3>1. view'.rows = Answer(view', db)
      BY <1>1, <2>1, <2>3 DEF Shown
    <3> QED  BY <1>1, <2>1, <2>3, <3>1, WithinShows
  <2>4. ASSUME SameScreen(view, view') PROVE FALSE
    <3>1. Matches(Query(view'), db) = Matches(Query(view), db)
      BY <2>4, MatchesFollowFilters DEF SameScreen, SameQuery
    <3> QED  BY <1>1, <2>1, <2>2, <2>4, <3>1 DEF Stranded, SameScreen
  <2>5. SameQuery(view, view') => Within(view')
    BY <2>2 DEF SameQuery, Within
  <2>6. CASE Requery
    <3>1. PICK x : Sound(x) /\ RefreshTo(x) /\ Within(x)
      BY <1>1, <2>6, RequeryIs
    <3>2. Sound(view') /\ SameQuery(x, view') /\ Shown(view', db')
      BY <1>1, <3>1, RefreshStep DEF Done
    <3>3. Within(view')
      BY <3>1, <3>2 DEF Within, SameQuery
    <3> QED  BY <2>3, <3>2, <3>3
  <2>7. CASE Select
    <3>1. PICK x : Sound(x) /\ RedrawTo(x) /\ SameScreen(view, x)
      BY <1>1, <2>7, SelectIs
    <3>2. Sound(view') /\ SameQuery(x, view') /\ (SameScreen(x, view') \/ Shown(view', db'))
      BY <1>1, <3>1, RedrawStep DEF Done
    <3>3. SameQuery(view, view')
      BY <3>1, <3>2 DEF SameScreen, SameQuery
    <3>4. SameScreen(x, view') => SameScreen(view, view')
      BY <3>1 DEF SameScreen, SameQuery
    <3> QED  BY <2>3, <2>4, <2>5, <3>2, <3>3, <3>4
  <2>8. CASE MoveCursor
    BY <1>1, <2>4, <2>8, CursorStep
  <2>9. CASE ToggleView
    <3>1. Sound(view') /\ Shown(view', db') /\ SameQuery(view, view')
      BY <1>1, <2>9, ToggleStep DEF SameQuery, Done
    <3> QED  BY <2>3, <2>5, <3>1
  <2>10. CASE Write
    <3>1. Sound(view') /\ Shown(view', db') /\ SameQuery(view, view')
      BY <1>1, <2>10, WriteStep DEF Done
    <3> QED  BY <2>3, <2>5, <3>1
  <2>11. CASE Dialog \/ Elsewhere
    BY <1>1, <2>4, <2>11, StillStep DEF SameScreen, SameQuery
  <2> QED  BY <1>1, <2>6, <2>7, <2>8, <2>9, <2>10, <2>11, NextIs
<1>2. TypeOK /\ [Next]_vars
         => [Stranded' /\ db' = db /\ view'.flt = view.flt /\ view.ids = NoIds /\ Current => Stranded]_vars
  BY <1>1
<1> QED  BY <1>2, PageAlwaysSound, PTL DEF Spec, StrandedOnlyByTextFilter

---------------------------------------------------------------------------
(* Exports.                                                                *)

\* Only the format dialog's answer puts rows out.
LEMMA OnlyPickFormatWrites ==
    ASSUME TypeOK, Next, modal'.kind = "text", modal.kind # "text"
    PROVE  PickFormat
<1>1. modal' # NoModal
  BY DEF NoModal
<1>2. ~Done
  BY <1>1 DEF Done
<1>3. CASE Requery
  <2>1. PICK x : Sound(x) /\ RefreshTo(x)
    BY <1>3, RequeryIs
  <2> QED  BY <1>2, <2>1, RefreshStep
<1>4. CASE Select
  <2>1. PICK x : Sound(x) /\ RedrawTo(x)
    BY <1>4, SelectIs
  <2> QED  BY <1>2, <2>1, RedrawStep
<1>5. CASE MoveCursor \/ ToggleView \/ Write
  BY <1>2, <1>5, CursorStep, ToggleStep, WriteStep
<1>6. CASE Elsewhere
  BY <1>6 DEF Elsewhere
<1>7. CASE AskDelete \/ AskCopy \/ AskExport
  BY <1>7 DEF AskDelete, AskCopy, AskExport, Ask
<1>8. CASE Cancel
  BY <1>1, <1>8 DEF Cancel
<1> QED  BY <1>3, <1>4, <1>5, <1>6, <1>7, <1>8, NextIs DEF Dialog

\* A copy or an export writes the selected rows of the page, whatever became of them
\* since the dialog opened; with none selected, all rows the query leaves (runExport).
THEOREM ExportsAlwaysTheMarked == Spec => ExportsTheMarked
<1> DEFINE Marks == modal'.rows = IF SelectedRows(view) # {} THEN SelectedRows(view)
                                  ELSE Matches(Query(view), db)
<1>1. ASSUME TypeOK, Next, modal'.kind = "text", modal.kind # "text" PROVE Marks
  <2>1. modal.kind \in {"copy", "export"} /\ modal' = [kind |-> "text", rows |-> Exported, row |-> NoRow]
    BY <1>1, OnlyPickFormatWrites DEF PickFormat
  <2> QED  BY <1>1, <2>1, ExportedIs
<1> HIDE DEF Marks
<1>2. TypeOK /\ [Next]_vars => [modal'.kind = "text" /\ modal.kind # "text" => Marks]_vars
  BY <1>1
<1> QED  BY <1>2, PageAlwaysSound, PTL DEF Spec, ExportsTheMarked, Marks
=============================================================================
