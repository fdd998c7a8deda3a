----------------------- MODULE CascadeGenerate_proofs ------------------------
(***************************************************************************)
(* The programs the generator keeps, for any graphs and annotations,       *)
(* however deep the types hang together and also when they form cycles:    *)
(* blocks nest and read their own variables, dependents go first, and      *)
(* nothing is touched that is not declared.                                *)
(***************************************************************************)
EXTENDS CascadeGenerate, FiniteSetTheorems, WellFoundedInduction, NaturalsInduction, TLAPS

-----------------------------------------------------------------------------
(* One step after the other: the loops over edges and operations, and the  *)
(* recursion through types.                                                *)

\* What holds at the beginning and from each number to the next holds up to N.
LEMMA CountUp ==
    ASSUME NEW N \in Nat, NEW S, 0 \in S,
           \A i \in 1 .. N : i - 1 \in S => i \in S
    PROVE  0 .. N \subseteq S
<1> DEFINE Left == { i \in 0 .. N : i \notin S }
           R == OpToRel(<, Nat)
<1>0. IsWellFoundedOn(R, Nat)
  BY NatLessThanWellFounded
<1> HIDE DEF R
<1>1. SUFFICES ASSUME Left # {} PROVE FALSE
  OBVIOUS
<1>2. PICK i \in Left : \A j \in Left : ~(<<j, i>> \in R)
  BY <1>0, <1>1, WFMin, Left \subseteq Nat
<1>3. i \in 1 .. N /\ i - 1 \in 0 .. N /\ i - 1 \notin S
  BY <1>2
<1>4. <<i - 1, i>> \in R
  BY <1>3 DEF R, OpToRel
<1> QED  BY <1>2, <1>3, <1>4

LEMMA ResolveOpsIs ==
    ASSUME NEW ops, Len(ops) \in Nat
    PROVE  \E f : /\ f = [i \in 0 .. Len(ops) |->
                            IF i = 0 THEN <<>> ELSE Joined(f[i - 1], ops[i])]
                  /\ ResolveOps(ops) = f[Len(ops)]
<1> DEFINE N == Len(ops)
           Step(f, i) == IF i = 0 THEN <<>> ELSE Joined(f[i - 1], ops[i])
           Partial(n) == \E f : f = [i \in 0 .. n |-> Step(f, i)]
           S == { n \in 0 .. N : Partial(n) }
           F == CHOOSE f : f = [i \in 0 .. N |->
                            IF i = 0 THEN <<>> ELSE Joined(f[i - 1], ops[i])]
<1>1. 0 \in S
  <2> DEFINE f == [i \in 0 .. 0 |-> <<>>]
  <2>1. f = [i \in 0 .. 0 |-> Step(f, i)]
    OBVIOUS
  <2> HIDE DEF f
  <2> QED  BY <2>1
<1>2. ASSUME NEW n \in 1 .. N, n - 1 \in S PROVE n \in S
  <2>1. PICK f : f = [i \in 0 .. n - 1 |-> Step(f, i)]
    BY <1>2
  <2> DEFINE h == [i \in 0 .. n |-> IF i = n THEN Step(f, n) ELSE f[i]]
  <2>2. \A i \in 0 .. n : h[i] = Step(h, i)
    BY <2>1
  <2>3. h = [i \in 0 .. n |-> Step(h, i)]
    BY <2>2
  <2> HIDE DEF h
  <2>4. Partial(n)
    BY Zenon, <2>3
  <2> HIDE DEF Partial
  <2> QED  BY <2>4
<1>3. 0 .. N \subseteq S
  BY <1>1, <1>2, CountUp
<1>4. \E f : f = [i \in 0 .. N |->
                            IF i = 0 THEN <<>> ELSE Joined(f[i - 1], ops[i])]
  <2>1. N \in S
    <3> HIDE DEF S
    <3> QED  BY <1>3
  <2>2. Partial(N)
    <3> HIDE DEF Partial
    <3> QED  BY <2>1
  <2> QED  BY Zenon, <2>2
<1>5. F = [i \in 0 .. N |-> IF i = 0 THEN <<>> ELSE Joined(F[i - 1], ops[i])]
  BY <1>4, Zenon
<1>6. ResolveOps(ops) = F[N]
  BY DEF ResolveOps
<1> QED  BY <1>5, <1>6

LEMMA OpsOfIs ==
    ASSUME NEW s, NEW t, NEW inPlay, NEW below, NEW left, Len(s.edges[t]) \in Nat
    PROVE  \E f : /\ f = [i \in 0 .. Len(s.edges[t]) |->
                            IF i = 0 THEN <<>>
                            ELSE WithEdge(f[i - 1], s.edges[t][i] \in inPlay, EdgeOp(s, s.ann[t], s.edges[t][i], below, left))]
                  /\ OpsOf(s, t, inPlay, below, left) = f[Len(s.edges[t])]
<1> DEFINE es == s.edges[t]
           N == Len(es)
           Step(f, i) == IF i = 0 THEN <<>>
                         ELSE WithEdge(f[i - 1], es[i] \in inPlay, EdgeOp(s, s.ann[t], es[i], below, left))
           Partial(n) == \E f : f = [i \in 0 .. n |-> Step(f, i)]
           S == { n \in 0 .. N : Partial(n) }
           F == CHOOSE f : f = [i \in 0 .. N |->
                            IF i = 0 THEN <<>>
                            ELSE WithEdge(f[i - 1], es[i] \in inPlay, EdgeOp(s, s.ann[t], es[i], below, left))]
<1>1. 0 \in S
  <2> DEFINE f == [i \in 0 .. 0 |-> <<>>]
  <2>1. f = [i \in 0 .. 0 |-> Step(f, i)]
    OBVIOUS
  <2> HIDE DEF f
  <2> QED  BY <2>1
<1>2. ASSUME NEW n \in 1 .. N, n - 1 \in S PROVE n \in S
  <2>1. PICK f : f = [i \in 0 .. n - 1 |-> Step(f, i)]
    BY <1>2
  <2> DEFINE h == [i \in 0 .. n |-> IF i = n THEN Step(f, n) ELSE f[i]]
  <2>2. \A i \in 0 .. n : h[i] = Step(h, i)
    BY <2>1
  <2>3. h = [i \in 0 .. n |-> Step(h, i)]
    BY <2>2
  <2> HIDE DEF h
  <2>4. Partial(n)
    BY Zenon, <2>3
  <2> HIDE DEF Partial
  <2> QED  BY <2>4
<1>3. 0 .. N \subseteq S
  BY <1>1, <1>2, CountUp
<1>4. \E f : f = [i \in 0 .. N |->
                            IF i = 0 THEN <<>>
                            ELSE WithEdge(f[i - 1], es[i] \in inPlay, EdgeOp(s, s.ann[t], es[i], below, left))]
  <2>1. N \in S
    <3> HIDE DEF S
    <3> QED  BY <1>3
  <2>2. Partial(N)
    <3> HIDE DEF Partial
    <3> QED  BY <2>1
  <2> QED  BY Zenon, <2>2
<1>5. F = [i \in 0 .. N |->
                            IF i = 0 THEN <<>>
                            ELSE WithEdge(F[i - 1], es[i] \in inPlay, EdgeOp(s, s.ann[t], es[i], below, left))]
  BY <1>4, Zenon
<1>6. OpsOf(s, t, inPlay, below, left) = F[N]
  BY DEF OpsOf
<1> QED  BY <1>5, <1>6

\* Operations depend on what is below only through the edges in play.
LEMMA OpsOfAgree ==
    ASSUME NEW s, NEW t, NEW inPlay, NEW f, NEW g, NEW left, Len(s.edges[t]) \in Nat,
           \A e \in inPlay : EdgeOp(s, s.ann[t], e, f, left) = EdgeOp(s, s.ann[t], e, g, left)
    PROVE  OpsOf(s, t, inPlay, f, left) = OpsOf(s, t, inPlay, g, left)
<1> DEFINE es == s.edges[t]
           N == Len(es)
<1>1. PICK u : /\ u = [i \in 0 .. N |->
                        IF i = 0 THEN <<>>
                        ELSE WithEdge(u[i - 1], es[i] \in inPlay, EdgeOp(s, s.ann[t], es[i], f, left))]
               /\ OpsOf(s, t, inPlay, f, left) = u[N]
  BY SMTT(30), OpsOfIs
<1>2. PICK v : /\ v = [i \in 0 .. N |->
                        IF i = 0 THEN <<>>
                        ELSE WithEdge(v[i - 1], es[i] \in inPlay, EdgeOp(s, s.ann[t], es[i], g, left))]
               /\ OpsOf(s, t, inPlay, g, left) = v[N]
  BY SMTT(30), OpsOfIs
<1> DEFINE S == { i \in 0 .. N : u[i] = v[i] }
<1>3. 0 \in S
  BY <1>1, <1>2
<1>4. ASSUME NEW i \in 1 .. N, i - 1 \in S PROVE i \in S
  <2>1. i \in 0 .. N /\ i # 0 /\ u[i - 1] = v[i - 1]
    BY <1>4
  <2>2. /\ u[i] = WithEdge(u[i - 1], es[i] \in inPlay, EdgeOp(s, s.ann[t], es[i], f, left))
        /\ v[i] = WithEdge(v[i - 1], es[i] \in inPlay, EdgeOp(s, s.ann[t], es[i], g, left))
    BY <1>1, <1>2, <2>1
  <2> QED  BY <2>1, <2>2 DEF WithEdge
<1> HIDE DEF S
<1>5. 0 .. N \subseteq S
  BY <1>3, <1>4, CountUp
<1> QED  BY <1>1, <1>2, <1>5 DEF S

-----------------------------------------------------------------------------
(* The recursion through types ends: a type on the path is not met again.  *)

LEMMA GraphFacts ==
    ASSUME NEW s \in Schemas
    PROVE  /\ IsFiniteSet(Types(s)) /\ Types(s) \subseteq STRING
           /\ Len(s.types) \in Nat /\ DOMAIN s.types = 1 .. Len(s.types)
           /\ \A i \in 1 .. Len(s.types) : s.types[i] \in Types(s)
           /\ \A t \in Types(s) : /\ Len(s.edges[t]) \in Nat
                                  /\ ToSet(s.edges[t]) = { s.edges[t][i] : i \in 1 .. Len(s.edges[t]) }
                                  /\ ToSet(s.edges[t]) \subseteq EdgesOf(s)
<1>1. s.types \in Seq(STRING)
  BY SchemasShape
<1>2. /\ Len(s.types) \in Nat /\ DOMAIN s.types = 1 .. Len(s.types)
      /\ \A i \in 1 .. Len(s.types) : s.types[i] \in STRING
  BY <1>1
<1>3. Types(s) = { s.types[i] : i \in 1 .. Len(s.types) }
  BY <1>2 DEF Types, ToSet
<1>4. IsFiniteSet(Types(s))
  <2>1. IsFiniteSet(1 .. Len(s.types))
    BY <1>2, FS_Interval
  <2> DEFINE f == [i \in 1 .. Len(s.types) |-> s.types[i]]
  <2>2. f \in Surjection(1 .. Len(s.types), Types(s))
    BY <1>3 DEF Surjection
  <2> QED  BY <2>1, <2>2, FS_Surjection
<1>5. ASSUME NEW t \in Types(s)
      PROVE  /\ Len(s.edges[t]) \in Nat
             /\ ToSet(s.edges[t]) = { s.edges[t][i] : i \in 1 .. Len(s.edges[t]) }
             /\ ToSet(s.edges[t]) \subseteq EdgesOf(s)
  <2>1. s.edges[t] \in Seq(EdgesOf(s))
    BY SchemasShape
  <2>2. /\ Len(s.edges[t]) \in Nat /\ DOMAIN s.edges[t] = 1 .. Len(s.edges[t])
        /\ \A i \in 1 .. Len(s.edges[t]) : s.edges[t][i] \in EdgesOf(s)
    BY <2>1
  <2> QED  BY <2>2 DEF ToSet
<1> QED  BY <1>2, <1>3, <1>4, <1>5

\* The types of the edges the loops keep.
LEMMA InPlayFacts ==
    ASSUME NEW s \in Schemas, NEW t \in Types(s), NEW left
    PROVE  \A e \in InPlayBelow(s, t, left) :
              e \in EdgesOf(s) /\ e.target \in Types(s) /\ (e.rel # "M2M" => e.target \in left)
<1> SUFFICES ASSUME NEW e \in InPlayBelow(s, t, left)
             PROVE  e \in EdgesOf(s) /\ e.target \in Types(s) /\ (e.rel # "M2M" => e.target \in left)
  OBVIOUS
<1>1. e \in ToSet(s.edges[t])
  BY DEF InPlayBelow
<1>2. e \in EdgesOf(s)
  BY <1>1, GraphFacts
<1> QED  BY <1>2 DEF InPlayBelow, EdgesOf

\* Operations below depend on what is below for fewer types.
LEMMA BelowAgree ==
    ASSUME NEW s \in Schemas, NEW t \in Types(s), NEW left, NEW f, NEW g,
           \A u \in left : f[left \ {u}] = g[left \ {u}]
    PROVE  OpsOf(s, t, InPlayBelow(s, t, left), f, left) = OpsOf(s, t, InPlayBelow(s, t, left), g, left)
<1>1. ASSUME NEW e \in InPlayBelow(s, t, left)
      PROVE  EdgeOp(s, s.ann[t], e, f, left) = EdgeOp(s, s.ann[t], e, g, left)
  <2>1. CASE e.rel = "M2M"
    BY <2>1 DEF EdgeOp
  <2>2. CASE e.rel # "M2M"
    <3>1. f[left \ {e.target}] = g[left \ {e.target}]
      BY <2>2, InPlayFacts
    <3> QED  BY <3>1 DEF EdgeOp
  <2> QED  BY <2>1, <2>2
<1>2. Len(s.edges[t]) \in Nat
  BY GraphFacts
<1> QED  BY <1>1, <1>2, OpsOfAgree

LEMMA BuildChildOpsIs ==
    ASSUME NEW s \in Schemas
    PROVE  \A left \in SUBSET Types(s), t \in Types(s) :
              BuildChildOps(s)[left][t] = OpsOf(s, t, InPlayBelow(s, t, left), BuildChildOps(s), left)
<1> DEFINE T == Types(s)
           N == Cardinality(T)
           Step(f, left) == [t \in T |-> OpsOf(s, t, InPlayBelow(s, t, left), f, left)]
           D(n) == { left \in SUBSET T : Cardinality(left) <= n }
           Partial(n) == \E f : f = [left \in D(n) |-> Step(f, left)]
           S == { n \in 0 .. N : Partial(n) }
           F == CHOOSE f : f = [left \in SUBSET T |-> [t \in T |-> OpsOf(s, t, InPlayBelow(s, t, left), f, left)]]
<1>0. /\ IsFiniteSet(T) /\ N \in Nat
      /\ \A left \in SUBSET T : /\ Cardinality(left) \in 0 .. N
                                /\ \A u \in left : Cardinality(left \ {u}) = Cardinality(left) - 1
  <2>1. IsFiniteSet(T)
    BY GraphFacts
  <2>2. N \in Nat
    BY <2>1, FS_CardinalityType
  <2>3. ASSUME NEW left \in SUBSET T
        PROVE  /\ Cardinality(left) \in 0 .. N
               /\ \A u \in left : Cardinality(left \ {u}) = Cardinality(left) - 1
    <3>1. IsFiniteSet(left) /\ Cardinality(left) <= N
      BY <2>1, FS_Subset
    <3>2. Cardinality(left) \in Nat
      BY <3>1, FS_CardinalityType
    <3>3. \A u \in left : Cardinality(left \ {u}) = Cardinality(left) - 1
      BY <3>1, FS_RemoveElement
    <3> QED  BY <2>2, <3>1, <3>2, <3>3
  <2> QED  BY <2>1, <2>2, <2>3
<1> HIDE DEF N
<1>a. ASSUME NEW f, NEW g, NEW left \in SUBSET T, \A u \in left : f[left \ {u}] = g[left \ {u}]
      PROVE  Step(f, left) = Step(g, left)
  <2>1. \A t \in T : OpsOf(s, t, InPlayBelow(s, t, left), f, left) = OpsOf(s, t, InPlayBelow(s, t, left), g, left)
    BY <1>a, BelowAgree
  <2> QED  BY <2>1
<1> HIDE DEF Step
<1>1. 0 \in S
  <2>1. PICK f : f = [left \in D(0) |-> Step(<<>>, left)]
    OBVIOUS
  <2>2. ASSUME NEW left \in D(0) PROVE Step(<<>>, left) = Step(f, left)
    <3>1. left \in SUBSET T /\ Cardinality(left) = 0
      BY <1>0
    <3>2. left = {}
      <4>1. SUFFICES ASSUME NEW u \in left PROVE FALSE
        OBVIOUS
      <4>2. Cardinality(left \ {u}) = 0 - 1 /\ left \ {u} \in SUBSET T
        BY <1>0, <3>1
      <4> QED  BY <1>0, <4>2
    <3> QED  BY <1>a, <3>1, <3>2
  <2>3. f = [left \in D(0) |-> Step(f, left)]
    BY <2>1, <2>2
  <2>4. Partial(0)
    BY Zenon, <2>3
  <2> HIDE DEF Partial
  <2> QED  BY <1>0, <2>4
<1>2. ASSUME NEW n \in 1 .. N, n - 1 \in S PROVE n \in S
  <2>1. PICK f : f = [left \in D(n - 1) |-> Step(f, left)]
    BY <1>2
  <2>2. PICK h : h = [left \in D(n) |-> Step(f, left)]
    OBVIOUS
  <2>3. \A left \in D(n - 1) : left \in D(n) /\ h[left] = f[left]
    <3>1. \A left \in D(n - 1) : left \in D(n)
      BY <1>0
    <3> HIDE DEF D
    <3> QED  BY <2>1, <2>2, <3>1
  <2>4. ASSUME NEW left \in D(n) PROVE Step(f, left) = Step(h, left)
    <3>1. left \in SUBSET T /\ \A u \in left : left \ {u} \in D(n - 1)
      BY <1>0
    <3>2. \A u \in left : f[left \ {u}] = h[left \ {u}]
      BY <2>3, <3>1
    <3> HIDE DEF D
    <3> QED  BY <1>a, <3>1, <3>2
  <2>5. h = [left \in D(n) |-> Step(h, left)]
    BY <2>2, <2>4
  <2>6. Partial(n)
    BY Zenon, <2>5
  <2> HIDE DEF Partial
  <2> QED  BY <2>6
<1>3. Partial(N)
  <2>1. N \in S
    <3> HIDE DEF S
    <3> QED  BY <1>0, <1>1, <1>2, CountUp
  <2> HIDE DEF Partial
  <2> QED  BY <2>1
<1>4. D(N) = SUBSET T
  BY <1>0
<1>5. \E f : f = [left \in SUBSET T |-> Step(f, left)]
  <2> HIDE DEF D
  <2> QED  BY <1>3, <1>4
<1>6. \E f : f = [left \in SUBSET T |-> [t \in T |-> OpsOf(s, t, InPlayBelow(s, t, left), f, left)]]
  BY Zenon, <1>5 DEF Step
<1>7. F = [left \in SUBSET T |-> [t \in T |-> OpsOf(s, t, InPlayBelow(s, t, left), F, left)]]
  BY Zenon, <1>6
<1>8. BuildChildOps(s) = F
  BY DEF BuildChildOps
<1> HIDE DEF F
<1> QED  BY <1>7, <1>8

-----------------------------------------------------------------------------
(* Blocks of statements, put one after the other and into one another.     *)

Statements == [kind : StmtKinds, type : STRING, col : STRING \cup {NoCol}, src : Nat, end : Nat]

Reads(p, i) ==
    p[i].src # 0 => p[i].src < i /\ i < p[p[i].src].end /\ p[p[i].src].kind = "query"

Closes(x, y) == /\ y.kind = "drop" /\ y.type = x.type /\ y.col = x.col
                /\ y.src = x.src /\ y.end = x.end

Brackets(p, i) ==
    p[i].kind = "query" =>
        /\ i < p[i].end /\ p[i].end <= Len(p) /\ Closes(p[i], p[p[i].end])
        /\ \A k \in 1 .. Len(p) : i < k /\ k < p[i].end =>
              p[k].src >= i /\ (p[k].kind = "query" => p[k].end < p[i].end)

Block(p) ==
    /\ p \in Seq(Statements)
    /\ \A i \in 1 .. Len(p) : p[i].kind # "self" /\ Reads(p, i) /\ Brackets(p, i)

\* y is x moved n positions on in a block with the argument a.
Moved(x, y, n, a) ==
    /\ y.kind = x.kind /\ y.type = x.type /\ y.col = x.col
    /\ y.src = IF x.src = 0 THEN a ELSE x.src + n
    /\ y.end = x.end + n

\* The statements of b are in c from position n + 1.
Piece(b, c, n, a) ==
    /\ n + Len(b) <= Len(c)
    /\ \A j \in 1 .. Len(b) : Moved(b[j], c[j + n], n, a)

LEMMA ShiftFacts ==
    ASSUME NEW b \in Seq(Statements), NEW n \in Nat, NEW a \in Nat
    PROVE  /\ Shift(b, n, a) \in Seq(Statements) /\ Len(Shift(b, n, a)) = Len(b)
           /\ \A j \in 1 .. Len(b) : Moved(b[j], Shift(b, n, a)[j], n, a)
<1> DEFINE c == Shift(b, n, a)
<1>1. Len(b) \in Nat /\ DOMAIN b = 1 .. Len(b)
  OBVIOUS
<1>2. c = [i \in 1 .. Len(b) |-> [b[i] EXCEPT !.src = IF @ = 0 THEN a ELSE @ + n, !.end = @ + n]]
  BY <1>1 DEF Shift
<1> HIDE DEF c
<1>3. ASSUME NEW j \in 1 .. Len(b) PROVE c[j] \in Statements /\ Moved(b[j], c[j], n, a)
  <2>1. c[j] = [b[j] EXCEPT !.src = IF @ = 0 THEN a ELSE @ + n, !.end = @ + n]
    BY <1>2
  <2>2. b[j] \in Statements
    BY <1>1
  <2> DEFINE src == IF b[j].src = 0 THEN a ELSE b[j].src + n
             end == b[j].end + n
  <2>3. src \in Nat /\ end \in Nat
    BY <2>2 DEF Statements
  <2>4. c[j] = [b[j] EXCEPT !.src = src, !.end = end]
    BY <2>1
  <2> HIDE DEF src, end
  <2>5. c[j] \in Statements /\ c[j].src = src /\ c[j].end = end
    BY <2>2, <2>3, <2>4 DEF Statements
  <2>6. c[j].kind = b[j].kind /\ c[j].type = b[j].type /\ c[j].col = b[j].col
    BY <2>2, <2>4 DEF Statements
  <2> QED  BY <2>5, <2>6 DEF Moved, src, end
<1>4. c \in Seq(Statements) /\ Len(c) = Len(b)
  <2>1. \A j \in 1 .. Len(b) : c[j] \in Statements
    BY <1>3
  <2>2. DOMAIN c = 1 .. Len(b) /\ c = [j \in 1 .. Len(b) |-> c[j]]
    BY <1>2
  <2> QED  BY <1>1, <2>1, <2>2
<1> QED  BY <1>3, <1>4 DEF c

\* What a piece reads, it still reads where it is put.
LEMMA PieceReads ==
    ASSUME NEW b, Block(b), NEW c \in Seq(Statements), NEW n \in Nat, NEW a \in Nat, Piece(b, c, n, a),
           NEW j \in 1 .. Len(b), b[j].src # 0
    PROVE  Reads(c, j + n)
<1>1. b \in Seq(Statements) /\ Reads(b, j) /\ b[j] \in Statements
  BY DEF Block
<1> DEFINE k == b[j].src
<1>2. k \in Nat /\ k # 0 /\ k < j /\ j < b[k].end /\ b[k].kind = "query"
  BY <1>1 DEF Reads, Statements
<1>3. k \in 1 .. Len(b)
  BY <1>1, <1>2
<1>4. b[k] \in Statements
  BY <1>1, <1>3
<1>5. Moved(b[j], c[j + n], n, a) /\ Moved(b[k], c[k + n], n, a)
  BY <1>3 DEF Piece
<1>6. c[j + n].src = k + n /\ c[k + n].end = b[k].end + n /\ c[k + n].kind = "query"
  BY <1>2, <1>5 DEF Moved
<1>7. b[k].end \in Nat /\ j \in Nat
  BY <1>4 DEF Statements
<1> HIDE DEF k
<1> QED  BY <1>2, <1>6, <1>7 DEF Reads

LEMMA PieceBrackets ==
    ASSUME NEW b, Block(b), NEW c \in Seq(Statements), NEW n \in Nat, NEW a \in Nat, Piece(b, c, n, a),
           NEW j \in 1 .. Len(b)
    PROVE  c[j + n].kind # "self" /\ Brackets(c, j + n)
<1>1. b \in Seq(Statements) /\ Brackets(b, j) /\ b[j] \in Statements /\ b[j].kind # "self" /\ Len(b) \in Nat
  BY DEF Block
<1>2. Moved(b[j], c[j + n], n, a) /\ Len(c) \in Nat /\ n + Len(b) <= Len(c)
  BY DEF Piece
<1>3. SUFFICES ASSUME b[j].kind = "query" PROVE Brackets(c, j + n)
  BY <1>1, <1>2 DEF Moved, Brackets
<1> DEFINE m == b[j].end
<1>4. m \in Nat /\ j < m /\ m <= Len(b) /\ m \in 1 .. Len(b) /\ Closes(b[j], b[m])
  BY <1>1, <1>3 DEF Brackets, Statements
<1>5. b[m] \in Statements /\ Moved(b[m], c[m + n], n, a)
  BY <1>1, <1>4 DEF Piece
<1>6. c[j + n].end = m + n /\ Closes(c[j + n], c[m + n])
  BY <1>2, <1>4, <1>5 DEF Moved, Closes
<1>7. ASSUME NEW i \in 1 .. Len(c), j + n < i, i < m + n
      PROVE  c[i].src >= j + n /\ (c[i].kind = "query" => c[i].end < m + n)
  <2>1. PICK k \in 1 .. Len(b) : i = k + n /\ j < k /\ k < m
    <3>a. i \in Nat /\ m \in Nat /\ j \in Nat /\ Len(b) \in Nat /\ 1 <= j /\ m <= Len(b)
      BY <1>1, <1>2, <1>4
    <3>1. i - n \in 1 .. Len(b) /\ i = (i - n) + n /\ j < i - n /\ i - n < m
      BY <1>7, <3>a
    <3> QED  BY <3>1
  <2>2. b[k].src >= j /\ (b[k].kind = "query" => b[k].end < m) /\ b[k] \in Statements
    BY <1>1, <1>3, <2>1 DEF Brackets
  <2>3. Moved(b[k], c[i], n, a)
    BY <2>1 DEF Piece
  <2>4. b[k].src \in Nat /\ b[k].end \in Nat /\ b[k].src # 0
    BY <2>2 DEF Statements
  <2>5. c[i].src = b[k].src + n /\ c[i].end = b[k].end + n /\ c[i].kind = b[k].kind
    BY <2>3, <2>4 DEF Moved
  <2> HIDE DEF m
  <2> QED  BY <1>4, <2>2, <2>4, <2>5
<1> HIDE DEF m
<1>8. j + n < m + n /\ m + n <= Len(c) /\ c[j + n].kind = "query"
  BY <1>2, <1>3, <1>4 DEF Moved
<1> QED  BY <1>6, <1>7, <1>8 DEF Brackets

\* One block after the other.
LEMMA JoinedFacts ==
    ASSUME NEW b, NEW d, Block(b), Block(d)
    PROVE  /\ Joined(b, d) \in Seq(Statements) /\ Len(Joined(b, d)) = Len(b) + Len(d)
           /\ Piece(b, Joined(b, d), 0, 0) /\ Piece(d, Joined(b, d), Len(b), 0)
<1>1. b \in Seq(Statements) /\ d \in Seq(Statements) /\ Len(b) \in Nat /\ Len(d) \in Nat
  BY DEF Block
<1> DEFINE e == Shift(d, Len(b), 0)
           c == b \o e
<1>2. e \in Seq(Statements) /\ Len(e) = Len(d) /\ \A j \in 1 .. Len(d) : Moved(d[j], e[j], Len(b), 0)
  BY <1>1, ShiftFacts
<1> HIDE DEF e
<1>3. c \in Seq(Statements) /\ Len(c) = Len(b) + Len(d)
  BY <1>1, <1>2
<1>4. \A j \in 1 .. Len(b) : c[j + 0] = b[j] /\ b[j] \in Statements
  BY <1>1, <1>2
<1>5. \A j \in 1 .. Len(d) : c[j + Len(b)] = e[j]
  BY <1>1, <1>2
<1>6. Joined(b, d) = c
  BY DEF Joined, e
<1> HIDE DEF c
<1>7. Piece(b, c, 0, 0)
  <2>1. ASSUME NEW j \in 1 .. Len(b) PROVE Moved(b[j], c[j + 0], 0, 0)
    <3>1. b[j].src \in Nat /\ b[j].end \in Nat /\ c[j + 0] = b[j]
      BY <1>4 DEF Statements
    <3> QED  BY <3>1 DEF Moved
  <2> QED  BY <1>1, <1>3, <2>1 DEF Piece
<1>8. Piece(d, c, Len(b), 0)
  BY <1>1, <1>2, <1>3, <1>5 DEF Piece
<1> QED  BY <1>3, <1>6, <1>7, <1>8

\* A position of two joined blocks is one of the first or one of the second.
LEMMA JoinedPositions ==
    ASSUME NEW m \in Nat, NEW n \in Nat, NEW i \in 1 .. m + n
    PROVE  \/ \E j \in 1 .. m : i = j + 0
           \/ \E j \in 1 .. n : i = j + m
<1>1. CASE i <= m
  BY <1>1
<1>2. CASE i > m
  <2>1. i - m \in 1 .. n /\ i = (i - m) + m
    BY <1>2
  <2> QED  BY <2>1
<1> QED  BY <1>1, <1>2

LEMMA JoinedBlock ==
    ASSUME NEW b, NEW d, Block(b), Block(d)
    PROVE  Block(Joined(b, d))
<1> DEFINE c == Joined(b, d)
<1>1. /\ c \in Seq(Statements) /\ Len(c) = Len(b) + Len(d)
      /\ Piece(b, c, 0, 0) /\ Piece(d, c, Len(b), 0) /\ Len(b) \in Nat /\ Len(d) \in Nat
  BY JoinedFacts DEF Block
<1> HIDE DEF c
<1>2. ASSUME NEW x, Block(x), NEW n \in Nat, Piece(x, c, n, 0), NEW j \in 1 .. Len(x)
      PROVE  c[j + n].kind # "self" /\ Reads(c, j + n) /\ Brackets(c, j + n)
  <2>1. c[j + n].kind # "self" /\ Brackets(c, j + n)
    BY <1>1, <1>2, PieceBrackets
  <2>2. CASE x[j].src # 0
    BY <1>1, <1>2, <2>1, <2>2, PieceReads
  <2>3. CASE x[j].src = 0
    <3>1. c[j + n].src = 0
      BY <1>2, <2>3 DEF Piece, Moved
    <3> QED  BY <2>1, <3>1 DEF Reads
  <2> QED  BY <2>2, <2>3
<1>3. ASSUME NEW i \in 1 .. Len(c) PROVE c[i].kind # "self" /\ Reads(c, i) /\ Brackets(c, i)
  <2>0. Len(b) \in Nat /\ Len(d) \in Nat /\ i \in 1 .. Len(b) + Len(d)
    BY <1>1
  <2>1. (\E j \in 1 .. Len(b) : i = j + 0) \/ (\E j \in 1 .. Len(d) : i = j + Len(b))
    BY <2>0, JoinedPositions
  <2>2. CASE \E j \in 1 .. Len(b) : i = j + 0
    BY <1>1, <1>2, <2>2
  <2>3. CASE \E j \in 1 .. Len(d) : i = j + Len(b)
    BY <1>1, <1>2, <2>3
  <2> QED  BY <2>1, <2>2, <2>3
<1> QED  BY <1>1, <1>3 DEF Block, c

\* A block around another.
LEMMA NestedFacts ==
    ASSUME NEW e, NEW kids, NEW b, b = ResolveOps(kids), Block(b), e.target \in STRING, e.col \in STRING
    PROVE  LET c == Nested(e, kids)
               L == Len(b) + 2
           IN  /\ c \in Seq(Statements) /\ Len(c) = L /\ Piece(b, c, 1, 1)
               /\ c[1] = Stmt("query", e.target, e.col, L) /\ c[L] = Stmt("drop", e.target, e.col, L)
<1>1. b \in Seq(Statements) /\ Len(b) \in Nat
  BY DEF Block
<1> DEFINE body == Shift(b, 1, 1)
           L == Len(b) + 2
           q == Stmt("query", e.target, e.col, L)
           d == Stmt("drop", e.target, e.col, L)
           c == <<q>> \o body \o <<d>>
<1>2. body \in Seq(Statements) /\ Len(body) = Len(b) /\ \A j \in 1 .. Len(b) : Moved(b[j], body[j], 1, 1)
  BY <1>1, ShiftFacts
<1>3. q \in Statements /\ d \in Statements
  BY <1>1 DEF Stmt, Statements, StmtKinds
<1>4. Nested(e, kids) = c
  BY <1>2 DEF Nested
<1> HIDE DEF body, q, d
<1> DEFINE front == <<q>> \o body
<1>5. /\ front \in Seq(Statements) /\ Len(front) = Len(b) + 1 /\ front[1] = q
      /\ \A j \in 1 .. Len(b) : front[j + 1] = body[j]
  BY <1>1, <1>2, <1>3
<1>6. c = front \o <<d>>
  OBVIOUS
<1> HIDE DEF front
<1>7. /\ c \in Seq(Statements) /\ Len(c) = L /\ c[L] = d
      /\ \A i \in 1 .. Len(b) + 1 : c[i] = front[i]
  <2> HIDE DEF c
  <2> QED  BY <1>1, <1>3, <1>5, <1>6
<1> HIDE DEF c
<1>8. c[1] = q /\ \A j \in 1 .. Len(b) : c[j + 1] = body[j]
  BY <1>1, <1>5, <1>7
<1>9. Piece(b, c, 1, 1)
  BY <1>1, <1>2, <1>7, <1>8 DEF Piece
<1> QED  BY <1>4, <1>7, <1>8, <1>9 DEF q, d

\* Where a position of a nested block is.
LEMMA NestedPositions ==
    ASSUME NEW n \in Nat, NEW i \in 1 .. n + 2
    PROVE  i = 1 \/ i = n + 2 \/ \E j \in 1 .. n : i = j + 1
<1>1. CASE i # 1 /\ i # n + 2
  <2>1. i - 1 \in 1 .. n /\ i = (i - 1) + 1
    BY <1>1
  <2> QED  BY <2>1
<1> QED  BY <1>1

LEMMA NestedBlock ==
    ASSUME NEW e, NEW kids, NEW b, b = ResolveOps(kids), Block(b), e.target \in STRING, e.col \in STRING
    PROVE  Block(Nested(e, kids))
<1> DEFINE c == Nested(e, kids)
           L == Len(b) + 2
<1>1. /\ c \in Seq(Statements) /\ Len(c) = L /\ Piece(b, c, 1, 1) /\ Len(b) \in Nat
      /\ c[1] = Stmt("query", e.target, e.col, L) /\ c[L] = Stmt("drop", e.target, e.col, L)
      /\ b \in Seq(Statements)
  BY NestedFacts DEF Block
<1> HIDE DEF c
<1>2. /\ c[1].kind = "query" /\ c[1].src = 0 /\ c[1].end = L
      /\ c[L].kind = "drop" /\ c[L].src = 0 /\ Closes(c[1], c[L])
  BY <1>1 DEF Stmt, Closes
<1>3. ASSUME NEW j \in 1 .. Len(b)
      PROVE  /\ c[j + 1].src >= 1 /\ (c[j + 1].kind = "query" => c[j + 1].end < L)
             /\ c[j + 1].kind # "self" /\ Reads(c, j + 1) /\ Brackets(c, j + 1)
  <2>1. Moved(b[j], c[j + 1], 1, 1) /\ b[j] \in Statements /\ b[j].src \in Nat /\ b[j].end \in Nat
    <3>1. Moved(b[j], c[j + 1], 1, 1) /\ b[j] \in Statements
      BY <1>1 DEF Piece
    <3> QED  BY <3>1 DEF Statements
  <2>2. c[j + 1].kind # "self" /\ Brackets(c, j + 1)
    BY <1>1, PieceBrackets
  <2>3. Reads(c, j + 1) /\ c[j + 1].src >= 1
    <3>1. CASE b[j].src # 0
      BY <1>1, <2>1, <3>1, PieceReads DEF Moved
    <3>2. CASE b[j].src = 0
      <4>1. c[j + 1].src = 1 /\ 1 < j + 1 /\ j + 1 < L
        BY <1>1, <2>1, <3>2 DEF Moved
      <4> QED  BY <1>2, <4>1 DEF Reads
    <3> QED  BY <3>1, <3>2
  <2>4. c[j + 1].kind = "query" => c[j + 1].end < L
    <3>1. SUFFICES ASSUME c[j + 1].kind = "query" PROVE c[j + 1].end < L
      OBVIOUS
    <3>2. b[j].kind = "query" /\ b[j].end <= Len(b)
      BY <2>1, <3>1 DEF Moved, Block, Brackets
    <3> QED  BY <1>1, <2>1, <3>2 DEF Moved
  <2> QED  BY <2>2, <2>3, <2>4
<1>4. c[1].kind # "self" /\ Reads(c, 1) /\ Brackets(c, 1)
  <2>1. ASSUME NEW k \in 1 .. Len(c), 1 < k, k < L
        PROVE  c[k].src >= 1 /\ (c[k].kind = "query" => c[k].end < L)
    <3>1. PICK j \in 1 .. Len(b) : k = j + 1
      BY <1>1, <2>1, NestedPositions
    <3> QED  BY <1>3, <3>1
  <2>2. 1 < L /\ L <= Len(c)
    BY <1>1
  <2> QED  BY <1>2, <2>1, <2>2 DEF Reads, Brackets
<1>5. c[L].kind # "self" /\ Reads(c, L) /\ Brackets(c, L)
  BY <1>2 DEF Reads, Brackets
<1>6. ASSUME NEW i \in 1 .. Len(c) PROVE c[i].kind # "self" /\ Reads(c, i) /\ Brackets(c, i)
  <2>1. i = 1 \/ i = L \/ \E j \in 1 .. Len(b) : i = j + 1
    BY <1>1, NestedPositions
  <2> QED  BY <1>3, <1>4, <1>5, <2>1
<1> QED  BY <1>1, <1>6 DEF Block, c

\* One statement, or none.
LEMMA LeafBlock ==
    ASSUME NEW kind \in {"bulk", "soft", "unlink"}, NEW type \in STRING, NEW col \in STRING
    PROVE  /\ Block(Leaf(kind, type, col)) /\ Len(Leaf(kind, type, col)) = 1
           /\ Leaf(kind, type, col)[1] = Stmt(kind, type, col, 1)
<1>1. Stmt(kind, type, col, 1) \in Statements
  BY DEF Stmt, Statements, StmtKinds
<1> DEFINE b == Leaf(kind, type, col)
<1>2. b = <<Stmt(kind, type, col, 1)>>
  BY DEF Leaf
<1> HIDE DEF b
<1>3. b \in Seq(Statements) /\ Len(b) = 1 /\ b[1] = Stmt(kind, type, col, 1)
  BY <1>1, <1>2
<1>4. b[1].kind = kind /\ b[1].src = 0
  BY <1>3 DEF Stmt
<1>5. ASSUME NEW i \in 1 .. Len(b) PROVE b[i].kind # "self" /\ Reads(b, i) /\ Brackets(b, i)
  <2>1. i = 1
    BY <1>3
  <2> QED  BY <1>4, <2>1 DEF Reads, Brackets
<1> QED  BY <1>3, <1>5 DEF Block, b

LEMMA EmptyBlock == Block(<<>>) /\ Len(<<>>) = 0
BY DEF Block

-----------------------------------------------------------------------------
(* Dependents go before what they depend on.                               *)

\* Statement x does with the rows that depend by d what is declared.
Deals(x, d) == x.type = d.child /\ x.col = d.col /\ EffectOf(x.kind) = d.mode

\* Statement i deletes rows that others depend on by d, of a type that is in left
\* and not on the path to i.
Calls(s, left, c, i, d) ==
    /\ c[i].kind = "drop" \/ (c[i].kind = "bulk" /\ c[i].type \notin Junctions(s))
    /\ d.parent = c[i].type /\ d.child \in left /\ d.child \notin Around(c, i)

\* Statement x is about a declared dependency and does to its rows what is declared.
Declared(s, x) ==
    \E d \in Dependents(s) :
        d.child = x.type /\ d.col = x.col
        /\ d.mode = IF x.kind = "query" THEN "delete" ELSE EffectOf(x.kind)

\* It does what is declared, and the dependents of the rows it deletes went before.
HandledAt(s, left, c, i) ==
    /\ Declared(s, c[i])
    /\ \A d \in Dependents(s) : Calls(s, left, c, i, d) =>
          /\ c[i].kind = "drop"
          /\ \E k \in 1 .. i - 1 : Deals(c[k], d) /\ c[k].src # 0 /\ c[c[k].src].end = i

Good(s, left, b) == Block(b) /\ \A i \in 1 .. Len(b) : HandledAt(s, left, b, i)

\* Some statement of b deals with d for the rows b is given.
Answers(b, d) == \E k \in 1 .. Len(b) : Deals(b[k], d) /\ b[k].src = 0

GoodOps(s, left, ops) ==
    /\ Len(ops) \in Nat /\ ops \in Seq(Seq(Statements))
    /\ \A k \in 1 .. Len(ops) : Good(s, left, ops[k])

Covered(s, t, within, ops) ==
    \A d \in Dependents(s) : d.parent = t /\ d.child \in within =>
        \E k \in 1 .. Len(ops) : Answers(ops[k], d)

LEMMA AroundPiece ==
    ASSUME NEW b, Block(b), NEW c \in Seq(Statements), NEW n \in Nat, NEW a \in Nat, Piece(b, c, n, a),
           NEW j \in 1 .. Len(b), NEW x \in Around(b, j)
    PROVE  x \in Around(c, j + n)
<1>1. b \in Seq(Statements) /\ Len(b) \in Nat /\ DOMAIN b = 1 .. Len(b)
  BY DEF Block
<1>2. Len(c) \in Nat /\ DOMAIN c = 1 .. Len(c) /\ n + Len(b) <= Len(c)
  BY DEF Piece
<1>3. PICK q \in 1 .. Len(b) : /\ b[q].type = x
                               /\ q = j \/ (b[q].kind = "query" /\ q < j /\ j <= b[q].end)
  BY <1>1 DEF Around
<1>4. Moved(b[q], c[q + n], n, a) /\ q + n \in DOMAIN c
  BY <1>1, <1>2 DEF Piece
<1>5. b[q].end \in Nat
  <2>1. b[q] \in Statements
    BY <1>1
  <2> QED  BY <2>1 DEF Statements
<1>6. c[q + n].type = x /\ c[q + n].kind = b[q].kind /\ c[q + n].end = b[q].end + n
  BY <1>3, <1>4 DEF Moved
<1>7. q + n = j + n \/ (c[q + n].kind = "query" /\ q + n < j + n /\ j + n <= c[q + n].end)
  <2>1. CASE q = j
    BY <2>1
  <2>2. CASE b[q].kind = "query" /\ q < j /\ j <= b[q].end
    <3>1. q \in Nat /\ j \in Nat /\ q + n < j + n /\ j + n <= b[q].end + n
      BY <1>1, <1>5, <2>2
    <3> QED  BY <1>6, <2>2, <3>1
  <2> QED  BY <1>3, <2>1, <2>2
<1> QED  BY <1>4, <1>6, <1>7 DEF Around

LEMMA PieceHandled ==
    ASSUME NEW b, Block(b), NEW c \in Seq(Statements), NEW n \in Nat, NEW a \in Nat, Piece(b, c, n, a),
           NEW j \in 1 .. Len(b), NEW s, NEW left, NEW inner, HandledAt(s, inner, b, j),
           \A x \in left : x \notin Around(c, j + n) => x \in inner
    PROVE  HandledAt(s, left, c, j + n)
<1>1. b \in Seq(Statements) /\ Len(b) \in Nat /\ j \in Nat
  BY DEF Block
<1>2. Moved(b[j], c[j + n], n, a)
  BY DEF Piece
<1>a. Declared(s, c[j + n])
  BY <1>2 DEF HandledAt, Declared, Moved
<1>3. SUFFICES ASSUME NEW d \in Dependents(s), Calls(s, left, c, j + n, d)
               PROVE  /\ c[j + n].kind = "drop"
                      /\ \E k \in 1 .. (j + n) - 1 : Deals(c[k], d) /\ c[k].src # 0 /\ c[c[k].src].end = j + n
  BY <1>a DEF HandledAt
<1>4. Calls(s, inner, b, j, d)
  <2>1. d.child \in inner /\ d.child \notin Around(b, j)
    BY <1>3, AroundPiece DEF Calls
  <2> QED  BY <1>2, <1>3, <2>1 DEF Calls, Moved
<1>5. b[j].kind = "drop"
  BY <1>4 DEF HandledAt
<1>6. PICK k \in 1 .. j - 1 : Deals(b[k], d) /\ b[k].src # 0 /\ b[b[k].src].end = j
  BY <1>4 DEF HandledAt
<1> DEFINE q == b[k].src
<1>7. k \in 1 .. Len(b) /\ b[k] \in Statements /\ Reads(b, k)
  BY <1>1, <1>6 DEF Block
<1>8. q \in Nat /\ q # 0 /\ q < k /\ q \in 1 .. Len(b)
  <2>1. q \in Nat
    BY <1>7 DEF Statements
  <2>2. q # 0 /\ q < k
    BY <1>6, <1>7 DEF Reads
  <2> HIDE DEF q
  <2> QED  BY <1>1, <1>7, <2>1, <2>2
<1>9. Moved(b[k], c[k + n], n, a) /\ Moved(b[q], c[q + n], n, a)
  BY <1>7, <1>8 DEF Piece
<1>10. Deals(c[k + n], d) /\ c[k + n].src = q + n /\ c[q + n].end = j + n
  BY <1>6, <1>8, <1>9 DEF Deals, Moved
<1> HIDE DEF q
<1>11. k + n \in 1 .. (j + n) - 1 /\ q + n # 0
  BY <1>1, <1>8
<1> QED  BY <1>2, <1>5, <1>10, <1>11 DEF Moved

LEMMA JoinedGood ==
    ASSUME NEW s, NEW left, NEW b, NEW d, Good(s, left, b), Good(s, left, d)
    PROVE  Good(s, left, Joined(b, d))
<1> DEFINE c == Joined(b, d)
<1>1. /\ c \in Seq(Statements) /\ Len(c) = Len(b) + Len(d) /\ Block(b) /\ Block(d) /\ Block(c)
      /\ Piece(b, c, 0, 0) /\ Piece(d, c, Len(b), 0) /\ Len(b) \in Nat /\ Len(d) \in Nat
  <2>1. Block(b) /\ Block(d)
    BY DEF Good
  <2>2. b \in Seq(Statements) /\ d \in Seq(Statements)
    BY <2>1 DEF Block
  <2> QED  BY <2>1, <2>2, JoinedFacts, JoinedBlock
<1> HIDE DEF c
<1>2. ASSUME NEW i \in 1 .. Len(c) PROVE HandledAt(s, left, c, i)
  <2>0. Len(b) \in Nat /\ Len(d) \in Nat /\ i \in 1 .. Len(b) + Len(d)
    BY <1>1
  <2>1. (\E j \in 1 .. Len(b) : i = j + 0) \/ (\E j \in 1 .. Len(d) : i = j + Len(b))
    BY <2>0, JoinedPositions
  <2>2. CASE \E j \in 1 .. Len(b) : i = j + 0
    <3>1. PICK j \in 1 .. Len(b) : i = j + 0
      BY <2>2
    <3>2. HandledAt(s, left, b, j)
      BY DEF Good
    <3> QED  BY <1>1, <3>1, <3>2, PieceHandled
  <2>3. CASE \E j \in 1 .. Len(d) : i = j + Len(b)
    <3>1. PICK j \in 1 .. Len(d) : i = j + Len(b)
      BY <2>3
    <3>2. HandledAt(s, left, d, j)
      BY DEF Good
    <3> QED  BY <1>1, <3>1, <3>2, PieceHandled
  <2> QED  BY <2>1, <2>2, <2>3
<1> QED  BY <1>1, <1>2 DEF Good, c

LEMMA JoinedAnswers ==
    ASSUME NEW b, NEW d, Block(b), Block(d), NEW x, Answers(b, x) \/ Answers(d, x)
    PROVE  Answers(Joined(b, d), x)
<1> DEFINE c == Joined(b, d)
<1>1. /\ Len(c) = Len(b) + Len(d) /\ Len(b) \in Nat /\ Len(d) \in Nat
      /\ Piece(b, c, 0, 0) /\ Piece(d, c, Len(b), 0)
  BY JoinedFacts DEF Block
<1> HIDE DEF c
<1>2. ASSUME NEW y, NEW n \in Nat, Piece(y, c, n, 0), Len(y) \in Nat, NEW k \in 1 .. Len(y),
             Deals(y[k], x), y[k].src = 0, n + Len(y) <= Len(c)
      PROVE  Answers(c, x)
  <2>1. Moved(y[k], c[k + n], n, 0) /\ k + n \in 1 .. Len(c)
    BY <1>1, <1>2 DEF Piece
  <2>2. Deals(c[k + n], x) /\ c[k + n].src = 0
    BY <1>2, <2>1 DEF Moved, Deals
  <2> QED  BY <2>1, <2>2 DEF Answers
<1>3. CASE Answers(b, x)
  <2>1. PICK k \in 1 .. Len(b) : Deals(b[k], x) /\ b[k].src = 0
    BY <1>3 DEF Answers
  <2> QED  BY <1>1, <1>2, <2>1 DEF c
<1>4. CASE Answers(d, x)
  <2>1. PICK k \in 1 .. Len(d) : Deals(d[k], x) /\ d[k].src = 0
    BY <1>4 DEF Answers
  <2> QED  BY <1>1, <1>2, <2>1 DEF c
<1> QED  BY <1>3, <1>4

LEMMA ResolvedGood ==
    ASSUME NEW s, NEW left, NEW ops, GoodOps(s, left, ops)
    PROVE  /\ Good(s, left, ResolveOps(ops))
           /\ \A k \in 1 .. Len(ops) : \A x : Answers(ops[k], x) => Answers(ResolveOps(ops), x)
<1> DEFINE N == Len(ops)
<1>0. N \in Nat /\ \A k \in 1 .. N : Good(s, left, ops[k])
  BY DEF GoodOps
<1>1. PICK f : /\ f = [i \in 0 .. N |-> IF i = 0 THEN <<>> ELSE Joined(f[i - 1], ops[i])]
               /\ ResolveOps(ops) = f[N]
  BY <1>0, ResolveOpsIs
<1>2. f[0] = <<>> /\ \A i \in 1 .. N : f[i] = Joined(f[i - 1], ops[i])
  <2> HIDE DEF N
  <2>1. 0 \in 0 .. N /\ \A i \in 1 .. N : i \in 0 .. N /\ i # 0
    BY <1>0
  <2> QED  BY <1>1, <2>1
<1> DEFINE Holds(i) == /\ Good(s, left, f[i])
                       /\ \A k \in 1 .. i : \A x : Answers(ops[k], x) => Answers(f[i], x)
<1>3. Holds(0)
  BY <1>2, EmptyBlock DEF Good
<1>4. ASSUME NEW i \in 1 .. N, Holds(i - 1) PROVE Holds(i)
  <2>1. Good(s, left, f[i - 1]) /\ Good(s, left, ops[i]) /\ f[i] = Joined(f[i - 1], ops[i])
    BY <1>0, <1>2, <1>4
  <2>2. Good(s, left, f[i])
    BY <2>1, JoinedGood
  <2>3. ASSUME NEW k \in 1 .. i, NEW x, Answers(ops[k], x) PROVE Answers(f[i], x)
    <3>1. Answers(f[i - 1], x) \/ Answers(ops[i], x)
      <4>1. k = i \/ k \in 1 .. i - 1
        BY <2>3
      <4> QED  BY <1>4, <2>3, <4>1
    <3>2. Block(f[i - 1]) /\ Block(ops[i])
      BY <2>1 DEF Good
    <3> QED  BY <2>1, <3>1, <3>2, JoinedAnswers
  <2> QED  BY <2>2, <2>3
<1>5. Holds(N)
  <2> HIDE DEF Holds
  <2> DEFINE S == { i \in 0 .. N : Holds(i) }
  <2>1. 0 \in S /\ \A i \in 1 .. N : i - 1 \in S => i \in S
    BY <1>0, <1>3, <1>4
  <2> HIDE DEF S
  <2>2. 0 .. N \subseteq S
    BY <1>0, <2>1, CountUp
  <2>3. N \in S
    BY <1>0, <2>2
  <2> QED  BY <2>3 DEF S
<1> QED  BY <1>1, <1>5

\* A nested block deals with the dependents of the rows it deletes.
LEMMA NestedGood ==
    ASSUME NEW s, NEW left, NEW e, NEW kids, e.target \in STRING, e.col \in STRING,
           GoodOps(s, left \ {e.target}, kids), Covered(s, e.target, left \ {e.target}, kids),
           \E d \in Dependents(s) : d.child = e.target /\ d.col = e.col /\ d.mode = "delete"
    PROVE  /\ Good(s, left, Nested(e, kids))
           /\ \A d : d.child = e.target /\ d.col = e.col /\ d.mode = "delete" => Answers(Nested(e, kids), d)
<1> DEFINE b == ResolveOps(kids)
           c == Nested(e, kids)
           L == Len(b) + 2
<1>1. /\ Good(s, left \ {e.target}, b) /\ Block(b) /\ b \in Seq(Statements) /\ Len(b) \in Nat
      /\ \A k \in 1 .. Len(kids) : \A x : Answers(kids[k], x) => Answers(b, x)
  BY ResolvedGood DEF Good, Block
<1>2. /\ c \in Seq(Statements) /\ Len(c) = L /\ Piece(b, c, 1, 1) /\ Block(c)
      /\ c[1] = Stmt("query", e.target, e.col, L) /\ c[L] = Stmt("drop", e.target, e.col, L)
  BY <1>1, NestedFacts, NestedBlock
<1> HIDE DEF b, c
<1>3. /\ c[1].kind = "query" /\ c[1].type = e.target /\ c[1].col = e.col /\ c[1].end = L
      /\ c[L].kind = "drop" /\ c[L].type = e.target /\ c[L].col = e.col /\ c[L].src = 0
      /\ DOMAIN c = 1 .. L
  BY <1>2 DEF Stmt
<1>a. Declared(s, c[1]) /\ Declared(s, c[L])
  BY <1>3 DEF Declared, EffectOf
<1>4. HandledAt(s, left, c, 1)
  BY <1>3, <1>a DEF HandledAt, Calls
<1>5. ASSUME NEW j \in 1 .. Len(b) PROVE HandledAt(s, left, c, j + 1)
  <2>1. e.target \in Around(c, j + 1)
    <3>1. 1 \in DOMAIN c /\ 1 < j + 1 /\ j + 1 <= c[1].end
      BY <1>1, <1>3
    <3> QED  BY <1>3, <3>1 DEF Around
  <2>2. \A x \in left : x \notin Around(c, j + 1) => x \in left \ {e.target}
    BY <2>1
  <2>3. HandledAt(s, left \ {e.target}, b, j)
    BY <1>1 DEF Good
  <2> QED  BY <1>1, <1>2, <2>2, <2>3, PieceHandled
<1>6. HandledAt(s, left, c, L)
  <2>1. SUFFICES ASSUME NEW d \in Dependents(s), Calls(s, left, c, L, d)
                 PROVE  \E k \in 1 .. L - 1 : Deals(c[k], d) /\ c[k].src # 0 /\ c[c[k].src].end = L
    BY <1>3, <1>a DEF HandledAt
  <2>2. e.target \in Around(c, L)
    <3>1. L \in DOMAIN c
      BY <1>1, <1>3
    <3> QED  BY <1>3, <3>1 DEF Around
  <2>3. d.parent = e.target /\ d.child \in left \ {e.target}
    BY <1>3, <2>1, <2>2 DEF Calls
  <2>4. Answers(b, d)
    BY <1>1, <2>3 DEF Covered
  <2>5. PICK k \in 1 .. Len(b) : Deals(b[k], d) /\ b[k].src = 0
    BY <2>4 DEF Answers
  <2>6. Moved(b[k], c[k + 1], 1, 1) /\ k + 1 \in 1 .. L - 1
    BY <1>1, <1>2 DEF Piece
  <2>7. Deals(c[k + 1], d) /\ c[k + 1].src = 1
    BY <2>5, <2>6 DEF Moved, Deals
  <2> QED  BY <1>3, <2>6, <2>7
<1>7. ASSUME NEW i \in 1 .. Len(c) PROVE HandledAt(s, left, c, i)
  <2>1. i = 1 \/ i = L \/ \E j \in 1 .. Len(b) : i = j + 1
    BY <1>1, <1>2, NestedPositions
  <2> QED  BY <1>4, <1>5, <1>6, <2>1
<1>8. ASSUME NEW d, d.child = e.target, d.col = e.col, d.mode = "delete" PROVE Answers(c, d)
  <2>1. L \in 1 .. Len(c) /\ Deals(c[L], d) /\ c[L].src = 0
    BY <1>1, <1>2, <1>3, <1>8 DEF Deals, EffectOf
  <2> QED  BY <2>1 DEF Answers
<1> QED  BY <1>2, <1>7, <1>8 DEF Good, c

\* A single statement: a bulk delete of rows without dependents, or of a junction's.
LEMMA LeafGood ==
    ASSUME NEW s, NEW left, NEW kind \in {"bulk", "soft", "unlink"}, NEW type \in STRING, NEW col \in STRING,
           kind # "bulk" \/ type \in Junctions(s)
             \/ \A d \in Dependents(s) : d.parent = type /\ d.child \in left => d.child = type,
           \E d \in Dependents(s) : d.child = type /\ d.col = col /\ d.mode = EffectOf(kind)
    PROVE  /\ Good(s, left, Leaf(kind, type, col))
           /\ \A d : d.child = type /\ d.col = col /\ d.mode = EffectOf(kind) => Answers(Leaf(kind, type, col), d)
<1> DEFINE b == Leaf(kind, type, col)
<1>1. Block(b) /\ Len(b) = 1 /\ b[1] = Stmt(kind, type, col, 1) /\ b \in Seq(Statements)
  BY LeafBlock DEF Block
<1> HIDE DEF b
<1>2. b[1].kind = kind /\ b[1].type = type /\ b[1].col = col /\ b[1].src = 0 /\ 1 \in DOMAIN b
  BY <1>1 DEF Stmt
<1>3. HandledAt(s, left, b, 1)
  <2>a. Declared(s, b[1])
    BY <1>2 DEF Declared
  <2>1. SUFFICES ASSUME NEW d \in Dependents(s), Calls(s, left, b, 1, d) PROVE FALSE
    BY <2>a DEF HandledAt
  <2>2. kind = "bulk" /\ type \notin Junctions(s) /\ d.parent = type /\ d.child \in left /\ d.child \notin Around(b, 1)
    BY <1>2, <2>1 DEF Calls
  <2>3. type \in Around(b, 1)
    BY <1>2 DEF Around
  <2> QED  BY <2>2, <2>3
<1>4. ASSUME NEW i \in 1 .. Len(b) PROVE HandledAt(s, left, b, i)
  <2>1. i = 1
    BY <1>1
  <2> QED  BY <1>3, <2>1
<1>5. ASSUME NEW d, d.child = type, d.col = col, d.mode = EffectOf(kind) PROVE Answers(b, d)
  <2>1. 1 \in 1 .. Len(b) /\ Deals(b[1], d) /\ b[1].src = 0
    BY <1>1, <1>2, <1>5 DEF Deals
  <2> QED  BY <2>1 DEF Answers
<1> QED  BY <1>1, <1>4, <1>5 DEF Good, b

-----------------------------------------------------------------------------
(* The operations of an edge deal with the dependents declared by it.      *)

\* Edge e of t declares the dependents d.
DependsBy(s, t, e, d) ==
    /\ e \in ToSet(s.edges[t]) /\ InCascade(s.ann[t], e) /\ d.parent = t /\ d.col = e.col
    /\ \/ /\ e.rel = "M2M" /\ e.through # NoType
          /\ d.child = e.through /\ d.mode = "delete"
       \/ /\ e.rel # "M2M" /\ KeyOnTarget(e)
          /\ d.child = e.target /\ d.mode = EdgeMode(s, s.ann[t], e)

LEMMA DeclaredIs ==
    ASSUME NEW s, NEW x \in DeclaredEdges(s)
    PROVE  /\ x[1] \in Types(s) /\ x[2] \in ToSet(s.edges[x[1]]) /\ InCascade(s.ann[x[1]], x[2])
           /\ x[2].rel = "M2M" => x[2].through # NoType
           /\ x[2].rel # "M2M" => KeyOnTarget(x[2])
<1>1. x \in UNION { {t} \X ToSet(s.edges[t]) : t \in ToSet(s.types) }
  BY DEF DeclaredEdges
<1>2. PICK t \in ToSet(s.types) : x \in {t} \X ToSet(s.edges[t])
  BY <1>1
<1>3. x[1] = t /\ x[2] \in ToSet(s.edges[t])
  BY <1>2
<1>4. /\ x[2].name \notin s.ann[x[1]].skip /\ ~x[2].inverse /\ x[2].col # NoCol
      /\ \/ x[2].rel = "O2M"
         \/ x[2].rel = "O2O" /\ ~x[2].ownFK
         \/ x[2].rel = "M2M" /\ x[2].through # NoType
  BY DEF DeclaredEdges
<1> QED  BY <1>2, <1>3, <1>4 DEF Types, InCascade, KeyOnTarget

LEMMA DependentIs ==
    ASSUME NEW s, NEW d \in Dependents(s)
    PROVE  d.parent \in Types(s) /\ \E e : DependsBy(s, d.parent, e, d)
<1> DEFINE Dep(te, child, mode) == [parent |-> te[1], child |-> child, col |-> te[2].col, mode |-> mode]
           m2m      == { te \in DeclaredEdges(s) : te[2].rel = "M2M" }
           unlinked == { te \in DeclaredEdges(s) \ m2m : te[2].name \in s.ann[te[1]].unlink }
           chosen   == { te \in DeclaredEdges(s) : te[2].name \in s.ann[te[1]].soft }
           detected == { te \in DeclaredEdges(s) : te[2].target \in s.softTypes
                                              /\ te[2].name \notin s.ann[te[1]].hard }
           softened == (chosen \cup detected) \ (m2m \cup unlinked)
           deleted  == DeclaredEdges(s) \ (m2m \cup unlinked \cup softened)
<1>1. \/ \E te \in m2m : d = Dep(te, te[2].through, "delete")
      \/ \E te \in unlinked : d = Dep(te, te[2].target, "unlink")
      \/ \E te \in softened : d = Dep(te, te[2].target, "soft")
      \/ \E te \in deleted : d = Dep(te, te[2].target, "delete")
  BY DEF Dependents
<1>2. CASE \E te \in m2m : d = Dep(te, te[2].through, "delete")
  <2>1. PICK te \in m2m : d = Dep(te, te[2].through, "delete")
    BY <1>2
  <2>2. te \in DeclaredEdges(s) /\ te[2].rel = "M2M"
    OBVIOUS
  <2>3. DependsBy(s, te[1], te[2], d)
    BY <2>1, <2>2, DeclaredIs DEF DependsBy
  <2> QED  BY <2>1, <2>2, <2>3, DeclaredIs
<1>3. ASSUME NEW te \in DeclaredEdges(s), te[2].rel # "M2M",
             d = Dep(te, te[2].target, EdgeMode(s, s.ann[te[1]], te[2]))
      PROVE  d.parent \in Types(s) /\ \E e : DependsBy(s, d.parent, e, d)
  <2>1. DependsBy(s, te[1], te[2], d)
    BY <1>3, DeclaredIs DEF DependsBy
  <2> QED  BY <1>3, <2>1, DeclaredIs
<1>4. CASE \E te \in unlinked : d = Dep(te, te[2].target, "unlink")
  <2>1. PICK te \in unlinked : d = Dep(te, te[2].target, "unlink")
    BY <1>4
  <2>2. te \in DeclaredEdges(s) /\ te[2].rel # "M2M" /\ EdgeMode(s, s.ann[te[1]], te[2]) = "unlink"
    BY DEF EdgeMode
  <2> QED  BY <1>3, <2>1, <2>2
<1>5. CASE \E te \in softened : d = Dep(te, te[2].target, "soft")
  <2>1. PICK te \in softened : d = Dep(te, te[2].target, "soft")
    BY <1>5
  <2>2. te \in DeclaredEdges(s) /\ te[2].rel # "M2M" /\ EdgeMode(s, s.ann[te[1]], te[2]) = "soft"
    BY DEF EdgeMode
  <2> QED  BY <1>3, <2>1, <2>2
<1>6. CASE \E te \in deleted : d = Dep(te, te[2].target, "delete")
  <2>1. PICK te \in deleted : d = Dep(te, te[2].target, "delete")
    BY <1>6
  <2>2. te \in DeclaredEdges(s) /\ te[2].rel # "M2M" /\ EdgeMode(s, s.ann[te[1]], te[2]) = "delete"
    BY DEF EdgeMode
  <2> QED  BY <1>3, <2>1, <2>2
<1> QED  BY <1>1, <1>2, <1>4, <1>5, <1>6

\* Each edge the loops keep declares a dependent, but for a junction without type.
LEMMA EdgeDeclares ==
    ASSUME NEW s, NEW t \in Types(s), NEW e \in ToSet(s.edges[t]), InCascade(s.ann[t], e),
           (e.rel = "M2M" /\ e.through # NoType) \/ (e.rel # "M2M" /\ KeyOnTarget(e))
    PROVE  \E d \in Dependents(s) : DependsBy(s, t, e, d)
<1> DEFINE Dep(te, child, mode) == [parent |-> te[1], child |-> child, col |-> te[2].col, mode |-> mode]
           m2m      == { te \in DeclaredEdges(s) : te[2].rel = "M2M" }
           unlinked == { te \in DeclaredEdges(s) \ m2m : te[2].name \in s.ann[te[1]].unlink }
           chosen   == { te \in DeclaredEdges(s) : te[2].name \in s.ann[te[1]].soft }
           detected == { te \in DeclaredEdges(s) : te[2].target \in s.softTypes
                                              /\ te[2].name \notin s.ann[te[1]].hard }
           softened == (chosen \cup detected) \ (m2m \cup unlinked)
           deleted  == DeclaredEdges(s) \ (m2m \cup unlinked \cup softened)
           x        == <<t, e>>
<1>1. x[1] = t /\ x[2] = e /\ x \in DeclaredEdges(s)
  <2>1. x \in UNION { {u} \X ToSet(s.edges[u]) : u \in ToSet(s.types) }
    BY DEF Types
  <2>2. /\ e.name \notin s.ann[t].skip /\ ~e.inverse /\ e.col # NoCol
        /\ \/ e.rel = "O2M"
           \/ e.rel = "O2O" /\ ~e.ownFK
           \/ e.rel = "M2M" /\ e.through # NoType
    BY DEF InCascade, KeyOnTarget
  <2>3. x[1] = t /\ x[2] = e
    OBVIOUS
  <2> HIDE DEF x
  <2> QED  BY <2>1, <2>2, <2>3 DEF DeclaredEdges
<1> HIDE DEF x
<1>2. /\ \A y \in m2m : Dep(y, y[2].through, "delete") \in Dependents(s)
      /\ \A y \in unlinked : Dep(y, y[2].target, "unlink") \in Dependents(s)
      /\ \A y \in softened : Dep(y, y[2].target, "soft") \in Dependents(s)
      /\ \A y \in deleted : Dep(y, y[2].target, "delete") \in Dependents(s)
  BY DEF Dependents
<1>3. CASE e.rel = "M2M"
  <2>1. Dep(x, e.through, "delete") \in Dependents(s)
    BY <1>1, <1>2, <1>3
  <2>2. DependsBy(s, t, e, Dep(x, e.through, "delete"))
    BY <1>1, <1>3 DEF DependsBy
  <2> QED  BY <2>1, <2>2
<1>4. CASE e.rel # "M2M"
  <2>1. \/ x \in unlinked /\ EdgeMode(s, s.ann[t], e) = "unlink"
        \/ x \in softened /\ EdgeMode(s, s.ann[t], e) = "soft"
        \/ x \in deleted /\ EdgeMode(s, s.ann[t], e) = "delete"
    BY <1>1, <1>4 DEF EdgeMode
  <2>2. Dep(x, e.target, EdgeMode(s, s.ann[t], e)) \in Dependents(s)
    <3> HIDE DEF unlinked, softened, deleted
    <3> QED  BY <1>1, <1>2, <2>1
  <2>3. DependsBy(s, t, e, Dep(x, e.target, EdgeMode(s, s.ann[t], e)))
    BY <1>1, <1>4 DEF DependsBy
  <2> QED  BY <2>2, <2>3
<1> QED  BY <1>3, <1>4

\* The operations kids of a type are good and deal with its dependents in left.
Complete(s, t, left, kids) == GoodOps(s, left, kids) /\ Covered(s, t, left, kids)

LEMMA EdgeOpGood ==
    ASSUME NEW s \in Schemas, NEW t \in Types(s), NEW e \in ToSet(s.edges[t]), InCascade(s.ann[t], e),
           e.rel = "M2M" \/ KeyOnTarget(e), NEW below, NEW left,
           e.rel # "M2M" =>
               Complete(s, e.target, left \ {e.target}, below[left \ {e.target}][e.target])
    PROVE  /\ Good(s, left, EdgeOp(s, s.ann[t], e, below, left))
           /\ \A d : DependsBy(s, t, e, d) => Answers(EdgeOp(s, s.ann[t], e, below, left), d)
<1> DEFINE op == EdgeOp(s, s.ann[t], e, below, left)
           kids == below[left \ {e.target}][e.target]
<1>1. /\ e \in EdgesOf(s) /\ e.target \in STRING /\ e.col \in STRING
      /\ e.through \in Types(s) \cup {NoType}
  <2>1. e \in EdgesOf(s)
    BY GraphFacts
  <2>2. e.target \in Types(s) /\ e.col \in STRING /\ e.through \in Types(s) \cup {NoType}
    BY <2>1 DEF EdgesOf
  <2> QED  BY <2>1, <2>2, GraphFacts
<1>a. e.rel # "M2M" \/ e.through # NoType => \E d \in Dependents(s) : DependsBy(s, t, e, d)
  BY EdgeDeclares
<1>2. CASE e.rel = "M2M" /\ e.through = NoType
  <2>1. op = <<>>
    BY <1>2 DEF EdgeOp, M2MOp
  <2>2. Good(s, left, <<>>)
    BY EmptyBlock DEF Good
  <2>3. \A d : ~DependsBy(s, t, e, d)
    BY <1>2 DEF DependsBy
  <2> QED  BY <2>1, <2>2, <2>3
<1>3. CASE e.rel = "M2M" /\ e.through # NoType
  <2>1. op = Leaf("bulk", e.through, e.col)
    BY <1>3 DEF EdgeOp, M2MOp
  <2>2. e.through \in Junctions(s)
    <3>1. <<t, e>> \in UNION { {u} \X ToSet(s.edges[u]) : u \in ToSet(s.types) }
      BY DEF Types
    <3>2. /\ e.name \notin s.ann[t].skip /\ ~e.inverse /\ e.col # NoCol
      BY DEF InCascade
    <3>3. <<t, e>>[1] = t /\ <<t, e>>[2] = e
      OBVIOUS
    <3>4. <<t, e>> \in DeclaredEdges(s)
      BY <1>3, <3>1, <3>2, <3>3 DEF DeclaredEdges
    <3> QED  BY <1>3, <3>3, <3>4 DEF Junctions
  <2>3. e.through \in STRING
    BY <1>1, <1>3, GraphFacts
  <2>4. \A d : DependsBy(s, t, e, d) => d.child = e.through /\ d.col = e.col /\ d.mode = EffectOf("bulk")
    BY <1>3 DEF DependsBy, EffectOf
  <2>5. \E d \in Dependents(s) : d.child = e.through /\ d.col = e.col /\ d.mode = EffectOf("bulk")
    BY <1>a, <1>3, <2>4
  <2>6. /\ Good(s, left, op)
        /\ \A d : d.child = e.through /\ d.col = e.col /\ d.mode = EffectOf("bulk") => Answers(op, d)
    BY <1>1, <2>1, <2>2, <2>3, <2>5, LeafGood
  <2> QED  BY <2>4, <2>6
<1>4. CASE e.rel # "M2M" /\ EdgeMode(s, s.ann[t], e) = "delete"
  <2>1. op = DirectOp(e, kids)
    BY <1>4 DEF EdgeOp
  <2>2. GoodOps(s, left \ {e.target}, kids) /\ Covered(s, e.target, left \ {e.target}, kids)
    BY <1>4 DEF Complete
  <2>3. \A d : DependsBy(s, t, e, d) => d.child = e.target /\ d.col = e.col /\ d.mode = "delete"
    BY <1>4 DEF DependsBy
  <2>a. \E d \in Dependents(s) : d.child = e.target /\ d.col = e.col /\ d.mode = "delete"
    BY <1>a, <1>4, <2>3
  <2> HIDE DEF kids, op
  <2>4. CASE kids = <<>>
    <3>1. op = Leaf("bulk", e.target, e.col)
      BY <2>1, <2>4 DEF DirectOp
    <3>2. \A d \in Dependents(s) : d.parent = e.target /\ d.child \in left => d.child = e.target
      BY <2>2, <2>4 DEF Covered
    <3>a. e.target \in STRING /\ e.col \in STRING
      BY <1>1
    <3> DEFINE kind == "bulk"
               type == e.target
               col  == e.col
    <3>b. op = Leaf(kind, type, col) /\ kind \in {"bulk", "soft", "unlink"} /\ type \in STRING /\ col \in STRING
      BY <3>1, <3>a
    <3>c. \A d \in Dependents(s) : d.parent = type /\ d.child \in left => d.child = type
      BY <3>2
    <3> HIDE DEF kind, type, col
    <3>d. kind # "bulk" \/ type \in Junctions(s)
             \/ \A d \in Dependents(s) : d.parent = type /\ d.child \in left => d.child = type
      BY <3>c
    <3>f. \E d \in Dependents(s) : d.child = type /\ d.col = col /\ d.mode = EffectOf(kind)
      BY <2>a DEF kind, type, col, EffectOf
    <3>e. /\ Good(s, left, op)
          /\ \A d : d.child = type /\ d.col = col /\ d.mode = EffectOf(kind) => Answers(op, d)
      BY <3>b, <3>d, <3>f, LeafGood
    <3>3. /\ Good(s, left, op)
          /\ \A d : d.child = e.target /\ d.col = e.col /\ d.mode = EffectOf("bulk") => Answers(op, d)
      BY <3>e DEF kind, type, col
    <3>4. EffectOf("bulk") = "delete"
      BY DEF EffectOf
    <3> QED  BY <2>3, <3>3, <3>4 DEF op
  <2>5. CASE kids # <<>>
    <3>1. op = Nested(e, kids)
      BY <2>1, <2>5 DEF DirectOp
    <3>2. /\ Good(s, left, op)
          /\ \A d : d.child = e.target /\ d.col = e.col /\ d.mode = "delete" => Answers(op, d)
      BY <1>1, <2>2, <2>a, <3>1, NestedGood
    <3> QED  BY <2>3, <3>2 DEF op
  <2> QED  BY <2>4, <2>5
<1>5. CASE e.rel # "M2M" /\ EdgeMode(s, s.ann[t], e) # "delete"
  <2> DEFINE mode == EdgeMode(s, s.ann[t], e)
  <2>1. op = Leaf(mode, e.target, e.col)
    BY <1>5 DEF EdgeOp
  <2>2. mode \in {"soft", "unlink"}
    BY <1>5 DEF EdgeMode
  <2>3. EffectOf(mode) = mode
    BY <2>2 DEF EffectOf
  <2>4. \A d : DependsBy(s, t, e, d) => d.child = e.target /\ d.col = e.col /\ d.mode = mode
    BY <1>5 DEF DependsBy
  <2>a. \E d \in Dependents(s) : d.child = e.target /\ d.col = e.col /\ d.mode = EffectOf(mode)
    BY <1>a, <1>5, <2>3, <2>4
  <2> HIDE DEF mode, op
  <2>5. mode \in {"bulk", "soft", "unlink"} /\ mode # "bulk"
    BY <2>2
  <2>6. /\ Good(s, left, op)
        /\ \A d : d.child = e.target /\ d.col = e.col /\ d.mode = EffectOf(mode) => Answers(op, d)
    BY <1>1, <2>1, <2>5, <2>a, LeafGood
  <2> QED  BY <2>3, <2>4, <2>6 DEF op
<1> QED  BY <1>2, <1>3, <1>4, <1>5

\* The loop over the edges of a type.
LEMMA OpsOfHolds ==
    ASSUME NEW s \in Schemas, NEW t \in Types(s), NEW inPlay, NEW below, NEW left,
           \A e \in inPlay : Good(s, left, EdgeOp(s, s.ann[t], e, below, left))
    PROVE  /\ GoodOps(s, left, OpsOf(s, t, inPlay, below, left))
           /\ \A e \in inPlay \cap ToSet(s.edges[t]) :
                 \E k \in 1 .. Len(OpsOf(s, t, inPlay, below, left)) :
                    OpsOf(s, t, inPlay, below, left)[k] = EdgeOp(s, s.ann[t], e, below, left)
<1> DEFINE es == s.edges[t]
           N == Len(es)
           op(i) == EdgeOp(s, s.ann[t], es[i], below, left)
<1>0. N \in Nat /\ ToSet(es) = { es[i] : i \in 1 .. N }
  BY GraphFacts
<1>1. PICK f : /\ f = [i \in 0 .. N |->
                        IF i = 0 THEN <<>>
                        ELSE WithEdge(f[i - 1], es[i] \in inPlay, EdgeOp(s, s.ann[t], es[i], below, left))]
               /\ OpsOf(s, t, inPlay, below, left) = f[N]
  BY <1>0, OpsOfIs
<1>2. f[0] = <<>> /\ \A i \in 1 .. N : f[i] = WithEdge(f[i - 1], es[i] \in inPlay, op(i))
  <2> HIDE DEF N
  <2>1. 0 \in 0 .. N /\ \A i \in 1 .. N : i \in 0 .. N /\ i # 0
    BY <1>0
  <2> QED  BY <1>1, <2>1
<1>3. \A i \in 1 .. N : es[i] \in inPlay => Good(s, left, op(i)) /\ op(i) \in Seq(Statements)
  BY DEF Good, Block
<1> HIDE DEF op
<1> DEFINE Holds(i) == /\ GoodOps(s, left, f[i])
                       /\ \A j \in 1 .. i : es[j] \in inPlay => \E k \in 1 .. Len(f[i]) : f[i][k] = op(j)
<1>4. Holds(0)
  BY <1>2 DEF GoodOps
<1>5. ASSUME NEW i \in 1 .. N, Holds(i - 1) PROVE Holds(i)
  <2>1. CASE es[i] \notin inPlay
    <3>1. f[i] = f[i - 1]
      BY <1>2, <2>1 DEF WithEdge
    <3>2. \A j \in 1 .. i : es[j] \in inPlay => j \in 1 .. i - 1
      BY <1>0, <2>1
    <3> QED  BY <1>5, <3>1, <3>2
  <2>2. CASE es[i] \in inPlay
    <3> DEFINE ops == f[i - 1]
    <3>1. f[i] = Append(ops, op(i))
      BY <1>2, <2>2 DEF WithEdge
    <3>2. ops \in Seq(Seq(Statements)) /\ Len(ops) \in Nat /\ \A k \in 1 .. Len(ops) : Good(s, left, ops[k])
      BY <1>5 DEF GoodOps
    <3>3. Good(s, left, op(i)) /\ op(i) \in Seq(Statements)
      BY <1>3, <2>2
    <3>4. \A j \in 1 .. i - 1 : es[j] \in inPlay => \E k \in 1 .. Len(ops) : ops[k] = op(j)
      BY <1>5
    <3> HIDE DEF ops
    <3>5. /\ f[i] \in Seq(Seq(Statements)) /\ Len(f[i]) = Len(ops) + 1 /\ f[i][Len(ops) + 1] = op(i)
          /\ \A k \in 1 .. Len(ops) : f[i][k] = ops[k]
      BY <3>1, <3>2, <3>3
    <3>6. ASSUME NEW k \in 1 .. Len(f[i]) PROVE Good(s, left, f[i][k])
      <4>1. k = Len(ops) + 1 \/ k \in 1 .. Len(ops)
        BY <3>2, <3>5
      <4> QED  BY <3>2, <3>3, <3>5, <4>1
    <3>7. ASSUME NEW j \in 1 .. i, es[j] \in inPlay PROVE \E k \in 1 .. Len(f[i]) : f[i][k] = op(j)
      <4>1. j = i \/ j \in 1 .. i - 1
        BY <1>0
      <4>2. Len(ops) + 1 \in 1 .. Len(f[i]) /\ \A k \in 1 .. Len(ops) : k \in 1 .. Len(f[i])
        BY <3>2, <3>5
      <4> QED  BY <3>4, <3>5, <3>7, <4>1, <4>2
    <3>8. Len(f[i]) \in Nat
      BY <3>2, <3>5
    <3> QED  BY <3>5, <3>6, <3>7, <3>8 DEF GoodOps
  <2> QED  BY <2>1, <2>2
<1>6. Holds(N)
  <2> HIDE DEF Holds
  <2> DEFINE S == { i \in 0 .. N : Holds(i) }
  <2>1. 0 \in S /\ \A i \in 1 .. N : i - 1 \in S => i \in S
    BY <1>0, <1>4, <1>5
  <2> HIDE DEF S
  <2>2. 0 .. N \subseteq S
    BY <1>0, <2>1, CountUp
  <2>3. N \in S
    BY <1>0, <2>2
  <2> QED  BY <2>3 DEF S
<1>7. ASSUME NEW e \in inPlay \cap ToSet(es)
      PROVE  \E k \in 1 .. Len(f[N]) : f[N][k] = EdgeOp(s, s.ann[t], e, below, left)
  <2>1. PICK j \in 1 .. N : e = es[j]
    BY <1>0
  <2> QED  BY <1>6, <2>1 DEF op
<1> QED  BY <1>1, <1>6, <1>7

\* Below the root, for the types left.
LEMMA OpsBelowGood ==
    ASSUME NEW s \in Schemas, NEW t \in Types(s), NEW below, NEW left,
           \A u \in left \cap Types(s) : Complete(s, u, left \ {u}, below[left \ {u}][u])
    PROVE  Complete(s, t, left, OpsOf(s, t, InPlayBelow(s, t, left), below, left))
<1> DEFINE inPlay == InPlayBelow(s, t, left)
           ops == OpsOf(s, t, inPlay, below, left)
<1>1. ASSUME NEW e \in inPlay
      PROVE  /\ Good(s, left, EdgeOp(s, s.ann[t], e, below, left))
             /\ \A d : DependsBy(s, t, e, d) => Answers(EdgeOp(s, s.ann[t], e, below, left), d)
  <2>1. /\ e \in ToSet(s.edges[t]) /\ InCascade(s.ann[t], e)
        /\ e.rel = "M2M" \/ KeyOnTarget(e)
    BY DEF InPlayBelow
  <2>2. e.rel # "M2M" => Complete(s, e.target, left \ {e.target}, below[left \ {e.target}][e.target])
    BY InPlayFacts
  <2> QED  BY <2>1, <2>2, EdgeOpGood
<1> HIDE DEF inPlay
<1>2. /\ GoodOps(s, left, ops)
      /\ \A e \in inPlay \cap ToSet(s.edges[t]) :
            \E k \in 1 .. Len(ops) : ops[k] = EdgeOp(s, s.ann[t], e, below, left)
  BY <1>1, OpsOfHolds
<1> HIDE DEF ops
<1>3. ASSUME NEW d \in Dependents(s), d.parent = t, d.child \in left
      PROVE  \E k \in 1 .. Len(ops) : Answers(ops[k], d)
  <2>1. PICK e : DependsBy(s, t, e, d)
    BY <1>3, DependentIs
  <2>2. e \in inPlay \cap ToSet(s.edges[t])
    BY <1>3, <2>1 DEF DependsBy, InPlayBelow, inPlay
  <2> QED  BY <1>1, <1>2, <2>1, <2>2
<1>4. Covered(s, t, left, ops)
  BY <1>3 DEF Covered
<1> QED  BY <1>2, <1>4 DEF Complete, ops, inPlay

\* From no type left to all of them.
LEMMA ChildOpsGood ==
    ASSUME NEW s \in Schemas
    PROVE  \A left \in SUBSET Types(s), t \in Types(s) :
              Complete(s, t, left, BuildChildOps(s)[left][t])
<1> DEFINE T == Types(s)
           N == Cardinality(T)
           B == BuildChildOps(s)
           Holds(n) == \A left \in SUBSET T, t \in T :
                          Cardinality(left) = n => Complete(s, t, left, B[left][t])
           S == { n \in 0 .. N : Holds(n) }
<1>0. /\ N \in Nat
      /\ \A left \in SUBSET T : /\ Cardinality(left) \in 0 .. N
                                /\ \A u \in left : Cardinality(left \ {u}) = Cardinality(left) - 1
  <2>1. IsFiniteSet(T)
    BY GraphFacts
  <2>2. N \in Nat
    BY <2>1, FS_CardinalityType
  <2>3. ASSUME NEW left \in SUBSET T
        PROVE  /\ Cardinality(left) \in 0 .. N
               /\ \A u \in left : Cardinality(left \ {u}) = Cardinality(left) - 1
    <3>1. IsFiniteSet(left) /\ Cardinality(left) <= N
      BY <2>1, FS_Subset
    <3>2. Cardinality(left) \in Nat
      BY <3>1, FS_CardinalityType
    <3>3. \A u \in left : Cardinality(left \ {u}) = Cardinality(left) - 1
      BY <3>1, FS_RemoveElement
    <3> QED  BY <2>2, <3>1, <3>2, <3>3
  <2> QED  BY <2>2, <2>3
<1> HIDE DEF N
<1>1. ASSUME NEW left \in SUBSET T, NEW t \in T,
             \A u \in left : Complete(s, u, left \ {u}, B[left \ {u}][u])
      PROVE  Complete(s, t, left, B[left][t])
  <2>1. B[left][t] = OpsOf(s, t, InPlayBelow(s, t, left), B, left)
    BY BuildChildOpsIs
  <2> HIDE DEF B
  <2> QED  BY <1>1, <2>1, OpsBelowGood
<1> HIDE DEF B
<1>2. Holds(0)
  <2>1. ASSUME NEW left \in SUBSET T, NEW t \in T, Cardinality(left) = 0 PROVE Complete(s, t, left, B[left][t])
    <3>1. left = {}
      <4>1. SUFFICES ASSUME NEW u \in left PROVE FALSE
        OBVIOUS
      <4>2. Cardinality(left \ {u}) = 0 - 1 /\ left \ {u} \in SUBSET T
        BY <1>0, <2>1
      <4> QED  BY <1>0, <4>2
    <3> QED  BY <1>1, <3>1
  <2> QED  BY <2>1
<1>3. ASSUME NEW n \in 1 .. N, Holds(n - 1) PROVE Holds(n)
  <2>1. ASSUME NEW left \in SUBSET T, NEW t \in T, Cardinality(left) = n PROVE Complete(s, t, left, B[left][t])
    <3>1. ASSUME NEW u \in left PROVE Complete(s, u, left \ {u}, B[left \ {u}][u])
      <4>1. left \ {u} \in SUBSET T /\ u \in T /\ Cardinality(left \ {u}) = n - 1
        BY <1>0, <2>1
      <4> QED  BY <1>3, <4>1
    <3> QED  BY <1>1, <3>1
  <2> QED  BY <2>1
<1>4. 0 .. N \subseteq S
  <2> HIDE DEF Holds
  <2>1. 0 \in S /\ \A n \in 1 .. N : n - 1 \in S => n \in S
    BY <1>0, <1>2, <1>3
  <2> HIDE DEF S
  <2> QED  BY <1>0, <2>1, CountUp
<1>5. ASSUME NEW left \in SUBSET T, NEW t \in T PROVE Complete(s, t, left, B[left][t])
  <2>1. Cardinality(left) \in S
    BY <1>0, <1>4
  <2> QED  BY <2>1
<1> QED  BY <1>5 DEF B

-----------------------------------------------------------------------------
(* The program of an annotated type.                                       *)

LEMMA ChildIsType ==
    ASSUME NEW s \in Schemas, NEW d \in Dependents(s)
    PROVE  d.child \in Types(s)
<1>1. PICK e : d.parent \in Types(s) /\ DependsBy(s, d.parent, e, d)
  BY DependentIs
<1>2. e \in EdgesOf(s)
  BY <1>1, GraphFacts DEF DependsBy
<1>3. e.target \in Types(s) /\ e.through \in Types(s) \cup {NoType}
  BY <1>2 DEF EdgesOf
<1> QED  BY <1>1, <1>3 DEF DependsBy

\* The root's own edges: here a type may depend on itself.
LEMMA BuildOpsGood ==
    ASSUME NEW s \in Schemas, NEW t \in Types(s)
    PROVE  /\ GoodOps(s, Types(s) \ {t}, BuildOps(s, t))
           /\ Covered(s, t, Types(s), BuildOps(s, t))
<1> DEFINE left == Types(s) \ {t}
           below == BuildChildOps(s)
           inPlay == InPlay(s, t)
           ops == OpsOf(s, t, inPlay, below, left)
<1>1. ASSUME NEW e \in inPlay
      PROVE  /\ Good(s, left, EdgeOp(s, s.ann[t], e, below, left))
             /\ \A d : DependsBy(s, t, e, d) => Answers(EdgeOp(s, s.ann[t], e, below, left), d)
  <2>1. /\ e \in ToSet(s.edges[t]) /\ InCascade(s.ann[t], e)
        /\ e.rel = "M2M" \/ KeyOnTarget(e)
    BY DEF InPlay
  <2>2. e \in EdgesOf(s)
    BY <2>1, GraphFacts
  <2>3. e.target \in Types(s)
    BY <2>2 DEF EdgesOf
  <2>4. left \ {e.target} \in SUBSET Types(s)
    OBVIOUS
  <2> HIDE DEF left
  <2>5. Complete(s, e.target, left \ {e.target}, below[left \ {e.target}][e.target])
    BY <2>3, <2>4, ChildOpsGood
  <2> HIDE DEF below, inPlay
  <2> QED  BY <2>1, <2>5, EdgeOpGood
<1>2. ops = BuildOps(s, t)
  BY DEF BuildOps
<1> HIDE DEF inPlay, left, below
<1>3. /\ GoodOps(s, left, ops)
      /\ \A e \in inPlay \cap ToSet(s.edges[t]) :
            \E k \in 1 .. Len(ops) : ops[k] = EdgeOp(s, s.ann[t], e, below, left)
  BY <1>1, OpsOfHolds
<1> HIDE DEF ops
<1>4. ASSUME NEW d \in Dependents(s), d.parent = t
      PROVE  \E k \in 1 .. Len(ops) : Answers(ops[k], d)
  <2>1. PICK e : DependsBy(s, t, e, d)
    BY <1>4, DependentIs
  <2>2. e \in inPlay \cap ToSet(s.edges[t])
    BY <2>1 DEF DependsBy, InPlay, inPlay
  <2> QED  BY <1>1, <1>3, <2>1, <2>2
<1>5. Covered(s, t, Types(s), ops)
  BY <1>4 DEF Covered
<1> QED  BY <1>2, <1>3, <1>5 DEF left

LEMMA ProgramIs ==
    ASSUME NEW s \in Schemas, NEW t \in Types(s)
    PROVE  \E b : /\ Good(s, Types(s) \ {t}, b)
                  /\ \A d \in Dependents(s) : d.parent = t => Answers(b, d)
                  /\ ProgramOf(s, t) \in Seq(Statements) /\ Len(b) \in Nat
                  /\ Len(ProgramOf(s, t)) = Len(b) + 1
                  /\ \A i \in 1 .. Len(b) : ProgramOf(s, t)[i] = b[i]
                  /\ ProgramOf(s, t)[Len(b) + 1] = Stmt("self", t, NoCol, Len(b) + 1)
<1> DEFINE ops == BuildOps(s, t)
           b == ResolveOps(ops)
           self == Stmt("self", t, NoCol, Len(b) + 1)
<1>1. GoodOps(s, Types(s) \ {t}, ops) /\ Covered(s, t, Types(s), ops)
  BY BuildOpsGood
<1>2. ProgramOf(s, t) = Append(b, self)
  BY DEF ProgramOf, Generated
<1> HIDE DEF ops
<1>3. /\ Good(s, Types(s) \ {t}, b)
      /\ \A k \in 1 .. Len(ops) : \A x : Answers(ops[k], x) => Answers(b, x)
  BY <1>1, ResolvedGood
<1>4. \A d \in Dependents(s) : d.parent = t => Answers(b, d)
  BY <1>1, <1>3, ChildIsType DEF Covered
<1> HIDE DEF b
<1>5. b \in Seq(Statements) /\ Len(b) \in Nat
  BY <1>3 DEF Good, Block
<1>6. self \in Statements
  <2>1. t \in STRING
    BY GraphFacts
  <2>2. Len(b) + 1 \in Nat
    BY <1>5
  <2>3. \A m \in Nat : Stmt("self", t, NoCol, m) \in Statements
    BY <2>1 DEF Stmt, Statements, StmtKinds
  <2> QED  BY <2>2, <2>3
<1> HIDE DEF self
<1>7. /\ ProgramOf(s, t) \in Seq(Statements) /\ Len(ProgramOf(s, t)) = Len(b) + 1
      /\ \A i \in 1 .. Len(b) : ProgramOf(s, t)[i] = b[i]
      /\ ProgramOf(s, t)[Len(b) + 1] = self
  BY <1>2, <1>5, <1>6
<1> QED  BY <1>3, <1>4, <1>5, <1>7 DEF self

\* The counter tells the variables of a function apart, whatever scope they are in.
LEMMA NamesDistinct ==
    ASSUME NEW p, NEW i \in Nat, NEW j \in Nat, p[i].kind = "query", p[j].kind = "query",
           VarName(p, i) = VarName(p, j)
    PROVE  i = j
<1> DEFINE upTo(k) == { l \in 1 .. k : p[l].kind = "query" /\ p[l].type = p[i].type }
<1>1. p[i].type = p[j].type /\ Cardinality(upTo(i)) = Cardinality(upTo(j))
  BY DEF VarName
<1>2. \A k \in Nat : IsFiniteSet(upTo(k)) /\ IsFiniteSet(1 .. k)
  <2>1. ASSUME NEW k \in Nat PROVE IsFiniteSet(upTo(k)) /\ IsFiniteSet(1 .. k)
    <3>1. IsFiniteSet(1 .. k)
      BY FS_Interval
    <3>2. upTo(k) \subseteq 1 .. k
      OBVIOUS
    <3> HIDE DEF upTo
    <3> QED  BY <3>1, <3>2, FS_Subset
  <2> QED  BY <2>1
<1>3. ASSUME NEW x \in Nat, NEW y \in Nat, x < y, p[y].kind = "query", p[y].type = p[i].type
      PROVE  Cardinality(upTo(x)) # Cardinality(upTo(y))
  <2>1. upTo(x) \subseteq upTo(y) /\ y \in upTo(y) /\ y \notin upTo(x)
    BY <1>3
  <2> HIDE DEF upTo
  <2>2. IsFiniteSet(upTo(y)) /\ upTo(x) # upTo(y)
    BY <1>2, <2>1
  <2> QED  BY <2>1, <2>2, FS_Subset
<1> HIDE DEF upTo
<1>4. ~(i < j) /\ ~(j < i)
  BY <1>1, <1>3
<1> QED  BY <1>4

\* In a scoped program the name of a variable leads back to its query.
LEMMA ScopedResolves ==
    ASSUME NEW p, p \in Seq(Statements), Scoped(p)
    PROVE  NamesResolve(p)
<1>1. DOMAIN p = 1 .. Len(p) /\ Len(p) \in Nat /\ \A i \in DOMAIN p : p[i] \in Statements /\ i \in Nat
  OBVIOUS
<1>2. ASSUME NEW i \in DOMAIN p, NEW j \in DOMAIN p, p[i].kind = "query", p[j].kind = "query",
             VarName(p, i) = VarName(p, j)
      PROVE  i = j
  BY <1>1, <1>2, NamesDistinct
<1>3. ASSUME NEW i \in DOMAIN p, p[i].src # 0
      PROVE  /\ Sees(p, i, p[i].src)
             /\ \A d \in DOMAIN p :
                   Sees(p, i, d) /\ VarName(p, d) = VarName(p, p[i].src) => d <= p[i].src
  <2> DEFINE v == p[i].src
  <2>1. v \in Nat /\ v # 0 /\ v < i /\ i < p[v].end /\ p[v].kind = "query" /\ i \in Nat
    BY <1>1, <1>3 DEF Scoped, Statements
  <2>2. v \in DOMAIN p
    BY <1>1, <2>1
  <2> HIDE DEF v
  <2>3. ASSUME NEW q \in DOMAIN p, InBlock(p, q, v) PROVE InBlock(p, q, i)
    <3>1. /\ p[q].kind = "query" /\ q < v /\ v <= p[q].end /\ q \in Nat
          /\ p[q].end \in Nat /\ p[v].end \in Nat
      BY <1>1, <2>2, <2>3 DEF InBlock, Statements
    <3>2. p[p[q].end].kind = "drop"
      <4>1. p[p[q].end] = [p[q] EXCEPT !.kind = "drop"] /\ p[q] \in Statements
        BY <1>1, <3>1 DEF Scoped
      <4> QED  BY <4>1 DEF Statements
    <3>3. v < p[q].end
      BY <2>1, <3>1, <3>2
    <3>4. p[v].end < p[q].end
      BY <2>1, <2>2, <3>1, <3>3 DEF Scoped
    <3> QED  BY <2>1, <3>1, <3>4 DEF InBlock
  <2>4. Sees(p, i, v)
    BY <2>1, <2>3 DEF Sees
  <2>5. ASSUME NEW d \in DOMAIN p, Sees(p, i, d), VarName(p, d) = VarName(p, v) PROVE d <= v
    <3>1. d = v
      BY <1>2, <2>1, <2>2, <2>5 DEF Sees
    <3> QED  BY <2>1, <3>1
  <2> QED  BY <2>4, <2>5 DEF v
<1> QED  BY <1>2, <1>3 DEF NamesResolve

LEMMA ProgramScoped ==
    ASSUME NEW s \in Schemas, NEW t \in Types(s)
    PROVE  LET p == ProgramOf(s, t) IN
           /\ Scoped(p) /\ p[Len(p)].kind = "self" /\ p[Len(p)].type = t
           /\ p \in Seq(Statements) /\ \A i \in DOMAIN p : p[i].kind \in StmtKinds
<1> DEFINE p == ProgramOf(s, t)
<1>1. PICK b : /\ Good(s, Types(s) \ {t}, b) /\ p \in Seq(Statements) /\ Len(b) \in Nat
               /\ Len(p) = Len(b) + 1 /\ \A i \in 1 .. Len(b) : p[i] = b[i]
               /\ p[Len(b) + 1] = Stmt("self", t, NoCol, Len(b) + 1)
  BY ProgramIs
<1> HIDE DEF p
<1> DEFINE n == Len(b)
<1>2. /\ b \in Seq(Statements) /\ n \in Nat /\ DOMAIN p = 1 .. n + 1
      /\ \A i \in 1 .. n : b[i].kind # "self" /\ Reads(b, i) /\ Brackets(b, i) /\ b[i] \in Statements
  BY <1>1 DEF Good, Block
<1>3. p[n + 1].kind = "self" /\ p[n + 1].type = t /\ p[n + 1].src = 0
  BY <1>1 DEF Stmt
<1>4. ASSUME NEW i \in DOMAIN p PROVE p[i].kind \in StmtKinds
  <2>1. p[i] \in Statements
    BY <1>1
  <2> QED  BY <2>1 DEF Statements
<1>5. ASSUME NEW i \in 1 .. n, p[i].src # 0
      PROVE  p[i].src < i /\ i < p[p[i].src].end /\ p[p[i].src].kind = "query"
  <2>1. p[i] = b[i] /\ b[i].src \in Nat /\ b[i].src # 0
    BY <1>1, <1>2, <1>5 DEF Statements
  <2>2. b[i].src < i /\ i < b[b[i].src].end /\ b[b[i].src].kind = "query"
    BY <1>2, <2>1 DEF Reads
  <2>3. b[i].src \in 1 .. n
    BY <1>2, <2>1, <2>2
  <2> QED  BY <1>1, <2>1, <2>2, <2>3
<1>6. ASSUME NEW i \in 1 .. n, p[i].kind = "query"
      PROVE  /\ i < p[i].end /\ p[i].end < Len(p)
             /\ p[p[i].end] = [p[i] EXCEPT !.kind = "drop"]
             /\ \A k \in DOMAIN p : i < k /\ k < p[i].end =>
                   p[k].src >= i /\ (p[k].kind = "query" => p[k].end < p[i].end)
  <2>1. p[i] = b[i] /\ b[i] \in Statements /\ b[i].end \in Nat
    BY <1>1, <1>2 DEF Statements
  <2>2. /\ i < b[i].end /\ b[i].end <= n /\ Closes(b[i], b[b[i].end])
        /\ \A k \in 1 .. n : i < k /\ k < b[i].end =>
              b[k].src >= i /\ (b[k].kind = "query" => b[k].end < b[i].end)
    BY <1>2, <1>6, <2>1 DEF Brackets
  <2>3. b[i].end \in 1 .. n
    BY <1>2, <2>1, <2>2
  <2> DEFINE y == b[b[i].end]
  <2>4. p[p[i].end] = y /\ y \in Statements
    BY <1>1, <1>2, <2>1, <2>3
  <2>5. y = [b[i] EXCEPT !.kind = "drop"]
    <3> HIDE DEF y
    <3> DEFINE x == b[i]
    <3>1. x \in Statements /\ Closes(x, y)
      BY <2>1, <2>2 DEF y
    <3> HIDE DEF x
    <3> QED  BY <2>4, <3>1 DEF Closes, Statements, x
  <2>6. \A k \in DOMAIN p : k < p[i].end => k \in 1 .. n /\ p[k] = b[k]
    BY <1>1, <1>2, <2>1, <2>3
  <2>7. \A k \in DOMAIN p : i < k /\ k < p[i].end =>
                   p[k].src >= i /\ (p[k].kind = "query" => p[k].end < p[i].end)
    BY <2>1, <2>2, <2>6
  <2>8. p[i].end < Len(p)
    BY <1>1, <1>2, <2>1, <2>3
  <2> QED  BY <2>1, <2>2, <2>4, <2>5, <2>7, <2>8
<1>7. Scoped(p)
  <2>1. \A i \in DOMAIN p : i \in 1 .. n \/ i = n + 1
    BY <1>2
  <2> HIDE DEF n
  <2> QED  BY <1>3, <1>5, <1>6, <2>1 DEF Scoped
<1> QED  BY <1>1, <1>3, <1>4, <1>7 DEF p

\* In the program p of t, statement i comes after those of its block for its dependents.
FirstAt(s, t, p, i) ==
    \A d \in Dependents(s) :
        /\ \/ p[i].kind \in {"drop", "self"}
           \/ p[i].kind = "bulk" /\ p[i].type \notin Junctions(s)
        /\ d.parent = p[i].type /\ d.child \notin Around(p, i) \cup {t}
        => \E k \in 1 .. i - 1 :
              /\ p[k].type = d.child /\ p[k].col = d.col /\ EffectOf(p[k].kind) = d.mode
              /\ \/ p[i].kind = "self" /\ p[k].src = 0
                 \/ p[i].kind = "drop" /\ p[k].src # 0 /\ p[p[k].src].end = i

LEMMA ProgramFirst ==
    ASSUME NEW s \in Schemas, NEW t \in Types(s), NEW i \in DOMAIN ProgramOf(s, t)
    PROVE  FirstAt(s, t, ProgramOf(s, t), i)
<1> DEFINE p == ProgramOf(s, t)
           left == Types(s) \ {t}
<1>1. PICK b : /\ Good(s, left, b) /\ p \in Seq(Statements) /\ Len(b) \in Nat
               /\ \A d \in Dependents(s) : d.parent = t => Answers(b, d)
               /\ Len(p) = Len(b) + 1 /\ \A j \in 1 .. Len(b) : p[j] = b[j]
               /\ p[Len(b) + 1] = Stmt("self", t, NoCol, Len(b) + 1)
  BY ProgramIs
<1>0. i \in DOMAIN p
  OBVIOUS
<1> HIDE DEF p
<1> DEFINE n == Len(b)
<1>2. /\ b \in Seq(Statements) /\ DOMAIN b = 1 .. n /\ n \in Nat /\ DOMAIN p = 1 .. n + 1
      /\ \A j \in 1 .. n : b[j].kind # "self" /\ Reads(b, j) /\ b[j] \in Statements
  BY <1>1 DEF Good, Block
<1>3. p[n + 1].kind = "self" /\ p[n + 1].type = t
  BY <1>1 DEF Stmt
<1>4. SUFFICES ASSUME NEW d \in Dependents(s),
                      \/ p[i].kind \in {"drop", "self"}
                      \/ p[i].kind = "bulk" /\ p[i].type \notin Junctions(s),
                      d.parent = p[i].type, d.child \notin Around(p, i) \cup {t}
               PROVE  \E k \in 1 .. i - 1 :
                         /\ Deals(p[k], d)
                         /\ \/ p[i].kind = "self" /\ p[k].src = 0
                            \/ p[i].kind = "drop" /\ p[k].src # 0 /\ p[p[k].src].end = i
  BY DEF FirstAt, Deals, p
<1>5. CASE i = n + 1
  <2>1. Answers(b, d)
    BY <1>1, <1>3, <1>4, <1>5
  <2>2. PICK k \in 1 .. n : Deals(b[k], d) /\ b[k].src = 0
    BY <2>1 DEF Answers
  <2>3. k \in 1 .. i - 1 /\ p[k] = b[k]
    BY <1>1, <1>2, <1>5
  <2> QED  BY <1>3, <1>5, <2>2, <2>3
<1>6. CASE i \in 1 .. n
  <2>1. p[i] = b[i] /\ b[i].kind # "self" /\ HandledAt(s, left, b, i)
    BY <1>1, <1>2, <1>6 DEF Good
  <2>2. ASSUME NEW x \in Around(b, i) PROVE x \in Around(p, i)
    <3>1. PICK q \in 1 .. n : b[q].type = x /\ (q = i \/ (b[q].kind = "query" /\ q < i /\ i <= b[q].end))
      BY <1>2 DEF Around
    <3>2. q \in DOMAIN p /\ p[q] = b[q]
      BY <1>1, <1>2
    <3> QED  BY <3>1, <3>2 DEF Around
  <2>3. d.child \in left /\ d.child \notin Around(b, i)
    BY <1>4, <2>2, ChildIsType
  <2>4. Calls(s, left, b, i, d)
    BY <1>4, <2>1, <2>3 DEF Calls
  <2>5. /\ b[i].kind = "drop"
        /\ \E k \in 1 .. i - 1 : Deals(b[k], d) /\ b[k].src # 0 /\ b[b[k].src].end = i
    BY <2>1, <2>4 DEF HandledAt
  <2>6. PICK k \in 1 .. i - 1 : Deals(b[k], d) /\ b[k].src # 0 /\ b[b[k].src].end = i
    BY <2>5
  <2>7. k \in 1 .. n /\ p[k] = b[k] /\ b[k] \in Statements /\ Reads(b, k)
    BY <1>1, <1>2, <1>6
  <2>8. b[k].src \in Nat /\ b[k].src < k
    BY <2>6, <2>7 DEF Reads, Statements
  <2>9. b[k].src \in 1 .. n
    BY <1>2, <2>6, <2>7, <2>8
  <2>10. p[b[k].src] = b[b[k].src]
    BY <1>1, <2>9
  <2> QED  BY <2>1, <2>5, <2>6, <2>7, <2>10
<1>7. i = n + 1 \/ i \in 1 .. n
  BY <1>0, <1>2
<1> QED  BY <1>5, <1>6, <1>7

LEMMA ProgramDeclared ==
    ASSUME NEW s \in Schemas, NEW t \in Types(s), NEW i \in DOMAIN ProgramOf(s, t),
           ProgramOf(s, t)[i].kind # "self"
    PROVE  Declared(s, ProgramOf(s, t)[i])
<1> DEFINE p == ProgramOf(s, t)
<1>1. PICK b : /\ Good(s, Types(s) \ {t}, b) /\ p \in Seq(Statements) /\ Len(b) \in Nat
               /\ Len(p) = Len(b) + 1 /\ \A j \in 1 .. Len(b) : p[j] = b[j]
               /\ p[Len(b) + 1] = Stmt("self", t, NoCol, Len(b) + 1)
  BY ProgramIs
<1>0. i \in DOMAIN p /\ p[i].kind # "self"
  OBVIOUS
<1> HIDE DEF p
<1>2. i \in 1 .. Len(b) \/ i = Len(b) + 1
  BY <1>0, <1>1
<1>3. i # Len(b) + 1
  BY <1>0, <1>1 DEF Stmt
<1>4. p[i] = b[i] /\ HandledAt(s, Types(s) \ {t}, b, i)
  BY <1>1, <1>2, <1>3 DEF Good
<1> QED  BY <1>4 DEF HandledAt, p

-----------------------------------------------------------------------------
(* The generator's run over the graph.                                     *)

Inv ==
    /\ schema \in Schemas
    /\ next \in 1 .. Len(schema.types) + 1
    /\ DOMAIN nodes \subseteq Types(schema)
    /\ \A t \in DOMAIN nodes : nodes[t] = ProgramOf(schema, t)

LEMMA InvInit == Init => Inv
<1> SUFFICES ASSUME Init PROVE Inv
  OBVIOUS
<1>1. schema \in Schemas /\ next = 1 /\ nodes = <<>>
  BY DEF Init
<1>2. Len(schema.types) \in Nat
  BY <1>1, GraphFacts
<1> QED  BY <1>1, <1>2 DEF Inv

LEMMA InvStep == Inv /\ [Next]_vars => Inv'
<1> SUFFICES ASSUME Inv, [Next]_vars PROVE Inv'
  OBVIOUS
<1> USE DEF Inv
<1>1. Len(schema.types) \in Nat /\ \A i \in 1 .. Len(schema.types) : schema.types[i] \in Types(schema)
  BY GraphFacts
<1>2. CASE Collect
  <2>1. schema' = schema /\ next' = next + 1 /\ next <= Len(schema.types)
    BY <1>2 DEF Collect
  <2>2. Current \in Types(schema)
    BY <1>1, <2>1 DEF Current
  <2>3. nodes' = [t \in DOMAIN nodes \cup {Current} |->
                    IF t = Current THEN ProgramOf(schema, t) ELSE nodes[t]]
    BY <1>2 DEF Collect
  <2>4. DOMAIN nodes' \subseteq Types(schema)
    BY <2>2, <2>3
  <2>5. \A t \in DOMAIN nodes' : nodes'[t] = ProgramOf(schema, t)
    BY <2>3
  <2>6. next' \in 1 .. Len(schema.types) + 1
    BY <1>1, <2>1
  <2> QED  BY <2>1, <2>4, <2>5, <2>6
<1>3. CASE Pass
  <2>1. UNCHANGED <<schema, nodes>> /\ next' \in 1 .. Len(schema.types) + 1
    BY <1>1, <1>3 DEF Pass
  <2> QED  BY <2>1
<1>4. CASE UNCHANGED vars
  BY <1>4 DEF vars
<1> QED  BY <1>2, <1>3, <1>4 DEF Next

LEMMA InvHolds == Spec => []Inv
<1>1. Init => Inv
  BY InvInit
<1>2. Inv /\ [Next]_vars => Inv'
  BY InvStep
<1> QED  BY <1>1, <1>2, PTL DEF Spec

\* Whatever the graph, each program the generator keeps reads only variables of
\* blocks it is in, by names that no scope declares twice and that Go resolves to the
\* query meant; its blocks nest, and it ends with the entity itself (resolveOps,
\* nameTracker, buildChildOps).
THEOREM ProgramsAlwaysWellScoped == Spec => []WellScoped
<1>1. Inv => WellScoped
  <2> SUFFICES ASSUME Inv PROVE WellScoped
    OBVIOUS
  <2>1. schema \in Schemas /\ next \in 1 .. Len(schema.types) + 1 /\ DOMAIN nodes \subseteq Types(schema)
    BY DEF Inv
  <2>2. ASSUME NEW t \in DOMAIN nodes
        PROVE  /\ Scoped(nodes[t]) /\ NamesResolve(nodes[t])
               /\ nodes[t][Len(nodes[t])].kind = "self" /\ nodes[t][Len(nodes[t])].type = t
               /\ \A i \in DOMAIN nodes[t] : nodes[t][i].kind \in StmtKinds
    <3>1. nodes[t] = ProgramOf(schema, t) /\ t \in Types(schema)
      BY DEF Inv
    <3>2. /\ Scoped(nodes[t]) /\ nodes[t] \in Seq(Statements)
          /\ nodes[t][Len(nodes[t])].kind = "self" /\ nodes[t][Len(nodes[t])].type = t
          /\ \A i \in DOMAIN nodes[t] : nodes[t][i].kind \in StmtKinds
      BY <2>1, <3>1, ProgramScoped
    <3> QED  BY <3>2, ScopedResolves
  <2>3. TypeOK
    BY <2>1, <2>2 DEF TypeOK, Types
  <2> QED  BY <2>2, <2>3 DEF WellScoped
<1> QED  BY <1>1, InvHolds, PTL

\* Whatever the graph, also one whose types depend on each other in circles, each
\* program deletes rows only after dealing, in the same block, with every dependent
\* of theirs that is not on the path from the root (buildOps, buildChildOps).
THEOREM DependentsAlwaysFirst == Spec => []DependentsFirst
<1>1. Inv => DependentsFirst
  <2> SUFFICES ASSUME Inv PROVE DependentsFirst
    OBVIOUS
  <2>1. ASSUME NEW t \in DOMAIN nodes, NEW i \in DOMAIN nodes[t] PROVE FirstAt(schema, t, nodes[t], i)
    <3>1. nodes[t] = ProgramOf(schema, t) /\ t \in Types(schema) /\ schema \in Schemas
      BY DEF Inv
    <3> QED  BY <3>1, ProgramFirst
  <2> QED  BY <2>1 DEF DependentsFirst, FirstAt
<1> QED  BY <1>1, InvHolds, PTL

\* Every statement but the last is about a dependent declared somewhere in the graph
\* and does to its rows what is declared: no skipped edge is followed, no row of a
\* shared or unrelated type touched (buildOps, buildChildOps).
OnlyDeclared ==
    \A t \in DOMAIN nodes : \A i \in DOMAIN nodes[t] :
        nodes[t][i].kind # "self" => Declared(schema, nodes[t][i])

\* Whatever the graph, no program touches rows that its declarations leave alone: what
\* CascadeSound assumes of the programs of the runtime (ProgramDeclared).
THEOREM NothingElseIsTouched == Spec => []OnlyDeclared
<1>1. Inv => OnlyDeclared
  <2> SUFFICES ASSUME Inv, NEW t \in DOMAIN nodes, NEW i \in DOMAIN nodes[t], nodes[t][i].kind # "self"
               PROVE  Declared(schema, nodes[t][i])
    BY DEF OnlyDeclared
  <2>1. nodes[t] = ProgramOf(schema, t) /\ t \in Types(schema) /\ schema \in Schemas
    BY DEF Inv
  <2> QED  BY <2>1, ProgramDeclared
<1> QED  BY <1>1, InvHolds, PTL
=============================================================================
