-------------------------- MODULE PolyCodegen_proofs --------------------------
(***************************************************************************)
(* The programs entpoly generates, and the keys their rows keep, for any   *)
(* parents, names, order of the types in ent's graph, aliases, and number  *)
(* of edits.                                                               *)
(***************************************************************************)
EXTENDS PolyCodegen, FiniteSetTheorems, WellFoundedInduction, NaturalsInduction, TLAPS

---------------------------------------------------------------------------
(* One step after the other: the folds of preprocess.                      *)

\* What holds at the beginning and from each number to the next holds up to N.
LEMMA CountUp ==
    ASSUME NEW N \in Nat, NEW S, 0 \in S,
           \A i \in 1 .. N : i - 1 \in S => i \in S
    PROVE  0 .. N \subseteq S
<1> DEFINE Left == { i \in 0 .. N : i \notin S }
           R == OpToRel(<, Nat)
<1>0. IsWellFoundedOn(R, Nat)
  BY NatLessThanWellFounded
<1> HIDE DEF R
<1>1. SUFFICES ASSUME Left # {} PROVE FALSE
  OBVIOUS
<1>2. PICK i \in Left : \A j \in Left : ~(<<j, i>> \in R)
  BY <1>0, <1>1, WFMin, Left \subseteq Nat
<1>3. i \in 1 .. N /\ i - 1 \in 0 .. N /\ i - 1 \notin S
  BY <1>2
<1>4. <<i - 1, i>> \in R
  BY <1>3 DEF R, OpToRel
<1> QED  BY <1>2, <1>3, <1>4

\* The names of a list that are in a set, up to a place.
Upto(list, those, i) == { list[j] : j \in { x \in 1 .. i : list[x] \in those } }

LEMMA RegisterAllIs ==
    ASSUME NEW map, NEW those, NEW list, Len(list) \in Nat
    PROVE  \E f : /\ f = [i \in 0 .. Len(list) |->
                            IF i = 0 THEN map
                            ELSE IF list[i] \in those THEN Registered(f[i - 1], list[i]) ELSE f[i - 1]]
                  /\ RegisterAll(map, list, those) = f[Len(list)]
<1> DEFINE N == Len(list)
           Step(f, i) == IF i = 0 THEN map
                         ELSE IF list[i] \in those THEN Registered(f[i - 1], list[i]) ELSE f[i - 1]
           Partial(n) == \E f : f = [i \in 0 .. n |-> Step(f, i)]
           S == { n \in 0 .. N : Partial(n) }
           F == CHOOSE f : f = [i \in 0 .. N |->
                            IF i = 0 THEN map
                            ELSE IF list[i] \in those THEN Registered(f[i - 1], list[i]) ELSE f[i - 1]]
<1>1. 0 \in S
  <2> DEFINE f == [i \in 0 .. 0 |-> map]
  <2>1. f = [i \in 0 .. 0 |-> Step(f, i)]
    OBVIOUS
  <2> HIDE DEF f
  <2> QED  BY <2>1
<1>2. ASSUME NEW n \in 1 .. N, n - 1 \in S PROVE n \in S
  <2>1. PICK f : f = [i \in 0 .. n - 1 |-> Step(f, i)]
    BY <1>2
  <2> DEFINE h == [i \in 0 .. n |-> IF i = n THEN Step(f, n) ELSE f[i]]
  <2>2. \A i \in 0 .. n : h[i] = Step(h, i)
    BY <2>1
  <2>3. h = [i \in 0 .. n |-> Step(h, i)]
    BY <2>2
  <2> HIDE DEF h
  <2> QED  BY <2>3
<1>3. 0 .. N \subseteq S
  BY <1>1, <1>2, CountUp
<1>4. \E f : f = [i \in 0 .. N |->
                            IF i = 0 THEN map
                            ELSE IF list[i] \in those THEN Registered(f[i - 1], list[i]) ELSE f[i - 1]]
  BY <1>3
<1>5. F = [i \in 0 .. N |->
                            IF i = 0 THEN map
                            ELSE IF list[i] \in those THEN Registered(F[i - 1], list[i]) ELSE F[i - 1]]
  BY <1>4, Zenon
<1>6. RegisterAll(map, list, those) = F[N]
  BY DEF RegisterAll
<1> QED  BY <1>5, <1>6

LEMMA VisitedIs ==
    ASSUME NEW st, NEW g, NEW node, Len(node.edges) \in Nat
    PROVE  \E f : /\ f = [i \in 0 .. Len(node.edges) |->
                            IF i = 0 THEN st ELSE Handled(f[i - 1], g, node, node.edges[i])]
                  /\ Visited(st, g, node) = f[Len(node.edges)]
<1> DEFINE N == Len(node.edges)
           Step(f, i) == IF i = 0 THEN st ELSE Handled(f[i - 1], g, node, node.edges[i])
           Partial(n) == \E f : f = [i \in 0 .. n |-> Step(f, i)]
           S == { n \in 0 .. N : Partial(n) }
           F == CHOOSE f : f = [i \in 0 .. N |->
                            IF i = 0 THEN st ELSE Handled(f[i - 1], g, node, node.edges[i])]
<1>1. 0 \in S
  <2> DEFINE f == [i \in 0 .. 0 |-> st]
  <2>1. f = [i \in 0 .. 0 |-> Step(f, i)]
    OBVIOUS
  <2> HIDE DEF f
  <2> QED  BY <2>1
<1>2. ASSUME NEW n \in 1 .. N, n - 1 \in S PROVE n \in S
  <2>1. PICK f : f = [i \in 0 .. n - 1 |-> Step(f, i)]
    BY <1>2
  <2> DEFINE h == [i \in 0 .. n |-> IF i = n THEN Step(f, n) ELSE f[i]]
  <2>2. \A i \in 0 .. n : h[i] = Step(h, i)
    BY <2>1
  <2>3. h = [i \in 0 .. n |-> Step(h, i)]
    BY <2>2
  <2> HIDE DEF h
  <2> QED  BY <2>3
<1>3. 0 .. N \subseteq S
  BY <1>1, <1>2, CountUp
<1>4. \E f : f = [i \in 0 .. N |->
                            IF i = 0 THEN st ELSE Handled(f[i - 1], g, node, node.edges[i])]
  BY <1>3
<1>5. F = [i \in 0 .. N |-> IF i = 0 THEN st ELSE Handled(F[i - 1], g, node, node.edges[i])]
  BY <1>4, Zenon
<1>6. Visited(st, g, node) = F[N]
  BY DEF Visited
<1> QED  BY <1>5, <1>6

\* The state preprocess starts from.
Start(g, map) ==
    [err |-> NoError, morphMap |-> Seed(map), children |-> {}, holders |-> {}, parents |-> {}, graph |-> g]

LEMMA preprocessIs ==
    ASSUME NEW g, NEW map, Len(NodeOrder) \in Nat
    PROVE  \E f : /\ f = [i \in 0 .. Len(NodeOrder) |->
                            IF i = 0 THEN Start(g, map)
                            ELSE IF i \in DOMAIN g THEN Visited(f[i - 1], g, g[i]) ELSE f[i - 1]]
                  /\ f[Len(NodeOrder)].err # NoError => preprocess(g, map) = f[Len(NodeOrder)]
                  /\ f[Len(NodeOrder)].err = NoError =>
                        preprocess(g, map) =
                          [f[Len(NodeOrder)] EXCEPT !.morphMap = RegisterAll(@, NodeOrder, f[Len(NodeOrder)].parents),
                                                    !.graph = Stripped(g)]
<1> DEFINE N == Len(NodeOrder)
           start == [err |-> NoError, morphMap |-> Seed(map), children |-> {}, holders |-> {}, parents |-> {}, graph |-> g]
           Step(f, i) == IF i = 0 THEN start
                         ELSE IF i \in DOMAIN g THEN Visited(f[i - 1], g, g[i]) ELSE f[i - 1]
           Partial(n) == \E f : f = [i \in 0 .. n |-> Step(f, i)]
           S == { n \in 0 .. N : Partial(n) }
           F == CHOOSE f : f = [i \in 0 .. N |->
                            IF i = 0 THEN start
                            ELSE IF i \in DOMAIN g THEN Visited(f[i - 1], g, g[i]) ELSE f[i - 1]]
<1> HIDE DEF start
<1>1. 0 \in S
  <2> DEFINE f == [i \in 0 .. 0 |-> start]
  <2>1. f = [i \in 0 .. 0 |-> Step(f, i)]
    OBVIOUS
  <2> HIDE DEF f
  <2> QED  BY <2>1
<1>2. ASSUME NEW n \in 1 .. N, n - 1 \in S PROVE n \in S
  <2>1. PICK f : f = [i \in 0 .. n - 1 |-> Step(f, i)]
    BY <1>2
  <2> DEFINE h == [i \in 0 .. n |-> IF i = n THEN Step(f, n) ELSE f[i]]
  <2>2. \A i \in 0 .. n : h[i] = Step(h, i)
    BY <2>1
  <2>3. h = [i \in 0 .. n |-> Step(h, i)]
    BY <2>2
  <2> HIDE DEF h
  <2> QED  BY <2>3
<1>3. 0 .. N \subseteq S
  BY <1>1, <1>2, CountUp
<1>4. \E f : f = [i \in 0 .. N |->
                            IF i = 0 THEN start
                            ELSE IF i \in DOMAIN g THEN Visited(f[i - 1], g, g[i]) ELSE f[i - 1]]
  BY <1>3
<1>5. F = [i \in 0 .. N |->
                            IF i = 0 THEN start
                            ELSE IF i \in DOMAIN g THEN Visited(F[i - 1], g, g[i]) ELSE F[i - 1]]
  BY <1>4, Zenon
<1>6. preprocess(g, map) =
        IF F[N].err # NoError THEN F[N]
        ELSE [F[N] EXCEPT !.morphMap = RegisterAll(@, NodeOrder, F[N].parents), !.graph = Stripped(g)]
  BY DEF preprocess, start
<1>7. start = Start(g, map)
  BY DEF Start, start
<1> HIDE DEF F
<1> QED  BY <1>5, <1>6, <1>7

---------------------------------------------------------------------------
(* The morph map.                                                          *)

LEMMA MapsAre ==
    ASSUME NEW m
    PROVE  m \in MapsOf(Key, ParentName) <=> DOMAIN m \subseteq Key /\ m \in [DOMAIN m -> ParentName]
  BY DEF MapsOf

\* A map that went out from the aliases a and has been given keys for the names
\* in "given": aliases keep their keys, every other key is its name's default,
\* and a name without a key lost its own to the default key of another, which
\* had been an alias.
MapInv(a, m, given) ==
    /\ m \in MapsOf(Key, ParentName)
    /\ DOMAIN a \subseteq DOMAIN m
    /\ \A k \in DOMAIN m : (k \in DOMAIN a /\ a[k] = m[k]) \/ k = Snake[m[k]]
    /\ given \subseteq ParentName
    /\ \A n \in given : lookupAlias(m, n) \/ \E i \in given \ {n} : Snake[i] \in DOMAIN a

LEMMA RegisteredKeepsMap ==
    ASSUME NEW a, NEW m, NEW given, MapInv(a, m, given), NEW n \in ParentName
    PROVE  MapInv(a, Registered(m, n), given \cup {n})
<1>1. CASE lookupAlias(m, n)
  BY <1>1 DEF Registered, MapInv
<1>2. CASE ~lookupAlias(m, n)
  <2> DEFINE k0 == Snake[n]
             p  == Put(m, k0, n)
  <2>1. k0 \in Key /\ (\A x \in ParentName : Snake[x] = k0 => x = n)
    BY PolyNames DEF Injection, IsInjective
  <2>2. /\ DOMAIN p = DOMAIN m \cup {k0} /\ p[k0] = n
        /\ \A k \in DOMAIN p \ {k0} : k \in DOMAIN m /\ p[k] = m[k]
    BY DEF Put
  <2>3. DOMAIN m \subseteq Key /\ m \in [DOMAIN m -> ParentName]
    BY MapsAre DEF MapInv
  <2>4. p \in MapsOf(Key, ParentName)
    <3>1. p = [j \in DOMAIN m \cup {k0} |-> IF j = k0 THEN n ELSE m[j]]
      BY DEF Put
    <3>2. p \in [DOMAIN p -> ParentName]
      BY <2>3, <3>1
    <3> QED  BY <2>1, <2>2, <2>3, <3>2, MapsAre
  <2> HIDE DEF p
  <2>5. \A k \in DOMAIN p : (k \in DOMAIN a /\ a[k] = p[k]) \/ k = Snake[p[k]]
    BY <2>2 DEF MapInv
  <2>6. lookupAlias(p, n)
    BY <2>2 DEF lookupAlias
  <2>7. ASSUME NEW x \in given \ {n}
        PROVE  lookupAlias(p, x) \/ \E i \in (given \cup {n}) \ {x} : Snake[i] \in DOMAIN a
    <3>1. CASE lookupAlias(m, x)
      <4>1. PICK k \in DOMAIN m : m[k] = x
        BY <3>1 DEF lookupAlias
      <4>2. CASE k # k0
        BY <2>2, <4>1, <4>2 DEF lookupAlias
      <4>3. CASE k = k0
        <5>1. k \in DOMAIN a
          BY <2>1, <4>1, <4>3 DEF MapInv
        <5> QED  BY <4>3, <5>1
      <4> QED  BY <4>2, <4>3
    <3>2. CASE ~lookupAlias(m, x)
      BY <3>2 DEF MapInv
    <3> QED  BY <3>1, <3>2
  <2>8. DOMAIN a \subseteq DOMAIN p /\ given \cup {n} \subseteq ParentName
    BY <2>2 DEF MapInv
  <2>9. MapInv(a, p, given \cup {n})
    BY <2>4, <2>5, <2>6, <2>7, <2>8 DEF MapInv
  <2> QED  BY <1>2, <2>9 DEF Registered, p
<1> QED  BY <1>1, <1>2

LEMMA RegisterAllKeepsMap ==
    ASSUME NEW a, NEW m, NEW given, MapInv(a, m, given),
           NEW those, NEW list, Len(list) \in Nat,
           \A i \in 1 .. Len(list) : list[i] \in those => list[i] \in ParentName
    PROVE  MapInv(a, RegisterAll(m, list, those), given \cup Upto(list, those, Len(list)))
<1> DEFINE N == Len(list)
<1>1. PICK f : /\ f = [i \in 0 .. N |->
                         IF i = 0 THEN m
                         ELSE IF list[i] \in those THEN Registered(f[i - 1], list[i]) ELSE f[i - 1]]
               /\ RegisterAll(m, list, those) = f[N]
  BY RegisterAllIs
<1> DEFINE Holds(i) == MapInv(a, f[i], given \cup Upto(list, those, i))
<1>2. Holds(0)
  <2>1. Upto(list, those, 0) = {} /\ f[0] = m
    BY <1>1 DEF Upto
  <2> QED  BY <2>1
<1>3. ASSUME NEW i \in 1 .. N, Holds(i - 1) PROVE Holds(i)
  <2>1. CASE list[i] \in those
    <3>1. f[i] = Registered(f[i - 1], list[i])
      BY <1>1, <2>1
    <3>2. Upto(list, those, i) = Upto(list, those, i - 1) \cup {list[i]}
      BY <2>1 DEF Upto
    <3>3. MapInv(a, f[i], (given \cup Upto(list, those, i - 1)) \cup {list[i]})
      BY <1>3, <2>1, <3>1, RegisteredKeepsMap
    <3>4. (given \cup Upto(list, those, i - 1)) \cup {list[i]} = given \cup Upto(list, those, i)
      BY <3>2
    <3> QED  BY <3>3, <3>4
  <2>2. CASE list[i] \notin those
    <3>1. f[i] = f[i - 1]
      BY <1>1, <2>2
    <3>2. Upto(list, those, i) = Upto(list, those, i - 1)
      BY <2>2 DEF Upto
    <3> QED  BY <1>3, <3>1, <3>2
  <2> QED  BY <2>1, <2>2
<1>4. Holds(N)
  <2> HIDE DEF Holds
  <2> DEFINE S == { i \in 0 .. N : Holds(i) }
  <2>1. 0 \in S /\ \A i \in 1 .. N : i - 1 \in S => i \in S
    BY <1>2, <1>3
  <2> HIDE DEF S
  <2>2. 0 .. N \subseteq S
    BY <2>1, CountUp
  <2> QED  BY <2>2 DEF S
<1> QED  BY <1>1, <1>4

---------------------------------------------------------------------------
(* The schema and its graph.                                               *)

LEMMA ListsAre ==
    ASSUME NEW l \in Lists
    PROVE  l \in Seq(Entity) /\ Len(l) \in Nat /\ DOMAIN l = 1 .. Len(l)
<1>1. PICK S \in SUBSET Entity : l \in SetToSeqs(S)
  BY DEF Lists
<1>2. l \in [1 .. Cardinality(S) -> S]
  BY <1>1 DEF SetToSeqs
<1>3. Cardinality(S) \in Nat
  BY FS_Subset, FS_CardinalityType, PolyNames
<1> QED  BY <1>2, <1>3

LEMMA OneListed == ASSUME NEW e \in Entity PROVE <<e>> \in Lists /\ Range(<<e>>) = {e}
<1>1. Cardinality({e}) = 1
  BY FS_Singleton
<1>2. <<e>> \in [1 .. 1 -> {e}] /\ DOMAIN <<e>> = 1 .. 1
  OBVIOUS
<1>3. <<e>> \in SetToSeqs({e})
  BY <1>1, <1>2 DEF SetToSeqs
<1>4. {e} \in SUBSET Entity
  OBVIOUS
<1>5. Range(<<e>>) = {e}
  BY <1>2 DEF Range
<1> QED  BY <1>3, <1>4, <1>5 DEF Lists

\* What a developer can have written: the lists name types there are, and no two
\* kinds of parents have one type.
SchemaInv(s) ==
    /\ s \in Schemas
    /\ Range(s.listed) \subseteq Typed(s)
    /\ s.mixin # NoMixin => s.mixin \subseteq Typed(s)
    /\ \A e, d \in Typed(s) : s.names[e] = s.names[d] => e = d

\* The names MorphTo lists, and the types of the graph.
Allowed(s) == NamesIn(s, s.listed)
Present(s) == {ChildType, PivotType, HolderType} \cup { s.names[e] : e \in Typed(s) }

LEMMA NamesOf ==
    ASSUME NEW s, SchemaInv(s)
    PROVE  /\ \A e \in Entity : s.names[e] \in ParentName \cup {NoName}
           /\ \A e \in Typed(s) : e \in Entity /\ s.names[e] \in ParentName
           /\ Present(s) \subseteq Name
  BY DEF SchemaInv, Schemas, Typed, Present, Name

LEMMA AllowedIs ==
    ASSUME NEW s, SchemaInv(s)
    PROVE  /\ Allowed(s) \in Seq(ParentName) /\ Len(Allowed(s)) \in Nat
           /\ DOMAIN Allowed(s) = 1 .. Len(Allowed(s)) /\ Len(Allowed(s)) = Len(s.listed)
           /\ DOMAIN s.listed = 1 .. Len(s.listed)
           /\ Range(Allowed(s)) = { s.names[e] : e \in Range(s.listed) }
           /\ Range(Allowed(s)) \subseteq ParentName
           /\ Range(s.listed) \subseteq Typed(s)
<1>1. s.listed \in Seq(Entity) /\ Len(s.listed) \in Nat /\ DOMAIN s.listed = 1 .. Len(s.listed)
  BY ListsAre DEF SchemaInv, Schemas
<1>2. \A i \in DOMAIN s.listed : s.listed[i] \in Typed(s) /\ s.names[s.listed[i]] \in ParentName
  BY NamesOf DEF SchemaInv, Range
<1>3. Allowed(s) = [i \in 1 .. Len(s.listed) |-> s.names[s.listed[i]]]
  BY <1>1 DEF Allowed, NamesIn
<1>4. Allowed(s) \in Seq(ParentName) /\ Len(Allowed(s)) = Len(s.listed)
  BY <1>1, <1>2, <1>3
<1>5. Range(Allowed(s)) = { s.names[e] : e \in Range(s.listed) }
  BY <1>1, <1>3 DEF Range
<1>6. Range(s.listed) \subseteq Typed(s)
  BY DEF SchemaInv
<1> QED  BY <1>1, <1>3, <1>4, <1>5, <1>6, NamesOf

\* A type's foreign keys: one for each edge that leads to it.
Brought(s, n) ==
    UNION { { [owner |-> o, edge |-> e] : e \in { d \in Range(EdgesOf(s, o)) : TargetOf(d) = n } } : o \in Present(s) }

LEMMA GraphIs ==
    ASSUME NEW s, SchemaInv(s)
    PROVE  /\ DOMAIN Graph(s) = { i \in 1 .. Len(NodeOrder) : NodeOrder[i] \in Present(s) }
           /\ \A i \in DOMAIN Graph(s) :
                 Graph(s)[i] = [name |-> NodeOrder[i], edges |-> EdgesOf(s, NodeOrder[i]),
                                fields |-> FieldsOf(s, NodeOrder[i]), fks |-> Brought(s, NodeOrder[i]),
                                hidden |-> Brought(s, NodeOrder[i])]
           /\ \A n \in Present(s) : \E i \in DOMAIN Graph(s) : NodeOrder[i] = n
<1>1. DOMAIN NodeOrder = 1 .. Len(NodeOrder) /\ Range(NodeOrder) = Name
  <2>1. NodeOrder \in Seq(Name) /\ Range(NodeOrder) = Name
    BY PolyNames
  <2> QED  BY <2>1
<1>2. /\ DOMAIN Graph(s) = { i \in 1 .. Len(NodeOrder) : NodeOrder[i] \in Present(s) }
      /\ \A i \in DOMAIN Graph(s) :
                 Graph(s)[i] = [name |-> NodeOrder[i], edges |-> EdgesOf(s, NodeOrder[i]),
                                fields |-> FieldsOf(s, NodeOrder[i]), fks |-> Brought(s, NodeOrder[i]),
                                hidden |-> Brought(s, NodeOrder[i])]
  BY <1>1, Zenon DEF Graph, Present, Brought
<1>3. \A n \in Present(s) : \E i \in DOMAIN Graph(s) : NodeOrder[i] = n
  <2> TAKE n \in Present(s)
  <2>1. n \in Range(NodeOrder)
    BY <1>1, NamesOf
  <2>2. PICK i \in DOMAIN NodeOrder : NodeOrder[i] = n
    BY <2>1 DEF Range
  <2> QED  BY <1>1, <1>2, <2>2
<1> QED  BY <1>2, <1>3

LEMMA NodesAre ==
    ASSUME NEW s, SchemaInv(s), NEW i \in DOMAIN Graph(s)
    PROVE  LET node == Graph(s)[i] IN
           /\ i \in 1 .. Len(NodeOrder) /\ node.name = NodeOrder[i] /\ node.name \in Present(s)
           /\ node.edges = EdgesOf(s, node.name) /\ node.fields = FieldsOf(s, node.name)
           /\ node.fks = Brought(s, node.name)
           /\ node.hidden = node.fks
           /\ node = [name |-> node.name, edges |-> node.edges, fields |-> node.fields, fks |-> node.fks,
                      hidden |-> node.hidden]
<1> DEFINE node == Graph(s)[i]
<1>1. node = [name |-> NodeOrder[i], edges |-> EdgesOf(s, NodeOrder[i]),
              fields |-> FieldsOf(s, NodeOrder[i]), fks |-> Brought(s, NodeOrder[i]),
              hidden |-> Brought(s, NodeOrder[i])]
  BY GraphIs
<1>2. i \in 1 .. Len(NodeOrder) /\ NodeOrder[i] \in Present(s)
  BY GraphIs
<1> HIDE DEF node
<1>3. /\ node.name = NodeOrder[i]
      /\ node.edges = EdgesOf(s, NodeOrder[i]) /\ node.fields = FieldsOf(s, NodeOrder[i])
      /\ node.fks = Brought(s, NodeOrder[i]) /\ node.hidden = node.fks
  BY <1>1
<1> QED  BY <1>1, <1>2, <1>3 DEF node

\* The kinds of types differ.
LEMMA KindsOfTypes ==
    /\ ChildType # PivotType /\ ChildType # HolderType /\ PivotType # HolderType
    /\ ChildType \notin ParentName /\ PivotType \notin ParentName /\ HolderType \notin ParentName
    /\ NoName \notin ParentName /\ NoName \notin {ChildType, PivotType, HolderType}
  BY PolyNames DEF Name

\* What an edge of the schema s can be, on a type called n.
EdgeOf(s, n, e) ==
    /\ e.kind \in {"morphTo", "morphMany", "morphedByMany", "plain"}
    /\ e.kind = "morphTo" => n \in {ChildType, PivotType} /\ e.allowed = Allowed(s)
    /\ e.kind = "morphMany" => n \in ParentName
    /\ e.kind = "morphedByMany" =>
          n = HolderType /\ e.morph = s.morph /\ e.through = s.through /\ e.target \in ParentName
    /\ e.kind = "plain" => TargetOf(e) = HolderType

LEMMA EdgesAre ==
    ASSUME NEW s, SchemaInv(s), NEW n \in Present(s)
    PROVE  /\ Len(EdgesOf(s, n)) \in Nat
           /\ DOMAIN EdgesOf(s, n) = 1 .. Len(EdgesOf(s, n))
           /\ \A i \in DOMAIN EdgesOf(s, n) : EdgeOf(s, n, EdgesOf(s, n)[i])
           /\ n = ChildType => 1 \in DOMAIN EdgesOf(s, n) /\ EdgesOf(s, n)[1].kind = "morphTo"
           /\ n = ChildType => EdgesOf(s, n)[1].morph = ChildMorph
<1> DEFINE es == EdgesOf(s, n)
<1>1. CASE n = ChildType
  <2>1. es = <<Edge("morphTo", ChildMorph, Allowed(s), NoName, NoName),
               Edge("plain", NoMorph, <<>>, HolderType, NoName)>>
    BY <1>1, KindsOfTypes DEF EdgesOf, Allowed
  <2>2. DOMAIN es = 1 .. 2 /\ Len(es) = 2 /\ DOMAIN es = {1, 2}
    BY <2>1
  <2>3. EdgeOf(s, n, es[1]) /\ EdgeOf(s, n, es[2]) /\ es[1].kind = "morphTo" /\ es[1].morph = ChildMorph
    BY <1>1, <2>1 DEF EdgeOf, Edge, TargetOf
  <2> QED  BY <2>2, <2>3
<1>2. CASE n = PivotType
  <2>1. es = <<Edge("plain", NoMorph, <<>>, HolderType, NoName),
               Edge("morphTo", PivotMorph, Allowed(s), NoName, NoName)>>
    BY <1>2, KindsOfTypes DEF EdgesOf, Allowed
  <2>2. DOMAIN es = 1 .. 2 /\ Len(es) = 2 /\ DOMAIN es = {1, 2}
    BY <2>1
  <2>3. EdgeOf(s, n, es[1]) /\ EdgeOf(s, n, es[2])
    BY <1>2, <2>1 DEF EdgeOf, Edge, TargetOf
  <2> QED  BY <1>2, <2>2, <2>3, KindsOfTypes
<1>3. CASE n = HolderType /\ s.listed = <<>>
  <2>1. es = <<>>
    BY <1>3, KindsOfTypes DEF EdgesOf
  <2> QED  BY <1>3, <2>1, KindsOfTypes
<1>4. CASE n = HolderType /\ s.listed # <<>>
  <2>1. es = <<Edge("morphedByMany", s.morph, <<>>, s.names[s.listed[1]], s.through)>>
    BY <1>4, KindsOfTypes DEF EdgesOf
  <2>2. DOMAIN es = 1 .. 1 /\ Len(es) = 1 /\ DOMAIN es = {1}
    BY <2>1
  <2>3. s.names[s.listed[1]] \in ParentName
    <3>1. s.listed \in Seq(Entity)
      BY ListsAre DEF SchemaInv, Schemas
    <3>2. 1 \in DOMAIN s.listed
      BY <1>4, <3>1
    <3>3. s.listed[1] \in Typed(s)
      BY <3>2 DEF SchemaInv, Range
    <3> QED  BY <3>3, NamesOf
  <2>4. EdgeOf(s, n, es[1])
    BY <1>4, <2>1, <2>3 DEF EdgeOf, Edge
  <2> QED  BY <1>4, <2>2, <2>4, KindsOfTypes
<1>5. CASE n \notin {ChildType, PivotType, HolderType}
  <2>1. n \in ParentName
    BY <1>5, NamesOf DEF Present
  <2>2. es = <<Edge("morphMany", ChildMorph, <<>>, ChildType, NoName)>> \/ es = <<>>
    BY <1>5 DEF EdgesOf
  <2>3. CASE es = <<>>
    BY <1>5, <2>3
  <2>4. CASE es = <<Edge("morphMany", ChildMorph, <<>>, ChildType, NoName)>>
    <3>1. DOMAIN es = 1 .. 1 /\ Len(es) = 1 /\ DOMAIN es = {1}
      BY <2>4
    <3>2. EdgeOf(s, n, es[1])
      BY <2>1, <2>4 DEF EdgeOf, Edge
    <3> QED  BY <1>5, <3>1, <3>2
  <2> QED  BY <2>2, <2>3, <2>4
<1> QED  BY <1>1, <1>2, <1>3, <1>4, <1>5

\* The pivot's own morph name, whichever type comes first.
LEMMA PivotHasMorph ==
    ASSUME NEW s, SchemaInv(s)
    PROVE  PivotMorphOf(Graph(s), PivotType) = PivotMorph
<1> DEFINE g == Graph(s)
           own == MorphTos(FindType(g, PivotType))
<1>1. \A node \in FindType(g, PivotType) : node.edges = EdgesOf(s, PivotType)
  <2> TAKE node \in FindType(g, PivotType)
  <2>1. PICK i \in DOMAIN g : node = g[i] /\ g[i].name = PivotType
    BY DEF FindType, Range
  <2> QED  BY <2>1, NodesAre
<1>2. FindType(g, PivotType) # {}
  <2>1. PivotType \in Present(s)
    BY DEF Present
  <2>2. PICK i \in DOMAIN g : NodeOrder[i] = PivotType
    BY <2>1, GraphIs
  <2>3. g[i] \in Range(g) /\ g[i].name = PivotType
    BY <2>2, NodesAre DEF Range
  <2> QED  BY <2>3 DEF FindType
<1>3. { e.morph : e \in { d \in Range(EdgesOf(s, PivotType)) : d.kind = "morphTo" } } = {PivotMorph}
  <2> DEFINE es == <<Edge("plain", NoMorph, <<>>, HolderType, NoName),
                     Edge("morphTo", PivotMorph, Allowed(s), NoName, NoName)>>
  <2>1. EdgesOf(s, PivotType) = es
    BY KindsOfTypes DEF EdgesOf, Allowed
  <2>2. DOMAIN es = {1, 2}
    OBVIOUS
  <2>3. es[1].kind = "plain" /\ es[2].kind = "morphTo" /\ es[2].morph = PivotMorph
    BY DEF Edge
  <2> HIDE DEF es
  <2>4. Range(es) = {es[1], es[2]}
    BY <2>2 DEF Range
  <2>5. { d \in Range(es) : d.kind = "morphTo" } = {es[2]}
    BY <2>3, <2>4
  <2> QED  BY <2>1, <2>3, <2>5
<1>4. own = {PivotMorph}
  <2>1. \A node \in FindType(g, PivotType) :
           { e.morph : e \in { d \in Range(node.edges) : d.kind = "morphTo" } } = {PivotMorph}
    BY <1>1, <1>3
  <2> QED  BY <1>2, <2>1 DEF MorphTos
<1> QED  BY <1>4 DEF PivotMorphOf

---------------------------------------------------------------------------
(* preprocess, one edge after the other.                                   *)

\* What preprocess has collected: a morph map with keys for the parents of the
\* children, or keys lost to aliases; children that all have the listed parents
\* and, if their column has values, these parents' default keys; holders whose
\* morph name is their pivot's.
Given(st) == UNION { Range(c.allowed) : c \in st.children }

Whole(st) ==
    st = [err |-> st.err, morphMap |-> st.morphMap, children |-> st.children,
          holders |-> st.holders, parents |-> st.parents, graph |-> st.graph]

Recorded(s, st) ==
    /\ Whole(st)
    /\ \A c \in st.children :
          /\ c.type \in {ChildType, PivotType} /\ c.allowed = Allowed(s) /\ c.allowed # <<>>
          /\ c.values = {} \/ c.values = { Snake[n] : n \in Range(Allowed(s)) }
    /\ st.holders \subseteq [type: {HolderType}, target: ParentName, pivot: {PivotType}, morph: {PivotMorph}]
    /\ st.parents \subseteq ParentName

Collected(s, a, st) == Recorded(s, st) /\ MapInv(a, st.morphMap, Given(st))

HasChild(st) == \E c \in st.children : c.type = ChildType

\* An error stays, and so do the children.
Follows(st, next) ==
    /\ st.children \subseteq next.children
    /\ next.err = NoError => st.err = NoError

LEMMA FailsIs ==
    ASSUME NEW st, Whole(st), NEW what
    PROVE  Fails(st, what) = [err |-> what, morphMap |-> st.morphMap, children |-> st.children,
                              holders |-> st.holders, parents |-> st.parents, graph |-> st.graph]
  BY DEF Fails, Whole

LEMMA FailsKeeps ==
    ASSUME NEW s, NEW a, NEW st, Collected(s, a, st),
           NEW what \in {"no parents", "no columns", "lists drifted apart", "no pivot"}
    PROVE  Collected(s, a, Fails(st, what)) /\ Follows(st, Fails(st, what)) /\ Fails(st, what).err # NoError
<1> DEFINE next == Fails(st, what)
<1>1. next = [err |-> what, morphMap |-> st.morphMap, children |-> st.children,
              holders |-> st.holders, parents |-> st.parents, graph |-> st.graph]
  <2>1. Whole(st)
    BY DEF Collected, Recorded
  <2> QED  BY <2>1, FailsIs
<1>2. what # NoError
  BY PolyNames
<1> HIDE DEF next
<1>3. /\ next.err = what /\ next.morphMap = st.morphMap /\ next.children = st.children
      /\ next.holders = st.holders /\ next.parents = st.parents /\ next.graph = st.graph
  BY <1>1
<1>4. Given(next) = Given(st)
  BY <1>3 DEF Given
<1>5. MapInv(a, next.morphMap, Given(next))
  BY <1>3, <1>4 DEF Collected, Recorded
<1>6. Collected(s, a, next)
  BY <1>1, <1>3, <1>5 DEF Collected, Recorded, Whole
<1>7. Follows(st, next)
  BY <1>2, <1>3 DEF Follows
<1> QED  BY <1>2, <1>3, <1>6, <1>7 DEF next

LEMMA HandleMorphToKeeps ==
    ASSUME NEW s, SchemaInv(s), NEW a, NEW st, Collected(s, a, st), NEW g, NEW node, NEW e,
           node.name \in {ChildType, PivotType}, e.allowed = Allowed(s)
    PROVE  LET next == HandleMorphTo(st, g, node, e) IN
           /\ Collected(s, a, next) /\ Follows(st, next)
           /\ node.name = ChildType /\ next.err = NoError => HasChild(next)
<1> DEFINE next == HandleMorphTo(st, g, node, e)
           values == Values(node, e.morph)
           drifted == values # {} /\ values # { Snake[n] : n \in Range(e.allowed) }
<1>1. CASE e.allowed = <<>> \/ ~HasColumns(node, e.morph) \/ drifted
  <2>1. PICK what \in {"no parents", "no columns", "lists drifted apart", "no pivot"} : next = Fails(st, what)
    BY <1>1 DEF HandleMorphTo
  <2> QED  BY <2>1, FailsKeeps
<1>2. CASE ~(e.allowed = <<>> \/ ~HasColumns(node, e.morph) \/ drifted)
  <2> DEFINE c0  == [type |-> node.name, morph |-> e.morph, allowed |-> e.allowed, values |-> values]
             map == RegisterAll(st.morphMap, e.allowed, Range(e.allowed))
  <2>1. next = [st EXCEPT !.children = @ \cup {c0}, !.morphMap = map]
    BY <1>2 DEF HandleMorphTo
  <2>2. /\ c0.type \in {ChildType, PivotType} /\ c0.allowed = Allowed(s) /\ c0.allowed # <<>>
        /\ c0.values = {} \/ c0.values = { Snake[n] : n \in Range(Allowed(s)) }
        /\ c0.type = node.name
    BY <1>2
  <2>3. MapInv(a, map, Given(st) \cup Range(Allowed(s)))
    <3>1. Len(Allowed(s)) \in Nat /\ DOMAIN Allowed(s) = 1 .. Len(Allowed(s)) /\ Range(Allowed(s)) \subseteq ParentName
      BY AllowedIs
    <3>2. \A i \in 1 .. Len(Allowed(s)) : Allowed(s)[i] \in Range(Allowed(s))
      BY <3>1 DEF Range
    <3>3. MapInv(a, st.morphMap, Given(st))
      BY DEF Collected, Recorded
    <3>4. MapInv(a, RegisterAll(st.morphMap, Allowed(s), Range(Allowed(s))),
                 Given(st) \cup Upto(Allowed(s), Range(Allowed(s)), Len(Allowed(s))))
      BY <3>1, <3>2, <3>3, RegisterAllKeepsMap
    <3>5. Upto(Allowed(s), Range(Allowed(s)), Len(Allowed(s))) = Range(Allowed(s))
      BY <3>1, <3>2 DEF Upto, Range
    <3> QED  BY <3>4, <3>5
  <2> HIDE DEF c0, map
  <2>4. next = [err |-> st.err, morphMap |-> map, children |-> st.children \cup {c0},
                holders |-> st.holders, parents |-> st.parents, graph |-> st.graph]
    <3>1. Whole(st)
      BY DEF Collected, Recorded
    <3> QED  BY <2>1, <3>1 DEF Whole
  <2> HIDE DEF next
  <2>5. /\ next.err = st.err /\ next.morphMap = map /\ next.children = st.children \cup {c0}
        /\ next.holders = st.holders /\ next.parents = st.parents /\ next.graph = st.graph
    BY <2>4
  <2>6. Given(next) = Given(st) \cup Range(Allowed(s))
    BY <2>2, <2>5 DEF Given
  <2>7. Collected(s, a, next)
    BY <2>2, <2>3, <2>4, <2>5, <2>6 DEF Collected, Recorded, Whole
  <2>8. Follows(st, next) /\ (node.name = ChildType => HasChild(next))
    BY <2>2, <2>5 DEF Follows, HasChild
  <2> QED  BY <2>7, <2>8 DEF next
<1> QED  BY <1>1, <1>2

LEMMA HandleParentKeeps ==
    ASSUME NEW s, NEW a, NEW st, Collected(s, a, st), NEW g, NEW node, NEW e, node.name \in ParentName
    PROVE  Collected(s, a, HandleParent(st, g, node, e)) /\ Follows(st, HandleParent(st, g, node, e))
<1> DEFINE next == HandleParent(st, g, node, e)
<1>1. next = [err |-> st.err, morphMap |-> st.morphMap, children |-> st.children,
              holders |-> st.holders, parents |-> st.parents \cup {node.name}, graph |-> st.graph]
  <2>1. Whole(st)
    BY DEF Collected, Recorded
  <2> QED  BY <2>1 DEF HandleParent, Whole
<1> HIDE DEF next
<1>2. /\ next.err = st.err /\ next.morphMap = st.morphMap /\ next.children = st.children
      /\ next.holders = st.holders /\ next.parents = st.parents \cup {node.name} /\ next.graph = st.graph
  BY <1>1
<1>3. Given(next) = Given(st)
  BY <1>2 DEF Given
<1>4. MapInv(a, next.morphMap, Given(next))
  BY <1>2, <1>3 DEF Collected, Recorded
<1>5. Collected(s, a, next)
  BY <1>1, <1>2, <1>4 DEF Collected, Recorded, Whole
<1> QED  BY <1>2, <1>5 DEF Follows, next

LEMMA HandleHolderKeeps ==
    ASSUME NEW s, SchemaInv(s), NEW a, NEW st, Collected(s, a, st), NEW node, NEW e,
           node.name = HolderType, e.morph = s.morph, e.through = s.through, e.target \in ParentName
    PROVE  LET next == HandleHolder(st, Graph(s), node, e) IN
           Collected(s, a, next) /\ Follows(st, next)
<1> DEFINE next == HandleHolder(st, Graph(s), node, e)
           own == PivotMorphOf(Graph(s), e.through)
           morph == IF e.morph # NoMorph THEN e.morph ELSE IF own # NoMorph THEN own ELSE Singular
           h0 == [type |-> node.name, target |-> e.target, pivot |-> e.through, morph |-> morph]
<1>0. s.through \in {PivotType, NoName} /\ s.morph \in {PivotMorph, NoMorph}
  BY DEF SchemaInv, Schemas
<1>1. CASE e.through = NoName
  BY <1>1, FailsKeeps DEF HandleHolder
<1>2. CASE e.through # NoName
  <2>1. e.through = PivotType /\ morph = PivotMorph
    BY <1>0, <1>2, PivotHasMorph, PolyNames
  <2>2. h0 \in [type: {HolderType}, target: ParentName, pivot: {PivotType}, morph: {PivotMorph}]
    BY <2>1
  <2>3. next = [st EXCEPT !.holders = @ \cup {h0}, !.parents = @ \cup {e.target}]
    BY <1>2 DEF HandleHolder
  <2> HIDE DEF h0, own, morph
  <2>4. next = [err |-> st.err, morphMap |-> st.morphMap, children |-> st.children,
                holders |-> st.holders \cup {h0}, parents |-> st.parents \cup {e.target}, graph |-> st.graph]
    <3>1. Whole(st)
      BY DEF Collected, Recorded
    <3> QED  BY <2>3, <3>1 DEF Whole
  <2> HIDE DEF next
  <2>5. /\ next.err = st.err /\ next.morphMap = st.morphMap /\ next.children = st.children
        /\ next.holders = st.holders \cup {h0} /\ next.parents = st.parents \cup {e.target} /\ next.graph = st.graph
    BY <2>4
  <2>6. Given(next) = Given(st)
    BY <2>5 DEF Given
  <2>7. MapInv(a, next.morphMap, Given(next))
    BY <2>5, <2>6 DEF Collected, Recorded
  <2>8. Collected(s, a, next)
    BY <2>2, <2>4, <2>5, <2>7 DEF Collected, Recorded, Whole
  <2> QED  BY <2>5, <2>8 DEF Follows, next
<1> QED  BY <1>1, <1>2

LEMMA HandledKeeps ==
    ASSUME NEW s, SchemaInv(s), NEW a, NEW st, Collected(s, a, st), NEW node, NEW e, EdgeOf(s, node.name, e)
    PROVE  LET next == Handled(st, Graph(s), node, e) IN
           /\ Collected(s, a, next) /\ Follows(st, next)
           /\ node.name = ChildType /\ e.kind = "morphTo" /\ next.err = NoError => HasChild(next)
<1> DEFINE next == Handled(st, Graph(s), node, e)
<1>1. CASE st.err # NoError
  <2>1. next = st
    BY <1>1 DEF Handled
  <2> QED  BY <1>1, <2>1 DEF Follows
<1>2. CASE st.err = NoError /\ e.kind = "morphTo"
  <2>1. next = HandleMorphTo(st, Graph(s), node, e)
    BY <1>2 DEF Handled
  <2>2. node.name \in {ChildType, PivotType} /\ e.allowed = Allowed(s)
    BY <1>2 DEF EdgeOf
  <2> QED  BY <2>1, <2>2, HandleMorphToKeeps
<1>3. CASE st.err = NoError /\ e.kind = "morphMany"
  <2>1. next = HandleParent(st, Graph(s), node, e)
    BY <1>3 DEF Handled
  <2>2. node.name \in ParentName
    BY <1>3 DEF EdgeOf
  <2> QED  BY <1>3, <2>1, <2>2, HandleParentKeeps
<1>4. CASE st.err = NoError /\ e.kind = "morphedByMany"
  <2>1. next = HandleHolder(st, Graph(s), node, e)
    BY <1>4 DEF Handled
  <2>2. node.name = HolderType /\ e.morph = s.morph /\ e.through = s.through /\ e.target \in ParentName
    BY <1>4 DEF EdgeOf
  <2> QED  BY <1>4, <2>1, <2>2, HandleHolderKeeps
<1>5. CASE st.err = NoError /\ e.kind = "plain"
  <2>1. next = st
    BY <1>5 DEF Handled
  <2> QED  BY <1>5, <2>1 DEF Follows
<1> QED  BY <1>1, <1>2, <1>3, <1>4, <1>5 DEF EdgeOf

\* Whoever visits the child's type without an error has its MorphTo.
LEMMA VisitedKeeps ==
    ASSUME NEW s, SchemaInv(s), NEW a, NEW st, Collected(s, a, st), NEW i \in DOMAIN Graph(s)
    PROVE  LET next == Visited(st, Graph(s), Graph(s)[i]) IN
           /\ Collected(s, a, next) /\ Follows(st, next)
           /\ NodeOrder[i] = ChildType /\ next.err = NoError => HasChild(next)
<1> DEFINE node == Graph(s)[i]
           g == Graph(s)
           N == Len(node.edges)
<1>1. /\ node.name = NodeOrder[i] /\ N \in Nat
      /\ \A j \in 1 .. N : EdgeOf(s, node.name, node.edges[j])
      /\ node.name = ChildType => 1 \in 1 .. N /\ node.edges[1].kind = "morphTo"
  <2>1. node.name = NodeOrder[i] /\ node.name \in Present(s) /\ node.edges = EdgesOf(s, node.name)
    BY NodesAre
  <2> HIDE DEF node
  <2> QED  BY <2>1, EdgesAre
<1> HIDE DEF node
<1>2. PICK f : /\ f = [j \in 0 .. N |-> IF j = 0 THEN st ELSE Handled(f[j - 1], g, node, node.edges[j])]
               /\ Visited(st, g, node) = f[N]
  BY <1>1, VisitedIs
<1> DEFINE Holds(j) == /\ Collected(s, a, f[j]) /\ Follows(st, f[j])
                       /\ j > 0 /\ node.name = ChildType /\ f[j].err = NoError => HasChild(f[j])
<1>3. Holds(0)
  <2>1. f[0] = st
    BY <1>1, <1>2
  <2> QED  BY <2>1 DEF Follows
<1>4. ASSUME NEW j \in 1 .. N, Holds(j - 1) PROVE Holds(j)
  <2>1. f[j] = Handled(f[j - 1], g, node, node.edges[j])
    BY <1>1, <1>2
  <2>2. EdgeOf(s, node.name, node.edges[j])
    BY <1>1
  <2>3. /\ Collected(s, a, f[j]) /\ Follows(f[j - 1], f[j])
        /\ node.name = ChildType /\ node.edges[j].kind = "morphTo" /\ f[j].err = NoError => HasChild(f[j])
    BY <1>4, <2>1, <2>2, HandledKeeps
  <2>4. Follows(st, f[j])
    BY <1>4, <2>3 DEF Follows
  <2>5. ASSUME node.name = ChildType, f[j].err = NoError PROVE HasChild(f[j])
    <3>1. CASE j = 1
      BY <1>1, <2>3, <2>5, <3>1
    <3>2. CASE j > 1
      BY <1>4, <2>3, <2>5, <3>2 DEF Follows, HasChild
    <3> QED  BY <3>1, <3>2
  <2> QED  BY <2>3, <2>4, <2>5
<1>5. Holds(N)
  <2> HIDE DEF Holds
  <2> DEFINE S == { j \in 0 .. N : Holds(j) }
  <2>1. 0 \in S /\ \A j \in 1 .. N : j - 1 \in S => j \in S
    BY <1>1, <1>3, <1>4
  <2> HIDE DEF S
  <2>2. 0 .. N \subseteq S
    BY <1>1, <2>1, CountUp
  <2> QED  BY <1>1, <2>2 DEF S
<1>6. node.name = ChildType => N > 0
  BY <1>1
<1> QED  BY <1>1, <1>2, <1>5, <1>6 DEF node

\* What a run of the generator leaves.
LEMMA PreprocessLeaves ==
    ASSUME NEW s, SchemaInv(s), NEW a \in MapsOf(Key, ParentName),
           NEW st, st = preprocess(Graph(s), a)
    PROVE  /\ Recorded(s, st) /\ st.morphMap \in MapsOf(Key, ParentName)
           /\ st.err = NoError => MapInv(a, st.morphMap, Participants(st))
           /\ st.err = NoError => HasChild(st) /\ st.graph = Stripped(Graph(s))
<1> DEFINE N == Len(NodeOrder)
           g == Graph(s)
<1>0. N \in Nat /\ DOMAIN NodeOrder = 1 .. N /\ Range(NodeOrder) = Name
  <2>1. NodeOrder \in Seq(Name) /\ Range(NodeOrder) = Name
    BY PolyNames
  <2> QED  BY <2>1
<1>1. PICK f : /\ f = [i \in 0 .. N |->
                         IF i = 0 THEN Start(g, a)
                         ELSE IF i \in DOMAIN g THEN Visited(f[i - 1], g, g[i]) ELSE f[i - 1]]
               /\ f[N].err # NoError => st = f[N]
               /\ f[N].err = NoError =>
                     st = [f[N] EXCEPT !.morphMap = RegisterAll(@, NodeOrder, f[N].parents),
                                       !.graph = Stripped(g)]
  BY <1>0, preprocessIs
<1>s. /\ f[0] = Start(g, a)
      /\ \A i \in 1 .. N :
            f[i] = IF i \in DOMAIN g THEN Visited(f[i - 1], g, g[i]) ELSE f[i - 1]
  <2> HIDE DEF N, g
  <2>1. N \in Nat
    BY <1>0
  <2>2. f = [i \in 0 .. N |->
               IF i = 0 THEN Start(g, a)
               ELSE IF i \in DOMAIN g THEN Visited(f[i - 1], g, g[i]) ELSE f[i - 1]]
    BY <1>1
  <2>3. 0 \in 0 .. N /\ \A i \in 1 .. N : i \in 0 .. N /\ i # 0
    BY <2>1
  <2> QED  BY <2>2, <2>3
<1> DEFINE Holds(i) == /\ Collected(s, a, f[i])
                       /\ (\E p \in 1 .. i : NodeOrder[p] = ChildType) /\ f[i].err = NoError => HasChild(f[i])
<1>2. Holds(0)
  <2>1. f[0] = Start(g, a)
    BY <1>s
  <2> DEFINE st0 == Start(g, a)
  <2>2. Whole(st0) /\ st0.morphMap = a /\ st0.children = {} /\ st0.holders = {} /\ st0.parents = {}
    BY DEF Start, Whole, Seed
  <2> HIDE DEF st0
  <2>3. Given(st0) = {}
    BY <2>2 DEF Given
  <2>4. MapInv(a, a, {})
    BY DEF MapInv
  <2>5. Collected(s, a, st0)
    BY <2>2, <2>3, <2>4 DEF Collected, Recorded
  <2> QED  BY <2>1, <2>5 DEF st0
<1>3. ASSUME NEW i \in 1 .. N, Holds(i - 1) PROVE Holds(i)
  <2>1. CASE i \in DOMAIN g
    <3>1. f[i] = Visited(f[i - 1], g, g[i])
      BY <1>s, <2>1
    <3>2. /\ Collected(s, a, f[i]) /\ Follows(f[i - 1], f[i])
          /\ NodeOrder[i] = ChildType /\ f[i].err = NoError => HasChild(f[i])
      BY <1>3, <2>1, <3>1, VisitedKeeps
    <3>3. ASSUME NEW p \in 1 .. i, NodeOrder[p] = ChildType, f[i].err = NoError PROVE HasChild(f[i])
      <4>1. CASE p = i
        BY <3>2, <3>3, <4>1
      <4>2. CASE p \in 1 .. (i - 1)
        BY <1>3, <3>2, <3>3, <4>2 DEF Follows, HasChild
      <4> QED  BY <4>1, <4>2
    <3> QED  BY <3>2, <3>3
  <2>2. CASE i \notin DOMAIN g
    <3>1. f[i] = f[i - 1]
      BY <1>s, <2>2
    <3>2. NodeOrder[i] # ChildType
      BY <2>2, GraphIs DEF Present
    <3>3. ASSUME NEW p \in 1 .. i, NodeOrder[p] = ChildType PROVE p \in 1 .. (i - 1)
      BY <3>2, <3>3
    <3> QED  BY <1>3, <3>1, <3>3
  <2> QED  BY <2>1, <2>2
<1>4. Holds(N)
  <2> HIDE DEF Holds
  <2> DEFINE S == { j \in 0 .. N : Holds(j) }
  <2>1. 0 \in S /\ \A j \in 1 .. N : j - 1 \in S => j \in S
    BY <1>0, <1>2, <1>3
  <2> HIDE DEF S
  <2>2. 0 .. N \subseteq S
    BY <1>0, <2>1, CountUp
  <2> QED  BY <1>0, <2>2 DEF S
<1> DEFINE seen == f[N]
<1>5. Collected(s, a, seen) /\ (seen.err = NoError => HasChild(seen))
  <2>1. \E p \in 1 .. N : NodeOrder[p] = ChildType
    <3>1. ChildType \in Range(NodeOrder)
      BY <1>0 DEF Name
    <3> QED  BY <1>0, <3>1 DEF Range
  <2> QED  BY <1>4, <2>1
<1> HIDE DEF seen
<1>6. CASE seen.err # NoError
  <2>1. st = seen
    BY <1>1, <1>6 DEF seen
  <2> QED  BY <1>5, <1>6, <2>1 DEF Collected, MapInv
<1>7. CASE seen.err = NoError
  <2> DEFINE map == RegisterAll(seen.morphMap, NodeOrder, seen.parents)
             graph == Stripped(g)
  <2>1. st = [seen EXCEPT !.morphMap = map, !.graph = graph]
    BY <1>1, <1>7 DEF seen
  <2>2. MapInv(a, map, Given(seen) \cup seen.parents)
    <3>1. MapInv(a, seen.morphMap, Given(seen)) /\ seen.parents \subseteq ParentName
      BY <1>5 DEF Collected, Recorded
    <3>2. MapInv(a, map, Given(seen) \cup Upto(NodeOrder, seen.parents, N))
      BY <1>0, <3>1, RegisterAllKeepsMap
    <3>3. seen.parents \subseteq Range(NodeOrder)
      BY <1>0, <3>1 DEF Name
    <3>4. Upto(NodeOrder, seen.parents, N) = seen.parents
      BY <1>0, <3>3 DEF Upto, Range
    <3> QED  BY <3>2, <3>4
  <2> HIDE DEF map, graph
  <2>3. st = [err |-> seen.err, morphMap |-> map, children |-> seen.children,
              holders |-> seen.holders, parents |-> seen.parents, graph |-> graph]
    <3>1. Whole(seen)
      BY <1>5 DEF Collected, Recorded
    <3> QED  BY <2>1, <3>1 DEF Whole
  <2>4. /\ st.err = seen.err /\ st.morphMap = map /\ st.children = seen.children
        /\ st.holders = seen.holders /\ st.parents = seen.parents /\ st.graph = graph
    BY <2>3
  <2>5. Given(st) = Given(seen) /\ Participants(st) = Given(seen) \cup seen.parents
    BY <2>4 DEF Given, Participants
  <2>6. map \in MapsOf(Key, ParentName)
    BY <2>2 DEF MapInv
  <2>7. Recorded(s, st)
    BY <1>5, <2>3, <2>4 DEF Collected, Recorded, Whole
  <2>8. HasChild(st)
    BY <1>5, <1>7, <2>4 DEF HasChild
  <2> QED  BY <2>2, <2>4, <2>5, <2>6, <2>7, <2>8 DEF graph
<1> QED  BY <1>6, <1>7

---------------------------------------------------------------------------
(* The graph that ent gets.                                                *)

LEMMA StrippedIs ==
    ASSUME NEW s, SchemaInv(s), NEW i \in DOMAIN Graph(s)
    PROVE  LET old  == Graph(s)[i]
               node == Stripped(Graph(s))[i]
           IN  /\ node.name = old.name /\ node.fields = old.fields
               /\ node.fks = { fk \in old.fks : ~Poly(fk.edge) } /\ node.hidden = node.fks
               /\ Range(node.edges) = { e \in Range(old.edges) : ~Poly(e) }
<1> DEFINE old  == Graph(s)[i]
           node == Stripped(Graph(s))[i]
           left == { j \in DOMAIN old.edges : ~Poly(old.edges[j]) }
           kept == Restrict(old.edges, left)
           keys == { fk \in old.fks : ~Poly(fk.edge) }
<1>1. /\ old.hidden = old.fks
      /\ old = [name |-> old.name, edges |-> old.edges, fields |-> old.fields, fks |-> old.fks, hidden |-> old.hidden]
  BY NodesAre
<1>2. node = [old EXCEPT !.edges = kept, !.fks = keys, !.hidden = keys]
  <2>1. keys = old.fks \ { fk \in old.fks : Poly(fk.edge) }
    OBVIOUS
  <2> QED  BY <1>1, <2>1 DEF Stripped
<1>3. Range(kept) = { e \in Range(old.edges) : ~Poly(e) }
  BY DEF Restrict, Range
<1> HIDE DEF old, node, kept, keys
<1>4. node = [name |-> old.name, edges |-> kept, fields |-> old.fields, fks |-> keys, hidden |-> keys]
  BY <1>1, <1>2
<1>5. node.name = old.name /\ node.fields = old.fields /\ node.fks = keys /\ node.hidden = keys /\ node.edges = kept
  BY <1>4
<1> QED  BY <1>3, <1>5 DEF old, node, keys

LEMMA StrippedDomain == ASSUME NEW g PROVE DOMAIN Stripped(g) = DOMAIN g
  BY DEF Stripped

\* Foreign keys are those of the edges, hidden fields those of the keys, and no edge
\* is polymorphic.
Clean(g) ==
    /\ { fk.edge : fk \in UNION { node.fks : node \in Range(g) } } = UNION { Range(node.edges) : node \in Range(g) }
    /\ \A node \in Range(g) : node.hidden = node.fks /\ \A e \in Range(node.edges) : ~Poly(e)

LEMMA StrippedClean == ASSUME NEW s, SchemaInv(s) PROVE Clean(Stripped(Graph(s)))
<1> DEFINE g == Graph(s)
           c == Stripped(g)
<1>1. \A n \in Present(s) : \A e : e \in Range(EdgesOf(s, n)) => EdgeOf(s, n, e)
  BY EdgesAre DEF Range
<1>2. ASSUME NEW i \in DOMAIN g
      PROVE  /\ g[i].name \in Present(s)
             /\ Range(c[i].edges) = { e \in Range(EdgesOf(s, g[i].name)) : ~Poly(e) }
             /\ c[i].fks = { fk \in Brought(s, g[i].name) : ~Poly(fk.edge) } /\ c[i].hidden = c[i].fks
  <2>1. g[i].name \in Present(s) /\ g[i].edges = EdgesOf(s, g[i].name) /\ g[i].fks = Brought(s, g[i].name)
    BY NodesAre
  <2>2. c[i].fks = { fk \in g[i].fks : ~Poly(fk.edge) } /\ c[i].hidden = c[i].fks
        /\ Range(c[i].edges) = { e \in Range(g[i].edges) : ~Poly(e) }
    BY StrippedIs
  <2> QED  BY <2>1, <2>2
<1>3. \A n \in Present(s) : \E i \in DOMAIN g : g[i].name = n
  <2> TAKE n \in Present(s)
  <2>1. PICK i \in DOMAIN g : NodeOrder[i] = n
    BY GraphIs
  <2>2. g[i].name = n
    BY <2>1, NodesAre
  <2> QED  BY <2>2
<1>4. DOMAIN c = DOMAIN g /\ Range(c) = { c[i] : i \in DOMAIN g }
  BY StrippedDomain DEF Range
<1> HIDE DEF g, c
<1>5. ASSUME NEW node \in Range(c) PROVE node.hidden = node.fks /\ \A e \in Range(node.edges) : ~Poly(e)
  BY <1>2, <1>4
<1>6. ASSUME NEW node \in Range(c), NEW fk \in node.fks
      PROVE  \E other \in Range(c) : fk.edge \in Range(other.edges)
  <2>1. PICK i \in DOMAIN g : node = c[i]
    BY <1>4
  <2>2. fk \in Brought(s, g[i].name) /\ ~Poly(fk.edge)
    BY <1>2, <2>1
  <2>3. PICK o \in Present(s) : \E e \in Range(EdgesOf(s, o)) : fk = [owner |-> o, edge |-> e]
    BY <2>2 DEF Brought
  <2>4. fk.edge \in Range(EdgesOf(s, o))
    BY <2>3
  <2>5. PICK j \in DOMAIN g : g[j].name = o
    BY <1>3
  <2>6. fk.edge \in Range(c[j].edges) /\ c[j] \in Range(c)
    BY <1>2, <1>4, <2>2, <2>4, <2>5
  <2> QED  BY <2>6
<1>7. ASSUME NEW node \in Range(c), NEW e \in Range(node.edges)
      PROVE  \E other \in Range(c) : \E fk \in other.fks : fk.edge = e
  <2>1. PICK i \in DOMAIN g : node = c[i]
    BY <1>4
  <2> DEFINE o == g[i].name
             fk == [owner |-> o, edge |-> e]
  <2>2. o \in Present(s) /\ e \in Range(EdgesOf(s, o)) /\ ~Poly(e)
    BY <1>2, <2>1
  <2>3. TargetOf(e) = HolderType
    BY <1>1, <2>2 DEF EdgeOf, Poly
  <2>4. fk \in Brought(s, HolderType) /\ fk.edge = e
    BY <2>2, <2>3 DEF Brought
  <2>5. PICK j \in DOMAIN g : g[j].name = HolderType
    BY <1>3 DEF Present
  <2> HIDE DEF fk
  <2>6. fk \in c[j].fks /\ c[j] \in Range(c)
    BY <1>2, <1>4, <2>2, <2>4, <2>5
  <2> QED  BY <2>4, <2>6
<1>8. { fk.edge : fk \in UNION { node.fks : node \in Range(c) } } = UNION { Range(node.edges) : node \in Range(c) }
  <2>1. ASSUME NEW e PROVE e \in { fk.edge : fk \in UNION { node.fks : node \in Range(c) } }
                           <=> \E node \in Range(c) : \E fk \in node.fks : fk.edge = e
    OBVIOUS
  <2>2. ASSUME NEW e PROVE e \in UNION { Range(node.edges) : node \in Range(c) }
                           <=> \E node \in Range(c) : e \in Range(node.edges)
    OBVIOUS
  <2> QED  BY <1>6, <1>7, <2>1, <2>2
<1> QED  BY <1>5, <1>8 DEF Clean, c, g

\* The pivot has the columns its holders read.
LEMMA PivotHasColumns ==
    ASSUME NEW s, SchemaInv(s), NEW node \in FindType(Stripped(Graph(s)), PivotType)
    PROVE  HasColumns(node, PivotMorph)
<1>1. PICK i \in DOMAIN Graph(s) : node = Stripped(Graph(s))[i]
  BY StrippedDomain DEF FindType, Range
<1>2. node.name = PivotType /\ node.name = Graph(s)[i].name /\ node.fields = Graph(s)[i].fields
  BY <1>1, StrippedIs DEF FindType
<1>3. node.fields = FieldsOf(s, PivotType)
  BY <1>2, NodesAre
<1>4. node.fields = Columns(PivotMorph, {})
  BY <1>3, KindsOfTypes DEF FieldsOf
<1> DEFINE x == [morph |-> PivotMorph, of |-> "id", values |-> {}]
           y == [morph |-> PivotMorph, of |-> "type", values |-> {}]
<1>5. node.fields = {x, y}
  BY <1>4 DEF Columns
<1>6. x.morph = PivotMorph /\ x.of = "id" /\ y.morph = PivotMorph /\ y.of = "type"
  OBVIOUS
<1> HIDE DEF x, y
<1>7. { f \in node.fields : f.morph = PivotMorph } = {x, y}
  BY <1>5, <1>6
<1> QED  BY <1>6, <1>7 DEF HasColumns

---------------------------------------------------------------------------
(* The invariant.                                                          *)

\* What a run left: complete, and, if it had no error, a graph for ent and a key
\* for every type the code names, or an alias in the way of one.
MadeInv(st) ==
    /\ st.morphMap \in MapsOf(Key, ParentName) /\ st.parents \subseteq ParentName
    /\ st.holders \subseteq [type: {HolderType}, target: ParentName, pivot: {PivotType}, morph: {PivotMorph}]
    /\ \A c \in st.children : c.type \in {ChildType, PivotType} /\ c.allowed # <<>>
    /\ st.err = NoError =>
          /\ Clean(st.graph)
          /\ \A n \in Participants(st) : \/ lookupAlias(st.morphMap, n)
                                         \/ \E i \in Participants(st) \ {n} : Snake[i] \in DOMAIN aliases
          /\ \A node \in FindType(st.graph, PivotType) : HasColumns(node, PivotMorph)

\* A program that compiles has one key for each parent its child lists, and if
\* its column has values, their default keys.
ProgramInv(p) ==
    /\ p.morphMap \in MapsOf(Key, ParentName)
    /\ \A k, l \in DOMAIN p.morphMap : p.morphMap[k] = p.morphMap[l] => k = l
    /\ p.listed \subseteq Entity
    /\ \A e \in p.listed : \E k \in DOMAIN p.morphMap : p.morphMap[k] = p.names[e]
    /\ \A e, d \in p.listed : p.names[e] = p.names[d] => e = d
    /\ p.values \subseteq Key
    /\ p.values = {} \/ \A e \in p.listed : Snake[p.names[e]] \in p.values

\* A key stored for a kind of parents is an alias of their type as it is called
\* now, or its default key.
StoredInv ==
    \A e \in Entity : \A k \in KeysStoredFor(e) :
       /\ e \in Typed(schema)
       /\ (k \in DOMAIN aliases /\ aliases[k] = schema.names[e]) \/ k = Snake[schema.names[e]]

Inv ==
    /\ SchemaInv(schema) /\ aliases \in MapsOf(Key, ParentName) /\ edits \in 0..MaxEdits
    /\ rows \subseteq [key: Key, entity: Entity]
    /\ made # NoState => MadeInv(made)
    /\ program # NoProgram => ProgramInv(program)
    /\ StoredInv
    /\ RowsKeepTheirParent

LEMMA KeyOfIs ==
    ASSUME NEW p, ProgramInv(p), NEW k \in DOMAIN p.morphMap
    PROVE  KeyOf(p, p.morphMap[k]) = k
<1> DEFINE n == p.morphMap[k]
<1>1. \E l \in DOMAIN p.morphMap : p.morphMap[l] = n
  OBVIOUS
<1>2. KeyOf(p, n) \in DOMAIN p.morphMap /\ p.morphMap[KeyOf(p, n)] = n
  BY <1>1 DEF KeyOf
<1> QED  BY <1>2 DEF ProgramInv

LEMMA StoredKeyIs ==
    ASSUME NEW p, ProgramInv(p), NEW e \in p.listed
    PROVE  /\ StoredKey(p, e) \in DOMAIN p.morphMap /\ StoredKey(p, e) \in Key
           /\ p.morphMap[StoredKey(p, e)] = p.names[e]
<1>1. PICK k \in DOMAIN p.morphMap : p.morphMap[k] = p.names[e]
  BY DEF ProgramInv
<1>2. StoredKey(p, e) = k
  BY <1>1, KeyOfIs DEF StoredKey
<1> QED  BY <1>1, <1>2, MapsAre DEF ProgramInv

\* The parents a key leads to: those of its type in the map, if it is there.
LEMMA ResolveIs ==
    ASSUME NEW p, ProgramInv(p), NEW k
    PROVE  Resolve(p, k) = { e \in p.listed : k \in DOMAIN p.morphMap /\ p.morphMap[k] = p.names[e] }
<1>1. ASSUME NEW e \in p.listed
      PROVE  StoredKey(p, e) = k <=> k \in DOMAIN p.morphMap /\ p.morphMap[k] = p.names[e]
  <2>1. k \in DOMAIN p.morphMap /\ p.morphMap[k] = p.names[e] => StoredKey(p, e) = k
    BY KeyOfIs DEF StoredKey
  <2> QED  BY <2>1, StoredKeyIs
<1> QED  BY <1>1 DEF Resolve

LEMMA GenerateMakes ==
    ASSUME Inv, NEW st, st = preprocess(Graph(schema), aliases)
    PROVE  MadeInv(st)
<1>1. /\ Recorded(schema, st) /\ st.morphMap \in MapsOf(Key, ParentName)
      /\ st.err = NoError => MapInv(aliases, st.morphMap, Participants(st))
      /\ st.err = NoError => HasChild(st) /\ st.graph = Stripped(Graph(schema))
  BY PreprocessLeaves DEF Inv
<1>2. /\ st.parents \subseteq ParentName
      /\ st.holders \subseteq [type: {HolderType}, target: ParentName, pivot: {PivotType}, morph: {PivotMorph}]
      /\ \A c \in st.children : c.type \in {ChildType, PivotType} /\ c.allowed # <<>>
  BY <1>1 DEF Recorded
<1>3. ASSUME st.err = NoError
      PROVE  /\ Clean(st.graph)
             /\ \A n \in Participants(st) : \/ lookupAlias(st.morphMap, n)
                                            \/ \E i \in Participants(st) \ {n} : Snake[i] \in DOMAIN aliases
             /\ \A node \in FindType(st.graph, PivotType) : HasColumns(node, PivotMorph)
  <2>1. Clean(st.graph)
    BY <1>1, <1>3, StrippedClean DEF Inv
  <2>2. \A node \in FindType(st.graph, PivotType) : HasColumns(node, PivotMorph)
    BY <1>1, <1>3, PivotHasColumns DEF Inv
  <2>3. \A n \in Participants(st) : \/ lookupAlias(st.morphMap, n)
                                    \/ \E i \in Participants(st) \ {n} : Snake[i] \in DOMAIN aliases
    BY <1>1, <1>3 DEF MapInv
  <2> QED  BY <2>1, <2>2, <2>3
<1> QED  BY <1>1, <1>2, <1>3 DEF MadeInv

LEMMA GenerateBuilds ==
    ASSUME Inv, NEW st, st = preprocess(Graph(schema), aliases), st.err = NoError, Compiles(st),
           NEW p, p = Built(schema, st)
    PROVE  /\ ProgramInv(p) /\ p.listed \subseteq Typed(schema) /\ p.names = schema.names
           /\ DOMAIN aliases \subseteq DOMAIN p.morphMap
           /\ \A k \in DOMAIN p.morphMap :
                 (k \in DOMAIN aliases /\ aliases[k] = p.morphMap[k]) \/ k = Snake[p.morphMap[k]]
<1> DEFINE c0 == ChildEdge(st)
<1>1. /\ Recorded(schema, st) /\ MapInv(aliases, st.morphMap, Participants(st)) /\ HasChild(st)
  BY PreprocessLeaves DEF Inv
<1>2. c0 \in st.children
  BY <1>1 DEF ChildEdge, HasChild
<1>3. c0.allowed = Allowed(schema) /\ (c0.values = {} \/ c0.values = { Snake[n] : n \in Range(Allowed(schema)) })
  BY <1>1, <1>2 DEF Recorded
<1>4. /\ p.morphMap = st.morphMap /\ p.names = schema.names /\ p.values = c0.values
      /\ p.listed = { e \in Typed(schema) : schema.names[e] \in Range(c0.allowed) }
  BY DEF Built
<1> HIDE DEF c0
<1>5. Range(Allowed(schema)) \subseteq ParentName /\ SchemaInv(schema)
  BY AllowedIs DEF Inv
<1>6. \A e \in p.listed : \E k \in DOMAIN p.morphMap : p.morphMap[k] = p.names[e]
  <2>1. \A n \in Range(Allowed(schema)) : n \in Participants(st)
    BY <1>2, <1>3 DEF Participants
  <2>2. Participants(st) \subseteq Range(st.morphMap)
    BY DEF Compiles
  <2>3. \A n \in Range(Allowed(schema)) : \E k \in DOMAIN st.morphMap : st.morphMap[k] = n
    BY <2>1, <2>2 DEF Range
  <2> QED  BY <1>3, <1>4, <2>3
<1>7. p.values \subseteq Key
  <2>1. \A n \in ParentName : Snake[n] \in Key
    BY PolyNames DEF Injection
  <2> QED  BY <1>3, <1>4, <1>5, <2>1
<1>8. p.listed \subseteq Typed(schema) /\ p.listed \subseteq Entity
  BY <1>4 DEF Typed
<1>9. p.values = {} \/ \A e \in p.listed : Snake[p.names[e]] \in p.values
  BY <1>3, <1>4
<1>10. \A e, d \in p.listed : p.names[e] = p.names[d] => e = d
  BY <1>4, <1>5, <1>8 DEF SchemaInv
<1>11. \A k, l \in DOMAIN p.morphMap : p.morphMap[k] = p.morphMap[l] => k = l
  BY <1>4 DEF Compiles
<1>12. /\ p.morphMap \in MapsOf(Key, ParentName) /\ DOMAIN aliases \subseteq DOMAIN p.morphMap
       /\ \A k \in DOMAIN p.morphMap :
                 (k \in DOMAIN aliases /\ aliases[k] = p.morphMap[k]) \/ k = Snake[p.morphMap[k]]
  BY <1>1, <1>4 DEF MapInv
<1> QED  BY <1>4, <1>6, <1>7, <1>8, <1>9, <1>10, <1>11, <1>12 DEF ProgramInv

LEMMA EditsBounded == MaxEdits \in Nat
  BY PolyNames

LEMMA InvInit == Init => Inv
<1> SUFFICES ASSUME Init PROVE Inv
  OBVIOUS
<1>1. PICK e \in Entity, n \in ParentName, hosts \in SUBSET Entity, morph \in {PivotMorph, NoMorph} :
      \E mixin \in {{}, {e}} :
        schema = [names |-> [x \in Entity |-> IF x = e THEN n ELSE NoName], listed |-> <<e>>,
                  mixin |-> mixin, hosts |-> hosts, through |-> PivotType, morph |-> morph]
  BY DEF Init
<1>2. /\ aliases = [k \in {} |-> NoName] /\ made = NoState /\ program = NoProgram /\ rows = {} /\ edits = 0
  BY DEF Init
<1>3. <<e>> \in Lists /\ Range(<<e>>) = {e}
  BY OneListed
<1>4. schema \in Schemas
  BY <1>1, <1>3 DEF Schemas
<1>5. /\ schema.names = [x \in Entity |-> IF x = e THEN n ELSE NoName]
      /\ schema.listed = <<e>> /\ schema.mixin \in {{}, {e}}
  BY <1>1
<1>6. Typed(schema) = {e}
  BY <1>5, KindsOfTypes DEF Typed
<1>7. SchemaInv(schema)
  BY <1>3, <1>4, <1>5, <1>6 DEF SchemaInv
<1>8. aliases \in MapsOf(Key, ParentName)
  <2>1. DOMAIN aliases = {} /\ aliases \in [DOMAIN aliases -> ParentName]
    BY <1>2
  <2> QED  BY <2>1, MapsAre
<1>9. StoredInv
  BY <1>2 DEF StoredInv, KeysStoredFor
<1>10. RowsKeepTheirParent
  BY <1>2 DEF RowsKeepTheirParent
<1>11. edits \in 0 .. MaxEdits /\ rows \subseteq [key: Key, entity: Entity]
  BY <1>2, EditsBounded
<1> QED  BY <1>2, <1>7, <1>8, <1>9, <1>10, <1>11 DEF Inv

\* An edit touches neither what was made nor rows.
LEMMA EditKeeps ==
    ASSUME Inv, Edited, SchemaInv(schema'), aliases' \in MapsOf(Key, ParentName),
           DOMAIN aliases \subseteq DOMAIN aliases', StoredInv'
    PROVE  Inv'
<1>1. made' = made /\ program' = program /\ rows' = rows /\ edits' \in 0 .. MaxEdits
  BY EditsBounded DEF Edited, Inv
<1>2. made' # NoState => MadeInv(made)'
  <2>1. made # NoState => MadeInv(made)
    BY DEF Inv
  <2> QED  BY <1>1, <2>1 DEF MadeInv
<1>3. program' # NoProgram => ProgramInv(program)'
  <2>1. program # NoProgram => ProgramInv(program)
    BY DEF Inv
  <2> QED  BY <1>1, <2>1 DEF ProgramInv
<1>4. RowsKeepTheirParent'
  <2>1. RowsKeepTheirParent
    BY DEF Inv
  <2> QED  BY <1>1, <2>1 DEF RowsKeepTheirParent, TakenOver, Resolve, StoredKey, KeyOf
<1>5. (rows \subseteq [key: Key, entity: Entity])'
  BY <1>1 DEF Inv
<1> QED  BY <1>1, <1>2, <1>3, <1>4, <1>5 DEF Inv

LEMMA SameKeysStored ==
    ASSUME Edited, NEW e PROVE KeysStoredFor(e)' = KeysStoredFor(e)
<1>1. program' = program /\ rows' = rows
  BY DEF Edited
<1> QED  BY <1>1 DEF KeysStoredFor, StoredKey, KeyOf

LEMMA AddTypeKeeps == ASSUME Inv, AddType PROVE Inv'
<1>1. PICK e \in Entity \ Typed(schema), n \in ParentName \ Range(schema.names) :
        schema' = [schema EXCEPT !.names[e] = n]
  BY DEF AddType
<1>2. Edited /\ aliases' = aliases
  BY DEF AddType
<1> DEFINE s == schema
           t == schema'
<1>3. SchemaInv(s) /\ s \in Schemas
  BY DEF Inv, SchemaInv
<1>4. /\ t \in Schemas /\ t.listed = s.listed /\ t.mixin = s.mixin
      /\ t.names = [s.names EXCEPT ![e] = n]
  BY <1>1, <1>3 DEF Schemas
<1>5. /\ \A d \in Entity \ {e} : t.names[d] = s.names[d]
      /\ t.names[e] = n
      /\ s.names \in [Entity -> ParentName \cup {NoName}]
  BY <1>3, <1>4 DEF Schemas
<1>6. Typed(t) = Typed(s) \cup {e} /\ (\A d \in Typed(s) : t.names[d] = s.names[d]) /\ n # NoName
  BY <1>1, <1>5, KindsOfTypes DEF Typed
<1>7. \A d \in Typed(s) : s.names[d] # n
  BY <1>1, <1>5 DEF Typed, Range
<1>8. SchemaInv(t)
  <2>1. Range(t.listed) \subseteq Typed(t) /\ (t.mixin # NoMixin => t.mixin \subseteq Typed(t))
    BY <1>3, <1>4, <1>6 DEF SchemaInv
  <2>2. \A c, d \in Typed(t) : t.names[c] = t.names[d] => c = d
    BY <1>3, <1>5, <1>6, <1>7 DEF SchemaInv
  <2> QED  BY <1>4, <2>1, <2>2 DEF SchemaInv
<1>9. StoredInv'
  <2>1. StoredInv
    BY DEF Inv
  <2>2. ASSUME NEW d \in Entity, NEW k \in KeysStoredFor(d)'
        PROVE  /\ d \in Typed(t)
               /\ (k \in DOMAIN aliases' /\ aliases'[k] = t.names[d]) \/ k = Snake[t.names[d]]
    <3>1. k \in KeysStoredFor(d)
      BY <1>2, SameKeysStored
    <3>2. d \in Typed(s) /\ ((k \in DOMAIN aliases /\ aliases[k] = s.names[d]) \/ k = Snake[s.names[d]])
      BY <2>1, <3>1 DEF StoredInv
    <3> QED  BY <1>2, <1>6, <3>2
  <2> QED  BY <2>2 DEF StoredInv
<1>10. aliases' \in MapsOf(Key, ParentName) /\ DOMAIN aliases \subseteq DOMAIN aliases'
  BY <1>2 DEF Inv
<1> QED  BY <1>2, <1>8, <1>9, <1>10, EditKeeps

\* Edits that leave names and aliases alone.
LEMMA SameNamesKeep ==
    ASSUME Inv, Edited, SchemaInv(schema'), schema'.names = schema.names, aliases' = aliases
    PROVE  Inv'
<1>1. StoredInv'
  <2>1. ASSUME NEW d \in Entity PROVE KeysStoredFor(d)' = KeysStoredFor(d)
    BY SameKeysStored
  <2>2. Typed(schema') = Typed(schema)
    BY DEF Typed
  <2>3. StoredInv
    BY DEF Inv
  <2> QED  BY <2>1, <2>2, <2>3 DEF StoredInv
<1>2. aliases' \in MapsOf(Key, ParentName) /\ DOMAIN aliases \subseteq DOMAIN aliases'
  BY DEF Inv
<1> QED  BY <1>1, <1>2, EditKeeps

LEMMA EditListsKeeps == ASSUME Inv, EditLists PROVE Inv'
<1>1. PICK list \in Lists, mixin \in (SUBSET Typed(schema)) \cup {NoMixin} :
        Range(list) \subseteq Typed(schema) /\ schema' = [schema EXCEPT !.listed = list, !.mixin = mixin]
  BY DEF EditLists
<1>2. Edited /\ aliases' = aliases
  BY DEF EditLists
<1>3. SchemaInv(schema) /\ schema \in Schemas /\ Typed(schema) \subseteq Entity
  BY DEF Inv, SchemaInv, Typed
<1>4. mixin \in (SUBSET Entity) \cup {NoMixin} /\ (mixin # NoMixin => mixin \subseteq Typed(schema))
  BY <1>3
<1>5. /\ schema' \in Schemas /\ schema'.listed = list /\ schema'.mixin = mixin /\ schema'.names = schema.names
  BY <1>1, <1>3, <1>4 DEF Schemas
<1>6. Typed(schema') = Typed(schema)
  BY <1>5 DEF Typed
<1>7. SchemaInv(schema')
  BY <1>1, <1>3, <1>4, <1>5, <1>6 DEF SchemaInv
<1> QED  BY <1>2, <1>5, <1>7, SameNamesKeep

LEMMA EditHolderKeeps == ASSUME Inv, EditHolder PROVE Inv'
<1>1. PICK through \in {PivotType, NoName}, morph \in {PivotMorph, NoMorph} :
        schema' = [schema EXCEPT !.through = through, !.morph = morph]
  BY DEF EditHolder
<1>2. Edited /\ aliases' = aliases
  BY DEF EditHolder
<1>3. SchemaInv(schema) /\ schema \in Schemas
  BY DEF Inv, SchemaInv
<1>5. /\ schema' \in Schemas /\ schema'.listed = schema.listed /\ schema'.mixin = schema.mixin
      /\ schema'.names = schema.names
  BY <1>1, <1>3 DEF Schemas
<1>6. Typed(schema') = Typed(schema)
  BY <1>5 DEF Typed
<1>7. SchemaInv(schema')
  BY <1>3, <1>5, <1>6 DEF SchemaInv
<1> QED  BY <1>2, <1>5, <1>7, SameNamesKeep

\* The keys of the old name are kept for the new, those of other types stay.
LEMMA RenameKeeps == ASSUME Inv, Rename PROVE Inv'
<1>1. PICK e \in Typed(schema), n \in ParentName \ Range(schema.names) :
        LET old  == schema.names[e]
            kept == KeysStoredFor(e) \cup { k \in DOMAIN aliases : aliases[k] = old }
        IN  /\ \A k \in DOMAIN aliases \cap kept : aliases[k] = old
            /\ schema' = [schema EXCEPT !.names[e] = n]
            /\ aliases' = [k \in DOMAIN aliases \cup kept |-> IF k \in kept THEN n ELSE aliases[k]]
  BY DEF Rename
<1>2. Edited
  BY DEF Rename
<1> DEFINE s == schema
           t == schema'
           old  == s.names[e]
           kept == KeysStoredFor(e) \cup { k \in DOMAIN aliases : aliases[k] = old }
<1>3. /\ \A k \in DOMAIN aliases \cap kept : aliases[k] = old
      /\ t = [s EXCEPT !.names[e] = n]
      /\ aliases' = [k \in DOMAIN aliases \cup kept |-> IF k \in kept THEN n ELSE aliases[k]]
  BY <1>1
<1>4. SchemaInv(s) /\ s \in Schemas /\ e \in Entity /\ s.names[e] # NoName
  BY DEF Inv, SchemaInv, Typed
<1>5. /\ t \in Schemas /\ t.listed = s.listed /\ t.mixin = s.mixin
      /\ t.names = [s.names EXCEPT ![e] = n]
  BY <1>3, <1>4 DEF Schemas
<1>6. /\ \A d \in Entity \ {e} : t.names[d] = s.names[d]
      /\ t.names[e] = n
      /\ s.names \in [Entity -> ParentName \cup {NoName}]
  BY <1>4, <1>5 DEF Schemas
<1>7. Typed(t) = Typed(s)
  BY <1>4, <1>6, KindsOfTypes DEF Typed
<1>8. \A d \in Typed(s) : s.names[d] # n
  BY <1>6 DEF Typed, Range
<1>9. SchemaInv(t)
  <2>1. Range(t.listed) \subseteq Typed(t) /\ (t.mixin # NoMixin => t.mixin \subseteq Typed(t))
    BY <1>4, <1>5, <1>7 DEF SchemaInv
  <2>2. \A c, d \in Typed(t) : t.names[c] = t.names[d] => c = d
    <3>1. \A c \in Typed(s) \ {e} : t.names[c] = s.names[c]
      BY <1>6 DEF Typed
    <3> QED  BY <1>4, <1>6, <1>7, <1>8, <3>1 DEF SchemaInv
  <2> QED  BY <1>5, <2>1, <2>2 DEF SchemaInv
<1>10. StoredInv
  BY DEF Inv
<1>11. kept \subseteq Key
  <2>1. \A r \in rows : r.key \in Key
    BY DEF Inv
  <2>2. program # NoProgram /\ e \in program.listed => StoredKey(program, e) \in Key
    BY StoredKeyIs DEF Inv
  <2>3. DOMAIN aliases \subseteq Key
    BY MapsAre DEF Inv
  <2> QED  BY <2>1, <2>2, <2>3 DEF KeysStoredFor
<1>12. ASSUME NEW d \in Entity, NEW k \in KeysStoredFor(d)'
       PROVE  /\ d \in Typed(t)
              /\ (k \in DOMAIN aliases' /\ aliases'[k] = t.names[d]) \/ k = Snake[t.names[d]]
  <2>1. k \in KeysStoredFor(d)
    BY <1>2, SameKeysStored
  <2>2. d \in Typed(s) /\ ((k \in DOMAIN aliases /\ aliases[k] = s.names[d]) \/ k = Snake[s.names[d]])
    BY <1>10, <2>1 DEF StoredInv
  <2>3. CASE d = e
    <3>1. k \in kept
      BY <2>1, <2>3
    <3> HIDE DEF kept
    <3> QED  BY <1>3, <1>6, <1>7, <2>2, <2>3, <3>1
  <2>4. CASE d # e /\ k = Snake[s.names[d]]
    BY <1>6, <1>7, <2>2, <2>4
  <2>5. CASE d # e /\ k \in DOMAIN aliases /\ aliases[k] = s.names[d]
    <3>1. aliases[k] # old
      BY <1>4, <2>2, <2>5 DEF SchemaInv
    <3>2. k \notin kept
      BY <1>3, <2>5, <3>1
    <3> HIDE DEF kept
    <3> QED  BY <1>3, <1>6, <1>7, <2>2, <2>5, <3>2
  <2> QED  BY <2>2, <2>3, <2>4, <2>5
<1> HIDE DEF kept
<1>13. aliases' \in MapsOf(Key, ParentName) /\ DOMAIN aliases \subseteq DOMAIN aliases'
  <2>1. DOMAIN aliases \subseteq Key /\ aliases \in [DOMAIN aliases -> ParentName]
    BY MapsAre DEF Inv
  <2>2. DOMAIN aliases' = DOMAIN aliases \cup kept
    BY <1>3
  <2>3. \A k \in DOMAIN aliases' : aliases'[k] \in ParentName
    BY <1>3, <2>1
  <2>4. aliases' \in [DOMAIN aliases' -> ParentName]
    BY <1>3, <2>2, <2>3
  <2>5. \A m : DOMAIN m \subseteq Key /\ m \in [DOMAIN m -> ParentName] => m \in MapsOf(Key, ParentName)
    BY MapsAre
  <2> QED  BY <1>11, <2>1, <2>2, <2>4, <2>5
<1>14. StoredInv'
  BY <1>12 DEF StoredInv
<1> QED  BY <1>2, <1>9, <1>13, <1>14, EditKeeps

LEMMA RegisterKeeps == ASSUME Inv, Register PROVE Inv'
<1>1. PICK e \in Typed(schema), k \in Key \ DOMAIN aliases : aliases' = Put(aliases, k, schema.names[e])
  BY DEF Register
<1>2. Edited /\ schema' = schema
  BY DEF Register
<1>3. SchemaInv(schema) /\ schema.names[e] \in ParentName
  BY NamesOf DEF Inv
<1>4. DOMAIN aliases \subseteq Key /\ aliases \in [DOMAIN aliases -> ParentName]
  BY MapsAre DEF Inv
<1>5. /\ DOMAIN aliases' = DOMAIN aliases \cup {k} /\ aliases' \in [DOMAIN aliases' -> ParentName]
      /\ \A j \in DOMAIN aliases : aliases'[j] = aliases[j]
  <2>1. aliases' = [j \in DOMAIN aliases \cup {k} |-> IF j = k THEN schema.names[e] ELSE aliases[j]]
    BY <1>1 DEF Put
  <2> QED  BY <1>1, <1>3, <1>4, <2>1
<1>6. aliases' \in MapsOf(Key, ParentName) /\ DOMAIN aliases \subseteq DOMAIN aliases'
  <2>1. \A m : DOMAIN m \subseteq Key /\ m \in [DOMAIN m -> ParentName] => m \in MapsOf(Key, ParentName)
    BY MapsAre
  <2> QED  BY <1>4, <1>5, <2>1
<1>7. StoredInv'
  <2>1. StoredInv
    BY DEF Inv
  <2>2. ASSUME NEW d \in Entity, NEW j \in KeysStoredFor(d)'
        PROVE  /\ d \in Typed(schema')
               /\ (j \in DOMAIN aliases' /\ aliases'[j] = schema'.names[d]) \/ j = Snake[schema'.names[d]]
    <3>1. j \in KeysStoredFor(d)
      BY <1>2, SameKeysStored
    <3>2. d \in Typed(schema) /\ ((j \in DOMAIN aliases /\ aliases[j] = schema.names[d]) \/ j = Snake[schema.names[d]])
      BY <2>1, <3>1 DEF StoredInv
    <3> QED  BY <1>2, <1>5, <3>2
  <2> QED  BY <2>2 DEF StoredInv
<1> QED  BY <1>2, <1>3, <1>6, <1>7, EditKeeps

\* A new program finds the parents of all rows, but for the keys taken over.
LEMMA BuildKeepsRows ==
    ASSUME Inv, program' # NoProgram, ProgramInv(program'), program'.listed \subseteq Typed(schema),
           program'.names = schema.names, DOMAIN aliases \subseteq DOMAIN program'.morphMap,
           \A k \in DOMAIN program'.morphMap :
              (k \in DOMAIN aliases /\ aliases[k] = program'.morphMap[k]) \/ k = Snake[program'.morphMap[k]],
           NEW r \in rows
    PROVE  \/ TakenOver(r.key, r.entity)'
           \/ Resolve(program', r.key) = {r.entity} \cap program'.listed
<1> DEFINE p == program'
           k == r.key
           e == r.entity
           own == p.names[e]
           map == p.morphMap
<1>1. e \in Entity /\ k \in KeysStoredFor(e)
  BY DEF Inv, KeysStoredFor
<1>2. e \in Typed(schema) /\ ((k \in DOMAIN aliases /\ aliases[k] = own) \/ k = Snake[own])
  BY <1>1 DEF Inv, StoredInv
<1>3. \A d \in p.listed : p.names[d] = own => d = e
  BY <1>2 DEF Inv, SchemaInv
<1>4. Resolve(p, k) = { d \in p.listed : k \in DOMAIN map /\ map[k] = p.names[d] }
  BY ResolveIs
<1>5. TakenOver(k, e)' <=>
        \/ k \in DOMAIN map /\ map[k] # own /\ Snake[map[k]] = k
        \/ k = Snake[own] /\ \E j \in DOMAIN map : Snake[map[j]] # j /\ (j = k \/ map[j] = own)
  BY DEF TakenOver
<1>6. CASE k \in DOMAIN map /\ map[k] = own
  BY <1>3, <1>4, <1>6
<1>7. CASE k \in DOMAIN map /\ map[k] # own
  <2>1. CASE Snake[map[k]] = k
    BY <1>5, <1>7, <2>1
  <2>2. CASE Snake[map[k]] # k
    <3>1. k \in DOMAIN aliases /\ aliases[k] = map[k]
      BY <1>7, <2>2
    <3>2. k = Snake[own]
      BY <1>2, <1>7, <3>1
    <3> QED  BY <1>5, <1>7, <2>2, <3>2
  <2> QED  BY <2>1, <2>2
<1>8. CASE k \notin DOMAIN map
  <2>1. k = Snake[own]
    BY <1>2, <1>8
  <2>2. Resolve(p, k) = {}
    BY <1>4, <1>8
  <2>3. CASE e \notin p.listed
    BY <2>2, <2>3
  <2>4. CASE e \in p.listed
    <3>1. PICK j \in DOMAIN map : map[j] = own
      BY <2>4 DEF ProgramInv
    <3>2. Snake[map[j]] # j
      BY <1>8, <2>1, <3>1
    <3> QED  BY <1>5, <2>1, <3>1, <3>2
  <2> QED  BY <2>3, <2>4
<1> QED  BY <1>6, <1>7, <1>8

LEMMA GenerateKeeps == ASSUME Inv, Generate PROVE Inv'
<1> DEFINE st == preprocess(Graph(schema), aliases)
<1>1. /\ made' = st
      /\ program' = IF st.err = NoError /\ Compiles(st) THEN Built(schema, st) ELSE program
      /\ UNCHANGED <<schema, aliases, rows, edits>>
  BY DEF Generate
<1>2. MadeInv(made)'
  <2>1. MadeInv(st)
    BY GenerateMakes
  <2> HIDE DEF st
  <2> QED  BY <1>1, <2>1 DEF MadeInv
<1>3. /\ SchemaInv(schema)' /\ (aliases \in MapsOf(Key, ParentName))' /\ (edits \in 0 .. MaxEdits)'
      /\ (rows \subseteq [key: Key, entity: Entity])'
  <2> HIDE DEF st
  <2> QED  BY <1>1 DEF Inv
<1>4. CASE program' = program
  <2>1. ProgramInv(program)' \/ program' = NoProgram
    BY <1>4 DEF Inv, ProgramInv
  <2>2. StoredInv /\ RowsKeepTheirParent
    BY DEF Inv
  <2>3. schema' = schema /\ aliases' = aliases /\ rows' = rows
    BY <1>1
  <2>4. StoredInv'
    BY <1>4, <2>2, <2>3 DEF StoredInv, KeysStoredFor, StoredKey, KeyOf
  <2>5. RowsKeepTheirParent'
    BY <1>4, <2>2, <2>3 DEF RowsKeepTheirParent, TakenOver, Resolve, StoredKey, KeyOf
  <2> QED  BY <1>2, <1>3, <2>1, <2>4, <2>5 DEF Inv
<1>5. CASE st.err = NoError /\ Compiles(st) /\ program' # NoProgram
  <2> DEFINE p == program'
  <2>1. p = Built(schema, st)
    BY <1>1, <1>5
  <2>2. /\ ProgramInv(p) /\ p.listed \subseteq Typed(schema) /\ p.names = schema.names
        /\ DOMAIN aliases \subseteq DOMAIN p.morphMap
        /\ \A k \in DOMAIN p.morphMap :
              (k \in DOMAIN aliases /\ aliases[k] = p.morphMap[k]) \/ k = Snake[p.morphMap[k]]
    <3>1. ASSUME NEW q, q = Built(schema, st)
          PROVE  /\ ProgramInv(q) /\ q.listed \subseteq Typed(schema) /\ q.names = schema.names
                 /\ DOMAIN aliases \subseteq DOMAIN q.morphMap
                 /\ \A k \in DOMAIN q.morphMap :
                       (k \in DOMAIN aliases /\ aliases[k] = q.morphMap[k]) \/ k = Snake[q.morphMap[k]]
      BY <1>5, <3>1, GenerateBuilds
    <3> QED  BY <2>1, <3>1
  <2>3. schema' = schema /\ aliases' = aliases /\ rows' = rows
    BY <1>1
  <2> HIDE DEF st
  <2>4. ASSUME NEW e \in Entity, NEW k \in KeysStoredFor(e)'
        PROVE  /\ e \in Typed(schema)
               /\ (k \in DOMAIN aliases /\ aliases[k] = schema.names[e]) \/ k = Snake[schema.names[e]]
    <3>1. CASE k \in { r.key : r \in { x \in rows : x.entity = e } }
      <4>1. k \in KeysStoredFor(e)
        BY <3>1 DEF KeysStoredFor
      <4> QED  BY <4>1 DEF Inv, StoredInv
    <3>2. CASE e \in p.listed /\ k = StoredKey(p, e)
      <4>1. k \in DOMAIN p.morphMap /\ p.morphMap[k] = p.names[e]
        BY <2>2, <3>2, StoredKeyIs
      <4> QED  BY <2>2, <3>2, <4>1
    <3> QED  BY <2>3, <3>1, <3>2 DEF KeysStoredFor
  <2>5. StoredInv'
    BY <2>3, <2>4 DEF StoredInv
  <2>6. RowsKeepTheirParent'
    <3>1. ASSUME NEW r \in rows
          PROVE  \/ TakenOver(r.key, r.entity)'
                 \/ Resolve(p, r.key) = {r.entity} \cap p.listed
      BY <1>5, <2>2, BuildKeepsRows
    <3> QED  BY <2>3, <3>1 DEF RowsKeepTheirParent
  <2>7. ProgramInv(program)'
    BY <2>2 DEF ProgramInv
  <2> QED  BY <1>2, <1>3, <2>5, <2>6, <2>7 DEF Inv
<1>6. CASE program' = NoProgram
  <2>1. schema' = schema /\ aliases' = aliases /\ rows' = rows
    BY <1>1
  <2>2. \A e : \A k : k \in KeysStoredFor(e)' => k \in KeysStoredFor(e)
    BY <1>6, <2>1 DEF KeysStoredFor
  <2>3. StoredInv'
    BY <2>1, <2>2 DEF Inv, StoredInv
  <2>4. RowsKeepTheirParent'
    BY <1>6 DEF RowsKeepTheirParent
  <2> QED  BY <1>2, <1>3, <1>6, <2>3, <2>4 DEF Inv
<1> QED  BY <1>1, <1>4, <1>5, <1>6

LEMMA WriteKeeps == ASSUME Inv, Write PROVE Inv'
<1>1. PICK e \in program.listed : rows' = rows \cup {[key |-> StoredKey(program, e), entity |-> e]}
  BY DEF Write
<1>2. /\ program # NoProgram /\ ProgramInv(program)
      /\ schema' = schema /\ aliases' = aliases /\ made' = made /\ program' = program /\ edits' = edits
  BY DEF Write, Inv
<1> DEFINE k0 == StoredKey(program, e)
           r0 == [key |-> k0, entity |-> e]
<1>3. /\ k0 \in DOMAIN program.morphMap /\ k0 \in Key /\ program.morphMap[k0] = program.names[e] /\ e \in Entity
  <2>1. program.listed \subseteq Entity
    BY <1>2 DEF ProgramInv
  <2> QED  BY <1>2, <2>1, StoredKeyIs
<1>4. rows' \subseteq [key: Key, entity: Entity]
  <2> HIDE DEF k0
  <2> QED  BY <1>1, <1>3 DEF Inv, k0
<1>5. StoredInv'
  <2>1. ASSUME NEW d \in Entity, NEW k \in KeysStoredFor(d)' PROVE k \in KeysStoredFor(d)
    <3>1. StoredKey(program, d)' = StoredKey(program, d)
      BY <1>2 DEF StoredKey, KeyOf
    <3>2. CASE \E r \in rows : r.entity = d /\ k = r.key
      BY <3>2 DEF KeysStoredFor
    <3>3. CASE d = e /\ k = k0
      BY <1>2, <3>3 DEF KeysStoredFor
    <3>4. CASE d \in program.listed /\ k = StoredKey(program, d)
      BY <1>2, <3>4 DEF KeysStoredFor
    <3> QED  BY <1>1, <1>2, <3>1, <3>2, <3>3, <3>4 DEF KeysStoredFor
  <2>2. StoredInv
    BY DEF Inv
  <2> QED  BY <1>2, <2>1, <2>2 DEF StoredInv
<1>6. RowsKeepTheirParent'
  <2>1. Resolve(program, k0) = {e} \cap program.listed
    <3>1. Resolve(program, k0) = { d \in program.listed : program.names[e] = program.names[d] }
      BY <1>2, <1>3, ResolveIs
    <3>2. \A d \in program.listed : program.names[e] = program.names[d] => d = e
      BY <1>2 DEF ProgramInv
    <3> QED  BY <3>1, <3>2
  <2>2. ASSUME NEW r \in rows'
        PROVE  TakenOver(r.key, r.entity) \/ Resolve(program, r.key) = {r.entity} \cap program.listed
    <3>1. CASE r \in rows
      BY <1>2, <3>1 DEF Inv, RowsKeepTheirParent
    <3>2. CASE r = r0
      BY <2>1, <3>2
    <3> QED  BY <1>1, <3>1, <3>2
  <2>3. ASSUME NEW k, NEW d PROVE TakenOver(k, d)' = TakenOver(k, d) /\ Resolve(program, k)' = Resolve(program, k)
    BY <1>2 DEF TakenOver, Resolve, StoredKey, KeyOf
  <2> QED  BY <1>2, <2>2, <2>3 DEF RowsKeepTheirParent
<1>7. made' # NoState => MadeInv(made)'
  BY <1>2 DEF Inv, MadeInv
<1>8. ProgramInv(program)'
  BY <1>2 DEF ProgramInv
<1> QED  BY <1>2, <1>4, <1>5, <1>6, <1>7, <1>8 DEF Inv

LEMMA InvNext == Inv /\ [Next]_vars => Inv'
<1> SUFFICES ASSUME Inv, [Next]_vars PROVE Inv'
  OBVIOUS
<1>1. CASE AddType
  BY <1>1, AddTypeKeeps
<1>2. CASE EditLists
  BY <1>2, EditListsKeeps
<1>3. CASE EditHolder
  BY <1>3, EditHolderKeeps
<1>4. CASE Rename
  BY <1>4, RenameKeeps
<1>5. CASE Register
  BY <1>5, RegisterKeeps
<1>6. CASE Generate
  BY <1>6, GenerateKeeps
<1>7. CASE Write
  BY <1>7, WriteKeeps
<1>8. CASE UNCHANGED vars
  <2>1. /\ schema' = schema /\ aliases' = aliases /\ made' = made /\ program' = program
        /\ rows' = rows /\ edits' = edits
    BY <1>8 DEF vars
  <2>2. StoredInv'
    BY <2>1 DEF Inv, StoredInv, KeysStoredFor, StoredKey, KeyOf
  <2>3. RowsKeepTheirParent'
    BY <2>1 DEF Inv, RowsKeepTheirParent, TakenOver, Resolve, StoredKey, KeyOf
  <2>4. made' # NoState => MadeInv(made)'
    BY <2>1 DEF Inv, MadeInv
  <2>5. program' # NoProgram => ProgramInv(program)'
    BY <2>1 DEF Inv, ProgramInv
  <2> QED  BY <2>1, <2>2, <2>3, <2>4, <2>5 DEF Inv
<1> QED  BY <1>1, <1>2, <1>3, <1>4, <1>5, <1>6, <1>7, <1>8 DEF Next

LEMMA AlwaysInv == Spec => []Inv
  BY InvInit, InvNext, PTL DEF Spec

---------------------------------------------------------------------------
(* What it gives.                                                          *)

\* A stored key leads back to the parent it was written for, through any number
\* of renames, new types and programs, unless a type's default key is another's
\* alias (preprocess.go 537-544, Query<Morph> of polymorphic.tmpl).
THEOREM RowsAlwaysKeepTheirParent == Spec => []RowsKeepTheirParent
<1>1. Inv => RowsKeepTheirParent
  BY DEF Inv
<1> QED  BY AlwaysInv, <1>1, PTL

\* Code generated from a run without an error does not compile only where the
\* morph map has two keys for a type or one for no type, or one type's default
\* key is another's alias, whatever the order of the types (preprocess.go).
THEOREM BuildsUnlessTheMapIsAtFault == Spec => []BuildsUnlessMapAtFault
<1>1. Inv => BuildsUnlessMapAtFault
  <2> SUFFICES ASSUME Inv, made # NoState, made.err = NoError, ~Compiles(made),
                      ~(\E k, l \in DOMAIN made.morphMap : k # l /\ made.morphMap[k] = made.morphMap[l]),
                      ~(\E k \in DOMAIN made.morphMap : made.morphMap[k] \notin NodeNames(made.graph))
               PROVE  \E n \in Participants(made) : \E m \in Participants(made) \ {n} :
                         ~lookupAlias(made.morphMap, n) /\ Snake[m] \in DOMAIN aliases
    BY DEF BuildsUnlessMapAtFault
  <2>1. MadeInv(made)
    BY DEF Inv
  <2>2. /\ \A k, l \in DOMAIN made.morphMap : made.morphMap[k] = made.morphMap[l] => k = l
        /\ Range(made.morphMap) \subseteq NodeNames(made.graph)
    BY DEF Range
  <2>3. \A h \in made.holders : \A node \in FindType(made.graph, h.pivot) : HasColumns(node, h.morph)
    <3>1. \A h \in made.holders : h.pivot = PivotType /\ h.morph = PivotMorph
      BY <2>1 DEF MadeInv
    <3>2. \A node \in FindType(made.graph, PivotType) : HasColumns(node, PivotMorph)
      BY <2>1 DEF MadeInv
    <3> QED  BY <3>1, <3>2
  <2>4. PICK n \in Participants(made) : n \notin Range(made.morphMap)
    BY <2>2, <2>3 DEF Compiles
  <2>5. ~lookupAlias(made.morphMap, n)
    BY <2>4 DEF lookupAlias, Range
  <2>6. \E i \in Participants(made) \ {n} : Snake[i] \in DOMAIN aliases
    BY <2>1, <2>5 DEF MadeInv
  <2> QED  BY <2>5, <2>6
<1> QED  BY AlwaysInv, <1>1, PTL

\* The type column of a program accepts the key its setter stores, if that is
\* the type's default key: lists that drifted apart give no program
\* (preprocess.go 418-457, the drift check).
THEOREM ColumnAlwaysTakesDefaultKeys == Spec => []ColumnTakesDefaultKeys
<1>1. Inv => ColumnTakesDefaultKeys
  <2> SUFFICES ASSUME Inv, program # NoProgram, NEW e \in program.listed,
                      StoredKey(program, e) = Snake[program.names[e]]
               PROVE  Accepts(program, StoredKey(program, e))
    BY DEF ColumnTakesDefaultKeys
  <2> QED  BY DEF Inv, ProgramInv, Accepts
<1> QED  BY AlwaysInv, <1>1, PTL

\* ent gets a graph whose foreign keys are those of its edges, none of them
\* polymorphic, and what a run records is complete, by type (preprocess.go,
\* cases 8 and 11).
THEOREM EdgesAlwaysKeepTheirKeys == Spec => []EdgesKeepTheirKeys
<1>1. Inv => EdgesKeepTheirKeys
  <2> SUFFICES ASSUME Inv PROVE EdgesKeepTheirKeys
    OBVIOUS
  <2>1. schema \in Schemas /\ aliases \in MapsOf(Key, ParentName) /\ edits \in 0..MaxEdits
        /\ rows \subseteq [key: Key, entity: Entity]
    BY DEF Inv, SchemaInv
  <2>2. ASSUME made # NoState
        PROVE  /\ made.morphMap \in MapsOf(Key, ParentName) /\ made.parents \subseteq ParentName
               /\ made.holders \subseteq [type: {HolderType}, target: ParentName, pivot: {PivotType}, morph: {PivotMorph, Singular}]
               /\ \A c \in made.children : c.type \in {ChildType, PivotType} /\ c.allowed # <<>>
    <3>1. MadeInv(made)
      BY <2>2 DEF Inv
    <3>2. [type: {HolderType}, target: ParentName, pivot: {PivotType}, morph: {PivotMorph}]
            \subseteq [type: {HolderType}, target: ParentName, pivot: {PivotType}, morph: {PivotMorph, Singular}]
      OBVIOUS
    <3> QED  BY <3>1, <3>2 DEF MadeInv
  <2>3. program # NoProgram => program.values \subseteq Key /\ program.listed \subseteq Entity
    BY DEF Inv, ProgramInv
  <2>4. made # NoState /\ made.err = NoError => Clean(made.graph)
    BY DEF Inv, MadeInv
  <2>5. TypeOK
    BY <2>1, <2>2, <2>3 DEF TypeOK
  <2> QED  BY <2>4, <2>5, Zenon DEF EdgesKeepTheirKeys, Clean
<1> QED  BY AlwaysInv, <1>1, PTL
=============================================================================
