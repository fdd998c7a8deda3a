--------------------------- MODULE GqlMulti_proofs ---------------------------
(***************************************************************************)
(* Whatever schema, APIs and targets there are, in whatever order the maps *)
(* are gone through, and however many runs fail in between: a file is a    *)
(* function of the targets it was written for, shows no field they hide    *)
(* and names no type it lacks but where the code leaves it; and a run that *)
(* returned nil left the files the annotations ask for.                    *)
(***************************************************************************)
EXTENDS GqlMulti, TLAPS

Answered(a) == annotations[a] = <<>> \/ files[a].work = annotations[a]

Building == stage \notin {"idle", "apis"}

Typed ==
    /\ DOMAIN files = Api
    /\ stage \in {"idle", "apis", "targets", "prune", "need"}
    /\ pending \subseteq Api
    /\ Building => api \in Api

\* A run has answered every API it has looked at, but for the one it builds.
RunAnswers == stage # "idle" => \A a \in Api \ pending : Answered(a) \/ (Building /\ a = api)

\* ok is the last run's, and stands until the annotations are edited or a run starts.
OkAtRest == ok => stage = "idle" /\ \A a \in Api : Answered(a)

Inv == Typed /\ RunAnswers /\ OkAtRest

LEMMA InitInv == Init => Inv
  BY DEF Init, Inv, Typed, Building, RunAnswers, OkAtRest

\* A step inside a build touches neither annotations nor files.
LEMMA BuildStep ==
  ASSUME Inv, Building, UNCHANGED <<annotations, files, ok, pending, api>>,
         stage' \in {"targets", "prune", "need"}
  PROVE  Inv'
  BY DEF Inv, Typed, Building, RunAnswers, OkAtRest, Answered

LEMMA StepInv == ASSUME Inv, [Next]_vars PROVE Inv'
<1> USE DEF Inv, Typed, Building, RunAnswers, OkAtRest, Answered
<1>1. CASE EditAnnotations
  BY <1>1 DEF EditAnnotations, build
<1>2. CASE Start
  BY <1>2 DEF Start
<1>3. CASE NextApi
  <2>1. PICK a \in pending :
           /\ pending' = pending \ {a}
           /\ IF annotations[a] = <<>> THEN UNCHANGED <<stage, schema, api>>
              ELSE stage' = "targets" /\ api' = a /\ schema' = [n \in Common |-> Full[n]]
    BY <1>3 DEF NextApi
  <2>2. stage = "apis" /\ UNCHANGED <<annotations, files, ok>>
    BY <1>3 DEF NextApi
  <2> QED  BY <2>1, <2>2
<1>4. CASE Return
  BY <1>4 DEF Return, Leave
<1>5. CASE Fail
  BY <1>5 DEF Fail, Leave
<1>6. CASE Write
  <2>1. stage = "need" /\ UNCHANGED <<annotations, ok>>
    BY <1>6 DEF Write
  <2>2. CASE /\ Leave("apis") /\ UNCHANGED pending
             /\ files' = [files EXCEPT ![api] = [work |-> Work, schema |-> Assembled]]
    <3>1. files'[api].work = annotations[api] /\ DOMAIN files' = Api /\ \A a \in Api \ {api} : files'[a] = files[a]
      BY <2>1, <2>2 DEF Work
    <3> QED  BY <2>1, <2>2, <3>1 DEF Leave
  <2>3. CASE Leave("idle") /\ pending' = {} /\ files' \in {files, [files EXCEPT ![api] = NoFile]}
    <3>1. DOMAIN files' = Api
      BY <2>3
    <3> QED  BY <2>1, <2>3, <3>1 DEF Leave
  <2> QED  BY <1>6, <2>2, <2>3 DEF Write
<1>7. CASE AddTarget
  BY <1>7, BuildStep DEF AddTarget
<1>8. CASE TargetsDone
  BY <1>8, BuildStep DEF TargetsDone
<1>9. CASE Prune
  BY <1>9, BuildStep DEF Prune
<1>10. CASE PruneDone
  BY <1>10, BuildStep DEF PruneDone
<1>11. CASE Need
  BY <1>11, BuildStep DEF Need
<1>12. CASE UNCHANGED vars
  BY <1>12 DEF vars, build
<1> QED  BY <1>1, <1>2, <1>3, <1>4, <1>5, <1>6, <1>7, <1>8, <1>9, <1>10, <1>11, <1>12 DEF Next

\* After a run that returned nil each API's file is that of the annotations as
\* they are, whatever runs failed before it, unless the API lost its last target
\* (SchemaHook's loop over the APIs).
THEOREM FilesAlwaysFollowAnnotations == Spec => []FilesFollowAnnotations
<1>1. Inv => FilesFollowAnnotations
  BY DEF Inv, OkAtRest, Answered, FilesFollowAnnotations
<1>2. Inv /\ [Next]_vars => Inv'
  BY StepInv
<1> QED  BY <1>1, <1>2, InitInv, PTL DEF Spec

---------------------------------------------------------------------------
(***************************************************************************)
(* What a file holds is a function of the work it was written for, in      *)
(* whatever order the run went through its maps.                           *)
(***************************************************************************)
PresentIn(w) == { w[i].typeName : i \in DOMAIN w }

\* What target i of the list w adds, and the targets up to k that add type n; a
\* later one replaces what an earlier one added.
Adds(w, i) ==
    AddTypes(InputTypes(w[i]),
             AddTypes(QueryTypes(w[i]), One(Object(w[i].typeName), EntityFields(w[i], PresentIn(w)))))
Definers(w, k, n) == { i \in 1 .. k : n \in DOMAIN Adds(w, i) }
LastDefiner(w, k, n) == CHOOSE i \in Definers(w, k, n) : \A j \in Definers(w, k, n) : j <= i

\* The schema after the first k targets, and the types to be looked for.
TargetSchema(w, k) ==
    [n \in Common \cup UNION { DOMAIN Adds(w, i) : i \in 1 .. k } |->
        IF Definers(w, k, n) = {} THEN Full[n] ELSE Adds(w, LastDefiner(w, k, n))[n]]
NeededAt(w, k) ==
    UNION { FieldTypes(EntityFields(w[i], PresentIn(w)))
            \cup UNION { FieldTypes(InputTypes(w[i])[n]) : n \in DOMAIN InputTypes(w[i]) } : i \in 1 .. k }

\* The schema when the filters outside left are pruned.
PrunedBut(w, left_) ==
    LET types == TargetSchema(w, Len(w)) IN
    [n \in DOMAIN types |->
        IF n[1] = "where" /\ n \notin left_
        THEN { f \in types[n] : \A r \in FieldTypes({f}) : r[1] = "where" => r \in DOMAIN types }
        ELSE types[n]]
AllNeeded(w) ==
    NeededAt(w, Len(w))
    \cup UNION { FieldTypes(PrunedBut(w, {})[n]) : n \in { m \in DOMAIN PrunedBut(w, {}) : m[1] = "where" } }

\* The types the last stage adds when it has looked at those in S.
Extra(w, S) ==
    { n \in S : n \notin DOMAIN PrunedBut(w, {}) /\ (n \in DOMAIN Full => n[1] \in {"scalar", "enum"}) }
Completed(w, S) == AddTypes(PrunedBut(w, {}), [n \in Extra(w, S) |-> {}])

File(w) ==
    AddTypes(Completed(w, AllNeeded(w)),
    AddTypes(Root("Query", { QueryField(w[i]) : i \in { j \in DOMAIN w : w[j].query } }),
             Root("Mutation", UNION { MutationFields(w[i]) : i \in DOMAIN w })))

\* The targets up to k name entities there are, and the last to add a type is one
\* that adds it.
Sound(w, k) ==
    /\ \A i \in 1 .. k : Object(w[i].entity) \in DOMAIN Full
    /\ \A n : Definers(w, k, n) # {} =>
          /\ LastDefiner(w, k, n) \in Definers(w, k, n)
          /\ \A j \in Definers(w, k, n) : j <= LastDefiner(w, k, n)

Filed(w, s) == (w = <<>> /\ s = <<>>) \/ (w # <<>> /\ Sound(w, Len(w)) /\ s = File(w))

\* The stages of a build, each with what it has done.
BuildInv ==
    /\ Building => api \in Api /\ Work # <<>> /\ Sound(Work, at)
    /\ stage \in {"idle", "apis"} => at = 0 /\ left = {} /\ needed = {}
    /\ stage = "targets" =>
          /\ at \in 0 .. Len(Work) /\ left = {}
          /\ schema = TargetSchema(Work, at) /\ needed = NeededAt(Work, at)
    /\ stage = "prune" =>
          /\ at = Len(Work) /\ left \subseteq { n \in DOMAIN TargetSchema(Work, at) : n[1] = "where" }
          /\ schema = PrunedBut(Work, left) /\ needed = NeededAt(Work, at)
    /\ stage = "need" =>
          /\ at = Len(Work) /\ left \subseteq needed
          /\ schema = Completed(Work, needed \ left) /\ needed = AllNeeded(Work)

FileInv ==
    /\ \A a \in Api : annotations[a] \in WorkLists[a] /\ files[a].work \in WorkLists[a] \cup {<<>>}
    /\ DOMAIN annotations = Api /\ api \in Api
    /\ \A a \in Api : files[a] = [work |-> files[a].work, schema |-> files[a].schema]
    /\ \A a \in Api : Filed(files[a].work, files[a].schema)
    /\ BuildInv

\* Lists are sequences.
LEMMA WorkIsList ==
  ASSUME NEW a \in Api, NEW w \in WorkLists[a] \cup {<<>>}
  PROVE  w \in Seq(Range(w)) /\ Len(w) \in Nat /\ DOMAIN w = 1 .. Len(w) /\ (w # <<>> => Len(w) > 0)
<1>1. w \in Seq(Range(w))
  <2>1. CASE w = <<>>
    BY <2>1
  <2>2. CASE w \in WorkLists[a]
    BY <2>2, GqlParameters
  <2> QED  BY <2>1, <2>2
<1>2. PICK T : w \in Seq(T)
  BY <1>1
<1> QED  BY <1>1, <1>2

LEMMA NoDefiners == ASSUME NEW w PROVE Sound(w, 0) /\ NeededAt(w, 0) = {} /\ TargetSchema(w, 0) = [n \in Common |-> Full[n]]
  BY DEF Sound, Definers, NeededAt, TargetSchema

\* The next target replaces what was there.
LEMMA NextTarget ==
  ASSUME NEW w, NEW k \in Nat, Sound(w, k), Object(w[k + 1].entity) \in DOMAIN Full
  PROVE  /\ Sound(w, k + 1)
         /\ TargetSchema(w, k + 1) = AddTypes(Adds(w, k + 1), TargetSchema(w, k))
<1>1. ASSUME NEW n PROVE Definers(w, k + 1, n) = Definers(w, k, n) \cup (IF n \in DOMAIN Adds(w, k + 1) THEN {k + 1} ELSE {})
  BY DEF Definers
<1>2. ASSUME NEW n, n \in DOMAIN Adds(w, k + 1) PROVE LastDefiner(w, k + 1, n) = k + 1 /\ k + 1 \in Definers(w, k + 1, n)
  <2>1. k + 1 \in Definers(w, k + 1, n) /\ \A j \in Definers(w, k + 1, n) : j \in Nat /\ j <= k + 1
    BY <1>2 DEF Definers
  <2>2. \A i \in Definers(w, k + 1, n) : (\A j \in Definers(w, k + 1, n) : j <= i) => i = k + 1
    BY <2>1
  <2> QED  BY <2>1, <2>2 DEF LastDefiner
<1>3. ASSUME NEW n, n \notin DOMAIN Adds(w, k + 1)
      PROVE  Definers(w, k + 1, n) = Definers(w, k, n) /\ LastDefiner(w, k + 1, n) = LastDefiner(w, k, n)
  BY <1>1, <1>3 DEF LastDefiner
<1>4. Sound(w, k + 1)
  <2>1. \A i \in 1 .. k + 1 : i = k + 1 \/ i \in 1 .. k
    OBVIOUS
  <2>2. \A i \in 1 .. k + 1 : Object(w[i].entity) \in DOMAIN Full
    BY <2>1 DEF Sound
  <2>3. ASSUME NEW n, Definers(w, k + 1, n) # {}
        PROVE  /\ LastDefiner(w, k + 1, n) \in Definers(w, k + 1, n)
               /\ \A j \in Definers(w, k + 1, n) : j <= LastDefiner(w, k + 1, n)
    <3>1. CASE n \in DOMAIN Adds(w, k + 1)
      <4>1. \A j \in Definers(w, k + 1, n) : j <= k + 1
        BY DEF Definers
      <4> QED  BY <1>2, <3>1, <4>1
    <3>2. CASE n \notin DOMAIN Adds(w, k + 1)
      BY <1>3, <2>3, <3>2 DEF Sound
    <3> QED  BY <3>1, <3>2
  <2> QED  BY <2>2, <2>3 DEF Sound
<1>5. Common \cup UNION { DOMAIN Adds(w, i) : i \in 1 .. k + 1 }
        = DOMAIN Adds(w, k + 1) \cup (Common \cup UNION { DOMAIN Adds(w, i) : i \in 1 .. k })
  <2>1. 1 .. k + 1 = 1 .. k \cup {k + 1}
    OBVIOUS
  <2> HIDE DEF Adds
  <2> QED  BY <2>1
<1>6. ASSUME NEW n \in Common \cup UNION { DOMAIN Adds(w, i) : i \in 1 .. k + 1 }
      PROVE  (IF Definers(w, k + 1, n) = {} THEN Full[n] ELSE Adds(w, LastDefiner(w, k + 1, n))[n])
               = IF n \in DOMAIN Adds(w, k + 1) THEN Adds(w, k + 1)[n]
                 ELSE IF Definers(w, k, n) = {} THEN Full[n] ELSE Adds(w, LastDefiner(w, k, n))[n]
  <2>1. CASE n \in DOMAIN Adds(w, k + 1)
    <3>1. Definers(w, k + 1, n) # {} /\ LastDefiner(w, k + 1, n) = k + 1
      BY <1>2, <2>1
    <3> QED  BY <2>1, <3>1
  <2>2. CASE n \notin DOMAIN Adds(w, k + 1)
    <3>1. Definers(w, k + 1, n) = Definers(w, k, n) /\ LastDefiner(w, k + 1, n) = LastDefiner(w, k, n)
      BY <1>3, <2>2
    <3> QED  BY <2>2, <3>1
  <2> QED  BY <2>1, <2>2
<1>7. TargetSchema(w, k + 1) = AddTypes(Adds(w, k + 1), TargetSchema(w, k))
  BY <1>5, <1>6 DEF TargetSchema, AddTypes
<1> QED  BY <1>4, <1>7

LEMMA InitFiles == Init => FileInv
<1> SUFFICES ASSUME Init PROVE FileInv
  OBVIOUS
<1>1. \A a \in Api : files[a].work = <<>> /\ files[a].schema = <<>> /\ files[a] = [work |-> <<>>, schema |-> <<>>]
  BY DEF Init, NoFile
<1>2. \A a \in Api : annotations[a] \in WorkLists[a]
  BY DEF Init
<1>3. DOMAIN annotations = Api /\ api \in Api
  BY GqlParameters DEF Init
<1>4. BuildInv
  BY DEF Init, BuildInv, Building
<1> QED  BY <1>1, <1>2, <1>3, <1>4 DEF FileInv, Filed

\* Steps outside a build, and the end of one.
LEMMA FilesOutside ==
  ASSUME Inv, FileInv, EditAnnotations \/ Start \/ NextApi \/ Return \/ Fail
  PROVE  FileInv'
<1>1. CASE EditAnnotations
  <2>1. PICK a \in Api : \E w \in WorkLists[a] : annotations' = [annotations EXCEPT ![a] = w]
    BY <1>1 DEF EditAnnotations
  <2>2. stage = "idle" /\ UNCHANGED <<files, stage, api, at, left, needed>>
    BY <1>1 DEF EditAnnotations, build
  <2> QED  BY <2>1, <2>2 DEF FileInv, BuildInv, Building
<1>2. CASE Start
  BY <1>2 DEF Start, FileInv, BuildInv, Building
<1>3. CASE NextApi
  <2>1. PICK a \in pending :
           /\ pending' = pending \ {a}
           /\ IF annotations[a] = <<>> THEN UNCHANGED <<stage, schema, api>>
              ELSE stage' = "targets" /\ api' = a /\ schema' = [n \in Common |-> Full[n]]
    BY <1>3 DEF NextApi
  <2>2. stage = "apis" /\ UNCHANGED <<annotations, files, at, left, needed>> /\ a \in Api
    BY <1>3 DEF NextApi, Inv, Typed
  <2>3. CASE annotations[a] = <<>>
    BY <2>1, <2>2, <2>3 DEF FileInv, BuildInv, Building
  <2>4. CASE annotations[a] # <<>>
    <3>1. PICK w : w = annotations[a]
      OBVIOUS
    <3>2. Work' = w /\ stage' = "targets" /\ at' = 0 /\ left' = {} /\ needed' = {} /\ api' \in Api
      BY <2>1, <2>2, <2>4, <3>1 DEF Work, FileInv, BuildInv
    <3>3. schema' = TargetSchema(w, 0) /\ needed' = NeededAt(w, 0) /\ Sound(w, 0) /\ 0 \in 0 .. Len(w)
      BY <2>1, <2>2, <2>4, <3>1, <3>2, NoDefiners, WorkIsList DEF FileInv
    <3>4. BuildInv'
      BY <2>4, <3>1, <3>2, <3>3 DEF BuildInv
    <3> QED  BY <2>2, <3>2, <3>4 DEF FileInv
  <2> QED  BY <2>3, <2>4
<1>4. CASE Return
  BY <1>4 DEF Return, Leave, FileInv, BuildInv, Building
<1>5. CASE Fail
  BY <1>5 DEF Fail, Leave, FileInv, BuildInv, Building
<1> QED  BY <1>1, <1>2, <1>3, <1>4, <1>5

\* A step inside a build is told by what it builds.
LEMMA FilesInside ==
  ASSUME FileInv, UNCHANGED <<annotations, files, api>>, BuildInv'
  PROVE  FileInv'
  BY DEF FileInv

\* Where a build stands.
LEMMA BuildFacts ==
  ASSUME FileInv, Building
  PROVE  /\ api \in Api /\ Work # <<>> /\ Sound(Work, at) /\ Len(Work) \in Nat /\ DOMAIN Work = 1 .. Len(Work)
         /\ Present = PresentIn(Work)
<1>1. api \in Api /\ Work # <<>> /\ Sound(Work, at) /\ Work \in WorkLists[api]
  BY DEF FileInv, BuildInv, Work
<1> QED  BY <1>1, WorkIsList DEF Present, PresentIn

LEMMA FilesAddTarget == ASSUME FileInv, AddTarget PROVE FileInv'
<1>1. PICK w, k : w = Work /\ k = at
  OBVIOUS
<1>2. stage = "targets" /\ k < Len(w) /\ Object(w[k + 1].entity) \in DOMAIN Full /\ at' = k + 1
      /\ UNCHANGED <<annotations, files, stage, api, left>>
  BY <1>1 DEF AddTarget
<1>3. /\ w # <<>> /\ Sound(w, k) /\ Len(w) \in Nat /\ DOMAIN w = 1 .. Len(w) /\ Present = PresentIn(w) /\ k \in Nat
      /\ left = {} /\ schema = TargetSchema(w, k) /\ needed = NeededAt(w, k) /\ api \in Api
  BY <1>1, <1>2, BuildFacts DEF Building, FileInv, BuildInv
<1> DEFINE t == w[k + 1]
           entity == One(Object(t.typeName), EntityFields(t, Present))
           inputs == InputTypes(t)
<1>4. /\ schema' = AddTypes(inputs, AddTypes(QueryTypes(t), AddTypes(entity, schema)))
      /\ needed' = needed \cup FieldTypes(EntityFields(t, Present))
                          \cup UNION { FieldTypes(inputs[n]) : n \in DOMAIN inputs }
  BY <1>1 DEF AddTarget
<1>5. schema' = TargetSchema(w, k + 1) /\ Sound(w, k + 1)
  <2>1. PICK a, b, e, s : a = inputs /\ b = QueryTypes(t) /\ e = entity /\ s = schema
    OBVIOUS
  <2>2. AddTypes(a, AddTypes(b, AddTypes(e, s))) = AddTypes(AddTypes(a, AddTypes(b, e)), s)
    BY DEF AddTypes
  <2>3. AddTypes(a, AddTypes(b, e)) = Adds(w, k + 1)
    BY <1>3, <2>1 DEF Adds
  <2> QED  BY <1>2, <1>3, <1>4, <2>1, <2>2, <2>3, NextTarget
<1>6. needed' = NeededAt(w, k + 1)
  <2> DEFINE N(i) == FieldTypes(EntityFields(w[i], PresentIn(w)))
                     \cup UNION { FieldTypes(InputTypes(w[i])[n]) : n \in DOMAIN InputTypes(w[i]) }
  <2>1. needed' = needed \cup N(k + 1)
    BY <1>3, <1>4
  <2>2. NeededAt(w, k) = UNION { N(i) : i \in 1 .. k } /\ NeededAt(w, k + 1) = UNION { N(i) : i \in 1 .. k + 1 }
    BY DEF NeededAt
  <2>3. 1 .. k + 1 = 1 .. k \cup {k + 1}
    BY <1>3
  <2> HIDE DEF N
  <2>4. NeededAt(w, k + 1) = NeededAt(w, k) \cup N(k + 1)
    BY <2>2, <2>3
  <2> QED  BY <1>3, <2>1, <2>4
<1>7. Work' = w
  BY <1>1, <1>2 DEF Work
<1>8. BuildInv'
  BY <1>2, <1>3, <1>5, <1>6, <1>7 DEF BuildInv
<1> QED  BY <1>2, <1>8, FilesInside

LEMMA FilesTargetsDone == ASSUME FileInv, TargetsDone PROVE FileInv'
<1>1. PICK w : w = Work
  OBVIOUS
<1>2. stage = "targets" /\ at = Len(w) /\ stage' = "prune" /\ UNCHANGED <<annotations, files, api, at, schema, needed>>
      /\ left' = { n \in DOMAIN schema : n[1] = "where" }
  BY <1>1 DEF TargetsDone, WhereTypes
<1>3. w # <<>> /\ Sound(w, Len(w)) /\ schema = TargetSchema(w, Len(w)) /\ needed = NeededAt(w, Len(w)) /\ api \in Api
  BY <1>1, <1>2, BuildFacts DEF Building, FileInv, BuildInv
<1>4. PICK l : l = left'
  OBVIOUS
<1>5. schema = PrunedBut(w, l)
  <2>1. TargetSchema(w, Len(w)) = [n \in DOMAIN TargetSchema(w, Len(w)) |-> TargetSchema(w, Len(w))[n]]
    BY DEF TargetSchema
  <2> QED  BY <1>2, <1>3, <1>4, <2>1 DEF PrunedBut
<1>6. Work' = w
  BY <1>1, <1>2 DEF Work
<1>7. BuildInv'
  BY <1>2, <1>3, <1>4, <1>5, <1>6 DEF BuildInv
<1> QED  BY <1>2, <1>7, FilesInside

LEMMA FilesPrune == ASSUME FileInv, Prune PROVE FileInv'
<1>1. PICK w, l : w = Work /\ l = left
  OBVIOUS
<1>2. PICK n \in l : schema' = [schema EXCEPT ![n] = Pruned(@)] /\ left' = l \ {n}
  BY <1>1 DEF Prune
<1>3. stage = "prune" /\ UNCHANGED <<annotations, files, stage, api, at, needed>>
  BY DEF Prune
<1>4. /\ w # <<>> /\ Sound(w, Len(w)) /\ at = Len(w) /\ api \in Api /\ needed = NeededAt(w, Len(w))
      /\ schema = PrunedBut(w, l) /\ l \subseteq { m \in DOMAIN TargetSchema(w, Len(w)) : m[1] = "where" }
  BY <1>1, <1>3, BuildFacts DEF Building, FileInv, BuildInv
<1>5. PICK T : T = TargetSchema(w, Len(w))
  OBVIOUS
<1>6. PrunedBut(w, l) = [m \in DOMAIN T |->
        IF m[1] = "where" /\ m \notin l
        THEN { f \in T[m] : \A r \in FieldTypes({f}) : r[1] = "where" => r \in DOMAIN T } ELSE T[m]]
  BY <1>5 DEF PrunedBut
<1>7. PrunedBut(w, l \ {n}) = [m \in DOMAIN T |->
        IF m[1] = "where" /\ m \notin l \ {n}
        THEN { f \in T[m] : \A r \in FieldTypes({f}) : r[1] = "where" => r \in DOMAIN T } ELSE T[m]]
  BY <1>5 DEF PrunedBut
<1>8. DOMAIN schema = DOMAIN T /\ schema[n] = T[n] /\ n \in DOMAIN T /\ n[1] = "where"
  BY <1>2, <1>4, <1>5, <1>6
<1>9. Pruned(schema[n]) = { f \in T[n] : \A r \in FieldTypes({f}) : r[1] = "where" => r \in DOMAIN T }
  BY <1>8 DEF Pruned
<1>10. schema' = PrunedBut(w, l \ {n})
  <2>1. PICK P : P = { f \in T[n] : \A r \in FieldTypes({f}) : r[1] = "where" => r \in DOMAIN T }
    OBVIOUS
  <2>2. schema' = [m \in DOMAIN T |-> IF m = n THEN P ELSE schema[m]]
    BY <1>2, <1>4, <1>6, <1>8, <1>9, <2>1
  <2>3. \A m \in DOMAIN T : m # n => (m \notin l \ {n} <=> m \notin l)
    OBVIOUS
  <2> QED  BY ZenonT(30), <1>4, <1>6, <1>7, <1>8, <2>1, <2>2, <2>3
<1>11. Work' = w
  BY <1>1, <1>3 DEF Work
<1>12. BuildInv'
  BY <1>2, <1>3, <1>4, <1>10, <1>11 DEF BuildInv
<1> QED  BY <1>3, <1>12, FilesInside

LEMMA FilesPruneDone == ASSUME FileInv, PruneDone PROVE FileInv'
<1>1. PICK w : w = Work
  OBVIOUS
<1>2. stage = "prune" /\ left = {} /\ stage' = "need" /\ UNCHANGED <<annotations, files, api, at, schema>>
      /\ needed' = needed \cup UNION { FieldTypes(schema[n]) : n \in WhereTypes } /\ left' = needed'
  BY DEF PruneDone
<1>3. /\ w # <<>> /\ Sound(w, Len(w)) /\ at = Len(w) /\ api \in Api /\ needed = NeededAt(w, Len(w))
      /\ schema = PrunedBut(w, {})
  BY <1>1, <1>2, BuildFacts DEF Building, FileInv, BuildInv
<1>4. needed' = AllNeeded(w)
  BY <1>2, <1>3 DEF AllNeeded, WhereTypes
<1>5. schema = Completed(w, {})
  <2>1. PrunedBut(w, {}) = [n \in DOMAIN PrunedBut(w, {}) |-> PrunedBut(w, {})[n]]
    BY DEF PrunedBut
  <2>2. Extra(w, {}) = {}
    BY DEF Extra
  <2> QED  BY <1>3, <2>1, <2>2 DEF Completed, AddTypes
<1>6. Work' = w /\ needed' \ left' = {}
  BY <1>1, <1>2 DEF Work
<1>7. BuildInv'
  BY <1>2, <1>3, <1>4, <1>5, <1>6 DEF BuildInv
<1> QED  BY <1>2, <1>7, FilesInside

LEMMA FilesNeed == ASSUME FileInv, Need PROVE FileInv'
<1>1. PICK w, l, S : w = Work /\ l = left /\ S = needed \ left
  OBVIOUS
<1>2. PICK n \in l : left' = l \ {n}
          /\ schema' = IF n \notin DOMAIN schema /\ (n \in DOMAIN Full => n[1] \in {"scalar", "enum"})
                       THEN AddTypes(One(n, {}), schema) ELSE schema
  BY <1>1 DEF Need
<1>3. stage = "need" /\ UNCHANGED <<annotations, files, stage, api, at, needed>>
  BY DEF Need
<1>4. /\ w # <<>> /\ Sound(w, Len(w)) /\ at = Len(w) /\ api \in Api /\ needed = AllNeeded(w) /\ l \subseteq needed
      /\ schema = Completed(w, S)
  BY <1>1, <1>3, BuildFacts DEF Building, FileInv, BuildInv
<1>5. n \notin S /\ needed' \ left' = S \cup {n} /\ left' \subseteq needed'
  BY <1>1, <1>2, <1>3, <1>4
<1>6. PICK T : T = PrunedBut(w, {})
  OBVIOUS
<1>7. \A R : DOMAIN Completed(w, R) = DOMAIN T \cup Extra(w, R)
             /\ \A m \in DOMAIN T \cup Extra(w, R) : Completed(w, R)[m] = IF m \in DOMAIN T THEN T[m] ELSE {}
  BY <1>6 DEF Completed, AddTypes
<1>8. \A R : Completed(w, R) = [m \in DOMAIN T \cup Extra(w, R) |-> IF m \in DOMAIN T THEN T[m] ELSE {}]
  BY <1>6 DEF Completed, AddTypes
<1>9. Extra(w, S \cup {n}) = Extra(w, S) \cup (IF n \notin DOMAIN T /\ (n \in DOMAIN Full => n[1] \in {"scalar", "enum"}) THEN {n} ELSE {})
      /\ n \notin Extra(w, S)
  BY <1>5, <1>6 DEF Extra
<1>10. n \notin DOMAIN schema <=> n \notin DOMAIN T
  BY <1>4, <1>7, <1>9
<1>11. schema' = Completed(w, S \cup {n})
  <2>1. CASE n \notin DOMAIN T /\ (n \in DOMAIN Full => n[1] \in {"scalar", "enum"})
    <3>1. schema' = AddTypes(One(n, {}), schema) /\ Extra(w, S \cup {n}) = Extra(w, S) \cup {n}
      BY <1>2, <1>9, <1>10, <2>1
    <3>2. schema = [m \in DOMAIN T \cup Extra(w, S) |-> IF m \in DOMAIN T THEN T[m] ELSE {}]
      BY <1>4, <1>8
    <3>3. PICK E : E = Extra(w, S)
      OBVIOUS
    <3>4. AddTypes(One(n, {}), [m \in DOMAIN T \cup E |-> IF m \in DOMAIN T THEN T[m] ELSE {}])
            = [m \in DOMAIN T \cup (E \cup {n}) |-> IF m \in DOMAIN T THEN T[m] ELSE {}]
      BY <2>1 DEF AddTypes, One
    <3> QED  BY <1>8, <3>1, <3>2, <3>3, <3>4
  <2>2. CASE ~ (n \notin DOMAIN T /\ (n \in DOMAIN Full => n[1] \in {"scalar", "enum"}))
    BY <1>2, <1>4, <1>8, <1>9, <1>10, <2>2
  <2> QED  BY <2>1, <2>2
<1>12. Work' = w
  BY <1>1, <1>3 DEF Work
<1>13. BuildInv'
  BY <1>2, <1>3, <1>4, <1>5, <1>11, <1>12 DEF BuildInv
<1> QED  BY <1>3, <1>13, FilesInside

LEMMA FilesWrite == ASSUME Inv, FileInv, Write PROVE FileInv'
<1>1. PICK w : w = Work
  OBVIOUS
<1>2. stage = "need" /\ left = {} /\ annotations' = annotations /\ at' = 0 /\ left' = {} /\ needed' = {} /\ api' \in Api
      /\ stage' \in {"idle", "apis"}
  BY DEF Write, Leave, FileInv
<1>3. /\ w # <<>> /\ Sound(w, Len(w)) /\ api \in Api /\ schema = Completed(w, AllNeeded(w)) /\ w = annotations[api]
  <2>1. Building
    BY <1>2 DEF Building
  <2>2. needed \ left = needed
    BY <1>2
  <2> QED  BY <1>1, <1>2, <2>1, <2>2, BuildFacts DEF FileInv, BuildInv, Work
<1>4. Assembled = File(w)
  BY <1>1, <1>3 DEF Assembled, File
<1>5. BuildInv'
  BY <1>2 DEF BuildInv, Building
<1>6. CASE files' = files
  BY <1>2, <1>5, <1>6 DEF FileInv
<1>8. CASE files' = [files EXCEPT ![api] = NoFile]
  <2>1. DOMAIN files = Api
    BY DEF Inv, Typed
  <2>2. \A a \in Api : IF a = api THEN files'[a] = [work |-> <<>>, schema |-> <<>>] ELSE files'[a] = files[a]
    BY <1>8, <2>1 DEF NoFile
  <2>3. Filed(<<>>, <<>>)
    BY DEF Filed
  <2> QED  BY <1>2, <1>5, <2>2, <2>3 DEF FileInv
<1>7. CASE files' = [files EXCEPT ![api] = [work |-> w, schema |-> Assembled]]
  <2>1. DOMAIN files = Api
    BY DEF Inv, Typed
  <2>2. Filed(w, Assembled) /\ w \in WorkLists[api]
    BY <1>3, <1>4 DEF Filed, FileInv
  <2>3. PICK s : s = Assembled
    OBVIOUS
  <2>4. \A a \in Api : IF a = api THEN files'[a] = [work |-> w, schema |-> s] ELSE files'[a] = files[a]
    BY <1>7, <2>1, <2>3
  <2> QED  BY <1>2, <1>5, <2>2, <2>3, <2>4 DEF FileInv
<1> QED  BY <1>1, <1>6, <1>7, <1>8 DEF Write

LEMMA FilesNext == Inv /\ FileInv /\ [Next]_vars => FileInv'
<1> SUFFICES ASSUME Inv, FileInv, [Next]_vars PROVE FileInv'
  OBVIOUS
<1>1. CASE UNCHANGED vars
  BY <1>1 DEF vars, build, FileInv, BuildInv, Building, Work
<1> QED  BY <1>1, FilesOutside, FilesAddTarget, FilesTargetsDone, FilesPrune, FilesPruneDone, FilesNeed, FilesWrite
         DEF Next

\* The same annotations give the same file, in whatever order the run goes
\* through the APIs, the filters and the types it still needs (the map ranges of
\* SchemaHook, generator.go).
THEOREM AlwaysReproducible == Spec => Reproducible
<1>1. Inv /\ FileInv /\ FileInv' /\ [Next]_vars
        => [\A a \in Api : files'[a].work = files[a].work => files'[a] = files[a]]_files
  <2> SUFFICES ASSUME FileInv, FileInv', NEW a \in Api, files'[a].work = files[a].work
               PROVE  files'[a] = files[a]
    OBVIOUS
  <2>1. PICK f, g : f = files[a] /\ g = files'[a]
    OBVIOUS
  <2>2. f = [work |-> f.work, schema |-> f.schema] /\ g = [work |-> g.work, schema |-> g.schema] /\ g.work = f.work
    BY <2>1 DEF FileInv
  <2>3. Filed(f.work, f.schema) /\ Filed(g.work, g.schema)
    BY <2>1 DEF FileInv
  <2> QED  BY <2>1, <2>2, <2>3 DEF Filed
<1>2. Inv /\ [Next]_vars => Inv'
  BY StepInv
<1> QED  BY <1>1, <1>2, InitInv, InitFiles, FilesNext, PTL DEF Spec, Reproducible

---------------------------------------------------------------------------
(***************************************************************************)
(* What a file holds, type by type.                                        *)
(***************************************************************************)
LEMMA TakenGet ==
  ASSUME NEW n, NEW fields
  PROVE  /\ DOMAIN Taken(n, fields) = IF n \in DOMAIN Full THEN {n} ELSE {}
         /\ n \in DOMAIN Full => Taken(n, fields)[n] = fields
  BY DEF Taken, One

LEMMA OneGet == ASSUME NEW n, NEW fields PROVE DOMAIN One(n, fields) = {n} /\ One(n, fields)[n] = fields
  BY DEF One

Kept(t) == IF Restricted(t) THEN FilterWhereInputFields(Full[Where(t.entity)], t.fields) ELSE Full[Where(t.entity)]
Fillable(t, n) == IF Restricted(t) THEN FilterFields(Full[n], t.fields) ELSE Full[n]

\* The fields a target gives to a type it adds.
Given(w, t, n, fields) ==
    \/ n = Object(t.typeName) /\ fields = EntityFields(t, PresentIn(w))
    \/ n = Connection(t.typeName) /\ fields = {Field("edges", Edge(t.typeName), {}), Field("pageInfo", PageInfo, {}), Field("totalCount", Builtin, {})}
    \/ n = Edge(t.typeName) /\ fields = {Field("node", Object(t.typeName), {}), Field("cursor", Cursor, {})}
    \/ n = Order(t.entity) /\ n \in DOMAIN Full /\ fields = Full[n]
    \/ n = OrderField(t.entity) /\ t.query /\ t.orderBy /\ n \in DOMAIN Full /\ fields = Full[n]
    \/ n = Where(t.entity) /\ t.query /\ t.filters /\ n \in DOMAIN Full /\ fields = Kept(t)
    \/ n \in Inputs(t) /\ fields = Fillable(t, n)

LEMMA QueryTypesGet ==
  ASSUME NEW w, NEW t
  PROVE  /\ \A n \in DOMAIN QueryTypes(t) : Given(w, t, n, QueryTypes(t)[n]) /\ n[1] \notin {"object", "create", "update"}
         /\ Connection(t.typeName) \in DOMAIN QueryTypes(t) => Edge(t.typeName) \in DOMAIN QueryTypes(t)
         /\ Order(t.entity) \in DOMAIN QueryTypes(t) /\ OrderField(t.entity) \in DOMAIN Full
              => OrderField(t.entity) \in DOMAIN QueryTypes(t)
         /\ t.query /\ t.orderBy /\ OrderField(t.entity) \in DOMAIN Full => OrderField(t.entity) \in DOMAIN QueryTypes(t)
         /\ t.query /\ t.filters /\ Where(t.entity) \in DOMAIN Full => Where(t.entity) \in DOMAIN QueryTypes(t)
<1>1. CASE ~ t.query
  <2>1. QueryTypes(t) = <<>>
    BY <1>1 DEF QueryTypes
  <2>2. DOMAIN QueryTypes(t) = {}
    BY <2>1
  <2> QED  BY <1>1, <2>2
<1>2. CASE t.query
  <2> DEFINE e == t.entity
  <2>1. PICK o : o = IF t.orderBy THEN AddTypes(Taken(Order(e), Full[Order(e)]), Taken(OrderField(e), Full[OrderField(e)])) ELSE <<>>
    OBVIOUS
  <2>2. PICK f : f = IF t.filters THEN Taken(Where(e), Kept(t)) ELSE <<>>
    OBVIOUS
  <2>3. PICK c : c = ConnectionTypes(t.typeName)
    OBVIOUS
  <2>4. QueryTypes(t) = AddTypes(c, AddTypes(o, f))
    BY <1>2, <2>1, <2>2, <2>3 DEF QueryTypes, Kept
  <2>5. DOMAIN c = {Connection(t.typeName), Edge(t.typeName)} /\ \A n \in DOMAIN c : Given(w, t, n, c[n])
    <3>1. Connection(t.typeName) # Edge(t.typeName)
      BY DEF Connection, Edge
    <3>2. PICK F, G : /\ F = {Field("edges", Edge(t.typeName), {}), Field("pageInfo", PageInfo, {}), Field("totalCount", Builtin, {})}
                      /\ G = {Field("node", Object(t.typeName), {}), Field("cursor", Cursor, {})}
      OBVIOUS
    <3>3. Given(w, t, Connection(t.typeName), F) /\ Given(w, t, Edge(t.typeName), G)
      BY <3>2 DEF Given
    <3>4. PICK x, y : x = One(Connection(t.typeName), F) /\ y = One(Edge(t.typeName), G)
      OBVIOUS
    <3>5. c = AddTypes(x, y)
      BY <2>3, <3>2, <3>4 DEF ConnectionTypes
    <3>6. DOMAIN x = {Connection(t.typeName)} /\ x[Connection(t.typeName)] = F /\ DOMAIN y = {Edge(t.typeName)} /\ y[Edge(t.typeName)] = G
      BY <3>4, OneGet
    <3>7. DOMAIN c = DOMAIN x \cup DOMAIN y /\ \A n \in DOMAIN c : c[n] = IF n \in DOMAIN x THEN x[n] ELSE y[n]
      BY <3>5 DEF AddTypes
    <3> QED  BY <3>1, <3>3, <3>6, <3>7
  <2>6. /\ \A n \in DOMAIN o : n \in {Order(e), OrderField(e)} /\ Given(w, t, n, o[n])
        /\ Order(e) \in DOMAIN o /\ OrderField(e) \in DOMAIN Full => OrderField(e) \in DOMAIN o
        /\ t.orderBy /\ OrderField(e) \in DOMAIN Full => OrderField(e) \in DOMAIN o
    <3>1. CASE ~ t.orderBy
      <4>1. DOMAIN o = {}
        BY <2>1, <3>1
      <4> QED  BY <3>1, <4>1
    <3>2. CASE t.orderBy
      <4>1. Order(e) # OrderField(e)
        BY DEF Order, OrderField
      <4>2. PICK x, y : x = Taken(Order(e), Full[Order(e)]) /\ y = Taken(OrderField(e), Full[OrderField(e)]) /\ o = AddTypes(x, y)
        BY <2>1, <3>2
      <4>3. DOMAIN o = DOMAIN x \cup DOMAIN y /\ \A n \in DOMAIN o : o[n] = IF n \in DOMAIN x THEN x[n] ELSE y[n]
        BY <4>2 DEF AddTypes
      <4>4. DOMAIN x = (IF Order(e) \in DOMAIN Full THEN {Order(e)} ELSE {}) /\ (Order(e) \in DOMAIN Full => x[Order(e)] = Full[Order(e)])
        BY <4>2, TakenGet
      <4>5. DOMAIN y = (IF OrderField(e) \in DOMAIN Full THEN {OrderField(e)} ELSE {}) /\ (OrderField(e) \in DOMAIN Full => y[OrderField(e)] = Full[OrderField(e)])
        BY <4>2, TakenGet
      <4>6. /\ Order(e) \in DOMAIN Full => Given(w, t, Order(e), Full[Order(e)])
            /\ OrderField(e) \in DOMAIN Full => Given(w, t, OrderField(e), Full[OrderField(e)])
        BY <1>2, <3>2 DEF Given
      <4> QED  BY <3>2, <4>1, <4>3, <4>4, <4>5, <4>6
    <3> QED  BY <3>1, <3>2
  <2>7. /\ \A n \in DOMAIN f : n = Where(e) /\ Given(w, t, n, f[n])
        /\ t.filters /\ Where(e) \in DOMAIN Full => Where(e) \in DOMAIN f
    <3>1. CASE ~ t.filters
      <4>1. DOMAIN f = {}
        BY <2>2, <3>1
      <4> QED  BY <3>1, <4>1
    <3>2. CASE t.filters
      <4>1. f = Taken(Where(e), Kept(t))
        BY <2>2, <3>2
      <4>2. DOMAIN f = (IF Where(e) \in DOMAIN Full THEN {Where(e)} ELSE {}) /\ (Where(e) \in DOMAIN Full => f[Where(e)] = Kept(t))
        BY <4>1, TakenGet
      <4>3. Where(e) \in DOMAIN Full => Given(w, t, Where(e), Kept(t))
        BY <1>2, <3>2 DEF Given
      <4> QED  BY <4>2, <4>3
    <3> QED  BY <3>1, <3>2
  <2>8. PICK of : of = AddTypes(o, f)
    OBVIOUS
  <2>9. DOMAIN of = DOMAIN o \cup DOMAIN f /\ \A n \in DOMAIN of : of[n] = IF n \in DOMAIN o THEN o[n] ELSE f[n]
    BY <2>8 DEF AddTypes
  <2>10. DOMAIN QueryTypes(t) = DOMAIN c \cup DOMAIN of
         /\ \A n \in DOMAIN QueryTypes(t) : QueryTypes(t)[n] = IF n \in DOMAIN c THEN c[n] ELSE of[n]
    BY <2>4, <2>8 DEF AddTypes
  <2>11. \A n \in DOMAIN QueryTypes(t) : Given(w, t, n, QueryTypes(t)[n])
    BY <2>5, <2>6, <2>7, <2>9, <2>10
  <2>12. \A n \in DOMAIN QueryTypes(t) : n \in {Connection(t.typeName), Edge(t.typeName), Order(e), OrderField(e), Where(e)}
    BY <2>5, <2>6, <2>7, <2>9, <2>10
  <2>13. /\ Connection(t.typeName)[1] = "connection" /\ Edge(t.typeName)[1] = "edge" /\ Order(e)[1] = "order"
         /\ OrderField(e)[1] = "orderField" /\ Where(e)[1] = "where"
    BY DEF Connection, Edge, Order, OrderField, Where
  <2>14. \A n \in DOMAIN QueryTypes(t) : n[1] \notin {"object", "create", "update"}
    BY <2>12, <2>13
  <2>15. Order(e) \in DOMAIN QueryTypes(t) => Order(e) \in DOMAIN o
    <3>1. Order(e) \notin DOMAIN c /\ Order(e) # Where(e)
      BY <2>5 DEF Connection, Edge, Order, Where
    <3> QED  BY <2>7, <2>9, <2>10, <3>1
  <2>16. /\ t.orderBy /\ OrderField(e) \in DOMAIN Full => OrderField(e) \in DOMAIN QueryTypes(t)
         /\ t.filters /\ Where(e) \in DOMAIN Full => Where(e) \in DOMAIN QueryTypes(t)
    BY <2>6, <2>7, <2>9, <2>10
  <2>17. Order(e) \in DOMAIN QueryTypes(t) /\ OrderField(e) \in DOMAIN Full => OrderField(e) \in DOMAIN QueryTypes(t)
    BY <2>6, <2>9, <2>10, <2>15
  <2>18. Connection(t.typeName) \in DOMAIN QueryTypes(t) => Edge(t.typeName) \in DOMAIN QueryTypes(t)
    BY <2>5, <2>10
  <2> QED  BY <2>11, <2>14, <2>16, <2>17, <2>18
<1> QED  BY <1>1, <1>2

LEMMA AddsGet ==
  ASSUME NEW w, NEW i
  PROVE  /\ \A n \in DOMAIN Adds(w, i) : Given(w, w[i], n, Adds(w, i)[n])
         /\ Object(w[i].typeName) \in DOMAIN Adds(w, i)
         /\ Connection(w[i].typeName) \in DOMAIN Adds(w, i) => Edge(w[i].typeName) \in DOMAIN Adds(w, i)
         /\ Order(w[i].entity) \in DOMAIN Adds(w, i) /\ OrderField(w[i].entity) \in DOMAIN Full
              => OrderField(w[i].entity) \in DOMAIN Adds(w, i)
         /\ \A n \in Shown(w[i]) : n = Object(w[i].typeName) \/ n \in DOMAIN Full => n \in DOMAIN Adds(w, i)
         /\ Inputs(w[i]) \subseteq DOMAIN Adds(w, i)
<1>1. PICK t, q, x, y, e : t = w[i] /\ q = QueryTypes(t) /\ x = InputTypes(t) /\ y = One(Object(t.typeName), EntityFields(t, PresentIn(w)))
                           /\ e = AddTypes(q, y)
  OBVIOUS
<1>2. Adds(w, i) = AddTypes(x, e)
  BY <1>1 DEF Adds
<1>3. DOMAIN Adds(w, i) = DOMAIN x \cup DOMAIN e /\ \A n \in DOMAIN Adds(w, i) : Adds(w, i)[n] = IF n \in DOMAIN x THEN x[n] ELSE e[n]
  BY <1>2 DEF AddTypes
<1>4. DOMAIN e = DOMAIN q \cup DOMAIN y /\ \A n \in DOMAIN e : e[n] = IF n \in DOMAIN q THEN q[n] ELSE y[n]
  BY <1>1 DEF AddTypes
<1>5. DOMAIN y = {Object(t.typeName)} /\ Given(w, t, Object(t.typeName), y[Object(t.typeName)])
  <2>1. Given(w, t, Object(t.typeName), EntityFields(t, PresentIn(w)))
    BY DEF Given
  <2> QED  BY <1>1, <2>1, OneGet
<1>6. DOMAIN x = Inputs(t) /\ \A n \in DOMAIN x : Given(w, t, n, x[n]) /\ n \in {CreateInput(t.entity), UpdateInput(t.entity)}
  <2>1. Inputs(t) \subseteq {CreateInput(t.entity), UpdateInput(t.entity)} /\ Inputs(t) \subseteq DOMAIN Full
    BY DEF Inputs
  <2>2. \A n \in Inputs(t) : Given(w, t, n, Fillable(t, n))
    BY <2>1 DEF Given
  <2>3. x = [n \in Inputs(t) |-> Fillable(t, n)]
    BY <1>1 DEF InputTypes, Fillable
  <2> QED  BY <2>1, <2>2, <2>3
<1>7. /\ \A n \in DOMAIN q : Given(w, t, n, q[n])
      /\ Connection(t.typeName) \in DOMAIN q => Edge(t.typeName) \in DOMAIN q
      /\ Order(t.entity) \in DOMAIN q /\ OrderField(t.entity) \in DOMAIN Full => OrderField(t.entity) \in DOMAIN q
  BY <1>1, QueryTypesGet
<1>10. \A n \in Shown(t) : n = Object(t.typeName) \/ n \in DOMAIN Full => n \in DOMAIN x \cup DOMAIN y \cup DOMAIN q
  <2>1. ASSUME NEW n \in Shown(t)
        PROVE  \/ n \in {Object(t.typeName)} \cup Inputs(t)
               \/ t.query /\ t.filters /\ n = Where(t.entity)
               \/ t.query /\ t.orderBy /\ n = OrderField(t.entity)
    BY <2>1 DEF Shown
  <2>2. /\ t.query /\ t.orderBy /\ OrderField(t.entity) \in DOMAIN Full => OrderField(t.entity) \in DOMAIN q
        /\ t.query /\ t.filters /\ Where(t.entity) \in DOMAIN Full => Where(t.entity) \in DOMAIN q
    BY <1>1, QueryTypesGet
  <2>3. OrderField(t.entity) # Object(t.typeName) /\ Where(t.entity) # Object(t.typeName)
    BY DEF OrderField, Where, Object
  <2> QED  BY <1>5, <1>6, <2>1, <2>2, <2>3
<1>8. \A n \in DOMAIN Adds(w, i) : Given(w, t, n, Adds(w, i)[n])
  BY <1>3, <1>4, <1>5, <1>6, <1>7
<1>9. Connection(t.typeName) \notin DOMAIN x \cup DOMAIN y /\ Order(t.entity) \notin DOMAIN x \cup DOMAIN y
  <2>1. Connection(t.typeName) \notin {CreateInput(t.entity), UpdateInput(t.entity), Object(t.typeName)}
    BY DEF Connection, CreateInput, UpdateInput, Object
  <2>2. Order(t.entity) \notin {CreateInput(t.entity), UpdateInput(t.entity), Object(t.typeName)}
    BY DEF Order, CreateInput, UpdateInput, Object
  <2> QED  BY <1>5, <1>6, <2>1, <2>2
<1> QED  BY <1>1, <1>3, <1>4, <1>5, <1>6, <1>7, <1>8, <1>9, <1>10

\* A type a file holds before pruning: one of the common types as it is, or what
\* the last target that adds it gives it.
LEMMA TargetGet ==
  ASSUME NEW w, NEW k \in Nat, Sound(w, k), NEW n \in DOMAIN TargetSchema(w, k)
  PROVE  \/ /\ n \in Common /\ TargetSchema(w, k)[n] = Full[n] /\ \A i \in 1 .. k : n \notin DOMAIN Adds(w, i)
         \/ \E i \in 1 .. k :
              /\ n \in DOMAIN Adds(w, i) /\ Given(w, w[i], n, TargetSchema(w, k)[n])
              /\ \A j \in 1 .. k : n \in DOMAIN Adds(w, j) => j <= i
<1>1. n \in Common \cup UNION { DOMAIN Adds(w, i) : i \in 1 .. k }
      /\ TargetSchema(w, k)[n] = IF Definers(w, k, n) = {} THEN Full[n] ELSE Adds(w, LastDefiner(w, k, n))[n]
  BY DEF TargetSchema
<1>2. CASE Definers(w, k, n) = {}
  BY <1>1, <1>2 DEF Definers
<1>3. CASE Definers(w, k, n) # {}
  <2>1. PICK i : i = LastDefiner(w, k, n)
    OBVIOUS
  <2>2. i \in 1 .. k /\ n \in DOMAIN Adds(w, i)
    BY <1>3, <2>1 DEF Sound, Definers
  <2>3. TargetSchema(w, k)[n] = Adds(w, i)[n]
    BY <1>1, <1>3, <2>1
  <2>4. \A j \in 1 .. k : n \in DOMAIN Adds(w, j) => j <= i
    BY <1>3, <2>1 DEF Sound, Definers
  <2> QED  BY <2>2, <2>3, <2>4, AddsGet
<1> QED  BY <1>2, <1>3
LEMMA FieldsAreFulls ==
  ASSUME NEW t
  PROVE  /\ \A present : EntityFields(t, present) \subseteq Full[Object(t.entity)]
         /\ Kept(t) \subseteq Full[Where(t.entity)]
         /\ \A n : Fillable(t, n) \subseteq Full[n]
<1>1. \A present : EntityFields(t, present) \subseteq Full[Object(t.entity)]
  BY DEF EntityFields, FilterFields, FilterEdgeFields
<1>2. Kept(t) \subseteq Full[Where(t.entity)]
  BY DEF Kept, FilterWhereInputFields
<1>3. \A n : Fillable(t, n) \subseteq Full[n]
  BY DEF Fillable, FilterFields
<1> QED  BY <1>1, <1>2, <1>3

\* A filter that a type names is in the file, or the field goes.
LEMMA NeededFilters ==
  ASSUME NEW w, Len(w) \in Nat, Sound(w, Len(w)), NEW r \in AllNeeded(w), r[1] = "where"
  PROVE  r \in DOMAIN TargetSchema(w, Len(w))
<1>1. CASE r \in NeededAt(w, Len(w))
  <2>1. PICK i \in 1 .. Len(w) :
           r \in FieldTypes(EntityFields(w[i], PresentIn(w)))
                 \cup UNION { FieldTypes(InputTypes(w[i])[n]) : n \in DOMAIN InputTypes(w[i]) }
    BY <1>1 DEF NeededAt
  <2>2. CASE r \in FieldTypes(EntityFields(w[i], PresentIn(w)))
    <3>1. Object(w[i].entity) \in DOMAIN Full /\ Object(w[i].entity)[1] = "object"
      BY <2>1 DEF Sound, Object
    <3>2. PICK f \in Full[Object(w[i].entity)] : r = f.type /\ r # Builtin
      BY <2>2, FieldsAreFulls DEF FieldTypes
    <3> QED  BY <3>1, <3>2, EntgqlSchema
  <2>3. ASSUME NEW n \in DOMAIN InputTypes(w[i]), r \in FieldTypes(InputTypes(w[i])[n]) PROVE FALSE
    <3>1. n \in Inputs(w[i]) /\ InputTypes(w[i])[n] = Fillable(w[i], n)
      BY <2>3 DEF InputTypes, Fillable
    <3>2. n \in DOMAIN Full /\ n[1] \in {"create", "update"}
      BY <3>1 DEF Inputs, CreateInput, UpdateInput
    <3>3. PICK f \in Full[n] : r = f.type /\ r # Builtin
      BY <2>3, <3>1, FieldsAreFulls DEF FieldTypes
    <3> QED  BY <3>2, <3>3, EntgqlSchema
  <2> QED  BY <2>1, <2>2, <2>3
<1>2. CASE r \notin NeededAt(w, Len(w))
  <2>1. PICK n \in DOMAIN PrunedBut(w, {}) : n[1] = "where" /\ r \in FieldTypes(PrunedBut(w, {})[n])
    BY <1>2 DEF AllNeeded
  <2>2. PICK T : T = TargetSchema(w, Len(w))
    OBVIOUS
  <2>3. n \in DOMAIN T /\ PrunedBut(w, {})[n] = { f \in T[n] : \A q \in FieldTypes({f}) : q[1] = "where" => q \in DOMAIN T }
    BY <2>1, <2>2 DEF PrunedBut
  <2>4. PICK f : f \in PrunedBut(w, {})[n] /\ r = f.type /\ r # Builtin
    BY <2>1 DEF FieldTypes
  <2>5. r \in FieldTypes({f})
    BY <2>4 DEF FieldTypes
  <2> QED  BY <2>2, <2>3, <2>4, <2>5
<1> QED  BY <1>1, <1>2

\* The types of a file, each with where its fields come from.
Stays(f, T) == \A r \in FieldTypes({f}) : r[1] = "where" => r \in DOMAIN T

LEMMA FileGet ==
  ASSUME NEW w, NEW T, T = TargetSchema(w, Len(w)), NEW F, F = File(w)
  PROVE  /\ DOMAIN T \subseteq DOMAIN F
         /\ \A r \in AllNeeded(w) : (r \in DOMAIN Full => r[1] \in {"scalar", "enum"}) => r \in DOMAIN F
         /\ \A n \in DOMAIN F : n \notin DOMAIN T =>
              \/ F[n] = {} /\ n \in AllNeeded(w)
              \/ n = Object("Query") /\ F[n] = { QueryField(w[i]) : i \in { j \in DOMAIN w : w[j].query } }
              \/ n = Object("Mutation") /\ F[n] = UNION { MutationFields(w[i]) : i \in DOMAIN w }
         /\ \A n \in DOMAIN T : F[n] \subseteq T[n] /\ (n[1] # "where" => F[n] = T[n])
         /\ \A n \in DOMAIN T : n[1] = "where" =>
              \A f \in T[n] : f \in F[n] <=> Stays(f, T)
<1>1. PICK P, C, E, qs, ms, q, m, qm :
         /\ P = PrunedBut(w, {}) /\ C = Completed(w, AllNeeded(w)) /\ E = Extra(w, AllNeeded(w))
         /\ qs = { QueryField(w[i]) : i \in { j \in DOMAIN w : w[j].query } }
         /\ ms = UNION { MutationFields(w[i]) : i \in DOMAIN w }
         /\ q = Root("Query", qs) /\ m = Root("Mutation", ms) /\ qm = AddTypes(q, m)
  OBVIOUS
<1>2. F = AddTypes(C, qm)
  BY <1>1 DEF File
<1>3. DOMAIN P = DOMAIN T /\ \A n \in DOMAIN T : P[n] = IF n[1] = "where"
                                        THEN { f \in T[n] : Stays(f, T) }
                                        ELSE T[n]
  BY <1>1 DEF PrunedBut, Stays
<1>4. C = AddTypes(P, [n \in E |-> {}])
  BY <1>1 DEF Completed
<1>5. DOMAIN C = DOMAIN P \cup E /\ \A n \in DOMAIN C : C[n] = IF n \in DOMAIN P THEN P[n] ELSE {}
  BY <1>4 DEF AddTypes
<1>6. E = { n \in AllNeeded(w) : n \notin DOMAIN P /\ (n \in DOMAIN Full => n[1] \in {"scalar", "enum"}) }
  BY <1>1 DEF Extra
<1>7. DOMAIN q \subseteq {Object("Query")} /\ \A n \in DOMAIN q : q[n] = qs
  BY <1>1 DEF Root, One
<1>8. DOMAIN m \subseteq {Object("Mutation")} /\ \A n \in DOMAIN m : m[n] = ms
  BY <1>1 DEF Root, One
<1>9. DOMAIN qm = DOMAIN q \cup DOMAIN m /\ \A n \in DOMAIN qm : qm[n] = IF n \in DOMAIN q THEN q[n] ELSE m[n]
  BY <1>1 DEF AddTypes
<1>10. DOMAIN F = DOMAIN C \cup DOMAIN qm /\ \A n \in DOMAIN F : F[n] = IF n \in DOMAIN C THEN C[n] ELSE qm[n]
  BY <1>2 DEF AddTypes
<1>11. DOMAIN T \subseteq DOMAIN F
  BY <1>3, <1>5, <1>10
<1>12. ASSUME NEW r \in AllNeeded(w), r \in DOMAIN Full => r[1] \in {"scalar", "enum"} PROVE r \in DOMAIN F
  BY <1>3, <1>5, <1>6, <1>10, <1>12
<1>13. ASSUME NEW n \in DOMAIN F, n \notin DOMAIN T
       PROVE  \/ F[n] = {} /\ n \in AllNeeded(w)
              \/ n = Object("Query") /\ F[n] = qs
              \/ n = Object("Mutation") /\ F[n] = ms
  <2>1. CASE n \in DOMAIN C
    BY <1>3, <1>5, <1>6, <1>10, <1>13, <2>1
  <2>2. CASE n \notin DOMAIN C
    BY <1>7, <1>8, <1>9, <1>10, <2>2
  <2> QED  BY <2>1, <2>2
<1>14. \A n \in DOMAIN T : F[n] = P[n]
  BY <1>3, <1>5, <1>10
<1>15. ASSUME NEW n \in DOMAIN T
       PROVE  /\ F[n] \subseteq T[n] /\ (n[1] # "where" => F[n] = T[n])
              /\ n[1] = "where" => \A f \in T[n] : f \in F[n] <=> Stays(f, T)
  <2>1. CASE n[1] # "where"
    BY <1>3, <1>14, <2>1
  <2>2. CASE n[1] = "where"
    <3>1. F[n] = { f \in T[n] : Stays(f, T) }
      BY <1>3, <1>14, <2>2
    <3> QED  BY <2>2, <3>1
  <2> QED  BY <2>1, <2>2
<1> QED  BY <1>1, <1>11, <1>12, <1>13, <1>15

---------------------------------------------------------------------------
(***************************************************************************)
(* What a file shows of an entity: the last target to add a type of the    *)
(* entity is a target of that entity, and filters the type by its fields.  *)
(***************************************************************************)
LEMMA Kinds ==
  \A n : /\ Object(n)[1] = "object" /\ Connection(n)[1] = "connection" /\ Edge(n)[1] = "edge"
         /\ Order(n)[1] = "order" /\ OrderField(n)[1] = "orderField" /\ Where(n)[1] = "where"
         /\ CreateInput(n)[1] = "create" /\ UpdateInput(n)[1] = "update"
         /\ Object(n)[2] = n /\ Where(n)[2] = n /\ CreateInput(n)[2] = n /\ UpdateInput(n)[2] = n
  BY DEF Object, Connection, Edge, Order, OrderField, Where, CreateInput, UpdateInput

\* By a type's kind, which of a target's additions it is.
LEMMA GivenKinds ==
  ASSUME NEW w, NEW t, NEW n, NEW fields, Given(w, t, n, fields)
  PROVE  /\ n[1] = "object" => n = Object(t.typeName) /\ fields = EntityFields(t, PresentIn(w))
         /\ n[1] = "where" => n = Where(t.entity) /\ n \in DOMAIN Full /\ fields = Kept(t) /\ t.query /\ t.filters
         /\ n[1] = "orderField" => n = OrderField(t.entity) /\ n \in DOMAIN Full /\ fields = Full[n] /\ t.query /\ t.orderBy
         /\ n[1] \in {"create", "update"} => n \in {CreateInput(t.entity), UpdateInput(t.entity)} /\ n \in Inputs(t) /\ fields = Fillable(t, n)
<1>1. n \in Inputs(t) => n \in {CreateInput(t.entity), UpdateInput(t.entity)}
  BY DEF Inputs
<1>2. CASE n = Object(t.typeName) /\ fields = EntityFields(t, PresentIn(w))
  BY <1>2, Kinds
<1>3. CASE n \in {Connection(t.typeName), Edge(t.typeName), Order(t.entity)}
  BY <1>3, Kinds
<1>4. CASE n = Where(t.entity) /\ t.query /\ t.filters /\ n \in DOMAIN Full /\ fields = Kept(t)
  BY <1>4, Kinds
<1>6. CASE n = OrderField(t.entity) /\ t.query /\ t.orderBy /\ n \in DOMAIN Full /\ fields = Full[n]
  BY <1>6, Kinds
<1>5. CASE n \in Inputs(t) /\ fields = Fillable(t, n)
  BY <1>1, <1>5, Kinds
<1> QED  BY <1>2, <1>3, <1>4, <1>5, <1>6 DEF Given

LEMMA TargetTypes ==
  ASSUME NEW w, NEW T, T = TargetSchema(w, Len(w))
  PROVE  Common \subseteq DOMAIN T /\ \A i \in 1 .. Len(w) : DOMAIN Adds(w, i) \subseteq DOMAIN T
<1>1. DOMAIN T = Common \cup UNION { DOMAIN Adds(w, i) : i \in 1 .. Len(w) }
  BY DEF TargetSchema
<1> QED  BY <1>1

\* No type is needed that only a target gives.
LEMMA NeededKinds ==
  ASSUME NEW w, Len(w) \in Nat, Sound(w, Len(w)), NEW r \in AllNeeded(w)
  PROVE  r[1] \notin {"create", "update", "orderField"}
<1>1. CASE r \in NeededAt(w, Len(w))
  <2>1. PICK i \in 1 .. Len(w) :
           r \in FieldTypes(EntityFields(w[i], PresentIn(w)))
                 \cup UNION { FieldTypes(InputTypes(w[i])[n]) : n \in DOMAIN InputTypes(w[i]) }
    BY <1>1 DEF NeededAt
  <2>2. CASE r \in FieldTypes(EntityFields(w[i], PresentIn(w)))
    <3>1. Object(w[i].entity) \in DOMAIN Full /\ Object(w[i].entity)[1] = "object"
      BY <2>1 DEF Sound, Object
    <3>2. PICK f \in Full[Object(w[i].entity)] : r = f.type /\ r # Builtin
      BY <2>2, FieldsAreFulls DEF FieldTypes
    <3> QED  BY <3>1, <3>2, EntgqlSchema
  <2>3. ASSUME NEW n \in DOMAIN InputTypes(w[i]), r \in FieldTypes(InputTypes(w[i])[n])
        PROVE  r[1] \notin {"create", "update", "orderField"}
    <3>1. n \in Inputs(w[i]) /\ InputTypes(w[i])[n] = Fillable(w[i], n)
      BY <2>3 DEF InputTypes, Fillable
    <3>2. n \in DOMAIN Full /\ n[1] \in {"create", "update"}
      BY <3>1 DEF Inputs, CreateInput, UpdateInput
    <3>3. PICK f \in Full[n] : r = f.type /\ r # Builtin
      BY <2>3, <3>1, FieldsAreFulls DEF FieldTypes
    <3> QED  BY <3>2, <3>3, EntgqlSchema
  <2> QED  BY <2>1, <2>2, <2>3
<1>2. CASE r \notin NeededAt(w, Len(w))
  <2>1. PICK n \in DOMAIN PrunedBut(w, {}) : n[1] = "where" /\ r \in FieldTypes(PrunedBut(w, {})[n])
    BY <1>2 DEF AllNeeded
  <2>2. PICK T : T = TargetSchema(w, Len(w))
    OBVIOUS
  <2>3. n \in DOMAIN T /\ PrunedBut(w, {})[n] = { f \in T[n] : \A q \in FieldTypes({f}) : q[1] = "where" => q \in DOMAIN T }
    BY <2>1, <2>2 DEF PrunedBut
  <2>4. PICK f : f \in T[n] /\ r = f.type /\ r # Builtin
    BY <2>1, <2>3 DEF FieldTypes
  <2>5. n \in DOMAIN Full /\ f \in Full[n]
    <3>1. n \notin Common
      BY <2>1, EntgqlSchema
    <3>2. PICK i \in 1 .. Len(w) : Given(w, w[i], n, T[n])
      BY <2>2, <2>3, <3>1, TargetGet
    <3>3. n = Where(w[i].entity) /\ n \in DOMAIN Full /\ T[n] = Kept(w[i])
      BY <2>1, <3>2, GivenKinds
    <3> QED  BY <2>4, <3>3, FieldsAreFulls
  <2> QED  BY <2>1, <2>4, <2>5, EntgqlSchema
<1> QED  BY <1>1, <1>2

\* A filter, an input or an order's enum is there for the last target that gives it.
LEMMA OfTarget ==
  ASSUME NEW w, Len(w) \in Nat, Sound(w, Len(w)), NEW T, T = TargetSchema(w, Len(w)), NEW F, F = File(w),
         NEW n \in DOMAIN F, n[1] \in {"where", "create", "update", "orderField"}
  PROVE  n \in DOMAIN T /\ n \in DOMAIN Full /\ \E i \in 1 .. Len(w) : n \in Shown(w[i])
<1>1. n \in DOMAIN T
  <2> SUFFICES ASSUME n \notin DOMAIN T PROVE FALSE
    OBVIOUS
  <2>1. n # Object("Query") /\ n # Object("Mutation")
    BY Kinds
  <2>2. n \in AllNeeded(w)
    BY <2>1, FileGet
  <2> QED  BY <2>2, NeededFilters, NeededKinds
<1>2. n \notin Common
  BY EntgqlSchema
<1>3. PICK i \in 1 .. Len(w) : Given(w, w[i], n, T[n])
  BY <1>1, <1>2, TargetGet
<1>4. n \in Shown(w[i])
  BY <1>3, GivenKinds DEF Shown
<1>5. n \in DOMAIN Full
  BY <1>3, GivenKinds DEF Inputs
<1> QED  BY <1>1, <1>4, <1>5

\* What the file has of a type is what the last target to show it gives it.
LEMMA LastGives ==
  ASSUME NEW w, Len(w) \in Nat, Sound(w, Len(w)), NEW T, T = TargetSchema(w, Len(w)), NEW F, F = File(w),
         NEW i \in 1 .. Len(w), NEW n \in LastShown(w, i), n \in DOMAIN F
  PROVE  n \in DOMAIN T /\ Given(w, w[i], n, T[n])
<1>1. n \in Shown(w[i]) /\ \A j \in 1 .. Len(w) : j > i => n \notin Shown(w[j])
  BY DEF LastShown
<1>2. n = Object(w[i].typeName) \/ n[1] \in {"where", "create", "update", "orderField"}
  BY <1>1, Kinds DEF Shown, Inputs
<1>3. n \in DOMAIN Adds(w, i)
  <2>1. CASE n = Object(w[i].typeName)
    BY <2>1, AddsGet
  <2>2. CASE n[1] \in {"where", "create", "update", "orderField"}
    BY <1>1, <2>2, OfTarget, AddsGet
  <2> QED  BY <1>2, <2>1, <2>2
<1>4. n \in DOMAIN T
  BY <1>3, TargetTypes
<1>5. PICK k \in 1 .. Len(w) :
         /\ n \in DOMAIN Adds(w, k) /\ Given(w, w[k], n, T[n])
         /\ \A j \in 1 .. Len(w) : n \in DOMAIN Adds(w, j) => j <= k
  BY <1>3, <1>4, TargetGet
<1>6. n \in Shown(w[k])
  <2>1. n[1] \in {"object", "where", "create", "update", "orderField"}
    BY <1>2, Kinds
  <2> QED  BY <1>5, <2>1, GivenKinds DEF Shown
<1>7. k = i
  <2>1. ~ k > i
    BY <1>1, <1>6
  <2>2. i <= k
    BY <1>3, <1>5
  <2> QED  BY <2>1, <2>2
<1> QED  BY <1>4, <1>5, <1>7

LetsSee(F, t, n) ==
    LET names == { f.name : f \in F[n] } IN
    CASE n[1] = "where" -> \A name \in names \ {"not", "and", "or"} :
                              HasPrefix(name, "has") \/ \E s \in t.fields : HasPrefix(name, s)
      [] n[1] = "orderField" -> F[n] = Full[n]
      [] OTHER -> names \subseteq t.fields

HidesIn(w, F) ==
    /\ \A i \in DOMAIN w : Restricted(w[i]) => \A n \in LastShown(w, i) \cap DOMAIN F : LetsSee(F, w[i], n)
    /\ \A n \in DOMAIN F : n[1] \in {"where", "create", "update", "orderField"} => \E i \in DOMAIN w : n \in Shown(w[i])

LEMMA HiddenInFile ==
  ASSUME NEW a \in Api, NEW w \in WorkLists[a], Sound(w, Len(w)), NEW F, F = File(w)
  PROVE  HidesIn(w, F)
<1>1. Len(w) \in Nat /\ DOMAIN w = 1 .. Len(w)
  BY WorkIsList
<1>2. PICK T : T = TargetSchema(w, Len(w))
  OBVIOUS
<1>3. ASSUME NEW i \in 1 .. Len(w), Restricted(w[i]), NEW n \in LastShown(w, i) \cap DOMAIN F
      PROVE  LetsSee(F, w[i], n)
  <2>1. PICK t : t = w[i]
    OBVIOUS
  <2>2. n \in DOMAIN T /\ Given(w, t, n, T[n])
    BY <1>1, <1>2, <1>3, <2>1, LastGives
  <2>3. F[n] \subseteq T[n] /\ (n[1] # "where" => F[n] = T[n])
    BY <1>2, <2>2, FileGet
  <2>4. n[1] \in {"object", "where", "create", "update", "orderField"}
    BY <1>3, Kinds DEF LastShown, Shown, Inputs
  <2>5. CASE n[1] = "object"
    <3>1. T[n] = EntityFields(t, PresentIn(w))
      BY <2>2, <2>5, GivenKinds
    <3>2. \A f \in F[n] : f.name \in t.fields
      BY <1>3, <2>1, <2>3, <3>1 DEF EntityFields, FilterFields
    <3> QED  BY <2>1, <2>5, <3>2 DEF LetsSee
  <2>6. CASE n[1] \in {"create", "update"}
    <3>1. T[n] = Fillable(t, n)
      BY <2>2, <2>6, GivenKinds
    <3>2. \A f \in F[n] : f.name \in t.fields
      BY <1>3, <2>1, <2>3, <3>1 DEF Fillable, FilterFields
    <3> QED  BY <2>1, <2>6, <3>2 DEF LetsSee
  <2>7. CASE n[1] = "orderField"
    BY <2>2, <2>3, <2>7, GivenKinds DEF LetsSee
  <2>8. CASE n[1] = "where"
    <3>1. n = Where(t.entity) /\ T[n] = Kept(t)
      BY <2>2, <2>8, GivenKinds
    <3>2. F[n] \subseteq FilterWhereInputFields(Full[n], t.fields)
      BY <1>3, <2>1, <2>3, <3>1 DEF Kept
    <3>3. \A f \in F[n] : f.name \in {"not", "and", "or"} \/ HasPrefix(f.name, "has") \/ \E s \in t.fields : HasPrefix(f.name, s)
      BY <3>2 DEF FilterWhereInputFields
    <3> QED  BY <2>1, <2>8, <3>3 DEF LetsSee
  <2> QED  BY <2>4, <2>5, <2>6, <2>7, <2>8
<1>4. ASSUME NEW n \in DOMAIN F, n[1] \in {"where", "create", "update", "orderField"}
      PROVE  \E i \in 1 .. Len(w) : n \in Shown(w[i])
  BY <1>1, <1>2, <1>4, OfTarget
<1> QED  BY <1>1, <1>3, <1>4 DEF HidesIn

\* What a type lets be seen of an entity is what the last target to give it lets be
\* seen, whatever else the file holds; the order's enum alone is whole
\* (filterFields, filterWhereInputFields, filterMutationInputFields, generator.go).
THEOREM HiddenFieldsAlwaysStayHidden == Spec => []HiddenFieldsStayHidden
<1>1. Inv /\ FileInv => HiddenFieldsStayHidden
  <2> SUFFICES ASSUME FileInv PROVE \A a \in Api : HidesIn(files[a].work, files[a].schema)
    BY DEF HiddenFieldsStayHidden, HidesIn, LetsSee, Output
  <2> TAKE a \in Api
  <2>1. PICK w, F : w = files[a].work /\ F = files[a].schema
    OBVIOUS
  <2>2. Filed(w, F) /\ w \in WorkLists[a] \cup {<<>>}
    BY <2>1 DEF FileInv
  <2>3. CASE w = <<>>
    <3>1. DOMAIN w = {} /\ DOMAIN F = {}
      BY <2>2, <2>3 DEF Filed
    <3> QED  BY <2>1, <3>1 DEF HidesIn
  <2>4. CASE w # <<>>
    BY <2>1, <2>2, <2>4, HiddenInFile DEF Filed
  <2> QED  BY <2>3, <2>4
<1>2. Inv /\ [Next]_vars => Inv'
  BY StepInv
<1> QED  BY <1>1, <1>2, InitInv, InitFiles, FilesNext, PTL DEF Spec

---------------------------------------------------------------------------
(***************************************************************************)
(* What a file's types name.                                               *)
(***************************************************************************)
LEMMA HeldFilters ==
  ASSUME NEW w, Len(w) \in Nat, Sound(w, Len(w)), NEW T, T = TargetSchema(w, Len(w)), NEW F, F = File(w),
         NEW n \in DOMAIN F, n[1] = "where"
  PROVE  n \in DOMAIN T
<1> SUFFICES ASSUME n \notin DOMAIN T PROVE FALSE
  OBVIOUS
<1>1. n # Object("Query") /\ n # Object("Mutation")
  BY Kinds
<1>2. n \in AllNeeded(w)
  BY <1>1, FileGet
<1> QED  BY <1>2, NeededFilters

PredicatesIn(w, F) ==
    \A n \in DOMAIN F : n[1] = "where" =>
        /\ \A f \in F[n] : \A r \in FieldTypes({f}) : r[1] = "where" => r \in DOMAIN F
        /\ (\A t \in Range(w) : Where(t.entity) = n => ~Restricted(t)) =>
              \A f \in Full[n] : f \in F[n] \/ (f.type[1] = "where" /\ f.type \notin DOMAIN F)

LEMMA PredicatesInFile ==
  ASSUME NEW a \in Api, NEW w \in WorkLists[a], Sound(w, Len(w)), NEW F, F = File(w)
  PROVE  PredicatesIn(w, F)
<1> SUFFICES ASSUME NEW n \in DOMAIN F, n[1] = "where"
             PROVE  /\ \A f \in F[n] : \A r \in FieldTypes({f}) : r[1] = "where" => r \in DOMAIN F
                    /\ (\A t \in Range(w) : Where(t.entity) = n => ~Restricted(t)) =>
                          \A f \in Full[n] : f \in F[n] \/ (f.type[1] = "where" /\ f.type \notin DOMAIN F)
  BY DEF PredicatesIn
<1>1. Len(w) \in Nat /\ DOMAIN w = 1 .. Len(w)
  BY WorkIsList
<1>2. PICK T : T = TargetSchema(w, Len(w))
  OBVIOUS
<1>3. n \in DOMAIN T /\ DOMAIN T \subseteq DOMAIN F
  BY <1>1, <1>2, HeldFilters, FileGet
<1>4. F[n] \subseteq T[n] /\ \A f \in T[n] : f \in F[n] <=> Stays(f, T)
  BY <1>2, <1>3, FileGet
<1>5. ASSUME NEW f \in F[n], NEW r \in FieldTypes({f}), r[1] = "where" PROVE r \in DOMAIN F
  BY <1>3, <1>4, <1>5 DEF Stays
<1>6. ASSUME \A t \in Range(w) : Where(t.entity) = n => ~Restricted(t), NEW f \in Full[n], f \notin F[n]
      PROVE  f.type[1] = "where" /\ f.type \notin DOMAIN F
  <2>1. PICK i \in 1 .. Len(w) : Given(w, w[i], n, T[n])
    <3>1. n \notin Common
      BY EntgqlSchema
    <3> QED  BY <1>1, <1>2, <1>3, <3>1, TargetGet
  <2>2. n = Where(w[i].entity) /\ T[n] = Kept(w[i])
    BY <2>1, GivenKinds
  <2>3. w[i] \in Range(w)
    BY <1>1 DEF Range
  <2>4. T[n] = Full[n]
    BY <1>6, <2>2, <2>3 DEF Kept
  <2>5. PICK r \in FieldTypes({f}) : r[1] = "where" /\ r \notin DOMAIN T
    BY <1>4, <1>6, <2>4 DEF Stays
  <2>6. r = f.type
    BY <2>5 DEF FieldTypes
  <2>7. r \notin DOMAIN F
    BY <1>1, <1>2, <2>5, HeldFilters
  <2> QED  BY <2>5, <2>6, <2>7
<1> QED  BY <1>5, <1>6

Anchored(w, F, n, f) ==
    \/ f.type # Builtin /\ f.type[1] = "connection"
    \/ \E t \in Range(w) : n = Object(t.typeName) /\ f.name \in t.fields
    \/ References({f}) \subseteq DOMAIN F

LEMMA OwnReferences == ASSUME NEW f PROVE References({f}) = ({f.type} \cup f.args) \ {Builtin}
<1>1. ASSUME NEW r \in References({f}) PROVE r \in ({f.type} \cup f.args) \ {Builtin}
  <2>1. PICK g \in {f} : r \in {g.type} \cup g.args
    BY <1>1 DEF References
  <2>2. r # Builtin
    BY <1>1 DEF References
  <2> QED  BY <2>1, <2>2
<1>2. ASSUME NEW r \in ({f.type} \cup f.args) \ {Builtin} PROVE r \in References({f})
  <2>1. PICK S : S = {f.type} \cup f.args /\ r \in S
    BY <1>2
  <2>2. PICK X : X = { {g.type} \cup g.args : g \in {f} }
    OBVIOUS
  <2>3. S \in X
    BY <2>1, <2>2
  <2>4. References({f}) = (UNION X) \ {Builtin}
    BY <2>2 DEF References
  <2> QED  BY <1>2, <2>1, <2>3, <2>4
<1> QED  BY <1>1, <1>2

\* A field of the full schema, not a Connection's, whose type is held or needed.
LEMMA NeededIsHeld ==
  ASSUME NEW w, NEW F, F = File(w), NEW n \in DOMAIN Full, NEW f \in Full[n],
         f.type # Builtin => f.type \in DOMAIN F \/ (f.type \in AllNeeded(w) /\ (f.type \in DOMAIN Full => f.type[1] \in {"scalar", "enum"}))
  PROVE  Anchored(w, F, n, f)
<1>1. CASE f.type # Builtin /\ f.type[1] = "connection"
  BY <1>1 DEF Anchored
<1>2. CASE ~ (f.type # Builtin /\ f.type[1] = "connection")
  <2>1. f.args \subseteq {Builtin}
    BY <1>2, EntgqlSchema
  <2>2. f.type # Builtin => f.type \in DOMAIN F
    BY FileGet
  <2> QED  BY <2>1, <2>2, OwnReferences DEF Anchored
<1> QED  BY <1>1, <1>2

\* The fields of a type that a target gave.
LEMMA GivenAnchored ==
  ASSUME NEW a \in Api, NEW w \in WorkLists[a], Sound(w, Len(w)), NEW T, T = TargetSchema(w, Len(w)), NEW F, F = File(w),
         NEW n \in DOMAIN T, NEW f \in F[n], NEW i \in 1 .. Len(w), n \in DOMAIN Adds(w, i), Given(w, w[i], n, T[n])
  PROVE  Anchored(w, F, n, f)
<1>1. Len(w) \in Nat /\ DOMAIN w = 1 .. Len(w)
  BY WorkIsList
<1>2. PICK t : t = w[i]
  OBVIOUS
<1>3. t \in Range(w)
  BY <1>1, <1>2 DEF Range
<1>4. DOMAIN T \subseteq DOMAIN F /\ DOMAIN Adds(w, i) \subseteq DOMAIN T /\ Common \subseteq DOMAIN T /\ f \in T[n]
  BY FileGet, TargetTypes
<1>5. Object(t.entity) \in DOMAIN Full
  BY <1>2 DEF Sound
<1>6. CASE n = Object(t.typeName) /\ T[n] = EntityFields(t, PresentIn(w))
  <2>1. CASE Restricted(t)
    <3>1. f.name \in t.fields
      BY <1>4, <1>6, <2>1 DEF EntityFields, FilterFields
    <3> QED  BY <1>3, <1>6, <3>1 DEF Anchored
  <2>2. CASE ~ Restricted(t)
    <3>1. f \in Full[Object(t.entity)] /\ (f.type # Builtin /\ f.type[1] = "object" /\ f.type \in DOMAIN Full => f.type[2] \in PresentIn(w))
      BY <1>4, <1>6, <2>2 DEF EntityFields, FilterEdgeFields
    <3>2. CASE f.type # Builtin /\ f.type[1] = "connection"
      BY <3>2 DEF Anchored
    <3>3. CASE f.type # Builtin /\ f.type[1] = "object" /\ f.type \in DOMAIN Full
      <4>1. PICK j \in 1 .. Len(w) : f.type[2] = w[j].typeName
        BY <1>1, <3>1, <3>3 DEF PresentIn
      <4>2. f.type = <<f.type[1], f.type[2]>>
        BY <1>5, <3>1, <3>3, GqlParameters
      <4>3. f.type = Object(w[j].typeName)
        BY <3>3, <4>1, <4>2 DEF Object
      <4>4. f.type \in DOMAIN F
        BY <1>4, <4>3, AddsGet, TargetTypes
      <4>5. References({f}) \subseteq DOMAIN F
        <5>1. f.args \subseteq {Builtin}
          BY <1>5, <3>1, <3>3, EntgqlSchema
        <5> QED  BY <4>4, <5>1, OwnReferences
      <4> QED  BY <4>5 DEF Anchored
    <3>4. CASE f.type # Builtin /\ f.type[1] # "connection" /\ ~ (f.type[1] = "object" /\ f.type \in DOMAIN Full)
      <4>1. f.args \subseteq {Builtin}
        BY <1>5, <3>1, <3>4, EntgqlSchema
      <4>2. f.type \in NeededAt(w, Len(w))
        <5>1. f.type \in FieldTypes(EntityFields(w[i], PresentIn(w)))
          BY <1>2, <1>4, <1>6, <3>4 DEF FieldTypes
        <5> QED  BY <5>1 DEF NeededAt
      <4>3. f.type[1] \in {"object", "connection", "scalar", "enum"} \/ f.type \in Common
        BY <1>5, <3>1, <3>4, Kinds, EntgqlSchema
      <4>4. f.type \in DOMAIN F
        BY <1>4, <3>4, <4>2, <4>3, FileGet DEF AllNeeded
      <4> QED  BY <4>1, <4>4, OwnReferences DEF Anchored
    <3>5. CASE f.type = Builtin
      <4>1. f.args \subseteq {Builtin}
        BY <1>5, <3>1, <3>5, EntgqlSchema
      <4> QED  BY <3>5, <4>1, OwnReferences DEF Anchored
    <3> QED  BY <3>2, <3>3, <3>4, <3>5
  <2> QED  BY <2>1, <2>2
<1>7. CASE n = Connection(t.typeName) /\ T[n] = {Field("edges", Edge(t.typeName), {}), Field("pageInfo", PageInfo, {}), Field("totalCount", Builtin, {})}
  <2>1. f.args = {} /\ f.type \in {Edge(t.typeName), PageInfo, Builtin}
    BY <1>4, <1>7 DEF Field
  <2>2. Edge(t.typeName) \in DOMAIN F /\ PageInfo \in DOMAIN F
    BY <1>2, <1>4, <1>7, AddsGet, EntgqlSchema
  <2> QED  BY <2>1, <2>2, OwnReferences DEF Anchored
<1>8. CASE n = Edge(t.typeName) /\ T[n] = {Field("node", Object(t.typeName), {}), Field("cursor", Cursor, {})}
  <2>1. f.args = {} /\ f.type \in {Object(t.typeName), Cursor}
    BY <1>4, <1>8 DEF Field
  <2>2. Object(t.typeName) \in DOMAIN F /\ Cursor \in DOMAIN F
    BY <1>2, <1>4, AddsGet, EntgqlSchema
  <2> QED  BY <2>1, <2>2, OwnReferences DEF Anchored
<1>9. CASE n = Order(t.entity) /\ n \in DOMAIN Full /\ T[n] = Full[n]
  <2>1. References(Full[n]) \subseteq Common \cup {OrderField(t.entity)} /\ OrderField(t.entity) \in DOMAIN Full
    BY <1>9, EntgqlSchema DEF Order
  <2>2. OrderField(t.entity) \in DOMAIN F
    BY <1>2, <1>4, <1>9, <2>1, AddsGet
  <2>3. References({f}) \subseteq References(Full[n])
    BY <1>4, <1>9 DEF References
  <2> QED  BY <1>4, <2>1, <2>2, <2>3 DEF Anchored
<1>10. CASE n = OrderField(t.entity) /\ n \in DOMAIN Full /\ T[n] = Full[n]
  <2>1. References(Full[n]) = {}
    BY <1>10, EntgqlSchema DEF OrderField
  <2>2. References({f}) \subseteq References(Full[n])
    BY <1>4, <1>10 DEF References
  <2> QED  BY <2>1, <2>2 DEF Anchored
<1>11. CASE n = Where(t.entity) /\ n \in DOMAIN Full /\ T[n] = Kept(t)
  <2>1. f \in Full[n] /\ n[1] = "where"
    BY <1>4, <1>11, FieldsAreFulls, Kinds
  <2>2. ASSUME f.type # Builtin PROVE f.type \in DOMAIN F \/ (f.type \in AllNeeded(w) /\ f.type[1] \in {"scalar", "enum"})
    <3>1. f.type \in FieldTypes({f})
      BY <2>2 DEF FieldTypes
    <3>2. CASE f.type[1] = "where"
      <4>1. Stays(f, T)
        BY <1>4, <2>1, FileGet
      <4> QED  BY <1>4, <3>1, <3>2, <4>1 DEF Stays
    <3>3. CASE f.type[1] # "where"
      <4>1. f.type[1] \in {"scalar", "enum"}
        BY <1>11, <2>1, <2>2, <3>3, EntgqlSchema
      <4>2. DOMAIN PrunedBut(w, {}) = DOMAIN T
            /\ PrunedBut(w, {})[n] = { g \in T[n] : \A r \in FieldTypes({g}) : r[1] = "where" => r \in DOMAIN T }
        BY <2>1 DEF PrunedBut
      <4>3. \A r \in FieldTypes({f}) : r[1] = "where" => r \in DOMAIN T
        BY <3>3 DEF FieldTypes
      <4>4. f \in PrunedBut(w, {})[n]
        BY <1>4, <4>2, <4>3
      <4>5. f.type \in FieldTypes(PrunedBut(w, {})[n])
        BY <2>2, <4>4 DEF FieldTypes
      <4>6. f.type \in AllNeeded(w)
        BY <2>1, <4>2, <4>5 DEF AllNeeded
      <4> QED  BY <4>1, <4>6
    <3> QED  BY <3>2, <3>3
  <2> QED  BY <1>11, <2>1, <2>2, NeededIsHeld
<1>12. CASE n \in Inputs(t) /\ T[n] = Fillable(t, n)
  <2>1. n \in DOMAIN Full /\ n[1] \in {"create", "update"}
    BY <1>12, Kinds DEF Inputs
  <2>2. f \in Full[n]
    BY <1>4, <1>12, FieldsAreFulls
  <2>3. ASSUME f.type # Builtin PROVE f.type \in AllNeeded(w) /\ f.type[1] \in {"scalar", "enum"}
    <3>1. f.type[1] \in {"scalar", "enum"}
      BY <2>1, <2>2, <2>3, EntgqlSchema
    <3>2. DOMAIN InputTypes(w[i]) = Inputs(t) /\ InputTypes(w[i])[n] = Fillable(t, n)
      BY <1>2, <1>12 DEF InputTypes, Fillable
    <3>3. f.type \in FieldTypes(InputTypes(w[i])[n])
      BY <1>4, <1>12, <2>3, <3>2 DEF FieldTypes
    <3>4. f.type \in NeededAt(w, Len(w))
      <4>1. n \in DOMAIN InputTypes(w[i])
        BY <1>12, <3>2
      <4>2. PICK N : N = FieldTypes(InputTypes(w[i])[n])
        OBVIOUS
      <4>3. PICK U : U = UNION { FieldTypes(InputTypes(w[i])[m]) : m \in DOMAIN InputTypes(w[i]) }
        OBVIOUS
      <4>4. f.type \in U
        BY <3>3, <4>1, <4>2, <4>3
      <4> DEFINE Of(j) == FieldTypes(EntityFields(w[j], PresentIn(w))) \cup UNION { FieldTypes(InputTypes(w[j])[m]) : m \in DOMAIN InputTypes(w[j]) }
      <4>5. NeededAt(w, Len(w)) = UNION { Of(j) : j \in 1 .. Len(w) }
        BY DEF NeededAt
      <4>6. f.type \in Of(i)
        BY <4>3, <4>4
      <4> HIDE DEF Of
      <4> QED  BY <4>5, <4>6
    <3> QED  BY <3>1, <3>4 DEF AllNeeded
  <2> QED  BY <2>1, <2>2, <2>3, NeededIsHeld
<1> QED  BY <1>2, <1>6, <1>7, <1>8, <1>9, <1>10, <1>11, <1>12 DEF Given

LEMMA OrphansInFile ==
  ASSUME NEW a \in Api, NEW w \in WorkLists[a], Sound(w, Len(w)), NEW F, F = File(w), NEW n \in DOMAIN F, NEW f \in F[n]
  PROVE  Anchored(w, F, n, f)
<1>1. Len(w) \in Nat /\ DOMAIN w = 1 .. Len(w)
  BY WorkIsList
<1>2. PICK T : T = TargetSchema(w, Len(w))
  OBVIOUS
<1>3. DOMAIN T \subseteq DOMAIN F /\ Common \subseteq DOMAIN T /\ \A i \in 1 .. Len(w) : DOMAIN Adds(w, i) \subseteq DOMAIN T
  BY <1>2, FileGet, TargetTypes
<1>4. CASE n \in DOMAIN T
  <2>1. CASE n \in Common /\ T[n] = Full[n]
    <3>1. f \in Full[n]
      BY <1>2, <1>4, <2>1, FileGet
    <3>2. References(Full[n]) \subseteq Common
      BY <2>1, EntgqlSchema
    <3>3. References({f}) \subseteq References(Full[n])
      BY <3>1 DEF References
    <3> QED  BY <1>3, <3>2, <3>3 DEF Anchored
  <2>2. ASSUME NEW i \in 1 .. Len(w), n \in DOMAIN Adds(w, i), Given(w, w[i], n, T[n]) PROVE Anchored(w, F, n, f)
    BY <1>2, <1>4, <2>2, GivenAnchored
  <2> QED  BY <1>1, <1>2, <1>4, <2>1, <2>2, TargetGet
<1>5. CASE n \notin DOMAIN T
  <2>1. CASE F[n] = { QueryField(w[i]) : i \in { j \in DOMAIN w : w[j].query } }
    <3>1. PICK i \in DOMAIN w : f = QueryField(w[i])
      BY <2>1
    <3>2. f.type = Connection(w[i].typeName) /\ f.type[1] = "connection"
      BY <3>1 DEF QueryField, Field, Connection
    <3>3. f.type # Builtin
      BY <3>1, <3>2, EntgqlSchema
    <3> QED  BY <3>2, <3>3 DEF Anchored
  <2>2. CASE F[n] = UNION { MutationFields(w[i]) : i \in DOMAIN w }
    <3>1. PICK i \in DOMAIN w : f \in MutationFields(w[i])
      BY <2>2
    <3>2. PICK m \in Inputs(w[i]) : f = Field(m, Object(w[i].typeName), {m})
      BY <3>1 DEF MutationFields
    <3>3. f.type = Object(w[i].typeName) /\ f.args = {m}
      BY <3>2 DEF Field
    <3>4. f.type \in DOMAIN F /\ m \in DOMAIN F
      BY <1>1, <1>3, <3>2, <3>3, AddsGet
    <3> QED  BY <3>3, <3>4, OwnReferences DEF Anchored
  <2>3. CASE F[n] = {}
    BY <2>3
  <2> QED  BY <1>2, <1>5, <2>1, <2>2, <2>3, FileGet
<1> QED  BY <1>4, <1>5

---------------------------------------------------------------------------
(***************************************************************************)
(* Types, filters and references of the files at every moment.             *)
(***************************************************************************)
Resting == ok \in BOOLEAN /\ (stage = "idle" => pending = {})

LEMMA InitResting == Init => Resting
  BY DEF Init, Resting

LEMMA StepResting == ASSUME Inv, Resting, [Next]_vars PROVE Resting'
<1> USE DEF Inv, Typed, Building, OkAtRest, Resting
<1>1. CASE EditAnnotations
  BY <1>1 DEF EditAnnotations, build
<1>2. CASE Start
  BY <1>2 DEF Start
<1>3. CASE NextApi
  <2>1. stage' \in {"apis", "targets"} /\ ok' = ok
    BY <1>3 DEF NextApi
  <2> QED  BY <2>1
<1>4. CASE Return
  BY <1>4 DEF Return, Leave
<1>5. CASE Fail
  BY <1>5 DEF Fail, Leave
<1>6. CASE Write
  BY <1>6 DEF Write, Leave
<1>7. CASE AddTarget
  BY <1>7 DEF AddTarget
<1>8. CASE TargetsDone
  BY <1>8 DEF TargetsDone
<1>9. CASE Prune
  BY <1>9 DEF Prune
<1>10. CASE PruneDone
  <2>1. stage' = "need" /\ ok' = ok
    BY <1>10 DEF PruneDone
  <2> QED  BY <2>1
<1>11. CASE Need
  BY <1>11 DEF Need
<1>12. CASE UNCHANGED vars
  BY <1>12 DEF vars, build
<1> QED  BY <1>1, <1>2, <1>3, <1>4, <1>5, <1>6, <1>7, <1>8, <1>9, <1>10, <1>11, <1>12 DEF Next

LEMMA FilesTyped == ASSUME Inv, FileInv, Resting PROVE TypeOK
<1>1. DOMAIN annotations = Api /\ \A a \in Api : annotations[a] \in WorkLists[a]
  BY DEF FileInv
<1>2. ASSUME NEW a \in Api PROVE files[a].work \in WorkLists[a] /\ (files[a].work = <<>> <=> Output(a) = <<>>)
  <2>1. PICK w, F : w = files[a].work /\ F = files[a].schema
    OBVIOUS
  <2>2. Filed(w, F) /\ w \in WorkLists[a]
    BY <2>1, GqlParameters DEF FileInv
  <2>3. ASSUME w # <<>> PROVE F # <<>>
    <3>1. F = File(w)
      BY <2>2, <2>3 DEF Filed
    <3>2. PageInfo \in DOMAIN F
      BY <3>1, FileGet, TargetTypes, EntgqlSchema
    <3> QED  BY <3>2
  <2>4. w = <<>> => F = <<>>
    BY <2>2 DEF Filed
  <2> QED  BY <2>1, <2>2, <2>3, <2>4 DEF Output
<1>3. ok \in BOOLEAN /\ (ok => stage = "idle" /\ pending = {})
  BY DEF Resting, Inv, OkAtRest
<1>4. stage \in {"idle", "apis", "targets", "prune", "need"} /\ pending \subseteq Api /\ api \in Api
  BY DEF Inv, Typed, FileInv
<1>5. Len(Work) \in Nat
  BY <1>1, <1>4, WorkIsList DEF Work
<1>6. at \in 0 .. Len(Work)
  <2>1. CASE stage \in {"idle", "apis"}
    BY <1>5, <2>1 DEF FileInv, BuildInv
  <2>2. CASE stage = "targets"
    BY <2>2 DEF FileInv, BuildInv
  <2>3. CASE stage \in {"prune", "need"}
    BY <1>5, <2>3 DEF FileInv, BuildInv
  <2> QED  BY <1>4, <2>1, <2>2, <2>3
<1>7. left \subseteq needed \cup DOMAIN schema
  <2>1. CASE stage \in {"idle", "apis", "targets"}
    BY <2>1 DEF FileInv, BuildInv
  <2>2. CASE stage = "prune"
    <3>1. at = Len(Work) /\ left \subseteq DOMAIN TargetSchema(Work, at) /\ schema = PrunedBut(Work, left)
      BY <2>2 DEF FileInv, BuildInv
    <3>2. DOMAIN PrunedBut(Work, left) = DOMAIN TargetSchema(Work, Len(Work))
      BY DEF PrunedBut
    <3> QED  BY <3>1, <3>2
  <2>3. CASE stage = "need"
    BY <2>3 DEF FileInv, BuildInv
  <2> QED  BY <1>4, <2>1, <2>2, <2>3
<1> QED  BY <1>1, <1>2, <1>3, <1>4, <1>6, <1>7 DEF TypeOK

\* What a file names it holds, but for Connections kept with their arguments and
\* edges a target asks for by name; and a predicate on a related entity stays
\* exactly where that entity's own predicates are in the file, in whatever order
\* targets, APIs and types were gone through (buildApiSchema and
\* pruneOrphanWhereInputFields, generator.go).
THEOREM FilesAlwaysClosed == Spec => []FilesAreClosed
<1>1. Inv /\ FileInv /\ Resting => FilesAreClosed
  <2> SUFFICES ASSUME Inv, FileInv, Resting PROVE FilesAreClosed
    OBVIOUS
  <2>1. ASSUME NEW a \in Api
        PROVE  /\ PredicatesIn(files[a].work, files[a].schema)
               /\ \A n \in DOMAIN files[a].schema : \A f \in files[a].schema[n] : Anchored(files[a].work, files[a].schema, n, f)
    <3>1. PICK w, F : w = files[a].work /\ F = files[a].schema
      OBVIOUS
    <3>2. Filed(w, F) /\ w \in WorkLists[a]
      BY <3>1, GqlParameters DEF FileInv
    <3>3. CASE w = <<>>
      <4>1. DOMAIN F = {}
        BY <3>2, <3>3 DEF Filed
      <4> QED  BY <3>1, <4>1 DEF PredicatesIn
    <3>4. CASE w # <<>>
      <4>1. Sound(w, Len(w)) /\ F = File(w)
        BY <3>2, <3>4 DEF Filed
      <4> QED  BY <3>1, <3>2, <4>1, PredicatesInFile, OrphansInFile
    <3> QED  BY <3>3, <3>4
  <2>2. PredicatesFollowTheirEntity
    BY <2>1 DEF PredicatesFollowTheirEntity, PredicatesIn, Targets, Output
  <2>3. OrphansAreKept
    BY <2>1 DEF OrphansAreKept, Anchored, Targets, Output
  <2> QED  BY <2>2, <2>3, FilesTyped DEF FilesAreClosed
<1>2. Inv /\ [Next]_vars => Inv'
  BY StepInv
<1>3. Inv /\ Resting /\ [Next]_vars => Resting'
  BY StepResting
<1> QED  BY <1>1, <1>2, <1>3, InitInv, InitFiles, InitResting, FilesNext, PTL DEF Spec
=============================================================================
