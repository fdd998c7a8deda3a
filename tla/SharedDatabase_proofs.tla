------------------------ MODULE SharedDatabase_proofs ------------------------
(***************************************************************************)
(* Whatever types, files, tables and shapes there are, and however often   *)
(* runs fail and schemas are edited: a finished strip is complete, no      *)
(* build is half stripped, a sealed program writes nothing of a read-only  *)
(* type, and the reader's migrations spare foreign tables.                 *)
(***************************************************************************)
EXTENDS SharedDatabase, TLAPS

\* What Strip leaves of a generated file.
Bare(f, ro) == IF BuilderFileType(f) \in ro THEN Gone ELSE Full(f) \ ro

\* The types of ReadOnlyStrip's state.
StripTypes ==
    /\ annotated \in SUBSET Type /\ manifest \in {Torn} \cup SUBSET Type
    /\ disk \in [File -> {Gone, Torn} \cup SUBSET Type]
    /\ \A f \in File : disk[f] \in {Gone, Torn} \cup SUBSET Full(f)
    /\ strip \in [at: 0..Len(FileOrder), ro: SUBSET Type]
    /\ generated \in BOOLEAN /\ done \in BOOLEAN

\* Next to a manifest each file is as generated, bare or torn.
FilesKnown == manifest # Torn => \A f \in File : disk[f] \in {Full(f), Bare(f, manifest), Torn}

\* Strip works by the manifest that is there, and has made the files before it bare,
\* but for torn ones that parse.
StripFollows ==
    ~Idle =>
        /\ manifest \notin {Torn, {}} /\ strip.ro = manifest
        /\ \A i \in 1..(strip.at - 1) : disk[FileOrder[i]] \in {Bare(FileOrder[i], manifest), Torn}

\* Done: all files are bare, or torn.
DoneIsBare ==
    /\ generated => manifest # Torn
    /\ done => generated /\ \A f \in File : disk[f] \in {Bare(f, manifest), Torn}

StripInv == StripTypes /\ FilesKnown /\ StripFollows /\ DoneIsBare

---------------------------------------------------------------------------
(* Files *)

LEMMA FileFacts ==
  /\ Len(FileOrder) \in Nat
  /\ \A i \in 1..Len(FileOrder) : FileOrder[i] \in File
  /\ \A f \in File : \E i \in 1..Len(FileOrder) : FileOrder[i] = f
<1>1. DOMAIN FileOrder = 1..Len(FileOrder) /\ Len(FileOrder) \in Nat
  BY StripParameters
<1>2. QED
  BY <1>1 DEF File, Range

LEMMA KindFacts ==
  /\ ClientFile \in File /\ Full(ClientFile) = Type /\ BuilderFileType(ClientFile) = NoType
  /\ \A t \in Type : /\ <<"model", t>> \in File
                     /\ Full(<<"model", t>>) = {t} /\ BuilderFileType(<<"model", t>>) = NoType
  /\ \A t \in Type : \A f \in Builders(t) : f \in File /\ Full(f) = {t} /\ BuilderFileType(f) = t
<1>1. ClientFile \in File /\ Full(ClientFile) = Type /\ BuilderFileType(ClientFile) = NoType
  BY StripParameters DEF ClientFile, Full, BuilderFileType
<1>2. ASSUME NEW t \in Type
      PROVE  /\ <<"model", t>> \in File
             /\ Full(<<"model", t>>) = {t} /\ BuilderFileType(<<"model", t>>) = NoType
  BY StripParameters DEF ClientFile, Full, BuilderFileType
<1>3. ASSUME NEW t \in Type, NEW f \in Builders(t)
      PROVE  f \in File /\ Full(f) = {t} /\ BuilderFileType(f) = t
  <2>1. PICK s \in Suffix : f = <<s, t>>
    BY DEF Builders
  <2>2. f \in File
    BY <2>1, StripParameters
  <2>3. f # ClientFile
    BY <2>1, StripParameters DEF ClientFile
  <2> QED  BY <2>1, <2>2, <2>3 DEF Full, BuilderFileType
<1> QED  BY <1>1, <1>2, <1>3

LEMMA FullIsTypes == \A f \in File : Full(f) \in SUBSET Type
<1>1. ASSUME NEW f \in File PROVE Full(f) \in SUBSET Type
  <2>1. CASE f = ClientFile
    BY <2>1, KindFacts
  <2>2. CASE f \in {"model"} \X Type
    BY <2>2, StripParameters DEF Full, ClientFile
  <2>3. CASE f \in Suffix \X Type
    BY <2>3, StripParameters DEF Full, ClientFile
  <2> QED  BY <2>1, <2>2, <2>3, StripParameters
<1> QED  BY <1>1

\* Stripping a file that is as generated, bare already or torn makes it bare or
\* leaves it torn.
LEMMA StrippedIsBare ==
  ASSUME NEW f \in File, disk[f] \in {Full(f), Bare(f, strip.ro), Torn}
  PROVE  Left(f) \subseteq {Bare(f, strip.ro), Torn}
<1>1. /\ Full(f) \notin {Gone, Torn} /\ Full(f) \ strip.ro \notin {Gone, Torn} /\ Torn # Gone
  BY FullIsTypes, StripParameters
<1>2. CASE disk[f] = Torn
  BY <1>1, <1>2 DEF Left, Stripped, Bare
<1>3. CASE disk[f] # Torn
  BY <1>1, <1>3 DEF Left, Stripped, Bare
<1> QED  BY <1>2, <1>3

---------------------------------------------------------------------------
(* The strip invariant *)

LEMMA StripInitInv == StripInit => StripInv
<1> SUFFICES ASSUME StripInit PROVE StripInv
  OBVIOUS
<1>1. \A f \in File : Full(f) \in SUBSET Type
  BY FullIsTypes
<1>2. disk \in [File -> {Gone, Torn} \cup SUBSET Type] /\ \A f \in File : disk[f] = Full(f)
  BY <1>1 DEF StripInit
<1>3. strip \in [at: 0..Len(FileOrder), ro: SUBSET Type] /\ strip.at = 0
  BY FileFacts DEF StripInit, Stopped
<1>4. manifest = {} /\ manifest # Torn /\ \A f \in File : Full(f) # Torn
  BY <1>1, StripParameters DEF StripInit
<1>5. StripTypes
  BY <1>1, <1>2, <1>3, <1>4, StripParameters DEF StripInit, StripTypes
<1>6. FilesKnown
  BY <1>2, <1>4 DEF FilesKnown
<1>7. StripFollows /\ DoneIsBare
  BY <1>3 DEF StripInit, StripFollows, DoneIsBare, Idle
<1> QED  BY <1>5, <1>6, <1>7 DEF StripInv

LEMMA AnnotateInv == ASSUME StripInv, Annotate PROVE StripInv'
<1>1. annotated' \in SUBSET Type
  BY DEF StripInv, StripTypes, Annotate, SymDiff
<1> QED  BY <1>1 DEF Annotate, StripInv, StripTypes, FilesKnown, StripFollows, DoneIsBare, Idle, Bare

LEMMA GenerateInv == ASSUME StripInv, Generate PROVE StripInv'
<1>1. disk' = [f \in File |-> Full(f)]
  BY FileFacts DEF Generate, Written
<1>2. Torn \notin SUBSET Type /\ manifest' \in SUBSET Type
  BY StripParameters DEF StripInv, StripTypes, Generate
<1>3. disk' \in [File -> {Gone, Torn} \cup SUBSET Type] /\ \A f \in File : disk'[f] = Full(f) /\ Full(f) # Torn
  BY <1>1, <1>2, FullIsTypes
<1>4. /\ manifest' # Torn /\ strip' = strip /\ strip.at = 0
      /\ annotated' = annotated /\ generated' = TRUE /\ done' = FALSE
  BY <1>2 DEF Generate, Idle
<1> QED  BY <1>2, <1>3, <1>4 DEF StripInv, StripTypes, FilesKnown, StripFollows, DoneIsBare, Idle

LEMMA GenerateFailsInv == ASSUME StripInv, GenerateFails PROVE StripInv'
<1>1. PICK n \in 0..Len(FileOrder) :
         /\ \/ disk' = Written(n)
            \/ n < Len(FileOrder) /\ disk' = [Written(n) EXCEPT ![FileOrder[n + 1]] = Torn]
         /\ manifest' \in {manifest} \cup { m \in {Torn} : n = Len(FileOrder) }
  BY DEF GenerateFails
<1>5. /\ Written(n) \in [File -> {Gone, Torn} \cup SUBSET Type]
      /\ \A f \in File : Written(n)[f] \in {disk[f], Full(f)}
  BY FullIsTypes DEF Written, StripInv, StripTypes
<1>2. /\ disk' \in [File -> {Gone, Torn} \cup SUBSET Type]
      /\ \A f \in File : disk'[f] \in {disk[f], Full(f), Torn}
  BY <1>1, <1>5
<1>3. manifest' \in {manifest, Torn}
  BY <1>1
<1>4. \A f \in File : Full(f) # Torn
  BY FullIsTypes, StripParameters
<1> QED  BY <1>2, <1>3, <1>4 DEF GenerateFails, StripInv, StripTypes, FilesKnown, StripFollows, DoneIsBare, Idle, Bare

LEMMA StartStripInv == ASSUME StripInv, StartStrip PROVE StripInv'
<1>1. CASE manifest = {}
  <2>1. \A f \in File : Bare(f, manifest) = Full(f)
    BY <1>1 DEF Bare
  <2>2. \A f \in File : disk[f] \in {Bare(f, manifest), Torn}
    BY <1>1, <2>1 DEF StripInv, FilesKnown, StartStrip
  <2> QED  BY <1>1, <2>2 DEF StartStrip, StripInv, StripTypes, FilesKnown, StripFollows, DoneIsBare, Idle, Bare
<1>2. CASE manifest # {}
  <2>1. strip' = [at |-> 1, ro |-> manifest] /\ manifest \in SUBSET Type
    BY <1>2 DEF StartStrip, StripInv, StripTypes
  <2>2. strip' \in [at: 0..Len(FileOrder), ro: SUBSET Type] /\ strip'.at = 1 /\ strip'.ro = manifest
    BY <2>1, FileFacts, KindFacts
  <2>3. /\ manifest # Torn /\ done' = FALSE
        /\ UNCHANGED <<annotated, disk, manifest, generated>>
    BY <1>2 DEF StartStrip
  <2>4. StripTypes' /\ FilesKnown' /\ DoneIsBare'
    BY <2>2, <2>3 DEF StripInv, StripTypes, FilesKnown, DoneIsBare, Bare
  <2>5. StripFollows'
    BY <1>2, <2>2, <2>3 DEF StripFollows
  <2> QED  BY <2>4, <2>5 DEF StripInv
<1> QED  BY <1>1, <1>2

LEMMA StripFileInv == ASSUME StripInv, StripFile PROVE StripInv'
<1> DEFINE g == FileOrder[strip.at]
<1>1. /\ strip.at \in 1..Len(FileOrder) /\ g \in File
      /\ manifest \notin {Torn, {}} /\ strip.ro = manifest /\ manifest \in SUBSET Type
  BY FileFacts DEF StripFile, StripInv, StripTypes, StripFollows, Idle
<1>2. PICK left \in Left(g) : disk' = [disk EXCEPT ![g] = left]
  BY DEF StripFile
<1>3. left \in {Bare(g, manifest), Torn}
  BY <1>1, <1>2, StrippedIsBare DEF StripInv, FilesKnown
<1>4. left \in {Gone, Torn} \cup SUBSET Full(g)
  BY <1>1, <1>3, FullIsTypes DEF Bare
<1>5. /\ disk' \in [File -> {Gone, Torn} \cup SUBSET Type]
      /\ \A f \in File : disk'[f] = IF f = g THEN left ELSE disk[f]
  BY <1>1, <1>2, <1>4, FullIsTypes DEF StripInv, StripTypes
<1>6. \A i \in 1..strip.at : disk'[FileOrder[i]] \in {Bare(FileOrder[i], manifest), Torn}
  BY <1>1, <1>3, <1>5, FileFacts DEF StripInv, StripFollows, StripFile
<1>7. manifest' = manifest /\ annotated' = annotated /\ generated' = generated
  BY DEF StripFile
<1>8. CASE strip.at = Len(FileOrder)
  <2>1. \A f \in File : disk'[f] \in {Bare(f, manifest), Torn}
    BY <1>6, <1>8, FileFacts
  <2>2. strip' = Stopped /\ done' = generated
    BY <1>8 DEF StripFile
  <2>3. strip' \in [at: 0..Len(FileOrder), ro: SUBSET Type] /\ strip'.at = 0
    BY <2>2, FileFacts DEF Stopped
  <2> QED  BY <1>1, <1>3, <1>4, <1>5, <1>7, <2>1, <2>2, <2>3 DEF StripInv, StripTypes, FilesKnown, StripFollows, DoneIsBare, Idle, Bare
<1>9. CASE strip.at # Len(FileOrder)
  <2>1. strip' = [strip EXCEPT !.at = @ + 1] /\ done' = done
    BY <1>9 DEF StripFile
  <2>2. strip' \in [at: 0..Len(FileOrder), ro: SUBSET Type] /\ strip'.at = strip.at + 1 /\ strip'.ro = manifest
    BY <1>1, <1>9, <2>1, FileFacts DEF StripInv, StripTypes
  <2>3. \A i \in 1..(strip'.at - 1) : disk'[FileOrder[i]] \in {Bare(FileOrder[i], manifest), Torn}
    BY <1>1, <1>6, <2>2, FileFacts
  <2>4. done' => \A f \in File : disk'[f] \in {Bare(f, manifest), Torn}
    BY <1>3, <1>5, <2>1 DEF StripInv, DoneIsBare
  <2> QED  BY <1>1, <1>3, <1>4, <1>5, <1>7, <2>1, <2>2, <2>3, <2>4 DEF StripInv, StripTypes, FilesKnown, StripFollows, DoneIsBare, Idle, Bare
<1> QED  BY <1>8, <1>9

LEMMA StripRefusesInv == ASSUME StripInv, StripRefuses PROVE StripInv'
<1>1. strip' \in [at: 0..Len(FileOrder), ro: SUBSET Type] /\ strip'.at = 0
  BY FileFacts DEF StripRefuses, Stopped
<1> QED  BY <1>1 DEF StripRefuses, StripInv, StripTypes, FilesKnown, StripFollows, DoneIsBare, Idle, Bare

\* A file may be torn while it is written, at any time.
LEMMA StripDiesInv == ASSUME StripInv, StripDies PROVE StripInv'
<1> DEFINE g == FileOrder[strip.at]
<1>1. /\ strip.at \in 1..Len(FileOrder) /\ g \in File
  BY FileFacts DEF StripDies, StripInv, StripTypes, Idle
<1>2. strip' \in [at: 0..Len(FileOrder), ro: SUBSET Type] /\ strip'.at = 0
  BY FileFacts DEF StripDies, Stopped
<1>3. manifest' = manifest /\ annotated' = annotated /\ generated' = generated /\ done' = done
  BY DEF StripDies
<1>4. CASE UNCHANGED disk
  BY <1>2, <1>3, <1>4 DEF StripInv, StripTypes, FilesKnown, StripFollows, DoneIsBare, Idle, Bare
<1>5. CASE disk' = [disk EXCEPT ![g] = Torn]
  <2>1. /\ disk' \in [File -> {Gone, Torn} \cup SUBSET Type]
        /\ \A f \in File : disk'[f] = IF f = g THEN Torn ELSE disk[f]
    BY <1>1, <1>5 DEF StripInv, StripTypes
  <2> QED  BY <1>1, <1>2, <1>3, <2>1 DEF StripInv, StripTypes, FilesKnown, StripFollows, DoneIsBare, Idle, Bare
<1> QED  BY <1>4, <1>5 DEF StripDies

LEMMA StripStep == ASSUME StripInv, [Next]_allVars PROVE StripInv'
<1>1. CASE UNCHANGED vars
  BY <1>1 DEF vars, StripInv, StripTypes, FilesKnown, StripFollows, DoneIsBare, Idle, Bare
<1>2. CASE EditShape
  BY <1>2 DEF EditShape, StripInv, StripTypes, FilesKnown, StripFollows, DoneIsBare, Idle, Bare
<1>3. CASE Codegen
  BY <1>3, AnnotateInv, GenerateInv, GenerateFailsInv, StartStripInv, StripFileInv, StripRefusesInv, StripDiesInv DEF Codegen
<1> QED  BY <1>1, <1>2, <1>3 DEF Next, Build, OwnerMigrates, Migrate, Apply, allVars

\* The strip invariant says of finished runs and of builds what is promised.
LEMMA StripInvMeans == ASSUME StripInv PROVE DoneMeansStripped /\ NoHalfStrippedBuild
<1>1. /\ Full(ClientFile) = Type /\ BuilderFileType(ClientFile) = NoType /\ ClientFile \in File
      /\ NoType \notin Type
  BY KindFacts, StripParameters
<1>2. ASSUME done, Whole PROVE DoneMeansStripped
  <2>1. manifest # Torn /\ manifest \in SUBSET Type /\ \A f \in File : disk[f] = Bare(f, manifest)
    BY <1>2 DEF StripInv, StripTypes, DoneIsBare, Whole
  <2>2. disk[ClientFile] = Type \ manifest
    BY <1>1, <2>1 DEF Bare
  <2>3. ASSUME NEW t \in Type
        PROVE  /\ disk[<<"model", t>>] = {t} \ manifest
               /\ \A f \in Builders(t) : disk[f] = IF t \in manifest THEN Gone ELSE {t}
    <3>1. disk[<<"model", t>>] = {t} \ manifest
      BY <1>1, <2>1, KindFacts DEF Bare
    <3>2. ASSUME NEW f \in Builders(t) PROVE disk[f] = IF t \in manifest THEN Gone ELSE {t}
      <4>1. f \in File /\ Full(f) = {t} /\ BuilderFileType(f) = t
        BY KindFacts
      <4>2. disk[f] = IF t \in manifest THEN Gone ELSE {t} \ manifest
        BY <2>1, <4>1 DEF Bare
      <4>3. t \notin manifest => {t} \ manifest = {t}
        OBVIOUS
      <4> QED  BY <4>2, <4>3
    <3> QED  BY <3>1, <3>2
  <2> QED  BY <2>1, <2>2, <2>3 DEF DoneMeansStripped
<1>3. ASSUME Compiles, manifest # Torn
      PROVE  manifest \subseteq disk[ClientFile] \/ manifest \cap disk[ClientFile] = {}
  <2>1. disk[ClientFile] \in {Type, Type \ manifest} /\ manifest \in SUBSET Type
    BY <1>1, <1>3 DEF StripInv, StripTypes, FilesKnown, Bare, Compiles, Whole
  <2> QED  BY <2>1
<1> QED  BY <1>2, <1>3 DEF DoneMeansStripped, NoHalfStrippedBuild

---------------------------------------------------------------------------
(* Programs, and the types of the database's side *)

ServiceTypes ==
    /\ shape \in [Type -> Shape] /\ package \in [Type -> Shape]
    /\ program.package \in [Type -> Shape \cup {Absent}]
    /\ db \in [Table -> Shape \cup {Absent}]

\* A plan holds changes of tables that are not foreign, and only a rename that
\* the application's hook knows leads to another table.
PlanKnown ==
    \A c \in plan :
        /\ c.kind \in {"add", "drop", "modify", "rename"}
        /\ c.table \in Table \ Foreign /\ c.to \in Table
        /\ c.to = c.table \/ (c.kind = "rename" /\ <<c.table, c.to>> \in Rename)

Inv == StripInv /\ ServiceTypes /\ PlanKnown /\ SealedWritesNothing

LEMMA InitInv == Init => Inv
<1> SUFFICES ASSUME Init PROVE Inv
  OBVIOUS
<1>1. StripInv
  BY StripInitInv DEF Init
<1>2. (CHOOSE s \in Shape : TRUE) \in Shape
  BY SharedParameters
<1>3. ServiceTypes
  BY <1>2 DEF Init, ServiceTypes, NoProgram
<1>4. PlanKnown /\ SealedWritesNothing
  BY DEF Init, PlanKnown, SealedWritesNothing, NoProgram
<1> QED  BY <1>1, <1>3, <1>4 DEF Inv

\* What SkipHook lets through of a diff, with or without a rename.
LEMMA MigratePlans == ASSUME Migrate PROVE PlanKnown'
<1> DEFINE changes == Diff(db, Desired)
           Of(renames) == IF renames = {} THEN changes
                          ELSE LET r == CHOOSE r \in renames : TRUE IN Renamed(changes, r[1], r[2])
<1>1. PICK renames \in SUBSET { r \in Rename : CanRename(changes, r[1], r[2]) } :
         plan' = SkipHook(Skip, Of(renames))
  BY DEF Migrate
<1>2. \A c \in changes : /\ c.kind \in {"add", "drop", "modify"} /\ c.table \in Table /\ c.to = c.table
  BY DEF Diff, Change
<1>3. ASSUME NEW c \in Of(renames)
      PROVE  /\ c.kind \in {"add", "drop", "modify", "rename"} /\ c.table \in Table /\ c.to \in Table
             /\ c.to = c.table \/ (c.kind = "rename" /\ <<c.table, c.to>> \in Rename)
  <2>1. CASE c \in changes
    BY <1>2, <2>1
  <2>2. CASE c \notin changes
    <3>1. renames # {}
      BY <2>2, <1>3
    <3>2. PICK r \in renames : c \in Renamed(changes, r[1], r[2])
      BY <1>3, <3>1
    <3>3. c = Change("rename", r[1], r[2])
      BY <2>2, <3>2 DEF Renamed
    <3>4. r \in Rename /\ r \in Table \X Table
      BY <1>1, SharedParameters
    <3>5. c.kind = "rename" /\ c.table = r[1] /\ c.to = r[2]
      BY <3>3 DEF Change
    <3>6. r = <<c.table, c.to>> /\ c.table \in Table /\ c.to \in Table
      BY <3>4, <3>5
    <3> QED  BY <3>4, <3>5, <3>6
  <2> QED  BY <2>1, <2>2
<1>4. Skip = Foreign
  BY DEF Skip, Foreign, AnyOf
<1>5. \A c \in plan' : c \in Of(renames) /\ c.table \notin Foreign
  BY <1>1, <1>4 DEF SkipHook, ChangeTable
<1>6. Foreign' = Foreign
  BY DEF Foreign
<1> QED  BY <1>3, <1>5, <1>6 DEF PlanKnown

LEMMA MigratedTypes ==
  ASSUME ServiceTypes, NEW changes
  PROVE  Migrated(db, Desired, changes) \in [Table -> Shape \cup {Absent}]
<1>1. \A t \in Table : Desired[t] \in Shape \cup {Absent} /\ db[t] \in Shape \cup {Absent}
  BY DEF Desired, ServiceTypes
<1> QED  BY <1>1 DEF Migrated

LEMMA NextInv == ASSUME Inv, [Next]_allVars PROVE Inv'
<1>1. StripInv'
  BY StripStep DEF Inv
<1>2. CASE UNCHANGED allVars
  BY <1>1, <1>2 DEF allVars, serviceVars, Inv, ServiceTypes, PlanKnown, SealedWritesNothing
<1>3. CASE EditShape
  BY <1>1, <1>3 DEF EditShape, serviceVars, Inv, ServiceTypes, PlanKnown, SealedWritesNothing
<1>4. CASE Codegen
  <2>1. package' \in {package, shape} /\ UNCHANGED <<shape, program, plan, db>>
    BY <1>4 DEF Codegen, serviceVars
  <2> QED  BY <1>1, <2>1 DEF Inv, ServiceTypes, PlanKnown, SealedWritesNothing
<1>5. CASE Build
  <2>1. /\ program' = [writes |-> disk[ClientFile], ro |-> IF done THEN manifest ELSE {}, package |-> package]
        /\ UNCHANGED <<shape, package, plan, db>>
    BY <1>5 DEF Build
  <2>2. ServiceTypes' /\ PlanKnown'
    BY <2>1 DEF Inv, ServiceTypes, PlanKnown
  <2>3. done => disk[ClientFile] = Type \ manifest
    BY <1>5, StripInvMeans DEF Inv, DoneMeansStripped, Build, Compiles
  <2>4. SealedWritesNothing'
    BY <2>1, <2>3 DEF SealedWritesNothing
  <2> QED  BY <1>1, <2>2, <2>4 DEF Inv
<1>6. CASE OwnerMigrates
  BY <1>1, <1>6, SharedParameters DEF OwnerMigrates, Inv, ServiceTypes, PlanKnown, SealedWritesNothing
<1>7. CASE Migrate
  <2>1. UNCHANGED <<shape, package, program, db>>
    BY <1>7 DEF Migrate
  <2> QED  BY <1>1, <1>7, <2>1, MigratePlans DEF Inv, ServiceTypes, SealedWritesNothing
<1>8. CASE Apply
  <2>1. PICK c \in plan : /\ IF Applies(c) THEN db' = Migrated(db, Desired, {c}) /\ plan' = plan \ {c}
                                           ELSE plan' = {} /\ UNCHANGED db
                          /\ UNCHANGED <<shape, package, program>>
    BY <1>8 DEF Apply
  <2>2. db' \in [Table -> Shape \cup {Absent}]
    BY <2>1, MigratedTypes DEF Inv, ServiceTypes
  <2>3. plan' \subseteq plan
    BY <2>1
  <2> QED  BY <1>1, <2>1, <2>2, <2>3 DEF Inv, ServiceTypes, PlanKnown, SealedWritesNothing
<1> QED  BY <1>2, <1>3, <1>4, <1>5, <1>6, <1>7, <1>8 DEF Next

LEMMA AlwaysInv == Spec => []Inv
<1>1. Init => Inv
  BY InitInv
<1>2. Inv /\ [Next]_allVars => Inv'
  BY NextInv
<1> QED  BY <1>1, <1>2, PTL DEF Spec

---------------------------------------------------------------------------
(* The theorems *)

\* Whatever types and files there are, and however often generator runs and
\* Strip fail, are killed or repeated between edits of the schema: state stays
\* typed, a pipeline that returned nil has removed every write of the manifest's
\* types and nothing else, a package that compiles is not stripped by half, and a
\* program built from a finished one writes nothing of a read-only type.
THEOREM StripIsAlwaysSound == Spec => []StripIsSound
<1>1. ASSUME Inv PROVE StripIsSound
  <2>1. DoneMeansStripped /\ NoHalfStrippedBuild
    BY <1>1, StripInvMeans DEF Inv
  <2>2. TypeOK
    BY <1>1 DEF Inv, StripInv, StripTypes, DoneIsBare, ServiceTypes, PlanKnown, TypeOK
  <2> QED  BY <1>1, <2>1, <2>2 DEF Inv, StripIsSound
<1> QED  BY <1>1, AlwaysInv, PTL

\* A step of a migration: what it may do to a foreign table.
LEMMA ApplySpares ==
  ASSUME Inv, Apply, NEW t \in Foreign
  PROVE  db'[t] = db[t] \/ \E from \in Table \ Foreign : <<from, t>> \in Rename /\ db[t] = Absent /\ db'[from] = Absent
<1>1. PICK c \in plan : IF Applies(c) THEN db' = Migrated(db, Desired, {c}) ELSE UNCHANGED db
  BY DEF Apply
<1>2. /\ t \in Table /\ c.table \in Table \ Foreign /\ c.table # t
      /\ c.to = c.table \/ (c.kind = "rename" /\ <<c.table, c.to>> \in Rename)
  BY SharedParameters DEF Inv, PlanKnown
<1>3. CASE Applies(c) /\ c.to = t
  <2>1. c.kind = "rename" /\ <<c.table, t>> \in Rename /\ db[t] = Absent
    BY <1>2, <1>3 DEF Applies
  <2>2. db'[c.table] = Absent
    BY <1>1, <1>2, <1>3, <2>1 DEF Migrated
  <2> QED  BY <1>2, <2>1, <2>2
<1>4. CASE Applies(c) /\ c.to # t
  BY <1>1, <1>2, <1>4 DEF Migrated
<1>5. CASE ~Applies(c)
  BY <1>1, <1>5
<1> QED  BY <1>3, <1>4, <1>5

\* Whatever tables, shapes, predicates and rename hook there are, and whatever
\* the owner does in between: the reader's migration leaves foreign tables as
\* they are, but for a rename of its own table that the application asks for.
THEOREM ReaderAlwaysSparesForeign == Spec => ReaderSparesForeign
<1> DEFINE Spares == plan' # plan =>
        \A t \in Foreign : db'[t] = db[t]
            \/ \E from \in Table \ Foreign : <<from, t>> \in Rename /\ db[t] = Absent /\ db'[from] = Absent
<1>1. ASSUME Inv, [Next]_allVars PROVE [Spares]_allVars
  <2>1. CASE Apply
    BY <1>1, <2>1, ApplySpares
  <2>2. CASE Migrate
    BY <2>2 DEF Migrate
  <2>3. CASE EditShape \/ Codegen \/ Build \/ OwnerMigrates
    BY <2>3 DEF EditShape, Codegen, Build, OwnerMigrates, serviceVars
  <2> QED  BY <1>1, <2>1, <2>2, <2>3 DEF Next
<1>2. Inv /\ [Next]_allVars => [Spares]_allVars
  BY <1>1
<1> QED  BY <1>2, AlwaysInv, PTL DEF Spec, ReaderSparesForeign
=============================================================================
