---------------------------- MODULE ReadOnlyStrip ----------------------------
(***************************************************************************)
(* entreadonly: the generated package of a service, the manifest its       *)
(* codegen extension leaves in it, and Strip, which afterwards removes the *)
(* write surface of the types the manifest names.  Strip works through the *)
(* directory file by file; it, or the generator, may fail or be killed at  *)
(* any file, and either may be run again.                                  *)
(***************************************************************************)
EXTENDS Naturals, Sequences, FiniteSets, SequencesExt

CONSTANTS
    Type,           \* the entity types
    Suffix,         \* the kinds of builder files a type has: create, update, delete
    FileOrder,      \* the package's files as ReadDir lists them
    FirstAnnotated, \* bound: what the schema may annotate at the start
    NoType, Gone, Torn,
    MaxFaults,      \* bound: failures and kills
    MaxEdits        \* bound: edits of the schema

\* Files: the one with all clients, each type's model, each type's builders.
ClientFile == <<"client", NoType>>
File == Range(FileOrder)
Builders(t) == Suffix \X {t}

ASSUME StripParameters ==
    /\ NoType \notin Type /\ Gone # Torn /\ \A s \in SUBSET Type : s \notin {Gone, Torn}
    /\ "client" \notin Suffix /\ "model" \notin Suffix
    /\ FileOrder \in Seq(File)
    /\ File = {ClientFile} \cup ({"model"} \X Type) \cup (Suffix \X Type)
    /\ FirstAnnotated \subseteq SUBSET Type /\ MaxFaults \in Nat /\ MaxEdits \in Nat

VARIABLES
    annotated,      \* the schema: types carrying ReadOnly()
    disk,           \* file -> Gone, Torn, or the set of types whose writes it has
    manifest,       \* the types it names, empty also where there is none; or Torn
    strip,          \* Strip running: [at, ro], at = 0 when it does not
    generated,      \* the last generator run returned nil
    done,           \* and so has the last run of Strip, after it
    faults, edits   \* counted for the bounds

vars == <<annotated, disk, manifest, strip, generated, done, faults, edits>>

Stopped == [at |-> 0, ro |-> {}]
Idle == strip.at = 0

\* What ent writes into a file, and the type builderFileType takes it to hold a builder of.
Full(f) == IF f = ClientFile THEN Type ELSE {f[2]}
BuilderFileType(f) == IF f[1] \in Suffix THEN f[2] ELSE NoType

\* No file was cut off while it was written.  A torn one misses declarations the
\* package needs, also where what is left of it parses.
Whole == \A f \in File : disk[f] # Torn

\* The package compiles: a client's write methods return builders, a model's
\* Update calls its client's.
Compiles ==
    /\ Whole
    /\ \A t \in disk[ClientFile] : \A f \in Builders(t) : disk[f] # Gone
    /\ \A t \in Type : disk[<<"model", t>>] \subseteq disk[ClientFile]

---------------------------------------------------------------------------
StripInit ==
    /\ annotated \in FirstAnnotated
    /\ disk = [f \in File |-> Full(f)]
    /\ manifest = {} /\ strip = Stopped
    /\ generated = FALSE /\ done = FALSE /\ faults = 0 /\ edits = 0

Annotate ==
    /\ Idle /\ edits < MaxEdits
    /\ \E t \in Type : annotated' = SymDiff(annotated, {t})
    /\ edits' = edits + 1
    /\ UNCHANGED <<disk, manifest, strip, generated, done, faults>>

\* Mistake: a file that exists is kept.
BugWritten(n) == [f \in File |-> IF disk[f] = Gone THEN Full(f) ELSE disk[f]]

\* ent writes every file again, then the hook writes the manifest.
Written(n) == [f \in File |-> IF \E i \in 1..n : FileOrder[i] = f THEN Full(f) ELSE disk[f]]

Generate ==
    /\ Idle
    /\ disk' = Written(Len(FileOrder))
    /\ manifest' = annotated /\ generated' = TRUE /\ done' = FALSE
    /\ UNCHANGED <<annotated, strip, faults, edits>>

\* The run ends after some of the files, or while it writes one of them, or the manifest.
GenerateFails ==
    /\ Idle /\ faults < MaxFaults
    /\ \E n \in 0..Len(FileOrder) :
          /\ \/ disk' = Written(n)
             \/ n < Len(FileOrder) /\ disk' = [Written(n) EXCEPT ![FileOrder[n + 1]] = Torn]
          /\ manifest' \in {manifest} \cup { m \in {Torn} : n = Len(FileOrder) }
    /\ generated' = FALSE /\ done' = FALSE /\ faults' = faults + 1
    /\ UNCHANGED <<annotated, strip, edits>>

\* With no manifest, or an empty one, Strip returns nil at once.  A run over a
\* finished package is one like any other: until it returns, nothing is done.
StartStrip ==
    /\ Idle /\ manifest # Torn
    /\ IF manifest = {}
       THEN done' = generated /\ UNCHANGED strip
       ELSE strip' = [at |-> 1, ro |-> manifest] /\ done' = FALSE
    /\ UNCHANGED <<annotated, disk, manifest, generated, faults, edits>>

\* Mistake: the methods go, the builder files stay.
BugStripped(f) == IF disk[f] \in {Gone, Torn} \/ f[1] \in Suffix THEN disk[f] ELSE disk[f] \ strip.ro

Stripped(f) ==
    IF disk[f] = Gone \/ BuilderFileType(f) \in strip.ro THEN Gone
    ELSE IF disk[f] = Torn THEN Torn ELSE disk[f] \ strip.ro

\* Of a torn file the type a builder file is known by may be cut off.
Left(f) == {Stripped(f)} \cup { t \in {Torn} : disk[f] = Torn }

\* Files Strip writes again: those it changes, and the clients on every run, since
\* each read-only type's mutate method stays and counts as changed.
Rewritten(f) == Stripped(f) # Gone /\ (f = ClientFile \/ Stripped(f) # disk[f])

\* One file: delete it, write it again without the read-only types' methods, or leave
\* it; a torn one too, where what is left of it parses.
StripFile ==
    /\ ~Idle
    /\ LET f    == FileOrder[strip.at]
           last == strip.at = Len(FileOrder)
       IN  /\ \E left \in Left(f) : disk' = [disk EXCEPT ![f] = left]
           /\ strip' = IF last THEN Stopped ELSE [strip EXCEPT !.at = @ + 1]
           /\ done' = IF last THEN generated ELSE done
    /\ UNCHANGED <<annotated, manifest, generated, faults, edits>>

\* A file that does not parse ends the run.
StripRefuses ==
    /\ ~Idle /\ disk[FileOrder[strip.at]] = Torn
    /\ strip' = Stopped
    /\ UNCHANGED <<annotated, disk, manifest, generated, done, faults, edits>>

\* Killed, or out of disk, between two files or while it writes one.
StripDies ==
    /\ ~Idle /\ faults < MaxFaults
    /\ LET f == FileOrder[strip.at] IN
          \/ UNCHANGED disk
          \/ Rewritten(f) /\ disk' = [disk EXCEPT ![f] = Torn]
    /\ strip' = Stopped /\ faults' = faults + 1
    /\ UNCHANGED <<annotated, manifest, generated, done, edits>>

---------------------------------------------------------------------------
\* Where the last runs of the generator and of Strip have returned nil, the types
\* of the manifest have lost every write and the others none, whatever runs were
\* cut short, refused or repeated before; the one exception a run can leave behind
\* is a torn file that still parses, and with that the package does not compile.
DoneMeansStripped ==
    done /\ Whole =>
        /\ manifest # Torn
        /\ disk[ClientFile] = Type \ manifest
        /\ \A t \in Type : /\ disk[<<"model", t>>] = {t} \ manifest
                           /\ \A f \in Builders(t) : disk[f] = IF t \in manifest THEN Gone ELSE {t}

\* The build is the safety net (README.md:199): a package left half written
\* or half stripped does not compile, so a program has the writes of every
\* type the manifest names, or of none.
NoHalfStrippedBuild ==
    Compiles /\ manifest # Torn =>
        manifest \subseteq disk[ClientFile] \/ manifest \cap disk[ClientFile] = {}
=============================================================================
