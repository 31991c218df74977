------------------------------ MODULE Project ------------------------------
(***************************************************************************)
(* bang project: one selection names source files, a requirement, two      *)
(* targets, evidence and a trace; the command compiles them step by step   *)
(* to one report, or fails at a stage.  The repository may be edited       *)
(* between any two steps, and the Core file that the evidence cites is     *)
(* read twice: to compile it and to verify the evidence.                   *)
(***************************************************************************)
EXTENDS ExactOne, TargetProjections, SingleUseEvidence

CONSTANTS
  Repositories,     \* the selections and source files that a command may find
  Rewrites,         \* what an edit may write, file by file
  Manifests,        \* what the evidence may say
  MaxProjectEdits,  \* bound: edits while the command runs
  NotRead,          \* what was not read yet
  Garbled           \* a file that is not a document

VARIABLES
  selectionFile,    \* the selection
  projectFiles,     \* the source files
  targetFiles,      \* are the other two materials as the evidence cites them
  projectEdits,     \* edits so far
  project,          \* the selection read
  filesRead,        \* the source files read
  theory,           \* what the theory says of the requirement
  evidence,         \* the manifest, and the bytes it cites as its Core source
  materialsRead,    \* materials verified
  classifications,  \* of the Effect target, then of the Gleam target
  projectStage      \* pending, the stage that failed, or reported

repository == <<selectionFile, projectFiles, targetFiles, projectEdits>>
compilation == <<project, filesRead, theory, evidence, materialsRead, classifications>>
projecting  == <<repository, compilation, projectStage>>

ProjectInit ==
  /\ \E r \in Repositories : selectionFile = r.selection /\ projectFiles = r.files
  /\ targetFiles = [generatedBoundary |-> TRUE, realization |-> TRUE]
  /\ projectEdits = 0 /\ project = NotRead /\ filesRead = <<>> /\ theory = NotRead
  /\ evidence = NotRead /\ materialsRead = 0 /\ classifications = <<>> /\ projectStage = "pending"

Fails(stage) == projectStage' = stage
-----------------------------------------------------------------------------
SourcePaths(s) == [i \in DOMAIN s |-> s[i].path]

(* The checks of the schema. *)
HasValidShape(s) ==
  /\ IsList(s.sources) /\ IsList(s.targets) /\ IsList(s.profiles) /\ IsList(s.theory.requirement)
  /\ s.sources # <<>> /\ UniqueIds(s.sources) /\ Unique(SourcePaths(s.sources))
  /\ UniqueIds(s.targets) /\ UniqueIds(s.profiles)
  /\ {t.adapter : t \in Members(s.targets)} = {"effect-typescript", "gleam-beam"}
  /\ Len(s.targets) = 2 /\ Len(s.profiles) = 2

HasResolvedReferences(s) ==
  /\ s.theory.source \in Ids(s.sources)
  /\ \A p \in Members(s.profiles) :
       /\ p.theory = s.theory.id /\ p.evidence = s.evidence
       /\ p.target \in Ids(s.targets)

HasProfilesOfTargets(s) ==
  \A p \in Members(s.profiles) : p.target \in Ids(s.targets)

HasOneProfilePerTarget(s) ==
  \A t \in Members(s.targets) :
    Cardinality({i \in DOMAIN s.profiles : s.profiles[i].target = t.id}) = 1

ReadSelection ==
  /\ projectStage = "pending" /\ project = NotRead
  /\ IF /\ HasValidShape(selectionFile) /\ HasResolvedReferences(selectionFile)
        /\ HasOneProfilePerTarget(selectionFile)
     THEN project' = selectionFile /\ UNCHANGED projectStage
     ELSE Fails("project") /\ UNCHANGED project
  /\ UNCHANGED <<repository, filesRead, theory, evidence, materialsRead, classifications>>

(* The next file of the selection, in its order. *)
LoadProjectSource ==
  /\ projectStage = "pending" /\ project # NotRead /\ Len(filesRead) < Len(project.sources)
  /\ LET file == projectFiles[project.sources[Len(filesRead) + 1].path]
     IN IF file = Garbled \/ ~Decodes(file) THEN Fails("source-decode") /\ UNCHANGED filesRead
        ELSE filesRead' = Append(filesRead, file) /\ UNCHANGED projectStage
  /\ UNCHANGED <<repository, project, theory, evidence, materialsRead, classifications>>

AllRead == project # NotRead /\ Len(filesRead) = Len(project.sources)
Document == FlattenSeq(filesRead)
LoadedFrom(path) == filesRead[CHOOSE f \in DOMAIN filesRead : project.sources[f].path = path]
SourceOf ==  \* each declaration's file
  FlattenSeq([f \in DOMAIN filesRead |->
    [i \in DOMAIN filesRead[f] |-> [id |-> filesRead[f][i].id, path |-> project.sources[f].path]]])

(* checkTheoryOwnership: the realization is declared in the file that the  *)
(* theory names as its source.                                             *)
IsOwned(document, sourceOf, selection) ==
  /\ RealizationAt(document, selection.theory.requirement) # {}
  /\ LET realization == RealizationOf(selection.theory.requirement)
     IN Named(sourceOf, realization).path = Named(selection.sources, selection.theory.source).path

ConsumedAs(result, selection) ==
  CASE result.tag = "failed" -> IF result.reason = "inconsistent-checked-core"
                                THEN "artifact" ELSE "theory"
    [] result.tag = "NotApplicable" -> "theory"
    [] OTHER -> IF \E p \in Members(selection.profiles) :
                     p.realization # RealizationOf(result.requirementAddress)
                THEN "target" ELSE "pending"

(* The artifact, the theory and the bindings of the profiles. *)
Compiled(document, sourceOf, selection) ==
  IF ~ValidateCore(document) THEN [stage |-> "core-validation", theory |-> NotRead]
  ELSE IF NormalizationFails(document, sourceOf) THEN [stage |-> "artifact", theory |-> NotRead]
  ELSE IF ~IsOwned(document, sourceOf, selection) THEN [stage |-> "theory", theory |-> NotRead]
  ELSE
         LET result == ConsumeExactOne(document, Addresses(BuildDrafts(document)),
                                       selection.theory.requirement)
         IN [stage |-> ConsumedAs(result, selection), theory |-> result]

CompileArtifact ==
  /\ projectStage = "pending" /\ AllRead /\ theory = NotRead
  /\ \E c \in {Compiled(Document, SourceOf, project)} :
       projectStage' = c.stage /\ theory' = c.theory
  /\ UNCHANGED <<repository, project, filesRead, evidence, materialsRead, classifications>>

(* The manifest, whose Core source must be one of the artifact's; it may   *)
(* cite that file as it is now or as it was read.                          *)
ReadManifest ==
  /\ projectStage = "pending" /\ theory # NotRead /\ evidence = NotRead
  /\ \E m \in Manifests :
       IF /\ ValidManifest(m) /\ ManifestMatchesCore(m.source, Document)
          /\ m.core \in {SourceOf[i].path : i \in DOMAIN SourceOf}
       THEN /\ \E bytes \in {projectFiles[m.core], LoadedFrom(m.core)} :
                 evidence' = [manifest |-> m, cites |-> bytes]
            /\ UNCHANGED projectStage
       ELSE Fails("evidence") /\ UNCHANGED evidence
  /\ UNCHANGED <<repository, project, filesRead, theory, materialsRead, classifications>>

(* verifyM018SingleUseCapabilityEvidenceMaterials, a file at a time. *)
AsCited(material) ==
  IF material = "coreSource" THEN projectFiles[evidence.manifest.core] = evidence.cites
  ELSE targetFiles[material]

VerifyMaterial ==
  /\ projectStage = "pending" /\ evidence # NotRead /\ materialsRead < Len(MaterialOrder)
  /\ IF AsCited(MaterialOrder[materialsRead + 1])
     THEN materialsRead' = materialsRead + 1 /\ UNCHANGED projectStage
     ELSE Fails("evidence") /\ UNCHANGED materialsRead
  /\ UNCHANGED <<repository, project, filesRead, theory, evidence, classifications>>
-----------------------------------------------------------------------------
Supports(obligation) ==
  [disposition |-> "supported",
   evidence |-> {"structurally-derived"} \cup
                (IF obligation = "check-before-consumption" THEN {}
                 ELSE {"runtime-checked", "assumed-truthful"})]

Profile(target, assessments, assumptions, weakenings) ==
  [target |-> target, realization |-> RealizationOf(theory.requirementAddress),
   requirementAddress |-> theory.requirementAddress, assessments |-> assessments,
   assumptions |-> assumptions, weakenings |-> weakenings,
   targetRejected |-> target = "gleam-beam"]

EffectProfile ==
  Profile("effect-typescript", [o \in Obligations |-> Supports(o)],
          evidence.manifest.assumptions, evidence.manifest.weakenings)

(* What Gleam refuses it refuses with no help of the evidence. *)
GleamProfile ==
  Profile("gleam-beam",
          [o \in Obligations |-> [disposition |-> "rejected", evidence |-> {"unsupported-by-target"}]],
          {}, {})

ClassifiedAs(effect, gleam) ==
  IF "failed" \in {effect.tag, gleam.tag} THEN Fails("classification") /\ UNCHANGED classifications
  ELSE classifications' = <<effect, gleam>> /\ UNCHANGED projectStage

(* makeEffectProfile, then makeGleamProfile, whose plain entity must not   *)
(* accept what asks for exactly one use.                                   *)
ClassifyTargets ==
  /\ projectStage = "pending" /\ materialsRead = Len(MaterialOrder) /\ classifications = <<>>
  /\ \E d \in RealizationAt(Document, theory.requirementAddress) :
       IF ~EffectSingleUse(Document, d) THEN Fails("target") /\ UNCHANGED classifications
       ELSE IF GleamEntity(Document, d) THEN Fails("contract") /\ UNCHANGED classifications
       ELSE ClassifiedAs(ClassifyExactOne(EffectProfile, theory),
                         ClassifyExactOne(GleamProfile, theory))
  /\ UNCHANGED <<repository, project, filesRead, theory, evidence, materialsRead>>
-----------------------------------------------------------------------------
AdapterOf(id) == Named(project.targets, id).adapter

(* The profiles of the report, the Effect one first when there is one. *)
ReportedProfiles ==
  [i \in 1..2 |->
     LET effectFirst == AdapterOf(project.profiles[1].target) = "effect-typescript"
                        \/ AdapterOf(project.profiles[2].target) = "gleam-beam"
         p == project.profiles[IF effectFirst THEN i ELSE 3 - i]
     IN [id |-> p.id, target |-> p.target, theory |-> p.theory, evidence |-> p.evidence,
         result |-> classifications[IF AdapterOf(p.target) = "effect-typescript" THEN 1 ELSE 2]]]

(* What a policy may reject, in the order in which it is asked. *)
Conditions(profiles, trace) ==
  LET Results == {p.result : p \in Members(profiles)}
  IN SelectSeq(<<"assumptions", "unsupported", "unresolved">>, LAMBDA c :
       CASE c = "assumptions" -> \E r \in Results : r.profile.assumptions # {}
         [] c = "unsupported" -> \E r \in Results : r.tag = "Rejected"
         [] OTHER -> trace = "unresolved" \/ \E r \in Results : r.tag = "Unknown")

ReportIsConsistent(profiles) ==
  /\ Unique([i \in 1..2 |-> profiles[i].target]) /\ UniqueIds(profiles)
  /\ UniqueIds(SourceOf)
  /\ profiles[1].result.profile.target = "effect-typescript"
  /\ profiles[2].result.profile.target = "gleam-beam"
  /\ \A p \in Members(profiles) :
       /\ p.theory = project.theory.id /\ p.evidence = project.evidence
       /\ AdapterOf(p.target) = p.result.profile.target
       /\ p.result.profile.requirementAddress = theory.requirementAddress
       /\ p.result.profile.realization = RealizationOf(theory.requirementAddress)

(* The trace of the channel, whose command may fail; then the policy, then *)
(* the checks of the report itself.                                        *)
Report ==
  /\ projectStage = "pending" /\ classifications # <<>>
  /\ \E trace \in {"failed", "resolved", "unresolved"} :
       projectStage' =
         IF trace = "failed" THEN "channel"
         ELSE IF "reject" \in {project.policy[c] : c \in Members(Conditions(ReportedProfiles, trace))}
         THEN "policy"
         ELSE IF ~ReportIsConsistent(ReportedProfiles) THEN "report"
         ELSE "reported"
  /\ UNCHANGED <<repository, compilation>>

(* Somebody edits a source file, or one of the other materials. *)
EditProject ==
  /\ projectStage = "pending" /\ project # NotRead /\ projectEdits < MaxProjectEdits
  /\ projectEdits' = projectEdits + 1
  /\ \/ \E f \in DOMAIN projectFiles : \E file \in Rewrites[f] :
          projectFiles' = [projectFiles EXCEPT ![f] = file] /\ UNCHANGED targetFiles
     \/ \E t \in DOMAIN targetFiles :
          targetFiles' = [targetFiles EXCEPT ![t] = ~@] /\ UNCHANGED projectFiles
  /\ UNCHANGED <<selectionFile, compilation, projectStage>>

ProjectNext ==
  \/ ReadSelection \/ LoadProjectSource \/ CompileArtifact \/ ReadManifest \/ VerifyMaterial
  \/ ClassifyTargets \/ Report \/ EditProject

ProjectSpec == ProjectInit /\ [][ProjectNext]_projecting
-----------------------------------------------------------------------------
(* Whatever is selected and edited, a compilation never reaches a check    *)
(* that only a fault of its own can fail: classification, the contract     *)
(* with the Gleam adapter, the report's own consistency.  A report rests   *)
(* on a requirement of one use in the document that was compiled, on calls *)
(* that a counter of one use explains and, when nothing was edited         *)
(* meanwhile, on evidence of the very file that was compiled.              *)
ReportRests ==
  /\ [t \in 1..2 |-> classifications[t].tag] = <<"Qualified", "Rejected">>
  /\ \E d \in RealizationAt(Document, project.theory.requirement) :
       \E r \in Members(d.requires) : r.quantity = 1 /\ r.capability = project.theory.requirement[4]
  /\ LET seen == evidence.manifest.observation
     IN CounterExplains(seen.calls) /\ CounterExplains(<<seen.defect.first, seen.defect.reuse>>)
  /\ projectEdits = 0 => LoadedFrom(evidence.manifest.core) = evidence.cites

ProjectReportsStand ==
  /\ projectStage \notin {"artifact", "classification", "contract", "report"}
  /\ projectStage = "reported" => ReportRests

(* The Core language leaves a machine's obligations open.  A target that   *)
(* implements the transition itself takes only machines whose obligations  *)
(* its implementation meets, and no realization both as of one use and as  *)
(* of any number.                                                          *)
SmallIntegers == -2..3

Discharged(machine, operation) ==
  /\ \A p \in SmallIntegers : Enabled(machine.initializers[1], p, p) => KeepsInvariants(machine, p)
  /\ \A field, amount \in SmallIntegers :
       KeepsInvariants(machine, field) /\ Enabled(operation, field, amount)
         => KeepsInvariants(machine, field - amount)

ImplementedBy(document, d) ==
  {t \in {"effect", "gleam", "gleam entity"} :
     CASE t = "effect" -> EffectSingleUse(document, d)
       [] t = "gleam" -> GleamExactOne(document, d)
       [] OTHER -> GleamEntity(document, d)}

ObligationsMet(document) ==
  \A d \in OfKind(document, "operationRealization") :
    /\ ImplementedBy(document, d) # {} =>
         \E m \in MachineOf(document, d) : \E o \in OperationOf(m, d) : Discharged(m, o)
    /\ ImplementedBy(document, d) \cap {"effect", "gleam"} # {} =>
         ~EffectEntity(document, d) /\ ~GleamEntity(document, d)

ProjectionsDischargeObligations ==
  (theory # NotRead \/ projectStage \in {"theory", "artifact"}) /\ evidence = NotRead
    => ObligationsMet(Document)
=============================================================================
