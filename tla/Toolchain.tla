------------------------------ MODULE Toolchain ------------------------------
(***************************************************************************)
(* The bang commands that compile one explanation selection: explain,      *)
(* classify (both versions), plan, assemble, audit, and the invalidation   *)
(* journey.  A command is a list of stages; between two of them an editor  *)
(* may change the inputs.  publishAtomically is one step here: module      *)
(* Publication is about its inside.                                        *)
(***************************************************************************)
EXTENDS Planning, Audit

CONSTANTS
  CoreTexts, MeaningOf,   \* contents of the .bang source, what each checks to
  PkgTexts, DigestOf,     \* contents of the theory package, semantic digests
  NixTexts,               \* contents of nix/gleam.nix
  Home,                   \* the inputs before anybody edits them
  Invalid,                \* of a text that does not decode or check
  Supported,              \* digest of the package the evaluator was written for
  Probes(_),              \* outputs a target's probe may print
  Objectives,             \* demand lists of the planning selection
  Commands, MaxCommands, MaxEdits,
  Absent, Torn, Unread    \* of a published path; of a value not read yet

CommandNames ==
  {"explain", "classify1", "classify2", "plan", "assemble", "audit", "invalidate"}

ASSUME CommandsAssumption == Commands \subseteq CommandNames

VARIABLES
  files,      \* core, pkg, pin (the digest the selection asks for), nix
  demands,    \* of the planning selection
  published,  \* what each path under .bang holds
  cmd,        \* the command, its stages to go, its outcome
  work,       \* what the running pipeline has read and computed
  kept,       \* entries staged by the first pipeline of an invalidation
  seen,       \* bytes the audit digested
  retired,    \* records the last audit retires
  edits, ran,
  before,     \* published, when the command began
  calm        \* no edit since then

vars == <<files, demands, published, cmd, work, kept, seen, retired, edits, ran,
          before, calm>>

Paths == {"artifact", "lock", "effectBoundary", "gleamBoundary", "effectEvidence",
          "gleamEvidence", "qualification", "plan", "assemblyBoundary",
          "assemblyEntry", "binary", "assembly"}
-----------------------------------------------------------------------------
(* What the stages compute. *)
Id == [artifact |-> "explanation", theory |-> "exact-one",
       requirement |-> "requirement", realization |-> "withdraw-once"]
Selection == [requirement |-> Id.requirement, realization |-> Id.realization,
              demands |-> demands]

BoundaryPath(t) == IF t = "effect-typescript" THEN "effectBoundary" ELSE "gleamBoundary"

Boundary(t, core) == <<t, MeaningOf[core]>>

(* makeM031Evidence: the cited source is read again, after the probe. *)
Evidence(w, t) ==
  [target |-> t, id |-> Id, selection |-> "qualification", package |-> w.pkg,
   observations |-> w.observed[t],
   materials |-> << [role |-> "core-source", path |-> "core", sha |-> w.cited[t]],
                    [role |-> BoundaryRole(t), path |-> BoundaryPath(t),
                     sha |-> Boundary(t, w.core)] >>]

(* makeM031Profile and classifyExactOneCapabilityExecution: every          *)
(* obligation of the theory is supported by the checked evidence.          *)
Result(t) == [tag |-> "Qualified", target |-> t, id |-> Id]

Records(w) == <<Evidence(w, "effect-typescript"), Evidence(w, "gleam-beam")>>

Staged(w) ==
  [version |-> 2, artifact |-> Id.artifact, selection |-> "qualification",
   targets |-> << [target |-> "effect-typescript", realization |-> Id.realization],
                  [target |-> "gleam-beam", realization |-> Id.realization] >>,
   results |-> <<Result("effect-typescript"), Result("gleam-beam")>>,
   evidence |-> Records(w)]

PlanReport(w) ==
  PlanObjective(Selection, [i \in 1..2 |->
    MakeTargetContribution(Records(w)[i].target, Result(Records(w)[i].target), Records(w)[i])])

(* makeM031PublicationEntries *)
QualificationEntries(w) ==
  [p \in {"artifact", "lock", "effectBoundary", "gleamBoundary", "effectEvidence",
          "gleamEvidence", "qualification"} |->
     CASE p = "artifact"       -> MeaningOf[w.core]
       [] p = "lock"           -> w.pkg
       [] p = "effectBoundary" -> Boundary("effect-typescript", w.core)
       [] p = "gleamBoundary"  -> Boundary("gleam-beam", w.core)
       [] p = "effectEvidence" -> Records(w)[1]
       [] p = "gleamEvidence"  -> Records(w)[2]
       [] p = "qualification"  -> Records(w)]

PlanEntries(w) == [p \in {"plan"} |-> PlanReport(w)]

(* The assembly report records the toolchain bytes read first; the build   *)
(* uses the file as it is when nix runs.                                   *)
AssemblyEntries(w) ==
  [p \in {"assemblyBoundary", "assemblyEntry", "binary", "assembly"} |->
     CASE p = "assemblyBoundary" -> Boundary("gleam-beam", w.core)
       [] p = "assemblyEntry"    -> "entry"
       [] p = "binary"           -> <<Boundary("gleam-beam", w.core), w.built>>
       [] p = "assembly" ->
            [plan |-> PlanReport(w), package |-> w.pkg, nix |-> w.nix,
             boundary |-> Boundary("gleam-beam", w.core),
             evidence |-> Records(w)[2],
             binary |-> <<Boundary("gleam-beam", w.core), w.built>>]]

Over(f, g) == [p \in DOMAIN f \cup DOMAIN g |-> IF p \in DOMAIN g THEN g[p] ELSE f[p]]

EntriesOf(name, w) ==
  CASE name = "classify2" -> QualificationEntries(w)
    [] name = "plan"      -> Over(QualificationEntries(w), PlanEntries(w))
    [] OTHER -> Over(Over(QualificationEntries(w), PlanEntries(w)), AssemblyEntries(w))
-----------------------------------------------------------------------------
(* The stages of each command, in the order the code runs them. *)
Explaining == <<"package", "core">>
Qualifying == Explaining \o
  <<"probeEffect", "probeGleam", "citeEffect", "citeGleam", "qualify">>
Assembling == Qualifying \o <<"plan", "toolchain", "build", "execute", "publish">>

StagesPublishingFirst(name) ==
  IF name = "plan" THEN Qualifying \o <<"publish", "plan", "publish">>
  ELSE IF name = "assemble" THEN Assembling ELSE <<"inventory">>

StagesOf(name) ==
  CASE name = "explain"    -> Explaining \o <<"writeLock", "writeArtifact">>
    [] name = "classify1"  -> Explaining \o <<"writeLock", "writeArtifact", "manifest">>
    [] name = "classify2"  -> Qualifying \o <<"publish">>
    [] name = "plan"       -> Qualifying \o <<"plan", "publish">>
    [] name = "assemble"   -> Assembling
    [] name = "audit"      -> <<"inventory", "digestCore", "digestNix", "summarize">>
    [] name = "invalidate" -> <<"inventory", "digestCore", "digestNix", "compare">>

RequalifyingRecords == Qualifying \o <<"plan", "survive", "republish">>

Requalifying == Qualifying \o <<"plan", "survive">> \o Assembling \o <<"parity", "republish">>

NoWork == [pkg |-> Unread, core |-> Unread, nix |-> Unread, built |-> Unread,
           observed |-> [t \in Targets |-> Unread], cited |-> [t \in Targets |-> Unread]]

Init ==
  /\ files = Home
  /\ demands \in Objectives
  /\ published = [p \in Paths |-> Absent]
  /\ cmd = [name |-> "none", todo |-> <<>>, outcome |-> "ok"]
  /\ work = NoWork /\ kept = <<>> /\ seen = [core |-> Unread, nix |-> Unread]
  /\ retired = {} /\ edits = 0 /\ ran = 0 /\ before = published /\ calm = TRUE

Begin(name) ==
  /\ cmd.todo = <<>> /\ ran < MaxCommands
  /\ cmd' = [name |-> name, todo |-> StagesOf(name), outcome |-> "running"]
  /\ work' = NoWork /\ kept' = <<>> /\ seen' = [core |-> Unread, nix |-> Unread]
  /\ retired' = {} /\ ran' = ran + 1 /\ before' = published /\ calm' = TRUE
  /\ UNCHANGED <<files, demands, published, edits>>

At(stage) == cmd.todo # <<>> /\ Head(cmd.todo) = stage

(* The stage is done; more stages may follow those that were planned. *)
GoOn(more) ==
  LET rest == Tail(cmd.todo) \o more
  IN cmd' = [cmd EXCEPT !.todo = rest, !.outcome = IF rest = <<>> THEN "ok" ELSE @]

steady == <<files, demands, edits, ran, before, calm>>
Computes == GoOn(<<>>) /\ UNCHANGED <<steady, published, kept, seen, retired>>
-----------------------------------------------------------------------------
(* compileExplanationState: the package must have the digest the selection *)
(* names and be the evaluator's own; the source must decode, check and be  *)
(* applicable.                                                             *)
Resolves(digest) == digest # Invalid /\ digest = files.pin /\ digest = Supported

ResolvePackage ==
  /\ At("package")
  /\ Resolves(DigestOf[files.pkg])
  /\ work' = [NoWork EXCEPT !.pkg = DigestOf[files.pkg]]
  /\ Computes

LoadSources ==
  /\ At("core")
  /\ MeaningOf[files.core] # Invalid
  /\ work' = [work EXCEPT !.core = files.core]
  /\ Computes

(* publishTheoryLock renames a temporary file; writeArtifact does not. *)
WriteLock ==
  /\ At("writeLock")
  /\ published' = [published EXCEPT !["lock"] = work.pkg]
  /\ GoOn(<<>>) /\ UNCHANGED <<steady, work, kept, seen, retired>>

WriteArtifact ==
  /\ At("writeArtifact")
  /\ published' = [published EXCEPT !["artifact"] = MeaningOf[work.core]]
  /\ GoOn(<<>>) /\ UNCHANGED <<steady, work, kept, seen, retired>>

(* compileClassificationFromArtifact: the M018 manifest and its materials  *)
(* are read and both profiles classified; nothing is written.              *)
CheckManifest == At("manifest") /\ Computes /\ UNCHANGED work

(* compileM031TargetRuns: the generated boundary runs in a process of its  *)
(* own, whose output is decoded and normalized.                            *)
Probe(stage, t) ==
  /\ At(stage)
  /\ \E output \in Probes(t) :
       work' = [work EXCEPT !.observed[t] = Normalize(output)]
  /\ Computes

Cite(stage, t) ==
  /\ At(stage)
  /\ work' = [work EXCEPT !.cited[t] = files.core]
  /\ LET e == Evidence(work', t)
     IN /\ CheckEvidence(e, [target |-> t, id |-> Id, package |-> work.pkg])
        /\ VerifyMaterialBytes(e, [p \in {"core", BoundaryPath(t)} |->
             IF p = "core" THEN work'.cited[t] ELSE Boundary(t, work.core)])
  /\ Computes

Qualify ==
  /\ At("qualify")
  /\ CheckEvidenceSet(Records(work),
       [target |-> "any", id |-> Id, package |-> work.pkg])
  /\ Computes /\ UNCHANGED work

Plan ==
  /\ At("plan")
  /\ CheckQualificationIdentity(Selection, Staged(work))
  /\ PlanReport(work).tag # "refused"
  /\ Computes /\ UNCHANGED work

(* selectedGleamEvidence, then the bytes of nix/gleam.nix for the report. *)
ReadToolchain ==
  /\ At("toolchain")
  /\ PlanReport(work).tag = "Selected"
  /\ PlanReport(work).plans[1].target = "gleam-beam"
  /\ work' = [work EXCEPT !.nix = files.nix]
  /\ Computes

Build == /\ At("build")
         /\ work' = [work EXCEPT !.built = files.nix]
         /\ Computes

(* decodeAssemblyObservation: the artifact repeats what the evidence says. *)
Execute == /\ At("execute")
           /\ \E output \in Probes("gleam-beam") :
                Normalize(output) = work.observed["gleam-beam"]
           /\ Computes /\ UNCHANGED work

Publish ==
  /\ At("publish")
  /\ published' = Over(published, EntriesOf(cmd.name, work))
  /\ GoOn(<<>>) /\ UNCHANGED <<steady, work, kept, seen, retired>>
-----------------------------------------------------------------------------
(* The audit: the published records are read, then each material digested. *)
Citation(path, role, sha, by) == [path |-> path, role |-> role, sha |-> sha, by |-> by]

EvidenceCitations(e) ==
  [i \in 1..2 |-> Citation(e.materials[i].path, e.materials[i].role,
                           {e.materials[i].sha}, <<"evidence", e.target>>)]

PlanCitations(plan) ==
  IF plan.tag # "Selected" THEN <<>>
  ELSE LET ms == plan.plans[1].materials
           one == CHOOSE m \in ms : m.role = "core-source"
           two == CHOOSE m \in ms : m.role # "core-source"
       IN << Citation(one.path, one.role, {one.sha}, <<"plan-report">>),
             Citation(two.path, two.role, {two.sha}, <<"plan-report">>) >>

Citations ==
  LET a == published["assembly"]
      By(record) == <<record>>
  IN << Citation("assembly", "assembly-report", {}, By("assembly")),
        Citation("assemblyBoundary", "qualified-generated", {a.boundary}, By("assembly")),
        Citation("assemblyEntry", "assembled-entry", {"entry"}, By("assembly")),
        Citation("binary", "compiled-artifact", {a.binary}, By("assembly")),
        Citation("nix", "toolchain-definition", {a.nix}, By("assembly")) >>
     \o EvidenceCitations(published["qualification"][1])
     \o EvidenceCitations(published["qualification"][2])
     \o PlanCitations(published["plan"])
     \o << Citation("effectEvidence", "evidence-record", {}, <<"evidence", "effect-typescript">>),
           Citation("gleamEvidence", "evidence-record", {}, <<"evidence", "gleam-beam">>),
           Citation("qualification", "qualification-report", {}, By("qualification")),
           Citation("plan", "plan-report", {}, By("plan-report")),
           Citation("artifact", "semantic-artifact", {}, By("semantic-artifact")),
           Citation("lock", "theory-lock", {}, By("theory-lock")),
           Citation("pkg", "theory-package", {}, By("theory-lock")) >>

Inventory ==
  /\ At("inventory")
  /\ \A p \in Paths : published[p] # Absent
  /\ published["artifact"] # Torn
  /\ Computes /\ UNCHANGED work

DigestMaterial(stage, file) ==
  /\ At(stage)
  /\ seen' = [seen EXCEPT ![file] = files[file]]
  /\ GoOn(<<>>) /\ UNCHANGED <<steady, published, work, kept, retired>>

Current(path) == CASE path \in Paths  -> published[path]
                   [] path = "core"   -> seen.core
                   [] path = "nix"    -> seen.nix
                   [] OTHER           -> files.pkg

(* runAudit ends with the digests: what it prints is counted from them. *)
Summarize ==
  /\ At("summarize")
  /\ LET ms == CollectMaterials(Citations)
         verdict == [p \in DOMAIN ms |-> Status(ms[p], Current(p))]
     IN retired' = DirectlyRetired(ms, verdict)
  /\ GoOn(<<>>) /\ UNCHANGED <<steady, published, work, kept, seen>>

(* classifyMaterialChanges and resolveDerivedDrift read the source and the *)
(* package again; a source that does not check ends the journey, unless    *)
(* its bytes were the recorded ones.                                       *)
Compare ==
  /\ At("compare")
  /\ DigestOf[files.pkg] # Invalid
  /\ LET ms == CollectMaterials(Citations)
         packageSame == DigestOf[files.pkg] = published["assembly"].package
         coreSame == MeaningOf[files.core] = published["artifact"]
         lockSame == DigestOf[files.pkg] = published["lock"]
         verdict == [p \in DOMAIN ms |->
           LET status == Status(ms[p], Current(p))
           IN ResolveDrift(ms[p], ClassifyChange(ms[p], status, packageSame, coreSame),
                           lockSame, packageSame)]
     IN /\ Status(ms["core"], seen.core) = "changed" => MeaningOf[files.core] # Invalid
        /\ retired' = CloseRetirement(ms, verdict)
        /\ GoOn(IF retired' = {} THEN <<>> ELSE Requalifying)
  /\ UNCHANGED <<steady, published, work, kept, seen>>

(* requalifyRetired: the fresh plan must be a selected one.  Its evidence  *)
(* classes are those of every selected plan.                               *)
Survive ==
  /\ At("survive")
  /\ PlanReport(work).tag = "Selected"
  /\ kept' = <<EntriesOf("plan", work)>>
  /\ GoOn(<<>>) /\ UNCHANGED <<steady, published, work, seen, retired>>

ParityRecords == {"effectEvidence", "gleamEvidence", "qualification", "plan"}

CheckParity ==
  /\ At("parity")
  /\ Parity(kept[1], published, {p \in ParityRecords : published[p] # Absent})
  /\ Computes /\ UNCHANGED work

Republish ==
  /\ At("republish")
  /\ published' = Over(published, kept[1])
  /\ GoOn(<<>>) /\ UNCHANGED <<steady, work, kept, seen, retired>>

(* Any stage may fail: a file that cannot be read, a process that exits    *)
(* with an error, a check that does not hold.  A failed write of the       *)
(* artifact may leave part of it.                                          *)
Fail ==
  /\ cmd.todo # <<>>
  /\ cmd' = [cmd EXCEPT !.todo = <<>>, !.outcome = "failed"]
  /\ \/ UNCHANGED published
     \/ At("writeArtifact") /\ published' = [published EXCEPT !["artifact"] = Torn]
  /\ UNCHANGED <<steady, work, kept, seen, retired>>

(* Somebody edits an input, or a published file. *)
Edit ==
  /\ edits < MaxEdits /\ edits' = edits + 1
  /\ calm' = FALSE
  /\ \/ /\ \/ \E t \in CoreTexts \ {files.core} : files' = [files EXCEPT !.core = t]
           \/ \E p \in PkgTexts \ {files.pkg} : files' = [files EXCEPT !.pkg = p]
           \/ \E d \in {DigestOf[p] : p \in PkgTexts} \ {files.pin, Invalid} :
                files' = [files EXCEPT !.pin = d]
           \/ \E n \in NixTexts \ {files.nix} : files' = [files EXCEPT !.nix = n]
        /\ UNCHANGED published
     \/ /\ published["assemblyEntry"] # Absent
        /\ published' = [published EXCEPT !["assemblyEntry"] = "edited"]
        /\ UNCHANGED files
  /\ UNCHANGED <<demands, cmd, work, kept, seen, retired, ran, before>>

Next ==
  \/ \E name \in Commands : Begin(name)
  \/ ResolvePackage \/ LoadSources \/ WriteLock \/ WriteArtifact \/ CheckManifest
  \/ Probe("probeEffect", "effect-typescript") \/ Probe("probeGleam", "gleam-beam")
  \/ Cite("citeEffect", "effect-typescript") \/ Cite("citeGleam", "gleam-beam")
  \/ Qualify \/ Plan \/ ReadToolchain \/ Build \/ Execute \/ Publish
  \/ Inventory \/ DigestMaterial("digestCore", "core") \/ DigestMaterial("digestNix", "nix")
  \/ Summarize \/ Compare \/ Survive \/ CheckParity \/ Republish
  \/ Fail \/ Edit
  \/ cmd.todo = <<>> /\ UNCHANGED vars

Spec == Init /\ [][Next]_vars
-----------------------------------------------------------------------------
Idle == cmd.todo = <<>>

(* However edits fall between the reads of a pipeline, the published       *)
(* evidence, boundaries and qualification report are of one run: each      *)
(* record cites the boundary published beside it, both cite one source     *)
(* text, and an assembly was built from the boundary its evidence cites.   *)
(* And none of it tells of a grant used twice, or of a Gleam actor whose   *)
(* old grant outlived it.                                                  *)
EvidenceHangsTogether ==
  /\ published["qualification"] # Absent =>
       LET q == published["qualification"]
       IN /\ published["effectEvidence"] = q[1] /\ published["gleamEvidence"] = q[2]
          /\ published["effectBoundary"] = q[1].materials[2].sha
          /\ published["gleamBoundary"] = q[2].materials[2].sha
          /\ q[1].materials[1].sha = q[2].materials[1].sha
          /\ \A i \in 1..2 :
               LET o == q[i].observations
               IN /\ o.successes = 1
                  /\ \A t \in Traces : o.remaining[t][1] - o.remaining[t][2] \in {0, 1}
                  /\ i = 2 => \A flags \in o.restart : "oldGrantRejected" \in flags
  /\ published["assembly"] # Absent =>
       LET a == published["assembly"]
       IN /\ a.evidence.materials[2].sha = a.boundary
          /\ a.binary[1] = a.boundary /\ published["assemblyBoundary"] = a.boundary
          /\ a.plan.tag = "Selected"

(* The closure a clean run would publish from these inputs. *)
CleanWork(f) ==
  [pkg |-> DigestOf[f.pkg], core |-> f.core, nix |-> f.nix, built |-> f.nix,
   observed |-> [t \in Targets |-> work.observed[t]], cited |-> [t \in Targets |-> f.core]]

(* A command that nobody disturbed publishes exactly what its inputs say,  *)
(* an invalidation too, with its two pipelines and two publications.       *)
CalmRunsAreClean ==
  Idle /\ calm /\ cmd.outcome = "ok" =>
    CASE cmd.name \in {"explain", "classify1"} ->
           /\ published["artifact"] = MeaningOf[files.core]
           /\ published["lock"] = DigestOf[files.pkg]
      [] (cmd.name \in {"classify2", "plan", "assemble"}
          \/ (cmd.name = "invalidate" /\ retired # {})) ->
           LET clean == EntriesOf(cmd.name, CleanWork(files))
           IN \A p \in DOMAIN clean : published[p] = clean[p]
      [] OTHER -> published = before

(* The plan does not depend on the order in which the contributions of the *)
(* two targets arrive: sorting and the choice among them are the planner's.*)
PlanIgnoresOrder ==
  published["qualification"] # Absent =>
    LET q == published["qualification"]
        c(i) == MakeTargetContribution(q[i].target, Result(q[i].target), q[i])
    IN PlanObjective(Selection, <<c(1), c(2)>>) = PlanObjective(Selection, <<c(2), c(1)>>)

(* A staged command that fails, at whatever stage, has published nothing.  *)
FailedStagedRunsPublishNothing ==
  cmd.outcome = "failed" /\ cmd.name \in {"classify2", "plan", "assemble", "audit"} /\ calm
    => published = before

Closures(f) ==
  \A p \in Paths \ {"assemblyEntry"} :
    published[p] = EntriesOf("assemble",
                     [CleanWork(f) EXCEPT !.observed = [t \in Targets |->
                        (CHOOSE e \in {published["qualification"][i] : i \in 1..2} :
                           e.target = t).observations]])[p]

Consistent == published["assembly"] # Absent /\ published["qualification"] # Absent

(* Of a closure built from inputs f: the records whose own recorded        *)
(* material has changed since.                                             *)
Resting(f) ==
  (IF MeaningOf[f.core] # MeaningOf[files.core]
   THEN {<<"evidence", "effect-typescript">>, <<"evidence", "gleam-beam">>, <<"plan-report">>}
   ELSE {})
  \cup (IF DigestOf[f.pkg] # DigestOf[files.pkg] THEN {<<"theory-lock">>} ELSE {})
  \cup (IF f.nix # files.nix \/ published["assemblyEntry"] # "entry"
        THEN {<<"assembly">>} ELSE {})

(* And those the evidence-invalidation document retires: the records above *)
(* and every record that depends on one of them, through the lock, the     *)
(* artifact, both evidence records and the plan to the assembly.           *)
StaleBy(f) ==
  Resting(f)
  \cup (IF Resting(f) # {} THEN {<<"assembly">>} ELSE {})
  \cup (IF DigestOf[f.pkg] # DigestOf[files.pkg]
        THEN {<<"semantic-artifact">>, <<"evidence", "effect-typescript">>,
              <<"evidence", "gleam-beam">>, <<"plan-report">>}
        ELSE {})

InputStates ==
  [core : {t \in CoreTexts : MeaningOf[t] # Invalid},
   pkg : {p \in PkgTexts : DigestOf[p] # Invalid}, nix : NixTexts]

(* An undisturbed invalidation has its verdict: all valid, or the first    *)
(* stage of the requalification is next.                                   *)
Retiring ==
  cmd.name = "invalidate" /\ calm /\ Consistent
  /\ ((Idle /\ cmd.outcome = "ok" /\ retired = {}) \/ (At("package") /\ kept = <<>>))

(* Whatever was edited between the publication of a closure and an         *)
(* undisturbed invalidation, it retires nothing that the document would    *)
(* keep valid and every record whose own material has changed: an edit     *)
(* that matters is never answered with "all valid", and an edit of bytes   *)
(* only retires nothing.                                                   *)
RetiresOnlyTheStale ==
  Retiring => \A f \in InputStates : Closures(f) =>
    Resting(f) \subseteq retired /\ retired \subseteq StaleBy(f)

(* design-specs/M034-evidence-invalidation.md: a record is retired when    *)
(* "another record it references is retired", and a changed package        *)
(* retires the lock, the artifact, both evidence records, the plan and the *)
(* assembly.                                                               *)
RetirementReachesDependents ==
  Retiring => \A f \in InputStates : Closures(f) => StaleBy(f) \subseteq retired

(* What a failing run must leave, as the evidence-invalidation document    *)
(* says of every failing run.                                              *)
FailingRunsLeaveBytes ==
  cmd.outcome = "failed" /\ calm => published = before

(* What bang audit prints of an edit that changes bytes and no meaning. *)
CosmeticAuditRetiresNothing ==
  cmd.name = "audit" /\ Idle /\ cmd.outcome = "ok" /\ calm /\ Consistent =>
    \A f \in InputStates : Closures(f) /\ Resting(f) = {} => retired = {}
=============================================================================
