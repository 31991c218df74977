-------------------------------- MODULE Bang --------------------------------
(***************************************************************************)
(* The command line: one repository, and commands of one family run in it. *)
(* The families share code and no state, so each is a module of its own    *)
(* and here each step is a step of the family in use.                      *)
(***************************************************************************)
EXTENDS Toolchain, Boundaries, Authoring, Project

VARIABLE family   \* of the commands in use

traceVars == <<selection, stage, traces, taken, ownerA, ownerB, handled, observed,
               mutations, report>>
boundaryVars == <<grantStates, implementationCalls, fibers, journey, phasesSeen, grantRuns>>
entityVars == <<exactOne, actor, mailbox, clients, script, heard, granted, operationRuns>>
treeVars == <<tree, publishing, entry, custody, broken, priorTree>>

CommandFamilies == {"explanation", "trace", "normalize", "effect probe", "gleam probe", "project",
                    "publication"}

(* The families that are not in use stay as they began. *)
BangInit ==
  /\ family \in CommandFamilies
  /\ Init
  /\ family = "explanation" \/ demands = <<>>  \* nobody else reads a planning selection
  /\ Trace!TraceInit /\ AuthoringInit
  /\ Effect!BoundaryInit
  /\ family = "effect probe" \/ journey = Effect!EffectProbe
  /\ Gleam!EntityInit
  /\ family = "gleam probe" \/ (exactOne /\ script # <<>>)
  /\ ProjectInit
  /\ family = "project" \/ [selection |-> selectionFile, files |-> projectFiles]
                           = CHOOSE r \in Repositories : TRUE
  /\ Files!Init
  /\ family = "publication" \/ tree = [p \in TreePaths |-> NoFile]

Explain ==
  family = "explanation" /\ Next
  /\ UNCHANGED <<traceVars, authoring, boundaryVars, entityVars, projecting, treeVars>>

Deliver ==
  family = "trace" /\ Trace!TraceNext
  /\ UNCHANGED <<vars, authoring, boundaryVars, entityVars, projecting, treeVars>>

Normalize_ ==
  family = "normalize" /\ AuthoringNext
  /\ UNCHANGED <<vars, traceVars, boundaryVars, entityVars, projecting, treeVars>>

ProbeBoundary ==
  family = "effect probe" /\ Effect!BoundaryNext
  /\ UNCHANGED <<vars, traceVars, authoring, entityVars, projecting, treeVars>>

ProbeEntity ==
  family = "gleam probe" /\ Gleam!EntityNext
  /\ UNCHANGED <<vars, traceVars, authoring, boundaryVars, projecting, treeVars>>

CompileProject ==
  family = "project" /\ ProjectNext
  /\ UNCHANGED <<vars, traceVars, authoring, boundaryVars, entityVars, treeVars>>

(* Each family publishes its own closure with publishAtomically.  Here its *)
(* steps are taken one by one, several commands publishing at a time.      *)
PublishFiles ==
  family = "publication" /\ Files!Next
  /\ UNCHANGED <<vars, traceVars, authoring, boundaryVars, entityVars, projecting>>

Returned ==
  \/ family = "trace" /\ stage \in {"failed", "refuted", "reported"}
  \/ family = "normalize" /\ verdict # Pending
  \/ family = "effect probe" /\ journey = <<>>
  \/ family = "gleam probe" /\ (script = <<>> \/ clients[Gleam!Probe].status = "crashed")
  \/ family = "project" /\ projectStage # "pending"

everything == <<family, vars, traceVars, authoring, boundaryVars, entityVars, projecting, treeVars>>

BangNext ==
  \/ /\ \/ Explain \/ Deliver \/ Normalize_ \/ ProbeBoundary \/ ProbeEntity
        \/ CompileProject \/ PublishFiles
     /\ UNCHANGED family
  \/ Returned /\ UNCHANGED everything

BangSpec == BangInit /\ [][BangNext]_everything
=============================================================================
